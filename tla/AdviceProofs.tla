---------------------------- MODULE AdviceProofs ----------------------------
(***************************************************************************)
(* What the advice of one job promises, for every job and all thresholds.  *)
(***************************************************************************)
EXTENDS Advice, WellFoundedInduction, TLAPS

-----------------------------------------------------------------------------
(* Rounding *)

\* RoundUp: the result is a multiple of the step, not below its
\* argument, and below one step more.
LEMMA RoundUpBounds ==
    ASSUME NEW n \in Nat, NEW step \in Nat \ {0}
    PROVE  RoundUp(n, step) \in Nat /\ RoundUp(n, step) >= n /\ RoundUp(n, step) < n + step
<1> DEFINE a == n + step - 1
<1> DEFINE q == a \div step
<1>1. a \in Nat /\ q \in Nat
    BY SMT
<1>2. q * step <= a /\ a < q * step + step
    BY <1>1, SMT
<1>3. q * step \in Nat
    BY <1>1, SMT
<1> QED
    BY <1>1, <1>2, <1>3, SMT DEF RoundUp

-----------------------------------------------------------------------------
(* CPU *)

\* The CPU request that is suggested never exceeds the limit suggested with
\* it, though each is rounded on its own.
THEOREM CPURequestFits ==
    ASSUME NEW request \in Nat, NEW limit \in Nat
    PROVE  SuggestedCPURequest(request, limit) <= SuggestedCPULimit(limit)
BY SMT DEF SuggestedCPURequest, SuggestedCPULimit, RoundUp, Smaller

\* Advice against throttling raises every measured limit of a millicore or
\* more, whatever the rounding does.
THEOREM CPULimitGrows ==
    ASSUME NEW limit \in Nat, limit >= 10
    PROVE  SuggestedCPULimit(limit) * 10 > limit
BY SMT DEF SuggestedCPULimit, RoundUp

\* More than one thread is suggested only if each has a core of the limit.
THEOREM ThreadsHaveCores ==
    ASSUME NEW limit \in Nat \ {0}
    PROVE  /\ ThreadHint(limit) >= 1
           /\ ThreadHint(limit) > 1 => 10000 * ThreadHint(limit) <= limit
BY SMT DEF ThreadHint

-----------------------------------------------------------------------------
(* Memory *)

\* The suggested limit leaves half the peak as headroom, but for a byte of
\* rounding, and is no less than one step of 128 MiB.
LEMMA MemoryHeadroom ==
    ASSUME NEW peak \in Nat \ {0}
    PROVE  /\ SuggestedMemory(peak) \in Nat
           /\ 2 * SuggestedMemory(peak) + 1 >= 3 * peak
           /\ SuggestedMemory(peak) >= 128
<1> DEFINE want == (peak * 3) \div 2
<1> DEFINE step == 128 * MiB
<1>1. want \in Nat /\ want >= 1 /\ 2 * want + 1 >= 3 * peak
    BY SMT
<1>2. step \in Nat \ {0} /\ step >= 128
    BY MiBAssumption, SMT
<1>3. RoundUp(want, step) \in Nat /\ RoundUp(want, step) >= want
    BY <1>1, <1>2, RoundUpBounds
<1>4. RoundUp(want, step) >= step
    <2> DEFINE q == (want + step - 1) \div step
    <2>1. want + step - 1 >= step /\ want + step - 1 \in Nat
        BY <1>1, <1>2, SMT
    <2>2. q \in Nat /\ q >= 1
        BY <1>2, <2>1, SMT
    <2>3. q * step >= step
        BY <1>2, <2>2, SMT
    <2> QED
        BY <2>3 DEF RoundUp
<1> QED
    BY <1>1, <1>2, <1>3, <1>4, SMT DEF SuggestedMemory

\* Memory advice can be followed once and for all: Kubernetes accepts its
\* request, its limit is not below the one there is, and with it the same job
\* is no longer under pressure, for every pressure ratio from two thirds on.
THEOREM MemorySettles ==
    ASSUME NEW f \in Facts, NEW th \in Thresholds, f.usage \in Usage,
           th.memory >= 67, UnderPressure(f, th)
    PROVE  LET limit == SuggestedMemory(f.usage.peak) IN
           /\ SuggestedMemoryRequest(f.usage.memRequest, f.usage.peak, limit) <= limit
           /\ limit >= f.usage.memLimit
           /\ ~UnderPressure([f EXCEPT !.usage.memLimit = limit], th)
<1> DEFINE peak == f.usage.peak
<1> DEFINE limit == SuggestedMemory(peak)
<1>1. /\ peak \in Nat /\ f.usage.memLimit \in Nat \ {0} /\ f.usage.memRequest \in Nat
      /\ th.memory \in Nat /\ th.memory # NaN
    BY SMT DEF UnderPressure, Usage, Thresholds, Ratios, NaN
<1>2. 100 * peak >= th.memory * f.usage.memLimit
    BY <1>1, SMT DEF UnderPressure
<1>3. 100 * peak >= 67 * f.usage.memLimit /\ peak > 0
    <2>1. th.memory * f.usage.memLimit >= 67 * f.usage.memLimit
        BY <1>1, SMT
    <2> QED
        BY <1>1, <1>2, <2>1, SMT
<1>4. limit \in Nat /\ 2 * limit + 1 >= 3 * peak /\ limit >= 128
    BY <1>1, <1>3, MemoryHeadroom
<1>5. limit >= f.usage.memLimit
    BY <1>1, <1>3, <1>4, SMT
<1>6. 100 * peak < 67 * limit
    BY <1>1, <1>4, SMT
<1>7. 100 * peak < th.memory * limit
    <2>1. th.memory * limit >= 67 * limit
        BY <1>1, <1>4, SMT
    <2> QED
        BY <1>1, <1>4, <1>6, <2>1, SMT
<1>8. ~UnderPressure([f EXCEPT !.usage.memLimit = limit], th)
    <2> DEFINE g == [f EXCEPT !.usage.memLimit = limit]
    <2>1. g.usage.peak = peak /\ g.usage.memLimit = limit
        BY DEF Facts, Usage
    <2> HIDE DEF g
    <2>2. ~UnderPressure(g, th)
        BY <1>1, <1>7, <2>1 DEF UnderPressure
    <2> QED
        BY <2>2 DEF g
<1>9. SuggestedMemoryRequest(f.usage.memRequest, peak, limit) <= limit
    BY <1>1, <1>4, SMT DEF SuggestedMemoryRequest, Smaller
<1> QED
    BY <1>5, <1>8, <1>9

-----------------------------------------------------------------------------
(* The engine *)

\* Induction: what has 0 and, with a number, the next one, has every number.
LEMMA Counting ==
    ASSUME NEW T, 0 \in T, \A n \in Nat : n \in T => n + 1 \in T
    PROVE  \A n \in Nat : n \in T
<1> DEFINE U == {n \in Nat : n \notin T}
<1> SUFFICES ASSUME U # {} PROVE FALSE
    OBVIOUS
<1>1. PICK x \in U : \A y \in U : ~(<<y, x>> \in OpToRel(<, Nat))
    BY NatLessThanWellFounded, WFMin
<1>2. x \in Nat /\ x # 0
    OBVIOUS
<1>3. x - 1 \in Nat /\ x - 1 < x /\ (x - 1) + 1 = x
    BY <1>2
<1>4. x - 1 \in U
    BY <1>2, <1>3
<1> QED
    BY <1>1, <1>2, <1>3, <1>4 DEF OpToRel

\* What a loop over the first n places of a sequence computes
Iterates(D, base, n, step) ==
    \E g \in [0..n -> D] : g[0] = base /\ \A m \in 1..n : g[m] = step[<<m, g[m - 1]>>]

LEMMA Iterating ==
    ASSUME NEW D, NEW base \in D, NEW n \in Nat, NEW step \in [(1..n) \X D -> D]
    PROVE  Iterates(D, base, n, step)
<1> DEFINE Is(g, k) == g[0] = base /\ \A m \in 1..k : g[m] = step[<<m, g[m - 1]>>]
           T == {k \in Nat : k <= n => \E g \in [0..k -> D] : Is(g, k)}
<1>1. 0 \in T
    <2> DEFINE g == [m \in 0..0 |-> base]
    <2>1. g \in [0..0 -> D] /\ Is(g, 0)
        OBVIOUS
    <2> HIDE DEF g, Is
    <2> QED
        BY <2>1
<1>2. ASSUME NEW k \in Nat, k \in T PROVE k + 1 \in T
    <2> SUFFICES ASSUME k + 1 <= n PROVE \E g \in [0..(k + 1) -> D] : Is(g, k + 1)
        OBVIOUS
    <2>1. PICK g \in [0..k -> D] : Is(g, k)
        BY <1>2
    <2> DEFINE more == step[<<k + 1, g[k]>>]
               h == [m \in 0..(k + 1) |-> IF m <= k THEN g[m] ELSE more]
    <2>2. more \in D
        <3>1. k + 1 \in 1..n /\ g[k] \in D
            BY <2>1
        <3> QED
            BY <3>1
    <2> HIDE DEF more
    <2>3. h \in [0..(k + 1) -> D]
        BY <2>1, <2>2
    <2>4. h[0] = base
        BY <2>1
    <2>5. ASSUME NEW m \in 1..(k + 1) PROVE h[m] = step[<<m, h[m - 1]>>]
        <3>1. CASE m <= k
            <4>1. m \in 1..k /\ h[m] = g[m] /\ h[m - 1] = g[m - 1]
                BY <3>1
            <4> QED
                BY <2>1, <4>1
        <3>2. CASE m = k + 1
            <4>1. h[m] = more /\ h[m - 1] = g[k]
                BY <3>2
            <4> QED
                BY <3>2, <4>1 DEF more
        <3> QED
            BY <3>1, <3>2
    <2> HIDE DEF h
    <2>6. Is(h, k + 1)
        BY <2>4, <2>5
    <2> HIDE DEF Is
    <2> QED
        BY <2>3, <2>6
<1> HIDE DEF T
<1>3. n \in T
    BY <1>1, <1>2, Counting
<1> QED
    BY <1>3 DEF T, Iterates

\* FlattenSeq appends the sequences one by one.
LEMMA FlattenSteps ==
    ASSUME NEW seqs, Len(seqs) \in Nat \ {0}
    PROVE  \E g : /\ g = [i \in 1..Len(seqs) |-> IF i = 1 THEN seqs[i] ELSE g[i - 1] \o seqs[i]]
                  /\ FlattenSeq(seqs) = g[Len(seqs)]
<1> DEFINE Is(g, n) == g = [i \in 1..n |-> IF i = 1 THEN seqs[i] ELSE g[i - 1] \o seqs[i]]
           T == {n \in Nat : \E g : Is(g, n)}
<1>1. Is([i \in {} |-> 0], 0)
    BY 1..0 = {}
<1>2. ASSUME NEW n \in Nat, n \in T PROVE n + 1 \in T
    <2>1. PICK g : Is(g, n)
        BY <1>2
    <2> DEFINE h == [i \in 1..(n + 1) |-> IF i <= n THEN g[i] ELSE IF i = 1 THEN seqs[i] ELSE g[n] \o seqs[i]]
    <2>2. ASSUME NEW i \in 1..(n + 1)
          PROVE  h[i] = IF i = 1 THEN seqs[i] ELSE h[i - 1] \o seqs[i]
        <3>1. CASE i <= n
            <4>1. h[i] = g[i] /\ (i # 1 => h[i - 1] = g[i - 1])
                BY <3>1
            <4> DEFINE F == [k \in 1..n |-> IF k = 1 THEN seqs[k] ELSE g[k - 1] \o seqs[k]]
            <4>2. F[i] = IF i = 1 THEN seqs[i] ELSE g[i - 1] \o seqs[i]
                BY <3>1
            <4>3. g = F
                BY <2>1, Zenon
            <4> HIDE DEF F
            <4> QED
                BY <4>1, <4>2, <4>3
        <3>2. CASE i > n
            <4>1. i = n + 1 /\ h[i] = IF i = 1 THEN seqs[i] ELSE g[n] \o seqs[i]
                BY <3>2
            <4>2. i # 1 => h[i - 1] = g[n]
                BY <4>1
            <4> QED
                BY <4>1, <4>2
        <3> QED
            BY <3>1, <3>2
    <2>3. h = [i \in 1..(n + 1) |-> h[i]]
        OBVIOUS
    <2> HIDE DEF h
    <2>4. Is(h, n + 1)
        BY <2>2, <2>3
    <2>5. \E r : Is(r, n + 1)
        BY <2>4, Zenon
    <2> HIDE DEF Is
    <2> QED
        BY <2>5
<1>3. 0 \in T
    BY <1>1
<1> HIDE DEF T
<1>4. Len(seqs) \in T
    BY <1>2, <1>3, Counting
<1>5. \E g : Is(g, Len(seqs))
    BY <1>4 DEF T
<1>6. FlattenSeq(seqs) = (CHOOSE g : Is(g, Len(seqs)))[Len(seqs)]
    BY DEF FlattenSeq
<1> DEFINE f == CHOOSE g : Is(g, Len(seqs))
<1>7. Is(f, Len(seqs))
    BY <1>5
<1> HIDE DEF f
<1> QED
    BY <1>6, <1>7 DEF f

\* All it has was in one of them.
LEMMA FlattenMembers ==
    ASSUME NEW S, NEW seqs \in Seq(Seq(S))
    PROVE  /\ FlattenSeq(seqs) \in Seq(S)
           /\ \A k \in DOMAIN FlattenSeq(seqs) :
                 \E i \in DOMAIN seqs : \E j \in DOMAIN seqs[i] : FlattenSeq(seqs)[k] = seqs[i][j]
<1>1. CASE Len(seqs) = 0
    <2>1. seqs = <<>>
        BY <1>1
    <2>2. FlattenSeq(seqs) = <<>>
        BY <1>1, <2>1 DEF FlattenSeq
    <2> QED
        BY <2>2
<1>2. CASE Len(seqs) # 0
    <2> DEFINE N == Len(seqs)
               Piece(x) == \E i \in DOMAIN seqs : \E j \in DOMAIN seqs[i] : x = seqs[i][j]
               From(s) == \A k \in DOMAIN s : Piece(s[k])
    <2>1. N \in Nat \ {0}
        BY <1>2
    <2>2. PICK g : /\ g = [i \in 1..N |-> IF i = 1 THEN seqs[i] ELSE g[i - 1] \o seqs[i]]
                   /\ FlattenSeq(seqs) = g[N]
        BY <2>1, FlattenSteps, Zenon
    <2> DEFINE G == [i \in 1..N |-> IF i = 1 THEN seqs[i] ELSE g[i - 1] \o seqs[i]]
    <2>3. \A i \in 1..N : G[i] = IF i = 1 THEN seqs[i] ELSE g[i - 1] \o seqs[i]
        OBVIOUS
    <2>4. g = G
        BY <2>2, Zenon
    <2> HIDE DEF G
    <2> DEFINE T == {n \in Nat : n + 1 <= N => g[n + 1] \in Seq(S) /\ From(g[n + 1])}
    <2>5. \A i \in 1..N : seqs[i] \in Seq(S) /\ From(seqs[i])
        OBVIOUS
    <2> HIDE DEF Piece
    <2>6. 0 \in T
        BY <2>1, <2>3, <2>4, <2>5
    <2>7. ASSUME NEW n \in Nat, n \in T PROVE n + 1 \in T
        <3> SUFFICES ASSUME n + 2 <= N
                     PROVE  g[n + 2] \in Seq(S) /\ From(g[n + 2])
            OBVIOUS
        <3>1. g[n + 1] \in Seq(S) /\ From(g[n + 1])
            BY <2>1, <2>7
        <3>2. g[n + 2] = g[n + 1] \o seqs[n + 2] /\ n + 2 \in 1..N
            <4>1. n + 2 \in 1..N /\ n + 2 # 1 /\ (n + 2) - 1 = n + 1
                BY <2>1
            <4>2. G[n + 2] = IF n + 2 = 1 THEN seqs[n + 2] ELSE g[(n + 2) - 1] \o seqs[n + 2]
                BY <2>3, <4>1
            <4> QED
                BY <2>4, <4>1, <4>2
        <3>3. seqs[n + 2] \in Seq(S) /\ From(seqs[n + 2])
            BY <2>5, <3>2
        <3> DEFINE a == g[n + 1]
                   b == seqs[n + 2]
        <3>4. a \in Seq(S) /\ b \in Seq(S) /\ From(a) /\ From(b)
            BY <3>1, <3>3
        <3> HIDE DEF a, b
        <3>5. a \o b \in Seq(S)
            BY <3>4
        <3>6. ASSUME NEW k \in DOMAIN (a \o b)
              PROVE  (\E m \in DOMAIN a : (a \o b)[k] = a[m]) \/ (\E m \in DOMAIN b : (a \o b)[k] = b[m])
            <4>1. CASE k <= Len(a)
                BY <3>4, <3>6, <4>1
            <4>2. CASE k > Len(a)
                <5>1. k - Len(a) \in DOMAIN b /\ (a \o b)[k] = b[k - Len(a)]
                    BY <3>4, <3>6, <4>2
                <5> QED
                    BY <5>1
            <4> QED
                BY <3>4, <4>1, <4>2
        <3>7. ASSUME NEW k \in DOMAIN (a \o b)
              PROVE  Piece((a \o b)[k])
            <4>1. CASE \E m \in DOMAIN a : (a \o b)[k] = a[m]
                BY <3>4, <4>1
            <4>2. CASE \E m \in DOMAIN b : (a \o b)[k] = b[m]
                BY <3>4, <4>2
            <4> QED
                BY <3>6, <4>1, <4>2
        <3>8. From(a \o b)
            BY <3>7
        <3> HIDE DEF From
        <3> QED
            BY <3>2, <3>5, <3>8 DEF a, b
    <2> HIDE DEF T
    <2>8. N - 1 \in T
        <3>1. N - 1 \in Nat
            BY <2>1
        <3>2. \A n \in Nat : n \in T
            BY <2>6, <2>7, Counting
        <3> QED
            BY <3>1, <3>2
    <2>9. g[N] \in Seq(S) /\ From(g[N])
        <3>1. (N - 1) + 1 = N
            BY <2>1
        <3> QED
            BY <2>1, <2>8, <3>1 DEF T
    <2> HIDE DEF From
    <2>10. FlattenSeq(seqs) = g[N]
        BY <2>2, Zenon
    <2>11. FlattenSeq(seqs) \in Seq(S) /\ From(FlattenSeq(seqs))
        BY <2>9, <2>10
    <2> QED
        BY <2>11, Zenon DEF From, Piece
<1> QED
    BY <1>1, <1>2

\* Analyze: each piece of advice is that of a rule of the engine which fires,
\* with the numbers of this rule.
LEMMA AdviceOfFiringRules ==
    ASSUME NEW R, NEW rules \in Seq(R), NEW f, NEW th,
           NEW k \in DOMAIN Analyze(rules, f, th)
    PROVE  LET a == Analyze(rules, f, th)[k] IN
           \E i \in DOMAIN rules :
               a.rule = rules[i] /\ Fires(rules[i], f, th) /\ a.says = Numbers(rules[i], f)
<1> DEFINE Piece(i) == [job |-> f.name, rule |-> rules[i], says |-> Numbers(rules[i], f)]
           S == {Piece(i) : i \in DOMAIN rules}
           checks == [i \in DOMAIN rules |-> Check(rules[i], f, th)]
<1>1. \A i \in DOMAIN rules :
         checks[i] = IF Fires(rules[i], f, th) THEN <<Piece(i)>> ELSE <<>>
    BY DEF Check
<1>2. DOMAIN checks = DOMAIN rules /\ DOMAIN rules = 1..Len(rules) /\ Len(rules) \in Nat
    OBVIOUS
<1> HIDE DEF checks
<1>3. \A i \in DOMAIN rules : checks[i] \in Seq(S)
    <2> TAKE i \in DOMAIN rules
    <2>1. Piece(i) \in S
        OBVIOUS
    <2> DEFINE p == Piece(i)
    <2>2. checks[i] = <<p>> \/ checks[i] = <<>>
        BY <1>1
    <2>3. p \in S
        BY <2>1
    <2> HIDE DEF p, S
    <2>4. <<p>> \in Seq(S) /\ <<>> \in Seq(S)
        BY <2>3
    <2> QED
        BY <2>2, <2>4
<1>4. checks \in Seq(Seq(S))
    <2>1. checks = [i \in 1..Len(rules) |-> checks[i]]
        BY <1>2 DEF checks
    <2> HIDE DEF S
    <2> QED
        BY <1>2, <1>3, <2>1
<1>5. Analyze(rules, f, th) = FlattenSeq(checks)
    BY DEF Analyze, checks
<1>6. \E i \in DOMAIN checks : \E j \in DOMAIN checks[i] : Analyze(rules, f, th)[k] = checks[i][j]
    <2> HIDE DEF S
    <2> QED
        BY <1>4, <1>5, FlattenMembers
<1>7. PICK i \in DOMAIN rules : \E j \in DOMAIN checks[i] : Analyze(rules, f, th)[k] = checks[i][j]
    BY <1>2, <1>6
<1> HIDE DEF Piece
<1>8. Fires(rules[i], f, th) /\ Analyze(rules, f, th)[k] = Piece(i)
    <2> DEFINE p == Piece(i)
               a == Analyze(rules, f, th)[k]
    <2>1. checks[i] = IF Fires(rules[i], f, th) THEN <<p>> ELSE <<>>
        BY <1>1
    <2>2. \E j \in DOMAIN checks[i] : a = checks[i][j]
        BY <1>7
    <2> HIDE DEF p, a
    <2>3. Fires(rules[i], f, th) /\ a = p
        BY <2>1, <2>2
    <2> QED
        BY <2>3 DEF p, a
<1> QED
    BY <1>8 DEF Piece

\* A job whose trace is not fetched gets the advice it would get with any
\* trace: each rule of the engine fires or not as it would, with the same
\* numbers.
THEOREM LazyTrace ==
    ASSUME NEW f \in Facts, NEW th \in Thresholds, NEW trace, NEW i \in DOMAIN Registry,
           ~NeedsTrace(Registry, f, th)
    PROVE  LET g == [f EXCEPT !.trace = trace] IN
           /\ Fires(Registry[i], g, th) <=> Fires(Registry[i], f, th)
           /\ Fires(Registry[i], f, th) => Numbers(Registry[i], g) = Numbers(Registry[i], f)
<1> DEFINE g == [f EXCEPT !.trace = trace]
<1>1. g.usage = f.usage /\ g.duration = f.duration
    BY DEF Facts
<1>2. Registry[2] = "java-threads" /\ 2 \in DOMAIN Registry
    BY DEF Registry
<1>3. ~Throttled(f, th)
    BY <1>2 DEF NeedsTrace
<1>4. Registry[i] \in {"cpu-throttle", "java-threads", "long-job", "memory-pressure"}
    BY DEF Registry
<1> HIDE DEF g
<1>5. Throttled(g, th) <=> Throttled(f, th)
    BY <1>1 DEF Throttled
<1>6. UnderPressure(g, th) <=> UnderPressure(f, th)
    BY <1>1 DEF UnderPressure
<1>7. Fires(Registry[i], g, th) <=> Fires(Registry[i], f, th)
    BY <1>1, <1>3, <1>4, <1>5, <1>6 DEF Fires
<1>8. ASSUME Fires(Registry[i], f, th) PROVE Numbers(Registry[i], g) = Numbers(Registry[i], f)
    <2>1. Registry[i] # "java-threads"
        BY <1>3, <1>8 DEF Fires
    <2> QED
        BY <1>1, <1>4, <2>1 DEF Numbers, CPUThrottleSays, LongJobSays, MemoryPressureSays
<1> QED
    BY <1>7, <1>8 DEF g
=============================================================================
