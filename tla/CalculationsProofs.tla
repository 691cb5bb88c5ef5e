------------------------- MODULE CalculationsProofs -------------------------
(***************************************************************************)
(* Proofs about Calculations: the downsampling of every chart, the         *)
(* authentication of every signed delivery, the advice on every job, the   *)
(* duration of every pipeline and what a chart shows of its line.          *)
(***************************************************************************)
EXTENDS Calculations, AdviceProofs, FiniteSetTheorems

-----------------------------------------------------------------------------
(* Division *)

\* The quotient of naturals, and between which multiples the dividend lies.
LEMMA Quotient ==
    ASSUME NEW a \in Nat, NEW n \in Nat \ {0}
    PROVE  /\ a \div n \in Nat
           /\ (a \div n) * n <= a
           /\ a < (a \div n + 1) * n
BY SMT

\* A dividend below a multiple has a quotient below it, ...
LEMMA QuotientBelow ==
    ASSUME NEW a \in Nat, NEW n \in Nat \ {0}, NEW q \in Nat, a < q * n
    PROVE  a \div n < q
<1>1. a \div n \in Nat /\ (a \div n) * n <= a
    BY Quotient
<1> QED
    BY <1>1, SMT

\* ... and one that is not below it has not.
LEMMA QuotientAbove ==
    ASSUME NEW a \in Nat, NEW n \in Nat \ {0}, NEW q \in Nat, q * n <= a
    PROVE  q <= a \div n
<1>1. a \div n \in Nat /\ a < (a \div n + 1) * n
    BY Quotient
<1> QED
    BY <1>1, SMT

-----------------------------------------------------------------------------
(* The buckets of a chart *)

\* With more samples than columns, High is the quotient: no bucket is empty.
LEMMA BucketBounds ==
    ASSUME NEW len \in Nat, NEW n \in Nat \ {0}, len > n, NEW i \in 0..(n - 1)
    PROVE  /\ i * len \in Nat /\ (i + 1) * len \in Nat
           /\ Low(len, n, i) \in Nat
           /\ Low(len, n, i) = (i * len) \div n
           /\ High(len, n, i) = ((i + 1) * len) \div n
           /\ High(len, n, i) \in Nat
           /\ Low(len, n, i) < High(len, n, i)
           /\ High(len, n, i) <= len
<1> DEFINE a == i * len
<1> DEFINE q == a \div n
<1>1. a \in Nat /\ (i + 1) * len = a + len /\ a + len \in Nat /\ (i + 1) * len \in Nat
    BY SMT
<1> HIDE DEF a
<1>2. q \in Nat /\ q * n <= a /\ a < (q + 1) * n
    BY <1>1, Quotient
<1>3. (q + 1) * n <= a + len
    BY <1>1, <1>2, SMT
<1>4. q + 1 <= (a + len) \div n
    BY <1>1, <1>2, <1>3, QuotientAbove
<1>5. (a + len) \div n \in Nat
    BY <1>1, Quotient
<1>6. a + len < (len + 1) * n
    <2>1. (i + 1) * len <= n * len
        BY SMT
    <2> QED
        BY <1>1, <2>1, SMT
<1>7. (a + len) \div n < len + 1
    BY <1>1, <1>6, QuotientBelow
<1>8. Low(len, n, i) = q
    BY DEF Low, a
<1>9. High(len, n, i) = (a + len) \div n
    BY <1>1, <1>2, <1>4, <1>5, <1>8, SMT DEF High
<1> QED
    BY <1>1, <1>2, <1>4, <1>5, <1>7, <1>8, <1>9, SMT DEF a

\* A bucket begins where the one before ends, or later.
LEMMA BucketsOrdered ==
    ASSUME NEW len \in Nat, NEW n \in Nat \ {0}, len > n,
           NEW i \in 0..(n - 1), NEW k \in 0..(n - 1), i < k
    PROVE  High(len, n, i) <= Low(len, n, k)
<1> DEFINE a == (i + 1) * len
<1> DEFINE b == k * len
<1>1. a \in Nat /\ b \in Nat /\ a <= b
    BY SMT
<1>2. High(len, n, i) = a \div n /\ Low(len, n, k) = b \div n
    BY BucketBounds
<1> HIDE DEF a, b
<1>3. a \div n \in Nat /\ (a \div n) * n <= b
    BY <1>1, Quotient, SMT
<1>4. a \div n <= b \div n
    BY <1>1, <1>3, QuotientAbove
<1> QED
    BY <1>2, <1>4

\* The column of sample j: the last one that does not begin after it.
Column(len, n, j) == ((j + 1) * n - 1) \div len

\* The sample j is in the bucket of its column.
LEMMA InItsColumn ==
    ASSUME NEW len \in Nat, NEW n \in Nat \ {0}, len > n, NEW j \in 0..(len - 1)
    PROVE  /\ Column(len, n, j) \in 0..(n - 1)
           /\ j \in Bucket(len, n, Column(len, n, j))
<1> DEFINE c == (j + 1) * n - 1
<1> DEFINE i == c \div len
<1>1. c \in Nat /\ c < n * len /\ len \in Nat \ {0}
    <2>1. (j + 1) * n <= len * n /\ (j + 1) * n >= 1
        BY SMT
    <2> QED
        BY <2>1, SMT
<1>2. c + 1 = (j + 1) * n
    BY SMT
<1> HIDE DEF c
<1>3. i \in Nat /\ i * len <= c /\ c < (i + 1) * len
    BY <1>1, Quotient
<1>4. i < n
    BY <1>1, QuotientBelow
<1>5. i \in 0..(n - 1)
    BY <1>3, <1>4, SMT
<1>6. Column(len, n, j) = i
    BY DEF Column, c
<1> HIDE DEF i
<1>7. Low(len, n, i) <= j
    <2>1. i * len < (j + 1) * n /\ i * len \in Nat
        BY <1>1, <1>2, <1>3, SMT
    <2>2. (i * len) \div n < j + 1
        <3>1. j + 1 \in Nat
            BY SMT
        <3> DEFINE a == i * len
        <3> HIDE DEF a
        <3>2. a \in Nat /\ a < (j + 1) * n
            BY <2>1 DEF a
        <3>3. a \div n < j + 1
            BY <3>1, <3>2, QuotientBelow
        <3> QED
            BY <3>3 DEF a
    <2> QED
        BY <1>5, <2>1, <2>2, BucketBounds, SMT
<1>8. j < High(len, n, i)
    <2>1. (j + 1) * n <= (i + 1) * len /\ (i + 1) * len \in Nat
        BY <1>1, <1>2, <1>3, SMT
    <2>2. j + 1 <= ((i + 1) * len) \div n
        BY <2>1, QuotientAbove
    <2> QED
        BY <1>5, <2>2, BucketBounds, SMT
<1> QED
    BY <1>5, <1>6, <1>7, <1>8 DEF Bucket

\* No sample is in the buckets of two columns.
LEMMA InOneColumn ==
    ASSUME NEW len \in Nat, NEW n \in Nat \ {0}, len > n, NEW j \in 0..(len - 1),
           NEW i \in 0..(n - 1), NEW k \in 0..(n - 1),
           j \in Bucket(len, n, i), j \in Bucket(len, n, k)
    PROVE  i = k
<1>1. /\ Low(len, n, i) <= j /\ j < High(len, n, i)
      /\ Low(len, n, k) <= j /\ j < High(len, n, k)
    BY DEF Bucket
<1>2. /\ Low(len, n, i) \in Nat /\ High(len, n, i) \in Nat
      /\ Low(len, n, k) \in Nat /\ High(len, n, k) \in Nat
    BY BucketBounds
<1>3. ~(i < k)
    BY <1>1, <1>2, BucketsOrdered, SMT
<1>4. ~(k < i)
    BY <1>1, <1>2, BucketsOrdered, SMT
<1> QED
    BY <1>3, <1>4, SMT

-----------------------------------------------------------------------------
(* The charts asked about *)

\* What is charted is a line of samples.
Line == asked.about = "chart" => asked.samples \in Seq(SampleValues)

\* Line holds of every chart asked about: the inductive invariant.
LEMMA LineInvariant == Spec => []Line
<1>1. Init => Line
    BY DEF Init, Nothing, Line
<1>2. Line /\ [Next]_vars => Line'
    <2> SUFFICES ASSUME Line, [Next]_vars PROVE Line'
        OBVIOUS
    <2>1. CASE UNCHANGED vars
        BY <2>1 DEF vars, Line
    <2>2. CASE AskChart
        <3>1. PICK n \in 1..MaxSamples : \E v \in [1..n -> SampleValues] :
                 asked' = [about |-> "chart", samples |-> v]
            BY <2>2 DEF AskChart
        <3>2. PICK v \in [1..n -> SampleValues] : asked' = [about |-> "chart", samples |-> v]
            BY <3>1
        <3>3. n \in Nat
            BY CalculationBoundsAssumption, SMT
        <3>4. v \in Seq(SampleValues)
            BY <3>3 DEF Seq
        <3> QED
            BY <3>2, <3>4 DEF Line
    <2>3. CASE AskAdvice
        BY <2>3 DEF AskAdvice, Line
    <2>4. CASE AskDuration
        BY <2>4 DEF AskDuration, Line
    <2>5. CASE AskDelivery
        BY <2>5 DEF AskDelivery, Line
    <2> QED
        BY <2>1, <2>2, <2>3, <2>4, <2>5 DEF Next
<1> QED
    BY <1>1, <1>2, PTL DEF Spec

\* Whatever the width of the chart and the number of samples, downsampling
\* averages each sample into exactly one column and leaves no column empty.
THEOREM SamplesOnce == Spec => []EverySampleOnce
<1>1. Line => EverySampleOnce
    <2> SUFFICES ASSUME Line, asked.about = "chart", Len(asked.samples) > Columns
                 PROVE  EverySampleOnce
        BY DEF EverySampleOnce
    <2> DEFINE len == Len(asked.samples)
    <2> DEFINE buckets == [i \in 0..(Columns - 1) |-> Bucket(len, Columns, i)]
    <2>1. len \in Nat /\ Columns \in Nat \ {0} /\ len > Columns
        BY ColumnsAssumption DEF Line
    <2> HIDE DEF len
    <2>2. \A i \in 0..(Columns - 1) : Bucket(len, Columns, i) # {}
        <3> TAKE i \in 0..(Columns - 1)
        <3>1. /\ Low(len, Columns, i) \in Nat /\ High(len, Columns, i) \in Nat
              /\ Low(len, Columns, i) < High(len, Columns, i) /\ High(len, Columns, i) <= len
            BY <2>1, BucketBounds
        <3>2. Low(len, Columns, i) \in Bucket(len, Columns, i)
            BY <2>1, <3>1, SMT DEF Bucket
        <3> QED
            BY <3>2
    <2>3. \A j \in 0..(len - 1) : Cardinality({i \in DOMAIN buckets : j \in buckets[i]}) = 1
        <3> TAKE j \in 0..(len - 1)
        <3> DEFINE c == Column(len, Columns, j)
        <3>1. c \in 0..(Columns - 1) /\ j \in Bucket(len, Columns, c)
            BY <2>1, InItsColumn
        <3>2. \A i \in 0..(Columns - 1) : j \in Bucket(len, Columns, i) => i = c
            BY <2>1, <3>1, InOneColumn
        <3> HIDE DEF c
        <3>3. {i \in DOMAIN buckets : j \in buckets[i]} = {c}
            BY <3>1, <3>2
        <3> QED
            BY <3>3, FS_Singleton
    <2> QED
        BY <2>2, <2>3 DEF EverySampleOnce, len
<1> QED
    BY <1>1, LineInvariant, PTL

-----------------------------------------------------------------------------
(* Deliveries *)

\* A tolerance that covers the difference both ways covers its size.
LEMMA MaxOfTwo ==
    ASSUME NEW a \in Int, NEW b \in Int, NEW c \in Int
    PROVE  Max({a, b}) <= c <=> a <= c /\ b <= c
<1>1. \E x \in {a, b} : \A y \in {a, b} : x >= y
    BY SMT
<1>2. Max({a, b}) \in {a, b} /\ \A y \in {a, b} : Max({a, b}) >= y
    BY <1>1 DEF Max
<1> DEFINE m == Max({a, b})
<1> HIDE DEF m
<1>3. m \in {a, b} /\ m >= a /\ m >= b
    BY <1>2 DEF m
<1>4. m <= c <=> a <= c /\ b <= c
    BY <1>3, SMT
<1> QED
    BY <1>4 DEF m

\* The answer about a delivery is that of the authenticator, and its
\* signatures were made by GitLab.
Delivered ==
    asked.about = "delivery" =>
        /\ asked.sent \in DOMAIN Seconds /\ asked.now \in Nat
        /\ asked.request.id = "id"
        /\ asked.request.signatures # <<>>
        /\ \A i \in DOMAIN asked.request.signatures :
              \E key \in {"old", "new"} :
                  asked.request.signatures[i] = MAC(key, "id", asked.sent, "event")
        /\ answer.accepted = SignatureMatches("new", asked.now, asked.request)

LEMMA DeliveredInvariant == Spec => []Delivered
<1>1. Init => Delivered
    BY DEF Init, Nothing, Delivered
<1>2. Delivered /\ [Next]_vars => Delivered'
    <2> SUFFICES ASSUME Delivered, [Next]_vars PROVE Delivered'
        OBVIOUS
    <2>1. CASE UNCHANGED vars
        BY <2>1 DEF vars, Delivered
    <2>2. CASE AskDelivery
        <3>1. PICK sent \in Dates \cap DOMAIN Seconds, dated \in Dates, now \in Clock,
                   keys \in {<<"old">>, <<"old", "new">>, <<"new">>}, body \in {"event", "other"} :
                 LET r == [id |-> "id", ts |-> dated, body |-> body,
                           signatures |-> [i \in DOMAIN keys |-> MAC(keys[i], "id", sent, "event")]]
                 IN  /\ asked' = [about |-> "delivery", request |-> r, sent |-> sent, now |-> now]
                     /\ answer' = [accepted |-> SignatureMatches("new", now, r)]
            BY <2>2 DEF AskDelivery
        <3> DEFINE signatures == [i \in DOMAIN keys |-> MAC(keys[i], "id", sent, "event")]
                   r == [id |-> "id", ts |-> dated, body |-> body, signatures |-> signatures]
        <3>2. sent \in DOMAIN Seconds /\ now \in Nat
            BY CalculationBoundsAssumption
        <3>3. DOMAIN keys # {} /\ \A i \in DOMAIN keys : keys[i] \in {"old", "new"}
            OBVIOUS
        <3>4. DOMAIN signatures # {} /\ signatures # <<>>
            BY <3>3
        <3>5. \A i \in DOMAIN signatures :
                 \E key \in {"old", "new"} : signatures[i] = MAC(key, "id", sent, "event")
            BY <3>3
        <3> HIDE DEF signatures
        <3>6. r.id = "id" /\ r.ts = dated /\ r.signatures = signatures
            OBVIOUS
        <3>7. asked' = [about |-> "delivery", request |-> r, sent |-> sent, now |-> now]
            BY <3>1 DEF signatures
        <3>8. answer' = [accepted |-> SignatureMatches("new", now, r)]
            BY <3>1 DEF signatures
        <3> HIDE DEF r
        <3> QED
            BY <3>2, <3>4, <3>5, <3>6, <3>7, <3>8 DEF Delivered
    <2>3. CASE AskAdvice
        BY <2>3 DEF AskAdvice, Delivered
    <2>4. CASE AskDuration
        BY <2>4 DEF AskDuration, Delivered
    <2>5. CASE AskChart
        BY <2>5 DEF AskChart, Delivered
    <2> QED
        BY <2>1, <2>2, <2>3, <2>4, <2>5 DEF Next
<1> QED
    BY <1>1, <1>2, PTL DEF Spec

\* A delivery is accepted exactly if it is as GitLab signed it, under the key
\* that stays when the token is rotated, and its age either way is within the
\* tolerance, for every tolerance and any clocks.
THEOREM AcceptedIfGenuine == Spec => []FreshAndGenuineAccepted
<1>1. Delivered => FreshAndGenuineAccepted
    <2> SUFFICES ASSUME Delivered, asked.about = "delivery" PROVE FreshAndGenuineAccepted
        BY DEF FreshAndGenuineAccepted
    <2> DEFINE r == asked.request
               sent == asked.sent
               instant == Seconds[sent]
               now == asked.now
    <2>1. /\ sent \in DOMAIN Seconds /\ now \in Nat /\ r.id = "id" /\ r.signatures # <<>>
          /\ answer.accepted = SignatureMatches("new", now, r)
        BY DEF Delivered
    <2>2. \A i \in DOMAIN r.signatures :
             \E key \in {"old", "new"} : r.signatures[i] = MAC(key, "id", sent, "event")
        BY DEF Delivered
    <2>a. instant \in Int /\ sent # ""
        BY <2>1, SecondsAssumption
    <2>b. now \in Nat /\ instant \in Int
        BY <2>1, <2>a, Zenon
    <2> HIDE DEF r, sent, now, instant
    <2>3. ASSUME NEW i \in DOMAIN r.signatures
          PROVE  r.signatures[i] = MAC("new", r.id, r.ts, r.body) <=>
                    r.signatures[i].key = "new" /\ r.body = "event" /\ r.ts = sent
        <3>1. PICK key \in {"old", "new"} : r.signatures[i] = MAC(key, "id", sent, "event")
            BY <2>2, <2>3
        <3> QED
            BY <2>1, <3>1 DEF MAC
    <2>4. Fresh(now, instant) <=> Max({now - instant, instant - now}) <= Tolerance
        <3>1. now - instant \in Int /\ instant - now \in Int /\ Tolerance \in Int
            BY <2>b, ToleranceAssumption
        <3> QED
            BY <3>1, MaxOfTwo DEF Fresh
    <2>5. SignatureMatches("new", now, r) <=>
             /\ \E i \in DOMAIN r.signatures : r.signatures[i].key = "new"
             /\ r.body = "event" /\ r.ts = sent
             /\ Max({now - instant, instant - now}) <= Tolerance
        BY <2>1, <2>a, <2>3, <2>4 DEF SignatureMatches, instant
    <2> QED
        BY <2>1, <2>5 DEF FreshAndGenuineAccepted, r, sent, now, instant
<1> QED
    BY <1>1, DeliveredInvariant, PTL

-----------------------------------------------------------------------------
(* Advice *)

\* The answers about a job are those of the engine, with the trace and with
\* the trace only if a rule needs it.
Advised ==
    asked.about = "advice" =>
        LET f == asked.facts
            trace == IF NeedsTrace(Registry, f, asked.th) THEN f.trace ELSE {}
        IN  /\ f \in Facts /\ asked.th \in Thresholds
            /\ answer.full = Analyze(Registry, f, asked.th)
            /\ answer.lazy = Analyze(Registry, [f EXCEPT !.trace = trace], asked.th)

LEMMA AdvisedInvariant == Spec => []Advised
<1>1. Init => Advised
    BY DEF Init, Nothing, Advised
<1>2. Advised /\ [Next]_vars => Advised'
    <2> SUFFICES ASSUME Advised, [Next]_vars PROVE Advised'
        OBVIOUS
    <2>1. CASE UNCHANGED vars
        BY <2>1 DEF vars, Advised
    <2>2. CASE AskAdvice
        <3>1. PICK f \in JobFacts, th \in ThresholdSets :
                 /\ asked' = [about |-> "advice", facts |-> f, th |-> th]
                 /\ answer' = [lazy |-> LET trace == IF NeedsTrace(Registry, f, th) THEN f.trace ELSE {}
                                        IN  Analyze(Registry, [f EXCEPT !.trace = trace], th),
                               full |-> Analyze(Registry, f, th)]
            BY <2>2 DEF AskAdvice
        <3>2. asked'.facts = f /\ asked'.th = th
            BY <3>1
        <3>3. f \in Facts /\ th \in Thresholds
            BY JobFactsAssumption, ThresholdsAssumption
        <3>4. /\ answer'.full = Analyze(Registry, f, th)
              /\ answer'.lazy = LET trace == IF NeedsTrace(Registry, f, th) THEN f.trace ELSE {}
                                IN  Analyze(Registry, [f EXCEPT !.trace = trace], th)
            BY <3>1
        <3> QED
            BY <3>2, <3>3, <3>4 DEF Advised
    <2>3. CASE AskChart
        BY <2>3 DEF AskChart, Advised
    <2>4. CASE AskDuration
        BY <2>4 DEF AskDuration, Advised
    <2>5. CASE AskDelivery
        BY <2>5 DEF AskDelivery, Advised
    <2> QED
        BY <2>1, <2>2, <2>3, <2>4, <2>5 DEF Next
<1> QED
    BY <1>1, <1>2, PTL DEF Spec

\* What a rule says in an answer are its numbers for a job on which it fires.
LEMMA SaysIfFires ==
    ASSUME Advised, asked.about = "advice", NEW rule, NEW says \in Says(rule)
    PROVE  /\ asked.facts \in Facts /\ asked.th \in Thresholds
           /\ Fires(rule, asked.facts, asked.th)
           /\ says = Numbers(rule, asked.facts)
<1> DEFINE f == asked.facts
           th == asked.th
<1>1. f \in Facts /\ th \in Thresholds /\ answer.full = Analyze(Registry, f, th)
    BY DEF Advised
<1>2. PICK i \in DOMAIN answer.full : answer.full[i].rule = rule /\ answer.full[i].says = says
    BY DEF Says
<1> HIDE DEF f, th
<1>3. Registry \in Seq({"cpu-throttle", "java-threads", "long-job", "memory-pressure"})
    BY DEF Registry
<1>4. \E k \in DOMAIN Registry :
         /\ answer.full[i].rule = Registry[k] /\ Fires(Registry[k], f, th)
         /\ answer.full[i].says = Numbers(Registry[k], f)
    BY <1>1, <1>2, <1>3, AdviceOfFiringRules
<1>5. Fires(rule, f, th) /\ says = Numbers(rule, f)
    BY <1>2, <1>4
<1> QED
    BY <1>1, <1>5 DEF f, th

\* The CPU request that is suggested fits the limit suggested with it, a
\* measured limit grows, and the threads fit both limits, for any job, any
\* thresholds and whatever else the engine says of the job.
THEOREM CPUAdviceAlwaysFits == Spec => []CPUAdviceFits
<1>1. Advised => CPUAdviceFits
    <2> SUFFICES ASSUME Advised, asked.about = "advice", NEW cpu \in Says("cpu-throttle")
                 PROVE  LET limit == asked.facts.usage.cpuLimit IN
                        /\ cpu.request <= cpu.limit
                        /\ limit >= 10 => cpu.limit * 10 > limit
                        /\ \A java \in Says("java-threads") :
                              limit > 0 => \/ java.threads = 1
                                           \/ 10000 * java.threads <= limit /\ 1000 * java.threads <= cpu.limit
        BY DEF CPUAdviceFits
    <2> DEFINE f == asked.facts
               u == f.usage
               limit == u.cpuLimit
    <2>1. f \in Facts /\ Throttled(f, asked.th) /\ cpu = CPUThrottleSays(u)
        BY SaysIfFires DEF Fires, Numbers
    <2>2. u \in Usage
        BY <2>1 DEF Throttled, Facts
    <2>3. limit \in Nat /\ u.cpuRequest \in Nat
        BY <2>2 DEF Usage
    <2>4. cpu.request = SuggestedCPURequest(u.cpuRequest, limit) /\ cpu.limit = SuggestedCPULimit(limit)
        BY <2>1 DEF CPUThrottleSays
    <2> HIDE DEF limit, u
    <2>5. cpu.request <= cpu.limit
        BY <2>3, <2>4, CPURequestFits
    <2>6. limit >= 10 => cpu.limit * 10 > limit
        BY <2>3, <2>4, CPULimitGrows
    <2>7. ASSUME NEW java \in Says("java-threads"), limit > 0, java.threads # 1
          PROVE  10000 * java.threads <= limit /\ 1000 * java.threads <= cpu.limit
        <3>1. java.threads = ThreadHint(limit)
            BY SaysIfFires DEF Numbers, JavaThreadsSays, limit, u
        <3>2. ThreadHint(limit) = limit \div 10000 /\ limit \div 10000 \in Nat
            BY <2>3, <2>7, <3>1 DEF ThreadHint
        <3>3. 10000 * (limit \div 10000) <= limit
            BY <2>3, SMT
        <3>4. SuggestedCPULimit(limit) * 10 >= 2 * limit - 4
            <4> DEFINE n == (2 * limit + 5) \div 10
            <4>1. n \in Nat /\ n * 10 >= 2 * limit - 4
                BY <2>3, SMT
            <4>2. RoundUp(n, 100) \in Nat /\ RoundUp(n, 100) >= n
                <5> HIDE DEF n
                <5>1. 100 \in Nat \ {0}
                    OBVIOUS
                <5> QED
                    BY <4>1, <5>1, RoundUpBounds
            <4>3. SuggestedCPULimit(limit) = RoundUp(n, 100)
                BY <2>3, <2>7 DEF SuggestedCPULimit
            <4> HIDE DEF n
            <4> QED
                BY <2>3, <4>1, <4>2, <4>3, SMT
        <3>5. SuggestedCPULimit(limit) \in Nat
            BY <2>3 DEF SuggestedCPULimit, RoundUp
        <3> DEFINE t == limit \div 10000
        <3>6. t \in Nat /\ t >= 1
            BY <2>3, <2>7, <3>1 DEF ThreadHint
        <3>7. java.threads = t /\ 10000 * t <= limit
            BY <3>1, <3>2, <3>3
        <3> HIDE DEF t
        <3>8. 1000 * t <= SuggestedCPULimit(limit)
            BY <2>3, <3>4, <3>5, <3>6, <3>7, SMT
        <3> QED
            BY <2>4, <3>7, <3>8
    <2> QED
        BY <2>5, <2>6, <2>7 DEF limit, u
<1> QED
    BY <1>1, AdvisedInvariant, PTL

\* Memory advice followed once is enough, for any job and any ratio of two
\* thirds or more: the same peak is no pressure on the limit it suggests, which
\* is not below the present one and holds the request.
THEOREM MemoryAdviceAlwaysSettles == Spec => []MemoryAdviceSettles
<1>1. Advised => MemoryAdviceSettles
    <2> SUFFICES ASSUME Advised, asked.about = "advice", NEW memory \in Says("memory-pressure")
                 PROVE  /\ memory.request <= memory.limit
                        /\ asked.th.memory >= 67 =>
                              /\ memory.limit >= asked.facts.usage.memLimit
                              /\ ~UnderPressure([asked.facts EXCEPT !.usage.memLimit = memory.limit],
                                                asked.th)
        BY DEF MemoryAdviceSettles
    <2> DEFINE f == asked.facts
               th == asked.th
               limit == SuggestedMemory(f.usage.peak)
    <2>1. /\ f \in Facts /\ th \in Thresholds
          /\ UnderPressure(f, th) /\ memory = MemoryPressureSays(f.usage)
        BY SaysIfFires DEF Fires, Numbers
    <2>2. f.usage \in Usage
        BY <2>1 DEF UnderPressure, Facts
    <2>3. f.usage.peak \in Nat /\ f.usage.memRequest \in Nat
        BY <2>2 DEF Usage
    <2>4. memory.request = SuggestedMemoryRequest(f.usage.memRequest, f.usage.peak, limit) /\ memory.limit = limit
        BY <2>1 DEF MemoryPressureSays
    <2>5. limit \in Nat
        <3>1. 128 * MiB \in Nat \ {0} /\ (f.usage.peak * 3) \div 2 \in Nat
            BY <2>3, MiBAssumption, SMT
        <3> QED
            BY <3>1, RoundUpBounds DEF SuggestedMemory
    <2>6. memory.request <= memory.limit
        BY <2>3, <2>4, <2>5 DEF SuggestedMemoryRequest, Smaller
    <2>7. ASSUME th.memory >= 67
          PROVE  limit >= f.usage.memLimit /\ ~UnderPressure([f EXCEPT !.usage.memLimit = limit], th)
        BY <2>1, <2>2, <2>7, MemorySettles
    <2> QED
        BY <2>4, <2>6, <2>7
<1> QED
    BY <1>1, AdvisedInvariant, PTL

\* Fetching traces lazily loses nothing: the whole list of advice, in its order,
\* is the one there would be with the trace of the job.
THEOREM LazyLosesNothing == Spec => []LazyTraceLosesNothing
<1>1. Advised => LazyTraceLosesNothing
    <2> SUFFICES ASSUME Advised, asked.about = "advice" PROVE answer.lazy = answer.full
        BY DEF LazyTraceLosesNothing
    <2> DEFINE f == asked.facts
               th == asked.th
               trace == IF NeedsTrace(Registry, f, th) THEN f.trace ELSE {}
               g == [f EXCEPT !.trace = trace]
    <2>1. /\ f \in Facts /\ th \in Thresholds
          /\ answer.full = Analyze(Registry, f, th) /\ answer.lazy = Analyze(Registry, g, th)
        BY DEF Advised
    <2> HIDE DEF f, th
    <2>2. CASE NeedsTrace(Registry, f, th)
        <3>1. g = f
            BY <2>1, <2>2 DEF Facts
        <3> QED
            BY <2>1, <3>1
    <2>3. CASE ~NeedsTrace(Registry, f, th)
        <3>1. g = [f EXCEPT !.trace = {}] /\ g.name = f.name
            BY <2>1, <2>3 DEF Facts
        <3>2. ASSUME NEW i \in DOMAIN Registry
              PROVE  Check(Registry[i], g, th) = Check(Registry[i], f, th)
            <4>1. /\ Fires(Registry[i], g, th) <=> Fires(Registry[i], f, th)
                  /\ Fires(Registry[i], f, th) => Numbers(Registry[i], g) = Numbers(Registry[i], f)
                BY <2>1, <2>3, <3>1, LazyTrace
            <4> HIDE DEF g
            <4> QED
                BY <3>1, <4>1 DEF Check
        <3> HIDE DEF g
        <3>3. [i \in DOMAIN Registry |-> Check(Registry[i], g, th)]
                 = [i \in DOMAIN Registry |-> Check(Registry[i], f, th)]
            BY <3>2
        <3> QED
            BY <2>1, <3>3, Zenon DEF Analyze
    <2> QED
        BY <2>2, <2>3
<1> QED
    BY <1>1, AdvisedInvariant, PTL

-----------------------------------------------------------------------------
(* Durations *)

\* wallClock widens the span by one job after the other.
LEMMA WallClockSteps ==
    ASSUME NEW rows, Len(rows) \in Nat
    PROVE  \E g : /\ g[0] = [start |-> 0, end |-> 0]
                  /\ \A n \in 1..Len(rows) : g[n] = Widen(g[n - 1], rows[n])
                  /\ WallClock(rows) = LET all == g[Len(rows)] IN
                                       IF all.start = 0 \/ all.end <= all.start THEN 0
                                       ELSE all.end - all.start
<1> DEFINE zero == [start |-> 0, end |-> 0]
           Is(g, m) == g = [n \in 0..m |-> IF n = 0 THEN zero ELSE Widen(g[n - 1], rows[n])]
           T == {m \in Nat : \E g : Is(g, m)}
<1>1. 0 \in T
    <2> DEFINE g == [n \in 0..0 |-> zero]
    <2>1. Is(g, 0)
        OBVIOUS
    <2>2. \E r : Is(r, 0)
        BY <2>1, Zenon
    <2> HIDE DEF Is
    <2> QED
        BY <2>2
<1>2. ASSUME NEW m \in Nat, m \in T PROVE m + 1 \in T
    <2>1. PICK g : Is(g, m)
        BY <1>2
    <2> DEFINE G == [n \in 0..m |-> IF n = 0 THEN zero ELSE Widen(g[n - 1], rows[n])]
               h == [n \in 0..(m + 1) |-> IF n <= m THEN g[n] ELSE Widen(g[m], rows[n])]
    <2>2. g = G
        BY <2>1, Zenon
    <2>3. \A n \in 0..m : G[n] = IF n = 0 THEN zero ELSE Widen(g[n - 1], rows[n])
        OBVIOUS
    <2> HIDE DEF G, zero
    <2>4. ASSUME NEW n \in 0..(m + 1)
          PROVE  h[n] = IF n = 0 THEN zero ELSE Widen(h[n - 1], rows[n])
        <3>1. CASE n <= m
            <4>1. n \in 0..m /\ h[n] = g[n] /\ (n # 0 => h[n - 1] = g[n - 1])
                BY <3>1
            <4> QED
                BY <2>2, <2>3, <4>1
        <3>2. CASE n > m
            <4>1. n = m + 1 /\ n # 0 /\ h[n] = Widen(g[m], rows[n]) /\ h[n - 1] = g[m]
                BY <3>2
            <4> QED
                BY <4>1
        <3> QED
            BY <3>1, <3>2
    <2>5. h = [n \in 0..(m + 1) |-> h[n]]
        OBVIOUS
    <2> HIDE DEF h
    <2>6. Is(h, m + 1)
        BY <2>4, <2>5
    <2>7. \E r : Is(r, m + 1)
        BY <2>6, Zenon
    <2> HIDE DEF Is
    <2> QED
        BY <2>7
<1> HIDE DEF T
<1>3. Len(rows) \in T
    BY <1>1, <1>2, Counting
<1>4. \E g : Is(g, Len(rows))
    BY <1>3 DEF T
<1> DEFINE f == CHOOSE g : Is(g, Len(rows))
<1>5. WallClock(rows) = LET all == f[Len(rows)] IN
                        IF all.start = 0 \/ all.end <= all.start THEN 0 ELSE all.end - all.start
    BY Zenon DEF WallClock
<1>6. Is(f, Len(rows))
    BY <1>4, Zenon
<1> HIDE DEF f
<1> DEFINE F == [n \in 0..Len(rows) |-> IF n = 0 THEN zero ELSE Widen(f[n - 1], rows[n])]
<1>7. F[0] = zero /\ \A n \in 1..Len(rows) : F[n] = Widen(f[n - 1], rows[n])
    OBVIOUS
<1>8. f = F
    BY <1>6, Zenon
<1> HIDE DEF F
<1>9. f[0] = zero /\ \A n \in 1..Len(rows) : f[n] = Widen(f[n - 1], rows[n])
    BY <1>7, <1>8
<1> QED
    BY <1>5, <1>9, Zenon

\* The extremes of a set of numbers are the members that bound it.
LEMMA MaxIs ==
    ASSUME NEW S, S \subseteq Int, NEW m \in S, \A y \in S : y <= m
    PROVE  Max(S) = m
<1>1. \E x \in S : \A y \in S : x >= y
    OBVIOUS
<1>2. Max(S) \in S /\ \A y \in S : Max(S) >= y
    BY <1>1 DEF Max
<1> DEFINE x == Max(S)
<1> HIDE DEF x
<1>3. x \in Int /\ m \in Int /\ x >= m /\ x <= m
    BY <1>2 DEF x
<1>4. x = m
    BY <1>3
<1> QED
    BY <1>4 DEF x

LEMMA MinIs ==
    ASSUME NEW S, S \subseteq Int, NEW m \in S, \A y \in S : m <= y
    PROVE  Min(S) = m
<1>1. \E x \in S : \A y \in S : x <= y
    OBVIOUS
<1>2. Min(S) \in S /\ \A y \in S : Min(S) <= y
    BY <1>1 DEF Min
<1> DEFINE x == Min(S)
<1> HIDE DEF x
<1>3. x \in Int /\ m \in Int /\ x <= m /\ x >= m
    BY <1>2 DEF x
<1>4. x = m
    BY <1>3
<1> QED
    BY <1>4 DEF x

\* A span over some of the jobs: it begins with the first start and ends with
\* the last finish of those that ran, and is zero if none did.
Covers(span, rows, m) ==
    /\ span.start \in Nat /\ span.end \in Nat
    /\ \A i \in 1..m : Ran(rows[i]) =>
          span.start # 0 /\ span.start <= rows[i].start /\ rows[i].finish <= span.end
    /\ span.start # 0 =>
          /\ \E i \in 1..m : Ran(rows[i]) /\ rows[i].start = span.start
          /\ \E i \in 1..m : Ran(rows[i]) /\ rows[i].finish = span.end

LEMMA WidenCovers ==
    ASSUME NEW rows, NEW m \in Nat, NEW span, Covers(span, rows, m),
           \A i \in 1..(m + 1) : rows[i].start \in Nat /\ rows[i].finish \in Nat,
           span.start = 0 => span.end = 0
    PROVE  LET wider == Widen(span, rows[m + 1]) IN
           Covers(wider, rows, m + 1) /\ (wider.start = 0 => wider.end = 0)
<1> DEFINE r == rows[m + 1]
           wider == Widen(span, r)
<1>1. 1..(m + 1) = 1..m \cup {m + 1}
    OBVIOUS
<1>2. CASE ~Ran(r)
    <2>1. wider = span
        BY <1>2 DEF Widen
    <2> QED
        BY <1>1, <1>2, <2>1 DEF Covers
<1>3. CASE Ran(r)
    <2>1. /\ wider.start = IF span.start = 0 \/ r.start < span.start THEN r.start ELSE span.start
          /\ wider.end = IF r.finish > span.end THEN r.finish ELSE span.end
        BY <1>3 DEF Widen
    <2>2. r.start \in Nat \ {0} /\ r.finish \in Nat \ {0}
        BY <1>1, <1>3 DEF Ran
    <2>3. span.start \in Nat /\ span.end \in Nat
        BY DEF Covers
    <2> HIDE DEF wider
    <2>4. /\ wider.start \in Nat \ {0} /\ wider.end \in Nat
          /\ wider.start <= r.start /\ r.finish <= wider.end
          /\ span.start # 0 => wider.start <= span.start
          /\ span.end <= wider.end
        BY <2>1, <2>2, <2>3
    <2>5. \A i \in 1..(m + 1) : Ran(rows[i]) =>
             wider.start # 0 /\ wider.start <= rows[i].start /\ rows[i].finish <= wider.end
        <3> TAKE i \in 1..(m + 1)
        <3> HAVE Ran(rows[i])
        <3>1. CASE i = m + 1
            BY <2>4, <3>1
        <3>2. CASE i \in 1..m
            <4>1. span.start # 0 /\ span.start <= rows[i].start /\ rows[i].finish <= span.end
                BY <3>2 DEF Covers
            <4>2. Ran(rows[i])
                OBVIOUS
            <4> QED
                BY <1>1, <2>3, <2>4, <3>2, <4>1
        <3> QED
            BY <1>1, <3>1, <3>2
    <2>6. \E i \in 1..(m + 1) : Ran(rows[i]) /\ rows[i].start = wider.start
        BY <1>1, <1>3, <2>1 DEF Covers
    <2>7. \E i \in 1..(m + 1) : Ran(rows[i]) /\ rows[i].finish = wider.end
        <3>1. CASE wider.end = r.finish
            BY <1>1, <1>3, <3>1
        <3>2. CASE wider.end # r.finish
            <4>1. wider.end = span.end /\ ~(r.finish > span.end)
                BY <2>1, <3>2
            <4>2. span.start # 0
                BY <2>2, <2>3, <4>1
            <4> QED
                BY <1>1, <4>1, <4>2 DEF Covers
        <3> QED
            BY <3>1, <3>2
    <2> QED
        BY <2>4, <2>5, <2>6, <2>7 DEF Covers, wider
<1> QED
    BY <1>2, <1>3

\* What wallClock returns for jobs none of which finished before it started
LEMMA WallClockOfRan ==
    ASSUME NEW n \in Nat, NEW w \in [1..n -> Nat \X Nat],
           \A i \in 1..n : w[i][2] # 0 => w[i][1] <= w[i][2]
    PROVE  LET rows == [i \in 1..n |-> [start |-> w[i][1], finish |-> w[i][2]]]
               ran == {i \in 1..n : w[i][1] # 0 /\ w[i][2] # 0}
           IN  WallClock(rows) =
                   IF ran = {} THEN 0
                   ELSE Max({w[i][2] : i \in ran}) - Min({w[i][1] : i \in ran})
<1> DEFINE rows == [i \in 1..n |-> [start |-> w[i][1], finish |-> w[i][2]]]
           ran == {i \in 1..n : w[i][1] # 0 /\ w[i][2] # 0}
           zero == [start |-> 0, end |-> 0]
<1>1. Len(rows) = n
    OBVIOUS
<1>2. \A i \in 1..n : /\ rows[i].start = w[i][1] /\ rows[i].finish = w[i][2]
                      /\ w[i][1] \in Nat /\ w[i][2] \in Nat
    OBVIOUS
<1>3. \A i \in 1..n : Ran(rows[i]) <=> i \in ran
    BY <1>2 DEF Ran
<1> HIDE DEF rows, ran
<1>4. PICK g : /\ g[0] = zero
               /\ \A i \in 1..n : g[i] = Widen(g[i - 1], rows[i])
               /\ WallClock(rows) = LET all == g[n] IN
                                    IF all.start = 0 \/ all.end <= all.start THEN 0
                                    ELSE all.end - all.start
    BY <1>1, WallClockSteps
<1> DEFINE T == {m \in Nat : m <= n => /\ Covers(g[m], rows, m)
                                       /\ g[m].start = 0 => g[m].end = 0}
<1>5. 0 \in T
    BY <1>4 DEF Covers
<1>6. ASSUME NEW m \in Nat, m \in T PROVE m + 1 \in T
    <2> SUFFICES ASSUME m + 1 <= n
                 PROVE  /\ Covers(g[m + 1], rows, m + 1)
                        /\ g[m + 1].start = 0 => g[m + 1].end = 0
        OBVIOUS
    <2>1. Covers(g[m], rows, m) /\ (g[m].start = 0 => g[m].end = 0)
        BY <1>6
    <2>2. m + 1 \in 1..n /\ (m + 1) - 1 = m
        OBVIOUS
    <2>3. g[m + 1] = Widen(g[m], rows[m + 1])
        BY <1>4, <2>2
    <2>4. \A i \in 1..(m + 1) : rows[i].start \in Nat /\ rows[i].finish \in Nat
        <3>1. \A i \in 1..n : rows[i].start \in Nat /\ rows[i].finish \in Nat
            BY <1>2, Zenon
        <3>2. 1..(m + 1) \subseteq 1..n
            BY <2>2
        <3> QED
            BY <3>1, <3>2, Zenon
    <2> QED
        BY <2>1, <2>3, <2>4, WidenCovers
<1> HIDE DEF T
<1>7. n \in T
    BY <1>5, <1>6, Counting
<1> DEFINE all == g[n]
<1>8. Covers(all, rows, n)
    BY <1>7 DEF T
<1>9. WallClock(rows) = IF all.start = 0 \/ all.end <= all.start THEN 0 ELSE all.end - all.start
    BY <1>4
<1> HIDE DEF all
<1>10. CASE ran = {}
    <2>1. all.start = 0
        BY <1>3, <1>8, <1>10 DEF Covers
    <2> QED
        BY <1>9, <1>10, <2>1 DEF rows, ran
<1>11. CASE ran # {}
    <2>1. PICK i \in ran : TRUE
        BY <1>11
    <2>2. ran \subseteq 1..n
        BY DEF ran
    <2>3. /\ all.start \in Nat \ {0} /\ all.end \in Nat
          /\ \A k \in ran : all.start <= w[k][1] /\ w[k][2] <= all.end
        BY <1>2, <1>3, <1>8, <2>1, <2>2 DEF Covers
    <2>4. PICK first \in ran : w[first][1] = all.start
        BY <1>2, <1>3, <1>8, <2>3 DEF Covers
    <2>5. PICK last \in ran : w[last][2] = all.end
        BY <1>2, <1>3, <1>8, <2>3 DEF Covers
    <2>6. Max({w[k][2] : k \in ran}) = all.end
        <3> DEFINE S == {w[k][2] : k \in ran}
        <3>1. ASSUME NEW k \in ran PROVE w[k][2] \in Int /\ w[k][2] <= all.end
            <4>1. k \in 1..n
                BY <2>2
            <4>2. w[k][2] \in Nat
                BY <1>2, <4>1, Zenon
            <4> QED
                BY <2>3, <4>2
        <3>2. all.end \in S
            BY <2>5, Zenon
        <3>3. S \subseteq Int /\ \A y \in S : y <= all.end
            BY <3>1, Zenon
        <3> QED
            BY <3>2, <3>3, MaxIs
    <2>7. Min({w[k][1] : k \in ran}) = all.start
        <3> DEFINE S == {w[k][1] : k \in ran}
        <3>1. ASSUME NEW k \in ran PROVE w[k][1] \in Int /\ all.start <= w[k][1]
            <4>1. k \in 1..n
                BY <2>2
            <4>2. w[k][1] \in Nat
                BY <1>2, <4>1, Zenon
            <4> QED
                BY <2>3, <4>2
        <3>2. all.start \in S
            BY <2>4, Zenon
        <3>3. S \subseteq Int /\ \A y \in S : all.start <= y
            BY <3>1, Zenon
        <3> QED
            BY <3>2, <3>3, MinIs
    <2>8. all.start <= all.end
        <3>1. w[first][1] <= w[first][2] /\ w[first][2] <= all.end /\ w[first][2] \in Nat
            BY <1>2, <2>2, <2>3 DEF ran
        <3> QED
            BY <2>3, <2>4, <3>1
    <2>9. WallClock(rows) = all.end - all.start
        BY <1>9, <2>3, <2>8
    <2> QED
        BY <1>11, <2>6, <2>7, <2>9 DEF rows, ran
<1> QED
    BY <1>10, <1>11

\* The answers about a pipeline's duration are those of wallClock.
Timed ==
    asked.about = "duration" =>
        \E n \in Nat :
            /\ asked.windows \in [1..n -> Nat \X Nat]
            /\ \A i \in 1..n : asked.windows[i][2] # 0 => asked.windows[i][1] <= asked.windows[i][2]
            /\ answer.duration = WallClock([i \in 1..n |-> [start |-> asked.windows[i][1],
                                                            finish |-> asked.windows[i][2]]])

LEMMA TimedInvariant == Spec => []Timed
<1>1. Init => Timed
    BY DEF Init, Nothing, Timed
<1>2. Timed /\ [Next]_vars => Timed'
    <2> SUFFICES ASSUME Timed, [Next]_vars PROVE Timed'
        OBVIOUS
    <2>1. CASE UNCHANGED vars
        BY <2>1 DEF vars, Timed
    <2>2. CASE AskDuration
        <3>1. PICK n \in 0..MaxJobs : \E w \in [1..n -> Times \X Times] :
                 /\ \A i \in DOMAIN w : w[i][2] # 0 => w[i][1] <= w[i][2]
                 /\ asked' = [about |-> "duration", windows |-> w]
                 /\ answer' = [duration |-> WallClock([i \in DOMAIN w |->
                                                [start |-> w[i][1], finish |-> w[i][2]]])]
            BY <2>2 DEF AskDuration
        <3>2. PICK w \in [1..n -> Times \X Times] :
                 /\ \A i \in DOMAIN w : w[i][2] # 0 => w[i][1] <= w[i][2]
                 /\ asked' = [about |-> "duration", windows |-> w]
                 /\ answer' = [duration |-> WallClock([i \in DOMAIN w |->
                                                [start |-> w[i][1], finish |-> w[i][2]]])]
            BY <3>1
        <3>3. n \in Nat /\ w \in [1..n -> Nat \X Nat] /\ DOMAIN w = 1..n
            <4>1. MaxJobs \in Nat /\ Times \X Times \subseteq Nat \X Nat
                BY CalculationBoundsAssumption
            <4>2. n \in Nat
                BY <4>1
            <4> QED
                BY <4>1, <4>2
        <3>4. asked'.windows = w
            BY <3>2
        <3>5. answer'.duration = WallClock([i \in 1..n |-> [start |-> w[i][1], finish |-> w[i][2]]])
            BY <3>2, <3>3
        <3> QED
            BY <3>2, <3>3, <3>4, <3>5 DEF Timed
    <2>3. CASE AskAdvice
        BY <2>3 DEF AskAdvice, Timed
    <2>4. CASE AskChart
        BY <2>4 DEF AskChart, Timed
    <2>5. CASE AskDelivery
        BY <2>5 DEF AskDelivery, Timed
    <2> QED
        BY <2>1, <2>2, <2>3, <2>4, <2>5 DEF Next
<1> QED
    BY <1>1, <1>2, PTL DEF Spec

\* The duration of a pipeline is the span from the first start to the last
\* finish of the jobs that ran, for any number of jobs in any order and however
\* many of them were skipped.
THEOREM WallClockAlwaysSpans == Spec => []WallClockSpans
<1>1. Timed => WallClockSpans
    <2> SUFFICES ASSUME Timed, asked.about = "duration" PROVE WallClockSpans
        BY DEF WallClockSpans
    <2> DEFINE w == asked.windows
    <2>1. PICK n \in Nat :
             /\ w \in [1..n -> Nat \X Nat]
             /\ \A i \in 1..n : w[i][2] # 0 => w[i][1] <= w[i][2]
             /\ answer.duration = WallClock([i \in 1..n |-> [start |-> w[i][1], finish |-> w[i][2]]])
        BY DEF Timed
    <2> HIDE DEF w
    <2> DEFINE ran == {i \in 1..n : w[i][1] # 0 /\ w[i][2] # 0}
    <2>2. answer.duration = IF ran = {} THEN 0
                            ELSE Max({w[i][2] : i \in ran}) - Min({w[i][1] : i \in ran})
        BY <2>1, WallClockOfRan
    <2>3. DOMAIN w = 1..n
        BY <2>1
    <2> QED
        BY <2>2, <2>3 DEF WallClockSpans, w
<1> QED
    BY <1>1, TimedInvariant, PTL

-----------------------------------------------------------------------------
(* The lines of the charts *)

\* A sum of integers is one, whichever way it is folded.
SumOver(v, js) == MapThenSumSet(LAMBDA j : v[j + 1], js)

LEMMA SumIsInteger ==
    ASSUME NEW S, IsFiniteSet(S), NEW v, \A j \in S : v[j + 1] \in Int
    PROVE  SumOver(v, S) \in Int
<1> DEFINE Is(h) == h = [s \in SUBSET S |->
                            IF s = {} THEN 0
                            ELSE LET y == CHOOSE z \in s : TRUE IN v[y + 1] + h[s \ {y}]]
           h == CHOOSE g : Is(g)
           n == Cardinality(S)
           D == [SUBSET S -> Int]
           Plus(d, s) == IF s = {} THEN 0
                         ELSE LET y == CHOOSE z \in s : TRUE IN v[y + 1] + d[s \ {y}]
           More(d) == [s \in SUBSET S |-> Plus(d, s)]
           zero == [s \in SUBSET S |-> 0]
           step == [p \in (1..n) \X D |-> More(p[2])]
<1>1. SumOver(v, S) = h[S]
    BY Zenon DEF SumOver, MapThenSumSet, MapThenFoldSet
<1>2. n \in Nat
    BY FS_CardinalityType
<1>3. \A d \in D : More(d) \in D
    <2> TAKE d \in D
    <2>1. ASSUME NEW s \in SUBSET S
          PROVE  Plus(d, s) \in Int
        <3>1. CASE s # {}
            <4> DEFINE y == CHOOSE z \in s : TRUE
            <4>1. y \in s
                BY <3>1
            <4> HIDE DEF y
            <4>2. v[y + 1] \in Int /\ d[s \ {y}] \in Int
                BY <4>1
            <4>3. v[y + 1] + d[s \ {y}] \in Int
                BY <4>2
            <4> QED
                BY <3>1, <4>3 DEF y
        <3> QED
            BY <3>1
    <2> HIDE DEF Plus
    <2> QED
        BY <2>1
<1>4. zero \in D /\ step \in [(1..n) \X D -> D]
    <2>1. zero \in D
        OBVIOUS
    <2> HIDE DEF More, D
    <2>2. \A p \in (1..n) \X D : More(p[2]) \in D
        BY <1>3
    <2> QED
        BY <2>1, <2>2
<1> HIDE DEF n
<1>5. PICK G \in [0..n -> D] : G[0] = zero /\ \A m \in 1..n : G[m] = More(G[m - 1])
    <2> HIDE DEF More
    <2>1. \A m \in 1..n : \A d \in D : step[<<m, d>>] = More(d)
        OBVIOUS
    <2> HIDE DEF step, zero, D
    <2>2. PICK G \in [0..n -> D] : G[0] = zero /\ \A m \in 1..n : G[m] = step[<<m, G[m - 1]>>]
        <3>1. Iterates(D, zero, n, step)
            BY <1>2, <1>4, Iterating
        <3> QED
            BY <3>1 DEF Iterates
    <2>3. \A m \in 1..n : G[m - 1] \in D
        BY <1>2, <2>2
    <2>4. \A m \in 1..n : G[m] = More(G[m - 1])
        BY <2>1, <2>2, <2>3
    <2> QED
        BY <2>2, <2>4
<1> DEFINE H == [s \in SUBSET S |-> G[Cardinality(s)][s]]
<1>6. \A s \in SUBSET S : IsFiniteSet(s) /\ Cardinality(s) \in 0..n
    BY <1>2, FS_Subset, FS_CardinalityType DEF n
<1>7. Is(H)
    <2>1. ASSUME NEW s \in SUBSET S
          PROVE  H[s] = IF s = {} THEN 0
                        ELSE LET y == CHOOSE z \in s : TRUE IN v[y + 1] + H[s \ {y}]
        <3>1. CASE s = {}
            <4>1. Cardinality(s) = 0
                BY <3>1, FS_EmptySet
            <4>2. H[s] = zero[s]
                BY <1>5, <4>1
            <4> QED
                BY <3>1, <4>2
        <3>2. CASE s # {}
            <4> DEFINE y == CHOOSE z \in s : TRUE
                       m == Cardinality(s)
            <4>1. y \in s
                BY <3>2
            <4>2. m # 0 /\ m \in 0..n
                BY <1>6, <3>2, FS_EmptySet
            <4>3. Cardinality(s \ {y}) = m - 1
                <5> HIDE DEF y
                <5> QED
                    BY <1>6, <4>1, FS_RemoveElement
            <4> HIDE DEF m
            <4>4. m \in 1..n
                BY <1>2, <4>2
            <4>5. G[m] = More(G[m - 1])
                BY <1>5, <4>4
            <4>6. G[m][s] = v[y + 1] + G[m - 1][s \ {y}]
                BY <3>2, <4>5
            <4>7. H[s] = G[m][s] /\ H[s \ {y}] = G[m - 1][s \ {y}]
                BY <4>3 DEF m
            <4> HIDE DEF H
            <4> QED
                BY <3>2, <4>6, <4>7
        <3> QED
            BY <3>1, <3>2
    <2>2. H = [s \in SUBSET S |-> H[s]]
        OBVIOUS
    <2> HIDE DEF H
    <2> QED
        BY <2>1, <2>2
<1>8. Is(h)
    <2>1. \E g : Is(g)
        BY <1>7
    <2> HIDE DEF Is
    <2> QED
        BY <2>1, Zenon
<1> HIDE DEF h
<1>9. ASSUME NEW s \in SUBSET S
      PROVE  h[s] = IF s = {} THEN 0 ELSE LET y == CHOOSE z \in s : TRUE IN v[y + 1] + h[s \ {y}]
    <2>1. h = More(h)
        BY <1>8, Zenon
    <2>2. More(h)[s] = IF s = {} THEN 0
                       ELSE LET y == CHOOSE z \in s : TRUE IN v[y + 1] + h[s \ {y}]
        OBVIOUS
    <2> HIDE DEF More
    <2> QED
        BY <2>1, <2>2
<1> HIDE DEF Is, More, H
<1> DEFINE T == {k \in Nat : \A s \in SUBSET S : Cardinality(s) = k => h[s] \in Int}
<1>10. 0 \in T
    <2>1. ASSUME NEW s \in SUBSET S, Cardinality(s) = 0 PROVE h[s] \in Int
        <3>1. s = {}
            BY <1>6, <2>1, FS_EmptySet
        <3>2. h[s] = 0
            BY <1>9, <3>1
        <3> QED
            BY <3>2
    <2> QED
        BY <2>1
<1>11. ASSUME NEW k \in Nat, k \in T PROVE k + 1 \in T
    <2>1. ASSUME NEW s \in SUBSET S, Cardinality(s) = k + 1 PROVE h[s] \in Int
        <3>1. IsFiniteSet(s) /\ Cardinality(s) # 0
            BY <1>6, <2>1
        <3>2. s # {}
            BY <3>1, FS_EmptySet
        <3> DEFINE y == CHOOSE z \in s : TRUE
        <3>3. y \in s
            BY <3>2
        <3>4. h[s] = v[y + 1] + h[s \ {y}]
            BY <1>9, <3>2
        <3> HIDE DEF y
        <3>5. Cardinality(s \ {y}) = k
            <4>1. Cardinality(s \ {y}) = Cardinality(s) - 1
                BY <3>1, <3>3, FS_RemoveElement
            <4> QED
                BY <2>1, <4>1
        <3>6. h[s \ {y}] \in Int /\ v[y + 1] \in Int
            BY <1>11, <3>3, <3>5
        <3> QED
            BY <3>4, <3>6
    <2> QED
        BY <2>1
<1> HIDE DEF T
<1>12. n \in T
    BY <1>2, <1>10, <1>11, Counting
<1>13. h[S] \in Int
    BY <1>12 DEF T, n
<1> QED
    BY <1>1, <1>13

\* Rounding a part of d on a scale of k steps: none of it is the first step, all
\* of it the last, and what is between stays between.
LEMMA Rounded ==
    ASSUME NEW d \in Nat \ {0}, NEW k \in Nat, NEW a \in 0..d
    PROVE  /\ Round(a * k, d) \in 0..k
           /\ a = 0 => Round(a * k, d) = 0
           /\ a = d => Round(a * k, d) = k
<1> DEFINE b == 2 * d
           c == 2 * (a * k) + d
           q == c \div b
<1>1. b \in Nat \ {0} /\ a * k \in Nat /\ a * k <= d * k
    BY SMT
<1>2. c \in Nat /\ c < (k + 1) * b
    BY <1>1, SMT
<1>3. a = 0 => c < 1 * b
    BY SMT
<1>4. a = d => k * b <= c
    BY SMT
<1>5. q \in Nat
    BY <1>1, <1>2, Quotient
<1>6. Round(a * k, d) = q
    BY DEF Round
<1> HIDE DEF b, c
<1>7. q < k + 1
    BY <1>1, <1>2, QuotientBelow
<1>8. a = 0 => q < 1
    BY <1>1, <1>2, <1>3, QuotientBelow
<1>9. a = d => k <= q
    BY <1>1, <1>2, <1>4, QuotientAbove
<1> HIDE DEF q
<1> QED
    BY <1>5, <1>6, <1>7, <1>8, <1>9

\* Between the extremes of a scale a row is on the grid, and it is the last one
\* of the lowest value and the first one of the highest.
LEMMA RowsOnGrid ==
    ASSUME NEW lo \in Int, NEW hi \in Int, lo < hi, NEW v \in Int, lo <= v, v <= hi
    PROVE  /\ RowOf(v, lo, hi) \in 0..(Rows - 1)
           /\ v = lo => RowOf(v, lo, hi) = Rows - 1
           /\ v = hi => RowOf(v, lo, hi) = 0
<1> DEFINE k == Rows - 1
           d == hi - lo
           a == hi - v
           r == Round(a * k, d)
<1>1. k \in Nat /\ d \in Nat \ {0} /\ a \in 0..d /\ (v = lo <=> a = d) /\ (v = hi <=> a = 0)
    BY RowsAssumption
<1> HIDE DEF k, d, a
<1>2. r \in 0..k /\ (a = 0 => r = 0) /\ (a = d => r = k)
    BY <1>1, Rounded
<1>3. RowOf(v, lo, hi) = Min({Max({r, 0}), k})
    BY DEF RowOf, k, d, a
<1> HIDE DEF r
<1>4. Max({r, 0}) = r
    <2>1. {r, 0} \subseteq Int /\ r \in {r, 0} /\ \A y \in {r, 0} : y <= r
        BY <1>1, <1>2
    <2> QED
        BY <2>1, MaxIs
<1>5. Min({r, k}) = r
    <2>1. {r, k} \subseteq Int /\ r \in {r, k} /\ \A y \in {r, k} : r <= y
        BY <1>1, <1>2
    <2> QED
        BY <2>1, MinIs
<1>6. RowOf(v, lo, hi) = r
    BY <1>3, <1>4, <1>5
<1> QED
    BY <1>1, <1>2, <1>6 DEF k

\* A line of integers, of at least one
Points(c, n) == n \in Nat \ {0} /\ c \in [1..n -> Int] /\ DOMAIN c = 1..n

\* The extremes of a line: values of it that bound all of them
Extremes(c, lo, hi) ==
    /\ lo \in Int /\ hi \in Int /\ lo \in Range(c) /\ hi \in Range(c) /\ lo <= hi
    /\ Min(Range(c)) = lo /\ Max(Range(c)) = hi
    /\ \A i \in DOMAIN c : c[i] \in Int /\ lo <= c[i] /\ c[i] <= hi

LEMMA HasExtremes ==
    ASSUME NEW c, NEW n, Points(c, n)
    PROVE  \E lo, hi : Extremes(c, lo, hi)
<1> DEFINE Low1(k) == \E i \in 1..k : \A j \in 1..k : c[i] <= c[j]
           High1(k) == \E i \in 1..k : \A j \in 1..k : c[j] <= c[i]
           T == {m \in Nat : m < n => Low1(m + 1) /\ High1(m + 1)}
<1>1. n \in Nat \ {0} /\ DOMAIN c = 1..n /\ \A i \in 1..n : c[i] \in Int
    BY DEF Points
<1>2. 0 \in T
    <2>1. 1 \in 1..1 /\ \A j \in 1..1 : c[1] <= c[j] /\ c[j] <= c[1]
        BY <1>1
    <2> QED
        BY <2>1
<1>3. ASSUME NEW m \in Nat, m \in T PROVE m + 1 \in T
    <2> SUFFICES ASSUME m + 1 < n PROVE Low1((m + 1) + 1) /\ High1((m + 1) + 1)
        OBVIOUS
    <2> DEFINE k == m + 1
    <2>1. k \in Nat /\ k + 1 \in 1..n /\ \A i \in 1..(k + 1) : c[i] \in Int
        BY <1>1
    <2>2. Low1(k) /\ High1(k)
        BY <1>3, <1>1
    <2> HIDE DEF k
    <2>3. Low1(k + 1)
        <3>1. PICK i \in 1..k : \A j \in 1..k : c[i] <= c[j]
            BY <2>2
        <3>2. CASE c[i] <= c[k + 1]
            <4>1. \A j \in 1..(k + 1) : c[i] <= c[j]
                BY <2>1, <3>1, <3>2
            <4> QED
                BY <2>1, <4>1
        <3>3. CASE ~(c[i] <= c[k + 1])
            <4>1. \A j \in 1..(k + 1) : c[k + 1] <= c[j]
                BY <2>1, <3>1, <3>3
            <4> QED
                BY <2>1, <4>1
        <3> QED
            BY <3>2, <3>3
    <2>4. High1(k + 1)
        <3>1. PICK i \in 1..k : \A j \in 1..k : c[j] <= c[i]
            BY <2>2
        <3>2. CASE c[k + 1] <= c[i]
            <4>1. \A j \in 1..(k + 1) : c[j] <= c[i]
                BY <2>1, <3>1, <3>2
            <4> QED
                BY <2>1, <4>1
        <3>3. CASE ~(c[k + 1] <= c[i])
            <4>1. \A j \in 1..(k + 1) : c[j] <= c[k + 1]
                BY <2>1, <3>1, <3>3
            <4> QED
                BY <2>1, <4>1
        <3> QED
            BY <3>2, <3>3
    <2> QED
        BY <2>3, <2>4 DEF k
<1> HIDE DEF T
<1>4. n - 1 \in T
    <2>1. \A m \in Nat : m \in T
        BY <1>2, <1>3, Counting
    <2> QED
        BY <1>1, <2>1
<1>5. (n - 1) + 1 = n /\ n - 1 < n
    BY <1>1
<1>6. Low1(n) /\ High1(n)
    BY <1>1, <1>4, <1>5 DEF T
<1>7. PICK i \in 1..n : \A j \in 1..n : c[i] <= c[j]
    BY <1>6
<1>8. PICK k \in 1..n : \A j \in 1..n : c[j] <= c[k]
    BY <1>6
<1>9. Range(c) \subseteq Int /\ c[i] \in Range(c) /\ c[k] \in Range(c)
    BY <1>1 DEF Range
<1>10. \A y \in Range(c) : c[i] <= y /\ y <= c[k]
    BY <1>1, <1>7, <1>8 DEF Range
<1>11. Min(Range(c)) = c[i] /\ Max(Range(c)) = c[k]
    BY <1>9, <1>10, MinIs, MaxIs
<1> QED
    <2>1. Extremes(c, c[i], c[k])
        BY <1>1, <1>7, <1>8, <1>9, <1>10, <1>11 DEF Extremes
    <2> QED
        BY <2>1, Zenon

\* What is drawn of a line, in at most as many columns as there are, is one too.
LEMMA DownsampleIsLine ==
    ASSUME NEW v, NEW n, Points(v, n)
    PROVE  \E m : Points(Downsample(v, Columns), m)
<1>1. n \in Nat \ {0} /\ v \in [1..n -> Int] /\ DOMAIN v = 1..n /\ Len(v) = n
    BY DEF Points
<1>2. Columns \in Nat \ {0}
    BY ColumnsAssumption
<1>3. CASE n <= Columns
    <2>1. Downsample(v, Columns) = v
        BY <1>1, <1>3 DEF Downsample
    <2> QED
        BY <2>1
<1>4. CASE ~(n <= Columns)
    <2> DEFINE bucket(i) == Bucket(n, Columns, i - 1)
               average(i) == Average(v, bucket(i))
    <2>1. Downsample(v, Columns) = [i \in 1..Columns |-> average(i)]
        BY <1>1, <1>4 DEF Downsample
    <2>2. ASSUME NEW i \in 1..Columns PROVE average(i) \in Int
        <3>1. i - 1 \in 0..(Columns - 1) /\ n \in Nat /\ n > Columns
            BY <1>1, <1>2, <1>4
        <3>2. /\ Low(n, Columns, i - 1) \in Nat /\ High(n, Columns, i - 1) \in Nat
              /\ Low(n, Columns, i - 1) < High(n, Columns, i - 1) /\ High(n, Columns, i - 1) <= n
            BY <1>2, <3>1, BucketBounds
        <3>3. Low(n, Columns, i - 1) \in bucket(i)
            BY <3>1, <3>2 DEF Bucket
        <3>4. bucket(i) \subseteq 0..(n - 1)
            BY DEF Bucket
        <3> HIDE DEF bucket
        <3>5. IsFiniteSet(bucket(i))
            <4>1. IsFiniteSet(0..(n - 1))
                BY <3>1, FS_Interval
            <4> QED
                BY <3>4, <4>1, FS_Subset
        <3>6. Cardinality(bucket(i)) \in Nat \ {0}
            BY <3>3, <3>5, FS_CardinalityType, FS_EmptySet
        <3>7. \A j \in bucket(i) : v[j + 1] \in Int
            BY <1>1, <3>4
        <3>8. SumOver(v, bucket(i)) \in Int
            BY <3>5, <3>7, SumIsInteger
        <3>9. average(i) = SumOver(v, bucket(i)) \div Cardinality(bucket(i))
            BY Zenon DEF Average, SumOver
        <3> HIDE DEF average
        <3> QED
            BY <3>6, <3>8, <3>9
    <2> HIDE DEF average
    <2>3. Points(Downsample(v, Columns), Columns)
        BY <1>2, <2>1, <2>2 DEF Points
    <2> QED
        BY <2>3, Zenon
<1> QED
    BY <1>3, <1>4

\* The rows of a grid: what is marked in it, joined or left blank.  row[x] is
\* the row of the marker of column x.
Drawn(grid, n, row) ==
    /\ n \in Nat \ {0} /\ row \in [1..n -> 0..(Rows - 1)]
    /\ DOMAIN grid = (1..n) \X (0..(Rows - 1))
    /\ \A x \in 1..n : \A r \in 0..(Rows - 1) : grid[<<x, r>>] = "marker" <=> row[x] = r
    /\ \A x \in 2..n : \A r \in 0..(Rows - 1) :
          (row[x - 1] < r /\ r < row[x]) \/ (row[x] < r /\ r < row[x - 1]) =>
              grid[<<x, r>>] # "blank"
    /\ \E x \in 1..n : row[x] = Rows - 1

LEMMA GridIsDrawn ==
    ASSUME NEW v, NEW n, Points(Downsample(v, Columns), n)
    PROVE  \E row : /\ Drawn(Grid(v), n, row)
                    /\ \/ Cardinality(Range(Downsample(v, Columns))) = 1
                       \/ \E x \in 1..n : row[x] = 0
<1> DEFINE c == Downsample(v, Columns)
<1> HIDE DEF c
<1>1. n \in Nat \ {0} /\ c \in [1..n -> Int] /\ DOMAIN c = 1..n
    BY DEF Points, c
<1> DEFINE lo == Min(Range(c))
           max == Max(Range(c))
           hi == Above(lo, max)
           row == [x \in 1..n |-> RowOf(c[x], lo, hi)]
           R == 0..(Rows - 1)
<1>3. /\ lo \in Int /\ max \in Int /\ lo \in Range(c) /\ max \in Range(c) /\ lo <= max
      /\ \A x \in 1..n : c[x] \in Int /\ lo <= c[x] /\ c[x] <= max
    <2>1. PICK least, most : Extremes(c, least, most)
        BY HasExtremes DEF c
    <2> QED
        BY <1>1, <2>1 DEF Extremes
<1>4. hi \in Int /\ lo < hi /\ max <= hi /\ (lo # max => hi = max)
    BY <1>3 DEF Above
<1> DEFINE Joins(x, r) ==
               /\ x > 1
               /\ Min({RowOf(c[x], lo, hi), RowOf(c[x - 1], lo, hi)}) < r
               /\ r < Max({RowOf(c[x], lo, hi), RowOf(c[x - 1], lo, hi)})
           cells == [cell \in (DOMAIN c) \X R |->
                        CASE RowOf(c[cell[1]], lo, hi) = cell[2] -> "marker"
                          [] Joins(cell[1], cell[2]) -> "run"
                          [] OTHER -> "blank"]
<1>5. Grid(v) = cells
    BY Zenon DEF Grid, c
<1> HIDE DEF lo, max, hi
<1>6. /\ \A x \in 1..n : RowOf(c[x], lo, hi) \in R
      /\ \A x \in 1..n : c[x] = lo => RowOf(c[x], lo, hi) = Rows - 1
      /\ \A x \in 1..n : c[x] = hi => RowOf(c[x], lo, hi) = 0
    <2>1. ASSUME NEW x \in 1..n
          PROVE  /\ RowOf(c[x], lo, hi) \in R
                 /\ c[x] = lo => RowOf(c[x], lo, hi) = Rows - 1
                 /\ c[x] = hi => RowOf(c[x], lo, hi) = 0
        <3>1. c[x] \in Int /\ lo <= c[x] /\ c[x] <= hi
            BY <1>3, <1>4
        <3> QED
            BY <1>3, <1>4, <3>1, RowsOnGrid
    <2> QED
        BY <2>1
<1>7. /\ row \in [1..n -> R] /\ \A x \in 1..n : row[x] = RowOf(c[x], lo, hi)
    BY <1>6
<1> HIDE DEF row
<1>8. ASSUME NEW x \in 1..n, NEW r \in R
      PROVE  /\ cells[<<x, r>>] = "marker" <=> row[x] = r
             /\ Joins(x, r) => cells[<<x, r>>] # "blank"
    <2> HIDE DEF Joins
    <2>1. cells[<<x, r>>] = CASE RowOf(c[x], lo, hi) = r -> "marker"
                              [] Joins(x, r) -> "run"
                              [] OTHER -> "blank"
        BY <1>1
    <2>2. ASSUME row[x] = r PROVE ~Joins(x, r)
        <3>1. CASE x > 1
            <4>1. x - 1 \in 1..n
                BY <1>1, <3>1
            <4> DEFINE a == RowOf(c[x], lo, hi)
                       b == RowOf(c[x - 1], lo, hi)
            <4>2. a \in Int /\ b \in Int /\ a = r
                BY <1>6, <1>7, <2>2, <4>1
            <4>a. Joins(x, r) => Min({a, b}) < r /\ r < Max({a, b})
                BY DEF Joins
            <4> HIDE DEF a, b
            <4>3. CASE a <= b
                <5>1. Min({a, b}) = a
                    BY <4>2, <4>3, MinIs
                <5> QED
                    BY <4>2, <4>a, <5>1
            <4>4. CASE b <= a
                <5>1. Max({a, b}) = a
                    BY <4>2, <4>4, MaxIs
                <5> QED
                    BY <4>2, <4>a, <5>1
            <4> QED
                BY <4>2, <4>3, <4>4
        <3> QED
            BY <3>1 DEF Joins
    <2> HIDE DEF cells
    <2>3. "marker" # "run" /\ "marker" # "blank" /\ "run" # "blank"
        OBVIOUS
    <2> QED
        BY <1>7, <2>1, <2>2, <2>3, Zenon
<1>9. ASSUME NEW x \in 2..n, NEW r \in R,
             (row[x - 1] < r /\ r < row[x]) \/ (row[x] < r /\ r < row[x - 1])
      PROVE  Joins(x, r)
    <2> DEFINE a == row[x]
               b == row[x - 1]
    <2>1. x \in 1..n /\ x - 1 \in 1..n /\ x > 1
        BY <1>1
    <2>2. a \in R /\ b \in R /\ a = RowOf(c[x], lo, hi) /\ b = RowOf(c[x - 1], lo, hi)
        BY <1>7, <2>1
    <2>3. a \in Int /\ b \in Int
        BY <2>2
    <2> HIDE DEF a, b
    <2>4. Min({a, b}) < r /\ r < Max({a, b})
        <3>1. CASE a <= b
            <4>1. Min({a, b}) = a /\ Max({a, b}) = b
                BY <2>3, <3>1, MinIs, MaxIs
            <4> QED
                BY <1>9, <2>3, <3>1, <4>1 DEF a, b
        <3>2. CASE b <= a
            <4>1. Min({a, b}) = b /\ Max({a, b}) = a
                BY <2>3, <3>2, MinIs, MaxIs
            <4> QED
                BY <1>9, <2>3, <3>2, <4>1 DEF a, b
        <3> QED
            BY <2>3, <3>1, <3>2
    <2> QED
        BY <2>1, <2>2, <2>4
<1>10. PICK x \in 1..n : c[x] = lo
    BY <1>1, <1>3 DEF Range
<1>11. row[x] = Rows - 1
    BY <1>6, <1>7, <1>10
<1>12. Drawn(cells, n, row)
    <2>1. DOMAIN cells = (1..n) \X (0..(Rows - 1))
        BY <1>1
    <2>2. \A y \in 1..n : \A r \in R : cells[<<y, r>>] = "marker" <=> row[y] = r
        BY <1>8
    <2>3. ASSUME NEW y \in 2..n, NEW r \in R,
                 (row[y - 1] < r /\ r < row[y]) \/ (row[y] < r /\ r < row[y - 1])
          PROVE  cells[<<y, r>>] # "blank"
        <3>1. y \in 1..n /\ Joins(y, r)
            BY <1>1, <1>9, <2>3
        <3> HIDE DEF cells, Joins
        <3> QED
            BY <1>8, <3>1
    <2> HIDE DEF cells, Joins
    <2> QED
        BY <1>1, <1>7, <1>11, <2>1, <2>2, <2>3 DEF Drawn
<1>13. \/ Cardinality(Range(c)) = 1
       \/ \E y \in 1..n : row[y] = 0
    <2>1. CASE lo = max
        <3>1. Range(c) = {lo}
            BY <1>1, <1>3, <2>1 DEF Range
        <3> QED
            BY <3>1, FS_Singleton
    <2>2. CASE lo # max
        <3>1. PICK y \in 1..n : c[y] = max
            BY <1>1, <1>3 DEF Range
        <3>2. row[y] = 0
            BY <1>4, <1>6, <1>7, <2>2, <3>1
        <3> QED
            BY <3>2
    <2> QED
        BY <2>1, <2>2
<1> HIDE DEF cells, Joins
<1> QED
    BY <1>5, <1>12, <1>13 DEF c

\* A pixel is the place of its sample between the extremes of the line.
PointsOf(v, n) == [i \in 1..n |-> <<i, v[i]>>]
PlaceX(i, n) == PadX + Round((i - 1) * PlotW, Above(1, n) - 1)
PlaceY(y, lo, hi) == PadY + Round((Above(lo, hi) - y) * PlotH, Above(lo, hi) - lo)

LEMMA PixelIsPlace ==
    ASSUME NEW v, NEW n, Points(v, n), NEW lo, NEW hi, Extremes(v, lo, hi), NEW i \in 1..n
    PROVE  Pixel(PointsOf(v, n), i, v[i]) = <<PlaceX(i, n), PlaceY(v[i], lo, hi)>>
<1> DEFINE points == PointsOf(v, n)
           xs == {p[1] : p \in Range(points)}
           ys == {p[2] : p \in Range(points)}
<1>1. n \in Nat \ {0} /\ DOMAIN v = 1..n /\ Min(Range(v)) = lo /\ Max(Range(v)) = hi
    BY DEF Points, Extremes
<1>2. DOMAIN points = 1..n /\ \A k \in 1..n : points[k][1] = k /\ points[k][2] = v[k]
    BY DEF PointsOf
<1> HIDE DEF points
<1>3. xs = 1..n
    BY <1>2 DEF Range
<1>4. ys = Range(v)
    BY <1>1, <1>2 DEF Range
<1>5. Pixel(points, i, v[i]) =
         <<PadX + Round((i - Min(xs)) * PlotW, Above(Min(xs), Max(xs)) - Min(xs)),
           PadY + Round((Above(Min(ys), Max(ys)) - v[i]) * PlotH, Above(Min(ys), Max(ys)) - Min(ys))>>
    BY Zenon DEF Pixel
<1> HIDE DEF xs, ys
<1>6. Min(xs) = 1
    <2>1. xs \subseteq Int /\ 1 \in xs /\ \A y \in xs : 1 <= y
        BY <1>1, <1>3
    <2> QED
        BY <2>1, MinIs
<1>7. Max(xs) = n
    <2>1. xs \subseteq Int /\ n \in xs /\ \A y \in xs : y <= n
        BY <1>1, <1>3
    <2> QED
        BY <2>1, MaxIs
<1>8. Min(ys) = lo /\ Max(ys) = hi
    BY <1>1, <1>4
<1> QED
    BY <1>5, <1>6, <1>7, <1>8, Zenon DEF PlaceX, PlaceY, points

\* The columns of the pixels begin at the left edge and, if there are several,
\* end at the right one.
LEMMA ColumnsSpan ==
    ASSUME NEW n \in Nat \ {0}, NEW pixels, DOMAIN pixels = 1..n,
           \A i \in 1..n : pixels[i][1] = PlaceX(i, n)
    PROVE  LET xs == {p[1] : p \in Range(pixels)}
           IN  Min(xs) = PadX /\ Max(xs) = IF n = 1 THEN PadX ELSE PadX + PlotW
<1> DEFINE xs == {p[1] : p \in Range(pixels)}
<1>1. xs = {PlaceX(i, n) : i \in 1..n}
    BY DEF Range
<1> HIDE DEF xs
<1> DEFINE d == Above(1, n) - 1
<1>2. d \in Nat \ {0} /\ (n # 1 => n - 1 = d) /\ \A i \in 1..n : i - 1 \in 0..d
    BY DEF Above
<1> DEFINE w == PlotW
<1>3. w \in Nat
    BY DEF PlotW
<1> HIDE DEF d, w
<1>4. ASSUME NEW i \in 1..n
      PROVE  /\ PlaceX(i, n) \in PadX..(PadX + w)
             /\ i = 1 => PlaceX(i, n) = PadX
             /\ n # 1 /\ i = n => PlaceX(i, n) = PadX + w
    <2> DEFINE a == i - 1
               r == Round(a * w, d)
    <2>1. d \in Nat \ {0} /\ a \in 0..d /\ (i = 1 => a = 0) /\ (n # 1 /\ i = n => a = d)
        BY <1>2
    <2>2. PlaceX(i, n) = PadX + r
        BY Zenon DEF PlaceX, d, w
    <2> HIDE DEF a
    <2>3. r \in 0..w /\ (a = 0 => r = 0) /\ (a = d => r = w)
        BY <1>3, <2>1, Rounded
    <2> HIDE DEF r
    <2> QED
        BY <1>3, <2>1, <2>2, <2>3 DEF PadX
<1>5. xs \subseteq Int /\ \A y \in xs : PadX <= y /\ y <= PadX + w
    BY <1>1, <1>3, <1>4 DEF PadX
<1>6. PadX \in xs
    <2>1. 1 \in 1..n
        OBVIOUS
    <2> QED
        BY <1>1, <1>4, <2>1
<1>7. Min(xs) = PadX
    BY <1>5, <1>6, MinIs
<1>8. CASE n = 1
    <2>1. \A y \in xs : y <= PadX
        <3>1. \A i \in 1..n : PlaceX(i, n) = PadX
            BY <1>4, <1>8
        <3> QED
            BY <1>1, <3>1 DEF PadX
    <2>2. Max(xs) = PadX
        BY <1>5, <1>6, <2>1, MaxIs
    <2> QED
        BY <1>7, <1>8, <2>2 DEF xs
<1>9. CASE n # 1
    <2>1. PadX + w \in xs
        <3>1. n \in 1..n
            OBVIOUS
        <3> QED
            BY <1>1, <1>4, <1>9, <3>1
    <2>2. Max(xs) = PadX + w
        BY <1>5, <2>1, MaxIs
    <2> QED
        BY <1>7, <1>9, <2>2 DEF xs, w
<1> QED
    BY <1>8, <1>9

\* The rows of the pixels reach the bottom with the lowest value and, unless the
\* line is flat, the top with the highest.
LEMMA RowsSpan ==
    ASSUME NEW v, NEW n, Points(v, n), NEW lo, NEW hi, Extremes(v, lo, hi),
           NEW pixels, DOMAIN pixels = 1..n, \A i \in 1..n : pixels[i][2] = PlaceY(v[i], lo, hi)
    PROVE  LET ys == {p[2] : p \in Range(pixels)}
           IN  Max(ys) = PadY + PlotH /\ Min(ys) = IF lo = hi THEN PadY + PlotH ELSE PadY
<1> DEFINE ys == {p[2] : p \in Range(pixels)}
<1>1. ys = {PlaceY(v[i], lo, hi) : i \in 1..n}
    BY DEF Range
<1> HIDE DEF ys
<1> DEFINE top == Above(lo, hi)
           d == top - lo
           w == PlotH
<1>2. /\ lo \in Int /\ hi \in Int /\ lo <= hi
      /\ \A i \in 1..n : v[i] \in Int /\ lo <= v[i] /\ v[i] <= hi
      /\ \E i \in 1..n : v[i] = lo
      /\ \E i \in 1..n : v[i] = hi
    BY DEF Points, Extremes, Range
<1>3. w \in Nat
    BY DEF PlotH
<1>4. top \in Int /\ d \in Nat \ {0} /\ hi <= top /\ (lo # hi => top = hi)
    BY <1>2 DEF Above
<1>a. d = top - lo
    OBVIOUS
<1> HIDE DEF d, w, top
<1>5. ASSUME NEW i \in 1..n
      PROVE  /\ PlaceY(v[i], lo, hi) \in PadY..(PadY + w)
             /\ v[i] = lo => PlaceY(v[i], lo, hi) = PadY + w
             /\ lo # hi /\ v[i] = hi => PlaceY(v[i], lo, hi) = PadY
    <2> DEFINE a == top - v[i]
               r == Round(a * w, d)
    <2>1. a \in 0..d /\ (v[i] = lo => a = d) /\ (lo # hi /\ v[i] = hi => a = 0)
        BY <1>2, <1>4, <1>a
    <2>2. PlaceY(v[i], lo, hi) = PadY + r
        BY Zenon DEF PlaceY, d, w, top
    <2> HIDE DEF a
    <2>3. r \in 0..w /\ (a = 0 => r = 0) /\ (a = d => r = w)
        BY <1>3, <1>4, <2>1, Rounded
    <2> HIDE DEF r
    <2> QED
        BY <1>3, <2>1, <2>2, <2>3 DEF PadY
<1>6. ys \subseteq Int /\ \A y \in ys : PadY <= y /\ y <= PadY + w
    BY <1>1, <1>3, <1>5 DEF PadY
<1>7. PadY + w \in ys
    BY <1>1, <1>2, <1>5
<1>8. Max(ys) = PadY + w
    BY <1>6, <1>7, MaxIs
<1>9. CASE lo = hi
    <2>1. \A y \in ys : PadY + w <= y
        <3>1. \A i \in 1..n : v[i] = lo
            BY <1>2, <1>9
        <3>2. \A i \in 1..n : PlaceY(v[i], lo, hi) = PadY + w
            BY <1>5, <3>1
        <3> QED
            BY <1>1, <1>3, <3>2 DEF PadY
    <2>2. Min(ys) = PadY + w
        BY <1>6, <1>7, <2>1, MinIs
    <2> QED
        BY <1>8, <1>9, <2>2 DEF ys, w
<1>10. CASE lo # hi
    <2>1. PadY \in ys
        BY <1>1, <1>2, <1>5, <1>10
    <2>2. Min(ys) = PadY
        BY <1>6, <2>1, MinIs
    <2> QED
        BY <1>8, <1>10, <2>2 DEF ys, w
<1> QED
    BY <1>9, <1>10

\* A line is flat if its extremes are one.
LEMMA FlatLine ==
    ASSUME NEW v, NEW n, Points(v, n), NEW lo, NEW hi, Extremes(v, lo, hi)
    PROVE  lo = hi <=> \A x \in Range(v) : x = v[1]
<1>1. 1 \in DOMAIN v /\ Range(v) = {v[i] : i \in DOMAIN v}
    BY DEF Points, Range
<1>2. /\ lo \in Int /\ hi \in Int /\ lo \in Range(v) /\ hi \in Range(v)
      /\ \A i \in DOMAIN v : lo <= v[i] /\ v[i] <= hi /\ v[i] \in Int
    BY DEF Extremes
<1> QED
    BY <1>1, <1>2

\* What ChartSpansItsLine asks of the grid and of the pixels
GridSpans(grid, flat) ==
    LET columns == {cell[1] : cell \in DOMAIN grid}
        marks == {cell \in DOMAIN grid : grid[cell] = "marker"}
    IN  /\ \A x \in columns : Cardinality({m \in marks : m[1] = x}) = 1
        /\ \E m \in marks : m[2] = Rows - 1
        /\ flat \/ \E m \in marks : m[2] = 0
        /\ \A m, k \in marks : k[1] = m[1] + 1 =>
              \A r \in 0..(Rows - 1) :
                  (m[2] < r /\ r < k[2]) \/ (k[2] < r /\ r < m[2]) => grid[<<k[1], r>>] # "blank"
PixelsSpan(pixels, n, level) ==
    LET xs == {p[1] : p \in Range(pixels)}
        ys == {p[2] : p \in Range(pixels)}
    IN  /\ Min(xs) = PadX /\ Max(ys) = PadY + PlotH
        /\ Max(xs) = IF n = 1 THEN PadX ELSE PadX + PlotW
        /\ Min(ys) = IF level THEN PadY + PlotH ELSE PadY

LEMMA DrawnSpans ==
    ASSUME NEW grid, NEW n, NEW row, Drawn(grid, n, row),
           NEW flat \in BOOLEAN, flat \/ \E x \in 1..n : row[x] = 0
    PROVE  GridSpans(grid, flat)
<1> DEFINE R == 0..(Rows - 1)
           columns == {cell[1] : cell \in DOMAIN grid}
           marks == {cell \in DOMAIN grid : grid[cell] = "marker"}
<1>1. /\ n \in Nat \ {0} /\ row \in [1..n -> R] /\ DOMAIN grid = (1..n) \X R
      /\ \A x \in 1..n : \A r \in R : grid[<<x, r>>] = "marker" <=> row[x] = r
      /\ \E x \in 1..n : row[x] = Rows - 1
    BY DEF Drawn
<1>2. ASSUME NEW m \in marks PROVE m[1] \in 1..n /\ m = <<m[1], row[m[1]]>>
    <2>1. m[1] \in 1..n /\ m[2] \in R /\ m = <<m[1], m[2]>> /\ grid[m] = "marker"
        BY <1>1
    <2>2. row[m[1]] = m[2]
        BY <1>1, <2>1
    <2> QED
        BY <2>1, <2>2
<1>3. ASSUME NEW x \in 1..n PROVE <<x, row[x]>> \in marks
    BY <1>1
<1>4. columns \subseteq 1..n
    BY <1>1
<1> HIDE DEF columns, marks
<1>5. \A x \in columns : Cardinality({m \in marks : m[1] = x}) = 1
    <2> TAKE x \in columns
    <2>1. x \in 1..n
        BY <1>4
    <2>2. {m \in marks : m[1] = x} = {<<x, row[x]>>}
        BY <1>2, <1>3, <2>1
    <2> QED
        BY <2>2, FS_Singleton
<1>6. \E m \in marks : m[2] = Rows - 1
    <2>1. PICK x \in 1..n : row[x] = Rows - 1
        BY <1>1
    <2>2. <<x, row[x]>> \in marks /\ <<x, row[x]>>[2] = Rows - 1
        BY <1>3, <2>1
    <2> QED
        BY <2>2
<1>7. flat \/ \E m \in marks : m[2] = 0
    <2>1. ASSUME NEW x \in 1..n, row[x] = 0 PROVE \E m \in marks : m[2] = 0
        <3>1. <<x, row[x]>> \in marks /\ <<x, row[x]>>[2] = 0
            BY <1>3, <2>1
        <3> QED
            BY <3>1
    <2> QED
        BY <2>1
<1>8. ASSUME NEW m \in marks, NEW k \in marks, k[1] = m[1] + 1, NEW r \in R,
             (m[2] < r /\ r < k[2]) \/ (k[2] < r /\ r < m[2])
      PROVE  grid[<<k[1], r>>] # "blank"
    <2>1. /\ m[1] \in 1..n /\ k[1] \in 1..n /\ m[2] = row[m[1]] /\ k[2] = row[k[1]]
        BY <1>2
    <2>2. k[1] \in 2..n /\ m[1] = k[1] - 1
        BY <1>1, <1>8, <2>1
    <2>3. (row[k[1] - 1] < r /\ r < row[k[1]]) \/ (row[k[1]] < r /\ r < row[k[1] - 1])
        BY <1>8, <2>1, <2>2
    <2> QED
        BY <2>2, <2>3 DEF Drawn
<1> QED
    BY <1>5, <1>6, <1>7, <1>8 DEF GridSpans, columns, marks

\* What is charted is a line, and the answer is the program's of it: the
\* inductive invariant.
Charted ==
    asked.about = "chart" =>
        \E n \in Nat \ {0} :
            /\ asked.samples \in [1..n -> SampleValues]
            /\ answer.grid = Grid(asked.samples)
            /\ answer.pixels = [i \in 1..n |-> Pixel(PointsOf(asked.samples, n), i, asked.samples[i])]

LEMMA ChartedInvariant == Spec => []Charted
<1>1. Init => Charted
    BY DEF Init, Nothing, Charted
<1>2. Charted /\ [Next]_vars => Charted'
    <2> SUFFICES ASSUME Charted, [Next]_vars PROVE Charted'
        OBVIOUS
    <2>1. CASE UNCHANGED vars
        BY <2>1 DEF vars, Charted
    <2>2. CASE AskChart
        <3> DEFINE Answer(v) == [grid |-> Grid(v),
                                 pixels |-> LET points == [i \in DOMAIN v |-> <<i, v[i]>>]
                                            IN  [i \in DOMAIN v |-> Pixel(points, i, v[i])]]
        <3>1. PICK n \in 1..MaxSamples : \E v \in [1..n -> SampleValues] :
                 asked' = [about |-> "chart", samples |-> v] /\ answer' = Answer(v)
            BY <2>2 DEF AskChart
        <3> HIDE DEF Answer
        <3>2. PICK v \in [1..n -> SampleValues] :
                 asked' = [about |-> "chart", samples |-> v] /\ answer' = Answer(v)
            BY <3>1
        <3>3. n \in Nat \ {0} /\ DOMAIN v = 1..n
            BY CalculationBoundsAssumption
        <3>4. asked'.samples = v
            BY <3>2
        <3>5. /\ Answer(v).grid = Grid(v)
              /\ Answer(v).pixels = [i \in 1..n |-> Pixel(PointsOf(v, n), i, v[i])]
            BY <3>3 DEF Answer, PointsOf
        <3> QED
            BY <3>2, <3>3, <3>4, <3>5 DEF Charted
    <2>3. CASE AskAdvice
        BY <2>3 DEF AskAdvice, Charted
    <2>4. CASE AskDuration
        BY <2>4 DEF AskDuration, Charted
    <2>5. CASE AskDelivery
        BY <2>5 DEF AskDelivery, Charted
    <2> QED
        BY <2>1, <2>2, <2>3, <2>4, <2>5 DEF Next
<1> QED
    BY <1>1, <1>2, PTL DEF Spec

\* A chart of any line uses its whole height and width: one marker in each
\* column and no gap between neighbours, the lowest value in the bottom row and,
\* unless the line is flat, the highest in the top one; and so the pixels.
THEOREM ChartAlwaysSpans == Spec => []ChartSpansItsLine
<1>1. Charted => ChartSpansItsLine
    <2> SUFFICES ASSUME Charted, asked.about = "chart" PROVE ChartSpansItsLine
        BY DEF ChartSpansItsLine
    <2> DEFINE v == asked.samples
               flat == Cardinality(Range(Downsample(v, Columns))) = 1
               level == \A x \in Range(v) : x = v[1]
    <2>1. PICK n \in Nat \ {0} :
             /\ v \in [1..n -> SampleValues]
             /\ answer.grid = Grid(v)
             /\ answer.pixels = [i \in 1..n |-> Pixel(PointsOf(v, n), i, v[i])]
        BY DEF Charted
    <2> HIDE DEF v
    <2>2. Points(v, n)
        BY <2>1, CalculationBoundsAssumption DEF Points
    <2>3. GridSpans(answer.grid, flat)
        <3>1. PICK m : Points(Downsample(v, Columns), m)
            BY <2>2, DownsampleIsLine
        <3>2. PICK row : Drawn(Grid(v), m, row) /\ (flat \/ \E x \in 1..m : row[x] = 0)
            BY <3>1, GridIsDrawn
        <3>3. flat \in BOOLEAN
            OBVIOUS
        <3> HIDE DEF flat
        <3> QED
            BY <2>1, <3>2, <3>3, DrawnSpans
    <2>4. PixelsSpan(answer.pixels, Len(v), level)
        <3>1. PICK lo, hi : Extremes(v, lo, hi)
            BY <2>2, HasExtremes
        <3> DEFINE pixels == answer.pixels
        <3>2. /\ DOMAIN pixels = 1..n
              /\ \A i \in 1..n : pixels[i] = <<PlaceX(i, n), PlaceY(v[i], lo, hi)>>
            BY <2>1, <2>2, <3>1, PixelIsPlace
        <3> HIDE DEF pixels
        <3>3. \A i \in 1..n : pixels[i][1] = PlaceX(i, n) /\ pixels[i][2] = PlaceY(v[i], lo, hi)
            BY <3>2
        <3>4. Len(v) = n
            BY <2>1
        <3>5. lo = hi <=> level
            BY <2>2, <3>1, FlatLine
        <3> HIDE DEF level
        <3> DEFINE xs == {p[1] : p \in Range(pixels)}
                   ys == {p[2] : p \in Range(pixels)}
        <3>6. Min(xs) = PadX /\ Max(xs) = IF n = 1 THEN PadX ELSE PadX + PlotW
            BY <2>1, <3>2, <3>3, ColumnsSpan
        <3>7. Max(ys) = PadY + PlotH /\ Min(ys) = IF lo = hi THEN PadY + PlotH ELSE PadY
            BY <2>2, <3>1, <3>2, <3>3, RowsSpan
        <3> QED
            BY <3>4, <3>5, <3>6, <3>7, Zenon DEF PixelsSpan, pixels
    <2> QED
        BY <2>3, <2>4, Zenon DEF ChartSpansItsLine, GridSpans, PixelsSpan, v
<1> QED
    BY <1>1, ChartedInvariant, PTL
=============================================================================
