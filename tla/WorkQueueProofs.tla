-------------------------- MODULE WorkQueueProofs --------------------------
(***************************************************************************)
(* Proofs about WorkQueue, for every set of calls, capacity and            *)
(* percentage: type correctness, what the "nearly full" warning promises,  *)
(* and that the lock-free Enqueue implements DropQueue.                    *)
(***************************************************************************)
EXTENDS WorkQueue, SequenceTheorems, FiniteSetTheorems, TLAPS

-----------------------------------------------------------------------------
(* The threshold *)

\* newQueue's rounding keeps the threshold inside the buffer: it is reached
\* by at least one event and never lies above the depth at which events drop.
LEMMA WarnAtInBuffer == WarnAt \in 1..Size
<1> DEFINE p == Size * WarnPercent
<1>1. p \in Nat /\ 1 <= p
  BY SizeAssumption, WarnPercentAssumption
<1>2. p <= Size * 100
  BY SizeAssumption, WarnPercentAssumption
<1>3. (p + 99) \div 100 \in 1..Size
  <2> HIDE DEF p
  <2> QED BY <1>1, <1>2, SizeAssumption
<1> QED BY <1>3 DEF WarnAt

-----------------------------------------------------------------------------
(* Types *)

LEMMA TypeInit == Init => TypeOK
<1> SUFFICES ASSUME Init PROVE TypeOK
  OBVIOUS
<1>1. warnings \in Warnings
  BY DEF Init, Warnings
<1>2. ch \in Seq(Calls) /\ Len(ch) <= Size /\ taken \in Seq(Calls)
  BY SizeAssumption DEF Init
<1> QED BY <1>1, <1>2 DEF Init, TypeOK

LEMMA LowFinite == IsFiniteSet(Low) /\ Cardinality(Low) \in Nat
BY CallsAssumption, FS_Subset, FS_CardinalityType DEF Low

\* What a send or a receive does to the history, by the three ways the depth
\* can move.
LEMMA DepthHistory ==
  ASSUME TypeOK, DepthChanges
  PROVE  /\ warnings' \in Warnings
         /\ warnings'.burst = (warnings.burst /\ ch' # <<>>)
         /\ Rises => /\ warnings'.crossing = 0
                     /\ warnings'.standing = warned
                     /\ warnings'.late = Cardinality(Low)
         /\ ~Rises /\ ~Falls => /\ warnings'.crossing = warnings.crossing
                               /\ warnings'.standing = warnings.standing
                               /\ warnings'.late = warnings.late
<1>1. warnings' = [burst |-> warnings.burst /\ ch' # <<>>,
                   crossing |-> IF Rises \/ Falls THEN 0 ELSE warnings.crossing,
                   standing |-> IF Rises \/ Falls THEN Rises /\ warned ELSE warnings.standing,
                   late |-> IF Rises THEN Cardinality(Low) ELSE IF Falls THEN 0 ELSE warnings.late]
  BY DEF DepthChanges, TypeOK, Warnings
<1>2. (Rises \in BOOLEAN) /\ (Falls \in BOOLEAN) /\ (warned \in BOOLEAN)
  BY DEF Rises, Falls, TypeOK
<1>3. warnings \in Warnings /\ Cardinality(Low) \in Nat
  BY LowFinite DEF TypeOK
<1> HIDE DEF Rises, Falls, Low
<1> QED BY <1>1, <1>2, <1>3 DEF Warnings

\* A line in the log.
LEMMA LineHistory ==
  ASSUME TypeOK
  PROVE  /\ Line \in Warnings /\ Line.burst
         /\ Line.crossing = warnings.crossing + 1
         /\ Line.standing = warnings.standing /\ Line.late = warnings.late
<1>1. warnings \in Warnings /\ warnings.crossing + 1 \in Nat
  BY DEF TypeOK, Warnings
<1>2. Line \in Warnings
  BY <1>1 DEF Line, Warnings
<1>3. Line.burst /\ Line.crossing = warnings.crossing + 1
  BY <1>1 DEF Line, Warnings
<1>4. Line.standing = warnings.standing /\ Line.late = warnings.late
  BY <1>1 DEF Line, Warnings
<1> QED BY <1>2, <1>3, <1>4

LEMMA TypeStep == TypeOK /\ [Next]_vars => TypeOK'
<1> SUFFICES ASSUME TypeOK, [Next]_vars PROVE TypeOK'
  OBVIOUS
<1> USE SizeAssumption DEF TypeOK, InEnqueue
<1>1. ASSUME NEW c \in Calls, Send(c) PROVE TypeOK'
  <2>1. ch' \in Seq(Calls) /\ Len(ch') = Len(ch) + 1
    BY <1>1, AppendProperties DEF Send
  <2>2. warnings' \in Warnings
    BY <1>1, DepthHistory DEF Send
  <2> QED BY <1>1, <2>1, <2>2 DEF Send, Begin
<1>2. ASSUME NEW c \in Calls, Drop(c) PROVE TypeOK'
  BY <1>2 DEF Drop, Begin
<1>3. ASSUME NEW c \in Calls, ReadDepth(c) PROVE TypeOK'
  BY <1>3 DEF ReadDepth, DepthRead
<1>4. ASSUME NEW c \in Calls, WarnOnce(c) PROVE TypeOK'
  <2>1. warnings' \in Warnings
    BY <1>4, LineHistory DEF WarnOnce
  <2> QED BY <1>4, <2>1 DEF WarnOnce
<1>5. ASSUME NEW c \in Calls, ClearWarned(c) PROVE TypeOK'
  BY <1>5 DEF ClearWarned
<1>6. CASE Receive
  <2>1. ch' \in Seq(Calls) /\ Len(ch') = Len(ch) - 1 /\ taken' \in Seq(Calls)
    BY <1>6, HeadTailProperties, AppendProperties DEF Receive
  <2>2. warnings' \in Warnings
    BY <1>6, DepthHistory DEF Receive
  <2> QED BY <1>6, <2>1, <2>2 DEF Receive
<1>7. CASE Finish
  BY <1>7 DEF Finish
<1>8. CASE Stop
  BY <1>8 DEF Stop
<1>9. CASE Cancel
  BY <1>9 DEF Cancel
<1>10. CASE UNCHANGED vars
  BY <1>10 DEF vars
<1> QED
  BY <1>1, <1>2, <1>3, <1>4, <1>5, <1>6, <1>7, <1>8, <1>9, <1>10 DEF Next, Enqueue

\* Every reachable state is well-typed, and the channel never exceeds Size.
THEOREM TypeCorrect == Spec => []TypeOK
BY TypeInit, TypeStep, PTL DEF Spec

-----------------------------------------------------------------------------
(* The warning *)

\* CrossingWarned is not inductive: the depth may have been reached by an
\* Enqueue that has yet to read len(q.ch), or has read it and has yet to warn,
\* and the flag it finds set is only evidence of a line because nothing but
\* WarnOnce sets it.
WarningDue == \E c \in Calls : pc[c] \in {"sent", "high"}

CrossingInv ==
    /\ TypeOK
    /\ Len(ch) >= WarnAt =>
          /\ warned => warnings.crossing > 0 \/ warnings.standing
          /\ warnings.crossing > 0 \/ warnings.standing \/ WarningDue

LEMMA CrossingInit == Init => CrossingInv
BY TypeInit, WarnAtInBuffer DEF Init, CrossingInv

LEMMA CrossingStep == CrossingInv /\ [Next]_vars => CrossingInv'
<1> SUFFICES ASSUME CrossingInv, [Next]_vars PROVE CrossingInv'
  OBVIOUS
<1>0. TypeOK /\ TypeOK' /\ WarnAt \in Nat \ {0} /\ Len(ch) \in Nat /\ Len(ch') \in Nat
  BY TypeStep, WarnAtInBuffer, LenProperties DEF CrossingInv, TypeOK
<1>1. ASSUME NEW c \in Calls, Send(c) PROVE CrossingInv'
  <2>1. WarningDue'
    BY <1>0, <1>1 DEF Send, TypeOK, WarningDue
  <2>2. warned' = warned /\ DepthChanges /\ Len(ch') = Len(ch) + 1
    BY <1>0, <1>1, AppendProperties DEF Send, TypeOK
  <2>3. CASE Rises
    BY <1>0, <2>1, <2>2, <2>3, DepthHistory DEF CrossingInv
  <2>4. CASE ~Rises
    <3>1. ~Falls
      BY <1>0, <2>2 DEF Falls
    <3>2. Len(ch') >= WarnAt => Len(ch) >= WarnAt
      BY <1>0, <2>4 DEF Rises
    <3> QED BY <1>0, <2>1, <2>2, <2>4, <3>1, <3>2, DepthHistory DEF CrossingInv
  <2> QED BY <2>3, <2>4
<1>2. ASSUME NEW c \in Calls, Drop(c) PROVE CrossingInv'
  <2>1. UNCHANGED <<ch, warned, warnings>> /\ (WarningDue => WarningDue')
    BY <1>0, <1>2 DEF Drop, Begin, TypeOK, WarningDue
  <2> QED BY <1>0, <2>1 DEF CrossingInv
<1>3. ASSUME NEW c \in Calls, ReadDepth(c) PROVE CrossingInv'
  <2>1. Len(ch) >= WarnAt => WarningDue'
    BY <1>0, <1>3 DEF ReadDepth, DepthRead, TypeOK, WarningDue
  <2>2. UNCHANGED <<ch, warned, warnings>>
    BY <1>3 DEF ReadDepth, DepthRead
  <2> QED BY <1>0, <2>1, <2>2 DEF CrossingInv
<1>4. ASSUME NEW c \in Calls, WarnOnce(c) PROVE CrossingInv'
  <2>1. CASE warned
    BY <1>0, <1>4, <2>1 DEF WarnOnce, CrossingInv
  <2>2. CASE ~warned
    <3>1. warnings'.crossing = warnings.crossing + 1 /\ warnings.crossing \in Nat
      BY <1>0, <1>4, <2>2, LineHistory DEF WarnOnce, TypeOK, Warnings
    <3>2. warnings'.crossing > 0
      BY <3>1
    <3> QED BY <1>0, <3>2 DEF CrossingInv
  <2> QED BY <2>1, <2>2
<1>5. ASSUME NEW c \in Calls, ClearWarned(c) PROVE CrossingInv'
  <2>1. UNCHANGED <<ch, warnings>> /\ ~warned'
    BY <1>5 DEF ClearWarned
  <2>2. WarningDue => WarningDue'
    BY <1>0, <1>5 DEF ClearWarned, TypeOK, WarningDue
  <2> QED BY <1>0, <2>1, <2>2 DEF CrossingInv
<1>6. CASE Receive
  <2>1. Len(ch') = Len(ch) - 1 /\ UNCHANGED <<pc, warned>> /\ DepthChanges
    BY <1>0, <1>6, HeadTailProperties DEF Receive, TypeOK
  <2>2. Len(ch') >= WarnAt => Len(ch) >= WarnAt /\ ~Rises /\ ~Falls
    BY <1>0, <2>1 DEF Rises, Falls
  <2> QED BY <1>0, <2>1, <2>2, DepthHistory DEF CrossingInv, WarningDue
<1>7. ASSUME UNCHANGED <<ch, pc, warned, warnings>> PROVE CrossingInv'
  BY <1>0, <1>7 DEF CrossingInv, WarningDue
<1> QED
  BY <1>1, <1>2, <1>3, <1>4, <1>5, <1>6, <1>7 DEF Next, Enqueue, Finish, Stop, Cancel, vars

\* Whatever the interleaving of handlers and worker, and for every capacity,
\* percentage and number of overlapping calls: a crossing that finds the flag
\* clear has been reported by the time the calls are at rest.
THEOREM CrossingIsWarned == Spec => []CrossingWarned
<1>1. CrossingInv => CrossingWarned
  BY DEF CrossingInv, CrossingWarned, WarningDue, InFlight, InEnqueue
<1> QED BY CrossingInit, CrossingStep, <1>1, PTL DEF Spec

\* The flag pays for the next line, and each call that may still clear it for
\* one more: above the threshold no call joins those that may.
Unit(b) == IF b THEN 1 ELSE 0

LineInv ==
    /\ TypeOK
    /\ Len(ch) >= WarnAt =>
          warnings.crossing + Unit(warnings.standing) + Unit(~warned) + Cardinality(Low)
              <= warnings.late + 1

LEMMA LineInit == Init => LineInv
<1> SUFFICES ASSUME Init PROVE LineInv
  OBVIOUS
<1>1. ~(Len(ch) >= WarnAt)
  BY WarnAtInBuffer DEF Init
<1> QED BY <1>1, TypeInit DEF LineInv

\* A call that has not read a low depth and does not now leaves Low alone.
LEMMA LowStays ==
  ASSUME TypeOK, NEW c \in Calls, NEW p, pc' = [pc EXCEPT ![c] = p], pc[c] # "low", p # "low"
  PROVE  Low' = Low
BY DEF Low, TypeOK

LEMMA LineStep == LineInv /\ [Next]_vars => LineInv'
<1> SUFFICES ASSUME LineInv, [Next]_vars PROVE LineInv'
  OBVIOUS
<1>0. /\ TypeOK /\ TypeOK' /\ WarnAt \in Nat /\ Len(ch) \in Nat /\ Len(ch') \in Nat
      /\ warned \in BOOLEAN /\ warnings \in Warnings /\ warnings' \in Warnings
  BY TypeStep, WarnAtInBuffer, LenProperties DEF LineInv, TypeOK
<1>l. Cardinality(Low) \in Nat /\ IsFiniteSet(Low)
  BY LowFinite
<1> DEFINE n == Cardinality(Low)
<1>1. ASSUME DepthChanges, UNCHANGED warned, Low' = Low PROVE LineInv'
  <2>1. CASE Rises
    <3>1. /\ warnings'.crossing = 0 /\ warnings'.standing = warned /\ warnings'.late = n
          /\ Cardinality(Low') = n
      BY <1>0, <1>1, <2>1, DepthHistory
    <3>2. Unit(warned) + Unit(~warned) = 1 /\ Unit(warned) \in Nat /\ Unit(~warned) \in Nat
      BY <1>0 DEF Unit
    <3> HIDE DEF n
    <3>3. 0 + Unit(warned) + Unit(~warned) + n <= n + 1
      BY <1>l, <3>2 DEF n
    <3> QED BY <1>0, <1>1, <3>1, <3>3 DEF LineInv
  <2>2. CASE Falls
    BY <1>0, <2>2 DEF LineInv, Falls
  <2>3. CASE ~Rises /\ ~Falls
    <3>1. Len(ch') >= WarnAt => Len(ch) >= WarnAt
      BY <1>0, <2>3 DEF Rises
    <3>2. /\ warnings'.crossing = warnings.crossing /\ warnings'.standing = warnings.standing
          /\ warnings'.late = warnings.late /\ Cardinality(Low') = Cardinality(Low)
      BY <1>0, <1>1, <2>3, DepthHistory
    <3> QED BY <1>0, <1>1, <3>1, <3>2 DEF LineInv
  <2> QED BY <2>1, <2>2, <2>3
<1>2. ASSUME UNCHANGED <<ch, warned, warnings>>, Low' = Low PROVE LineInv'
  BY <1>0, <1>2 DEF LineInv
<1>3. ASSUME NEW c \in Calls, Send(c) PROVE LineInv'
  <2>1. Low' = Low
    BY <1>0, <1>3, LowStays DEF Send, Begin
  <2> QED BY <1>1, <1>3, <2>1 DEF Send
<1>4. ASSUME NEW c \in Calls, Drop(c) PROVE LineInv'
  <2>1. Low' = Low
    BY <1>0, <1>4, LowStays DEF Drop, Begin
  <2> QED BY <1>2, <1>4, <2>1 DEF Drop
<1>5. ASSUME NEW c \in Calls, ReadDepth(c) PROVE LineInv'
  <2>1. UNCHANGED <<ch, warned, warnings>>
    BY <1>5 DEF ReadDepth, DepthRead
  <2>2. CASE Len(ch) >= WarnAt
    <3>1. Low' = Low
      BY <1>0, <1>5, <2>2, LowStays DEF ReadDepth, DepthRead
    <3> QED BY <1>0, <2>1, <3>1 DEF LineInv
  <2>3. CASE ~(Len(ch) >= WarnAt)
    BY <1>0, <2>1, <2>3 DEF LineInv
  <2> QED BY <2>2, <2>3
<1>6. ASSUME NEW c \in Calls, WarnOnce(c) PROVE LineInv'
  <2>1. ch' = ch /\ warned' /\ Low' = Low
    BY <1>0, <1>6, LowStays DEF WarnOnce
  <2>2. CASE warned
    BY <1>2, <1>6, <2>1, <2>2 DEF WarnOnce
  <2>3. CASE ~warned
    <3>1. /\ warnings'.crossing = warnings.crossing + 1
          /\ warnings'.standing = warnings.standing /\ warnings'.late = warnings.late
      BY <1>0, <1>6, <2>3, LineHistory DEF WarnOnce
    <3>2. Unit(~warned) = 1 /\ Unit(~warned') = 0 /\ Unit(warnings.standing) \in Nat
      BY <2>1, <2>3 DEF Unit
    <3>3. Unit(warnings'.standing) = Unit(warnings.standing) /\ Cardinality(Low') = n
      BY <2>1, <3>1
    <3>4. warnings.crossing \in Nat /\ warnings.late \in Nat
      BY <1>0 DEF Warnings
    <3>5. Len(ch) >= WarnAt =>
            (warnings.crossing + 1) + Unit(warnings.standing) + 0 + n <= warnings.late + 1
      <4>1. Len(ch) >= WarnAt =>
              warnings.crossing + Unit(warnings.standing) + 1 + n <= warnings.late + 1
        BY <3>2 DEF LineInv
      <4> HIDE DEF n
      <4> QED BY <1>l, <3>2, <3>4, <4>1 DEF n
    <3> QED BY <1>0, <2>1, <3>1, <3>2, <3>3, <3>5 DEF LineInv
  <2> QED BY <2>2, <2>3
<1>7. ASSUME NEW c \in Calls, ClearWarned(c) PROVE LineInv'
  <2>1. UNCHANGED <<ch, warnings>> /\ ~warned'
    BY <1>7 DEF ClearWarned
  <2>2. c \in Low /\ Low' = Low \ {c}
    BY <1>0, <1>7 DEF ClearWarned, Low, TypeOK
  <2>3. Cardinality(Low') = n - 1
    BY <1>l, <2>2, FS_RemoveElement
  <2>4. Unit(~warned') = 1 /\ Unit(~warned) \in Nat /\ Unit(warnings.standing) \in Nat
    BY <2>1 DEF Unit
  <2>5. warnings.crossing \in Nat /\ warnings.late \in Nat
    BY <1>0 DEF Warnings
  <2>6. Len(ch) >= WarnAt =>
          warnings.crossing + Unit(warnings.standing) + 1 + (n - 1) <= warnings.late + 1
    <3>1. Len(ch) >= WarnAt =>
            warnings.crossing + Unit(warnings.standing) + Unit(~warned) + n <= warnings.late + 1
      BY DEF LineInv
    <3>2. n \in Nat
      BY <1>l
    <3> HIDE DEF n
    <3> QED BY <2>4, <2>5, <3>1, <3>2
  <2> QED BY <1>0, <2>1, <2>3, <2>4, <2>6 DEF LineInv
<1>8. CASE Receive
  <2>1. Low' = Low
    BY <1>8 DEF Receive, Low
  <2> QED BY <1>1, <1>8, <2>1 DEF Receive
<1>9. CASE Finish \/ Stop \/ Cancel \/ UNCHANGED vars
  <2>1. Low' = Low
    BY <1>9 DEF Finish, Stop, Cancel, vars, Low
  <2> QED BY <1>2, <1>9, <2>1 DEF Finish, Stop, Cancel, vars
<1> QED
  BY <1>3, <1>4, <1>5, <1>6, <1>7, <1>8, <1>9 DEF Next, Enqueue

\* In one crossing of the threshold, however long the queue hovers above it,
\* there is at most one line, and one more for each call that had read a low
\* depth when the crossing began.
THEOREM OneLineEachCrossing == Spec => []OneLinePerCrossing
<1>1. LineInv => OneLinePerCrossing
  <2> SUFFICES ASSUME LineInv, Len(ch) >= WarnAt
               PROVE  warnings.crossing <= warnings.late + (IF warnings.standing THEN 0 ELSE 1)
    BY DEF OneLinePerCrossing
  <2>1. /\ warnings.crossing \in Nat /\ warnings.late \in Nat /\ Cardinality(Low) \in Nat
        /\ Unit(~warned) \in Nat
    BY LowFinite DEF LineInv, TypeOK, Warnings, Unit
  <2>2. warnings.crossing + Unit(warnings.standing) <= warnings.late + 1
    <3>1. Unit(warnings.standing) \in Nat
      BY DEF Unit
    <3> QED BY <2>1, <3>1 DEF LineInv
  <2> QED BY <2>1, <2>2 DEF Unit
<1> QED BY LineInit, LineStep, <1>1, PTL DEF Spec

-----------------------------------------------------------------------------
(* The refinement *)

\* An event in the channel or with the worker belongs to a call that passed
\* its send, so no call is answered twice.
PastSend == InEnqueue \cup {"accepted"}

PassedInv ==
    /\ TypeOK
    /\ \A i \in 1..Len(ch) : pc[ch[i]] \in PastSend
    /\ \A i \in 1..Len(taken) : pc[taken[i]] \in PastSend

LEMMA PassedInit == Init => PassedInv
BY TypeInit DEF Init, PassedInv

\* A call that has passed its send never goes back.
LEMMA PassedStays ==
  ASSUME TypeOK, [Next]_vars, NEW c \in Calls, pc[c] \in PastSend
  PROVE  pc'[c] \in PastSend
BY DEF PastSend, InEnqueue, TypeOK, Next, Enqueue, Send, Drop, ReadDepth, DepthRead, WarnOnce, ClearWarned,
       Begin, Receive, Finish, Stop, Cancel, vars

LEMMA PassedStep == PassedInv /\ [Next]_vars => PassedInv'
<1> SUFFICES ASSUME PassedInv, [Next]_vars PROVE PassedInv'
  OBVIOUS
<1>0. TypeOK /\ TypeOK'
  BY TypeStep DEF PassedInv
<1>1. \A c \in Calls : pc[c] \in PastSend => pc'[c] \in PastSend
  BY <1>0, PassedStays
<1>2. /\ \A i \in 1..Len(ch) : ch[i] \in Calls /\ pc'[ch[i]] \in PastSend
      /\ \A i \in 1..Len(taken) : taken[i] \in Calls /\ pc'[taken[i]] \in PastSend
  BY <1>0, <1>1, ElementOfSeq DEF PassedInv, TypeOK
<1>3. ASSUME NEW c \in Calls, Send(c) PROVE PassedInv'
  <2>1. /\ Len(ch') = Len(ch) + 1 /\ Len(ch) \in Nat
        /\ \A i \in 1..Len(ch) : ch'[i] = ch[i]
        /\ ch'[Len(ch) + 1] = c
    BY <1>0, <1>3, AppendProperties, LenProperties DEF Send, TypeOK
  <2>2. pc'[c] \in PastSend
    BY <1>0, <1>3 DEF Send, TypeOK, PastSend, InEnqueue
  <2>3. \A i \in 1..Len(ch') : pc'[ch'[i]] \in PastSend
    <3> TAKE i \in 1..Len(ch')
    <3>1. CASE i \in 1..Len(ch)
      BY <1>2, <2>1, <3>1
    <3>2. CASE i = Len(ch) + 1
      BY <2>1, <2>2, <3>2
    <3> QED BY <2>1, <3>1, <3>2
  <2>4. taken' = taken
    BY <1>3 DEF Send
  <2> QED BY <1>0, <1>2, <2>3, <2>4 DEF PassedInv
<1>4. CASE Receive
  <2>1. /\ Len(ch') = Len(ch) - 1 /\ Len(ch) \in Nat \ {0}
        /\ \A i \in 1..Len(ch') : ch'[i] = ch[i + 1]
        /\ Head(ch) = ch[1]
    BY <1>0, <1>4, HeadTailProperties, EmptySeq DEF Receive, TypeOK
  <2>2. /\ Len(taken') = Len(taken) + 1 /\ Len(taken) \in Nat
        /\ \A i \in 1..Len(taken) : taken'[i] = taken[i]
        /\ taken'[Len(taken) + 1] = ch[1]
    BY <1>0, <1>4, <2>1, AppendProperties, LenProperties, ElementOfSeq DEF Receive, TypeOK
  <2>3. \A i \in 1..Len(ch') : pc'[ch'[i]] \in PastSend
    BY <1>2, <2>1
  <2>4. \A i \in 1..Len(taken') : pc'[taken'[i]] \in PastSend
    <3> TAKE i \in 1..Len(taken')
    <3>1. CASE i \in 1..Len(taken)
      BY <1>2, <2>2, <3>1
    <3>2. CASE i = Len(taken) + 1
      BY <1>2, <2>1, <2>2, <3>2
    <3> QED BY <2>2, <3>1, <3>2
  <2> QED BY <1>0, <2>3, <2>4 DEF PassedInv
<1>5. ASSUME UNCHANGED <<ch, taken>> PROVE PassedInv'
  BY <1>0, <1>2, <1>5 DEF PassedInv
<1> QED
  BY <1>3, <1>4, <1>5
  DEF Next, Enqueue, Drop, ReadDepth, DepthRead, WarnOnce, ClearWarned, Finish, Stop, Cancel, vars

\* The log of DropQueue in terms of the channel: what the worker took, then
\* what still waits.
LEMMA LogOfQueue ==
  ASSUME TypeOK
  PROVE  /\ taken \o ch \in Seq(Calls)
         /\ Queue!Waiting = Len(ch)
         /\ Len(taken) \in Nat /\ Len(ch) \in Nat
BY ConcatProperties, LenProperties DEF TypeOK, Queue!Waiting

LEMMA RefinementInit == Init => Queue!Init
BY ConcatEmptySeq DEF Init, Queue!Init

LEMMA RefinementStep == PassedInv /\ [Next]_vars => [Queue!Next]_Queue!vars
<1> SUFFICES ASSUME PassedInv, [Next]_vars PROVE [Queue!Next]_Queue!vars
  OBVIOUS
<1>0. TypeOK /\ TypeOK'
  BY TypeStep DEF PassedInv
<1> DEFINE refused == {c \in Calls : pc[c] = "dropped"}
<1>1. ASSUME NEW c \in Calls, pc[c] = "ready" PROVE ~Queue!Answered(c)
  <2>1. \A i \in DOMAIN (taken \o ch) : (taken \o ch)[i] # c
    <3> TAKE i \in DOMAIN (taken \o ch)
    <3>1. i \in 1..(Len(taken) + Len(ch))
      BY <1>0, ConcatProperties, LenProperties DEF TypeOK
    <3>2. (taken \o ch)[i] = IF i <= Len(taken) THEN taken[i] ELSE ch[i - Len(taken)]
      BY <1>0, <3>1, ConcatProperties DEF TypeOK
    <3>3. pc[(taken \o ch)[i]] \in PastSend
      BY <1>0, <3>1, <3>2, LogOfQueue DEF PassedInv
    <3> QED BY <1>1, <3>3 DEF PastSend, InEnqueue
  <2> QED BY <1>1, <2>1 DEF Queue!Answered
<1>2. ASSUME NEW c \in Calls, Send(c) PROVE Queue!Accept(c)
  <2>1. taken' \o ch' = Append(taken \o ch, c)
    <3>1. ch' = ch \o <<c>> /\ taken' = taken
      BY <1>0, <1>2, AppendIsConcat DEF Send, TypeOK
    <3>2. <<c>> \in Seq(Calls)
      OBVIOUS
    <3>3. taken \o (ch \o <<c>>) = (taken \o ch) \o <<c>>
      BY <1>0, <3>2, ConcatAssociative DEF TypeOK
    <3> QED BY <1>0, <3>1, <3>3, AppendIsConcat, LogOfQueue
  <2>2. refused' = refused
    BY <1>0, <1>2 DEF Send, Begin, TypeOK
  <2> QED BY <1>0, <1>1, <1>2, <2>1, <2>2, LogOfQueue DEF Send, Begin, Queue!Accept
<1>3. ASSUME NEW c \in Calls, Drop(c) PROVE Queue!Refuse(c)
  <2>1. refused' = refused \cup {c}
    BY <1>0, <1>3 DEF Drop, Begin, TypeOK
  <2> QED BY <1>0, <1>1, <1>3, <2>1, LogOfQueue DEF Drop, Begin, Queue!Refuse
<1>4. CASE Receive
  <2>1. taken' \o ch' = taken \o ch
    <3>1. Head(ch) \in Calls /\ Tail(ch) \in Seq(Calls) /\ ch = <<Head(ch)>> \o Tail(ch)
      BY <1>0, <1>4, HeadTailProperties, HeadTailOfSubSeq, SubSeqRecursiveFirst, SubSeqFull, EmptySeq, TailIsSubSeq
      DEF Receive, TypeOK
    <3>2. taken' = taken \o <<Head(ch)>> /\ ch' = Tail(ch)
      BY <1>0, <1>4, <3>1, AppendIsConcat DEF Receive, TypeOK
    <3>3. (taken \o <<Head(ch)>>) \o Tail(ch) = taken \o (<<Head(ch)>> \o Tail(ch))
      BY <1>0, <3>1, ConcatAssociative DEF TypeOK
    <3> QED BY <3>1, <3>2, <3>3
  <2>2. Len(taken') = Len(taken) + 1 /\ Len(taken) < Len(taken \o ch)
    BY <1>0, <1>4, HeadTailProperties, AppendProperties, ConcatProperties, EmptySeq, LenProperties
    DEF Receive, TypeOK
  <2>3. refused' = refused
    BY <1>4 DEF Receive
  <2>4. Queue!Serve
    BY <1>4, <2>1, <2>2, <2>3 DEF Receive, Queue!Serve
  <2> QED BY <2>4 DEF Queue!Next
<1>5. CASE Stop
  <2>1. UNCHANGED <<taken, ch, refused>> /\ (worker = "stopped")'
    BY <1>5 DEF Stop
  <2>2. Queue!Close
    BY <2>1 DEF Queue!Close
  <2> QED BY <2>2 DEF Queue!Next
<1>6. ASSUME UNCHANGED <<ch, taken, refused, worker = "stopped">>
      PROVE  UNCHANGED Queue!vars
  BY <1>6 DEF Queue!vars
<1>7. ASSUME NEW c \in Calls, ReadDepth(c) \/ WarnOnce(c) \/ ClearWarned(c)
      PROVE  UNCHANGED Queue!vars
  <2>1. refused' = refused
    BY <1>0, <1>7 DEF ReadDepth, DepthRead, WarnOnce, ClearWarned, TypeOK
  <2> QED BY <1>6, <1>7, <2>1 DEF ReadDepth, DepthRead, WarnOnce, ClearWarned
<1>8. CASE Finish \/ Cancel \/ UNCHANGED vars
  BY <1>6, <1>8 DEF Finish, Cancel, vars
<1> QED
  BY <1>2, <1>3, <1>4, <1>5, <1>7, <1>8 DEF Next, Enqueue, Queue!Next

\* Enqueue's lock-free steps, the channel and the receiving worker implement
\* the bounded queue that refuses only when full and serves what it accepted
\* exactly once and in order.
THEOREM ImplementsQueue == Spec => Queue!Spec
<1>1. PassedInv /\ [Next]_vars => [Queue!Next]_Queue!vars
  BY RefinementStep
<1> QED BY RefinementInit, PassedInit, PassedStep, <1>1, PTL DEF Spec, Queue!Spec

-----------------------------------------------------------------------------
(* A burst *)

\* An event is in the channel once, and its call has passed the send.
OnceInv ==
    /\ PassedInv
    /\ \A i, j \in 1..Len(ch) : ch[i] = ch[j] => i = j
    /\ Cardinality(InFlight) <= MaxInFlight

\* While nothing was logged since the channel was last empty, warned can only
\* be TRUE if it is left from before: then every event in the channel is that
\* of a call that has yet to clear it, and there are too few calls at a time to
\* reach the threshold.  Once one of them has cleared it, the next to find the
\* depth high logs.
BurstInv ==
    /\ OnceInv
    /\ ~warnings.burst /\ warned =>
          \A i \in 1..Len(ch) : pc[ch[i]] \in {"sent", "low"}
    /\ ~warnings.burst /\ Len(ch) >= WarnAt => WarningDue

LEMMA InFlightFinite == IsFiniteSet(InFlight)
BY CallsAssumption, FS_Subset DEF InFlight

\* Events that belong to calls in flight are as few as these.
LEMMA FewEvents ==
  ASSUME OnceInv, \A i \in 1..Len(ch) : pc[ch[i]] \in {"sent", "low"}
  PROVE  Len(ch) <= MaxInFlight
<1>1. Len(ch) \in Nat /\ \A i \in 1..Len(ch) : ch[i] \in Calls
  BY ElementOfSeq, LenProperties DEF OnceInv, PassedInv, TypeOK
<1>2. \A i \in 1..Len(ch) : ch[i] \in InFlight
  BY <1>1 DEF InFlight, InEnqueue
<1> DEFINE f == [i \in 1..Len(ch) |-> ch[i]]
<1>3. f \in [1..Len(ch) -> InFlight]
  BY <1>2
<1>4. \A i, j \in 1..Len(ch) : f[i] = f[j] => i = j
  BY DEF OnceInv
<1>5. f \in Injection(1..Len(ch), InFlight)
  <2> HIDE DEF f
  <2> QED BY <1>3, <1>4 DEF Injection, IsInjective
<1>6. Cardinality(1..Len(ch)) <= Cardinality(InFlight)
  <2> HIDE DEF f
  <2> QED BY <1>5, InFlightFinite, FS_Injection
<1>7. Cardinality(1..Len(ch)) = Len(ch)
  BY <1>1, FS_Interval
<1>8. Cardinality(InFlight) \in Nat
  BY InFlightFinite, FS_CardinalityType
<1> QED BY <1>1, <1>6, <1>7, <1>8, MaxInFlightAssumption DEF OnceInv

LEMMA OnceInit == Init => OnceInv
<1> SUFFICES ASSUME Init PROVE OnceInv
  OBVIOUS
<1>1. InFlight = {}
  BY DEF Init, InFlight, InEnqueue
<1> QED BY <1>1, PassedInit, FS_EmptySet, MaxInFlightAssumption DEF Init, OnceInv

LEMMA OnceStep == OnceInv /\ [Next]_vars => OnceInv'
<1> SUFFICES ASSUME OnceInv, [Next]_vars PROVE OnceInv'
  OBVIOUS
<1>0. PassedInv' /\ TypeOK /\ TypeOK' /\ PassedInv
  BY PassedStep, TypeStep DEF OnceInv, PassedInv
<1>1. Cardinality(InFlight) \in Nat /\ IsFiniteSet(InFlight)
  BY InFlightFinite, FS_CardinalityType
<1>2. Len(ch) \in Nat /\ \A i \in 1..Len(ch) : ch[i] \in Calls
  BY <1>0, ElementOfSeq, LenProperties DEF TypeOK
<1>3. ASSUME NEW c \in Calls, Send(c) PROVE OnceInv'
  <2>1. /\ Len(ch') = Len(ch) + 1
        /\ \A i \in 1..Len(ch) : ch'[i] = ch[i]
        /\ ch'[Len(ch) + 1] = c
    BY <1>0, <1>3, AppendProperties DEF Send, TypeOK
  <2>2. \A i \in 1..Len(ch) : ch[i] # c
    BY <1>0, <1>3 DEF Send, Begin, PassedInv, PastSend, InEnqueue
  <2>3. \A i, j \in 1..Len(ch') : ch'[i] = ch'[j] => i = j
    <3>1. \A i \in 1..Len(ch') : i \in 1..Len(ch) \/ i = Len(ch) + 1
      BY <1>2, <2>1
    <3> QED BY <2>1, <2>2, <3>1 DEF OnceInv
  <2>4. InFlight' = InFlight \cup {c}
    BY <1>0, <1>3 DEF Send, InFlight, InEnqueue, TypeOK
  <2>5. Cardinality(InFlight') <= MaxInFlight
    <3>1. Cardinality(InFlight) < MaxInFlight
      BY <1>3 DEF Send, Begin
    <3>2. Cardinality(InFlight') \in {Cardinality(InFlight), Cardinality(InFlight) + 1}
      BY <1>1, <2>4, FS_AddElement
    <3> HIDE DEF InFlight
    <3> QED BY <1>1, <3>1, <3>2, MaxInFlightAssumption
  <2> QED BY <1>0, <2>3, <2>5 DEF OnceInv
<1>4. ASSUME InFlight' \subseteq InFlight PROVE Cardinality(InFlight') <= MaxInFlight
  <2>1. Cardinality(InFlight') <= Cardinality(InFlight) /\ IsFiniteSet(InFlight')
    BY <1>1, <1>4, FS_Subset
  <2>2. Cardinality(InFlight') \in Nat
    BY <2>1, FS_CardinalityType
  <2> QED BY <1>1, <2>1, <2>2, MaxInFlightAssumption DEF OnceInv
<1>5. ASSUME NEW c \in Calls, Drop(c) \/ ReadDepth(c) \/ WarnOnce(c) \/ ClearWarned(c) PROVE OnceInv'
  <2>1. InFlight' \subseteq InFlight
    BY <1>0, <1>5 DEF Drop, ReadDepth, DepthRead, WarnOnce, ClearWarned, InFlight, InEnqueue, TypeOK
  <2>2. ch' = ch
    BY <1>5 DEF Drop, ReadDepth, DepthRead, WarnOnce, ClearWarned
  <2> QED BY <1>0, <1>4, <2>1, <2>2 DEF OnceInv
<1>6. CASE Receive
  <2>1. Len(ch') = Len(ch) - 1 /\ \A i \in 1..Len(ch') : ch'[i] = ch[i + 1]
    BY <1>0, <1>6, HeadTailProperties, EmptySeq DEF Receive, TypeOK
  <2>2. \A i, j \in 1..Len(ch') : ch'[i] = ch'[j] => i = j
    <3> TAKE i, j \in 1..Len(ch')
    <3> HAVE ch'[i] = ch'[j]
    <3>1. i + 1 \in 1..Len(ch) /\ j + 1 \in 1..Len(ch) /\ ch[i + 1] = ch[j + 1]
      BY <1>2, <2>1
    <3> QED BY <3>1 DEF OnceInv
  <2>3. InFlight' = InFlight
    BY <1>6 DEF Receive, InFlight
  <2> QED BY <1>0, <1>4, <2>2, <2>3 DEF OnceInv
<1>7. ASSUME UNCHANGED <<ch, pc>> PROVE OnceInv'
  BY <1>0, <1>7 DEF OnceInv, InFlight
<1> QED
  BY <1>3, <1>5, <1>6, <1>7 DEF Next, Enqueue, Finish, Stop, Cancel, vars

LEMMA BurstInit == Init => BurstInv
<1> SUFFICES ASSUME Init PROVE BurstInv
  OBVIOUS
<1>1. Len(ch) = 0 /\ ~warned
  BY DEF Init
<1> QED BY <1>1, OnceInit, WarnAtInBuffer DEF BurstInv

LEMMA BurstStep ==
  ASSUME MaxInFlight < WarnAt, BurstInv, [Next]_vars
  PROVE  BurstInv'
<1>0. OnceInv /\ OnceInv' /\ TypeOK /\ TypeOK' /\ WarnAt \in Nat \ {0}
  BY OnceStep, TypeStep, WarnAtInBuffer DEF BurstInv, OnceInv, PassedInv
<1>1. Len(ch) \in Nat /\ \A i \in 1..Len(ch) : ch[i] \in Calls
  BY <1>0, ElementOfSeq, LenProperties DEF TypeOK
\* A flag left from before means a depth below the threshold.
<1>2. ~warnings.burst /\ warned => Len(ch) < WarnAt
  <2> SUFFICES ASSUME ~warnings.burst, warned PROVE Len(ch) < WarnAt
    OBVIOUS
  <2>1. Len(ch) <= MaxInFlight
    BY <1>0, FewEvents DEF BurstInv
  <2> QED BY <1>0, <1>1, <2>1, MaxInFlightAssumption
<1>3. ASSUME NEW c \in Calls, Send(c) PROVE BurstInv'
  <2>1. /\ Len(ch') = Len(ch) + 1
        /\ \A i \in 1..Len(ch) : ch'[i] = ch[i]
        /\ ch'[Len(ch) + 1] = c
        /\ ch' # <<>>
    BY <1>0, <1>3, AppendProperties DEF Send, TypeOK
  <2>2. warnings'.burst = warnings.burst /\ warned' = warned
    <3>1. warnings.burst \in BOOLEAN /\ DepthChanges /\ warned' = warned
      BY <1>0, <1>3 DEF Send, TypeOK, Warnings
    <3> QED BY <1>0, <2>1, <3>1, DepthHistory
  <2>3. pc'[c] = "sent" /\ \A d \in Calls : d # c => pc'[d] = pc[d]
    BY <1>0, <1>3 DEF Send, TypeOK
  <2>4. ASSUME ~warnings.burst, warned, NEW i \in 1..Len(ch') PROVE pc'[ch'[i]] \in {"sent", "low"}
    <3>1. CASE i \in 1..Len(ch)
      BY <1>1, <2>1, <2>3, <2>4, <3>1 DEF BurstInv
    <3>2. CASE i = Len(ch) + 1
      BY <2>1, <2>3, <3>2
    <3> QED BY <1>1, <2>1, <3>1, <3>2
  <2>5. WarningDue'
    BY <2>3 DEF WarningDue
  <2> QED BY <1>0, <2>2, <2>4, <2>5 DEF BurstInv
<1>4. ASSUME NEW c \in Calls, Drop(c) PROVE BurstInv'
  <2>1. pc[c] = "ready" /\ UNCHANGED <<ch, warned, warnings>> /\ pc'[c] = "dropped"
        /\ \A d \in Calls : d # c => pc'[d] = pc[d]
    BY <1>0, <1>4 DEF Drop, Begin, TypeOK
  <2>2. WarningDue => WarningDue'
    BY <2>1 DEF WarningDue
  <2>3. \A i \in 1..Len(ch) : pc[ch[i]] \in {"sent", "low"} => pc'[ch[i]] \in {"sent", "low"}
    BY <1>1, <2>1
  <2> QED BY <1>0, <2>1, <2>2, <2>3 DEF BurstInv
<1>5. ASSUME NEW c \in Calls, ReadDepth(c) PROVE BurstInv'
  <2>1. /\ UNCHANGED <<ch, warned, warnings>>
        /\ pc'[c] = (IF Len(ch) >= WarnAt THEN "high" ELSE "low")
        /\ \A d \in Calls : d # c => pc'[d] = pc[d]
    BY <1>0, <1>5 DEF ReadDepth, DepthRead, TypeOK
  <2>2. ASSUME ~warnings.burst, warned, NEW i \in 1..Len(ch) PROVE pc'[ch[i]] \in {"sent", "low"}
    <3>1. ~(Len(ch) >= WarnAt)
      BY <1>0, <1>1, <1>2, <2>2
    <3> QED BY <1>1, <2>1, <2>2, <3>1 DEF BurstInv
  <2>3. Len(ch) >= WarnAt => WarningDue'
    BY <2>1 DEF WarningDue
  <2> QED BY <1>0, <2>1, <2>2, <2>3 DEF BurstInv
<1>6. ASSUME NEW c \in Calls, WarnOnce(c) PROVE BurstInv'
  <2>1. /\ pc[c] = "high" /\ ch' = ch /\ warned'
        /\ \A d \in Calls : d # c => pc'[d] = pc[d]
    BY <1>0, <1>6 DEF WarnOnce, TypeOK
  <2>2. CASE warned
    <3>1. warnings' = warnings
      BY <1>6, <2>2 DEF WarnOnce
    <3>2. ASSUME ~warnings.burst, NEW i \in 1..Len(ch) PROVE pc'[ch[i]] \in {"sent", "low"}
      <4>1. pc[ch[i]] \in {"sent", "low"} /\ ch[i] \in Calls
        BY <1>1, <2>2, <3>2 DEF BurstInv
      <4> QED BY <2>1, <4>1
    <3>3. ~warnings.burst => ~(Len(ch) >= WarnAt)
      BY <1>0, <1>1, <1>2, <2>2
    <3> QED BY <1>0, <2>1, <3>1, <3>2, <3>3 DEF BurstInv
  <2>3. CASE ~warned
    <3>1. warnings'.burst
      BY <1>0, <1>6, <2>3, LineHistory DEF WarnOnce
    <3> QED BY <1>0, <3>1 DEF BurstInv
  <2> QED BY <2>2, <2>3
<1>7. ASSUME NEW c \in Calls, ClearWarned(c) PROVE BurstInv'
  <2>1. pc[c] = "low" /\ ch' = ch /\ ~warned' /\ warnings'.burst = warnings.burst
        /\ \A d \in Calls : d # c => pc'[d] = pc[d]
    BY <1>0, <1>7 DEF ClearWarned, TypeOK, Warnings
  <2>2. WarningDue => WarningDue'
    BY <2>1 DEF WarningDue
  <2> QED BY <1>0, <2>1, <2>2 DEF BurstInv
<1>8. CASE Receive
  <2>1. Len(ch') = Len(ch) - 1 /\ \A i \in 1..Len(ch') : ch'[i] = ch[i + 1]
    BY <1>0, <1>8, HeadTailProperties, EmptySeq DEF Receive, TypeOK
  <2>2. UNCHANGED <<pc, warned>> /\ (warnings'.burst <=> warnings.burst /\ ch' # <<>>)
    BY <1>0, <1>8, DepthHistory DEF Receive
  <2>3. CASE ch' = <<>>
    <3>1. Len(ch') = 0
      BY <2>3
    <3> QED BY <1>0, <3>1 DEF BurstInv
  <2>4. CASE ch' # <<>>
    <3>1. ASSUME ~warnings.burst, warned, NEW i \in 1..Len(ch') PROVE pc'[ch'[i]] \in {"sent", "low"}
      <4>1. i + 1 \in 1..Len(ch)
        BY <1>1, <2>1
      <4> QED BY <2>1, <2>2, <3>1, <4>1 DEF BurstInv
    <3>2. Len(ch') >= WarnAt => Len(ch) >= WarnAt
      BY <1>0, <1>1, <2>1
    <3>3. WarningDue => WarningDue'
      BY <2>2 DEF WarningDue
    <3> QED BY <1>0, <2>2, <2>4, <3>1, <3>2, <3>3 DEF BurstInv
  <2> QED BY <2>3, <2>4
<1>9. ASSUME UNCHANGED <<ch, pc, warned, warnings>> PROVE BurstInv'
  BY <1>0, <1>9 DEF BurstInv, WarningDue
<1> QED
  BY <1>3, <1>4, <1>5, <1>6, <1>7, <1>8, <1>9 DEF Next, Enqueue, Finish, Stop, Cancel, vars

\* A burst is never missed: a channel at or above the threshold at rest has
\* been reported since it was last empty, for any capacity and percentage, as
\* long as fewer calls overlap than it takes to reach the threshold.
THEOREM BurstIsWarned ==
  ASSUME MaxInFlight < WarnAt
  PROVE  Spec => []BurstWarned
<1>1. BurstInv => BurstWarned
  BY DEF BurstInv, BurstWarned, WarningDue, InFlight, InEnqueue
<1>2. BurstInv /\ [Next]_vars => BurstInv'
  BY BurstStep
<1> QED BY BurstInit, <1>1, <1>2, PTL DEF Spec
=============================================================================
