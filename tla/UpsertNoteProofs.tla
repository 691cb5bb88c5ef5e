-------------------------- MODULE UpsertNoteProofs --------------------------
(***************************************************************************)
(* Proofs about UpsertNote, for every page size, set of pipelines and      *)
(* choice of failures: type correctness; how many reports without replies  *)
(* any number of replicas can leave; that no call edits a note without the *)
(* marker, or a report that was under discussion; and, for one worker and  *)
(* a merge request nobody deletes or quotes notes on, that there is one    *)
(* running report, the one posted last, and that posting implements        *)
(* ReportBoard.                                                            *)
(***************************************************************************)
EXTENDS UpsertNote, SequenceTheorems, FiniteSetTheorems, TLAPS

-----------------------------------------------------------------------------
(* The operators on discussions *)

LEMMA NewThreadType ==
  ASSUME TypeOK, NEW by \in Authors, NEW marked \in BOOLEAN,
         NEW report \in Pipelines \cup {NoPipeline}, AddThread(by, marked, report)
  PROVE  threads' \in Seq(Threads) /\ nextNote' \in Nat
<1> DEFINE t == [id |-> nextNote, by |-> by, marked |-> marked, report |-> report,
                 replies |-> <<>>]
<1>1. t \in Threads
  BY DEF TypeOK, Threads
<1>2. threads' = Append(threads, t)
  BY DEF AddThread
<1> HIDE DEF t
<1> QED BY <1>1, <1>2, AppendProperties DEF TypeOK, AddThread

\* Removing one element of a sequence leaves a sequence.
LEMMA CutType ==
  ASSUME NEW S, NEW s \in Seq(S), NEW k \in 1..Len(s)
  PROVE  SubSeq(s, 1, k - 1) \o SubSeq(s, k + 1, Len(s)) \in Seq(S)
<1>1. Len(s) \in Nat /\ \A i \in 1..Len(s) : s[i] \in S
  BY ElementOfSeq, LenProperties
<1>2. SubSeq(s, 1, k - 1) \in Seq(S)
  BY <1>1, SubSeqProperties
<1>3. SubSeq(s, k + 1, Len(s)) \in Seq(S)
  BY <1>1, SubSeqProperties
<1> QED BY <1>2, <1>3, ConcatProperties

LEMMA CutElements ==
  ASSUME NEW S, NEW s \in Seq(S), NEW k \in 1..Len(s)
  PROVE  LET r == SubSeq(s, 1, k - 1) \o SubSeq(s, k + 1, Len(s)) IN
         /\ DOMAIN r = 1..(Len(s) - 1)
         /\ \A i \in DOMAIN r : r[i] = s[IF i < k THEN i ELSE i + 1]
<1> DEFINE a == SubSeq(s, 1, k - 1)
           b == SubSeq(s, k + 1, Len(s))
<1>1. Len(s) \in Nat /\ \A i \in 1..Len(s) : s[i] \in S
  BY ElementOfSeq, LenProperties
<1>2. a \in Seq(S) /\ Len(a) = k - 1 /\ \A i \in 1..(k - 1) : a[i] = s[i]
  BY <1>1, SubSeqProperties
<1>3. b \in Seq(S) /\ Len(b) = Len(s) - k /\ \A i \in 1..(Len(s) - k) : b[i] = s[k + i]
  BY <1>1, SubSeqProperties
<1> HIDE DEF a, b
<1>4. /\ a \o b \in Seq(S) /\ Len(a \o b) = Len(s) - 1
      /\ \A i \in 1..(Len(s) - 1) : (a \o b)[i] = IF i <= k - 1 THEN a[i] ELSE b[i - (k - 1)]
  <2>1. /\ a \o b \in Seq(S) /\ Len(a \o b) = Len(a) + Len(b)
        /\ \A i \in 1..(Len(a) + Len(b)) : (a \o b)[i] = IF i <= Len(a) THEN a[i] ELSE b[i - Len(a)]
    BY <1>2, <1>3, ConcatProperties
  <2>2. k \in Nat /\ Len(a) = k - 1 /\ Len(a) + Len(b) = Len(s) - 1
    BY <1>1, <1>2, <1>3
  <2> QED BY <2>1, <2>2
<1>5. DOMAIN (a \o b) = 1..(Len(s) - 1)
  BY <1>4, LenProperties
<1>6. ASSUME NEW i \in 1..(Len(s) - 1) PROVE (a \o b)[i] = s[IF i < k THEN i ELSE i + 1]
  <2>0. i \in Nat /\ k \in Nat
    BY <1>1
  <2>1. CASE i < k
    BY <1>1, <1>2, <1>4, <2>0, <2>1
  <2>2. CASE ~(i < k)
    <3>1. i - (k - 1) \in 1..(Len(s) - k) /\ k + (i - (k - 1)) = i + 1 /\ ~(i <= k - 1)
      BY <1>1, <2>0, <2>2
    <3>2. (a \o b)[i] = b[i - (k - 1)]
      BY <1>4, <3>1
    <3> QED BY <1>3, <2>2, <3>1, <3>2
  <2> QED BY <2>1, <2>2
<1> QED BY <1>5, <1>6 DEF a, b

\* A discussion keeps its place when one of its notes changes.
LEMMA ReplacedThreadType ==
  ASSUME TypeOK, NEW i \in DOMAIN threads, NEW t \in Threads,
         threads' = [threads EXCEPT ![i] = t]
  PROVE  threads' \in Seq(Threads)
BY ExceptSeq, LenProperties DEF TypeOK

LEMMA ThreadType ==
  ASSUME TypeOK, NEW i \in DOMAIN threads
  PROVE  threads[i] \in Threads /\ DOMAIN threads = 1..Len(threads) /\ Len(threads) \in Nat
BY ElementOfSeq, LenProperties DEF TypeOK

LEMMA EditType ==
  ASSUME TypeOK, NEW id, NEW p \in Pipelines \cup {NoPipeline}, EditNote(id, p)
  PROVE  threads' \in Seq(Threads)
<1>1. Len(threads) \in Nat /\ DOMAIN threads = 1..Len(threads)
  BY LenProperties DEF TypeOK
<1>2. \A i \in 1..Len(threads) : threads'[i] \in Threads
  <2> TAKE i \in 1..Len(threads)
  <2>1. threads[i] \in Threads
    BY <1>1, ThreadType
  <2>2. [threads[i] EXCEPT !.report = p] \in Threads
    BY <2>1 DEF Threads
  <2>3. threads'[i] = IF threads[i].id = id THEN [threads[i] EXCEPT !.report = p] ELSE threads[i]
    BY <1>1 DEF EditNote
  <2> QED BY <2>1, <2>2, <2>3
<1>3. threads' = [i \in 1..Len(threads) |-> threads'[i]]
  BY <1>1 DEF EditNote
<1>4. threads' \in [1..Len(threads) -> Threads]
  BY <1>2, <1>3
<1> QED BY <1>1, <1>4, SeqDef

LEMMA ReplyType ==
  ASSUME TypeOK, NEW i \in DOMAIN threads, NEW by \in {"bot", "person"}, ReplyTo(i, by)
  PROVE  threads' \in Seq(Threads)
<1> DEFINE t == [threads[i] EXCEPT !.replies = Append(@, by)]
<1>1. threads[i] \in Threads /\ threads[i].replies \in Seq({"bot", "person"})
  BY ThreadType DEF Threads
<1>2. Append(threads[i].replies, by) \in Seq({"bot", "person"})
  BY <1>1, AppendProperties
<1>3. t \in Threads
  BY <1>1, <1>2 DEF Threads
<1>4. threads' = [threads EXCEPT ![i] = t]
  BY DEF ReplyTo
<1> HIDE DEF t
<1> QED BY <1>3, <1>4, ReplacedThreadType

-----------------------------------------------------------------------------
(* Types *)

LEMMA TypeInit == Init => TypeOK
<1> SUFFICES ASSUME Init PROVE TypeOK
  OBVIOUS
<1>1. threads \in Seq(Threads) /\ nextNote \in Nat /\ upserts \in 0..MaxUpserts /\ acts \in 0..MaxPeople
  BY BoundsAssumption DEF Init
<1>2. call \in [Workers -> Call]
  BY DEF Init, Call
<1> QED BY <1>1, <1>2 DEF TypeOK

\* What a call of UpsertNote does keeps the types.
LEMMA UpsertTypeStep ==
  ASSUME TypeOK, NEW w \in Workers, Upsert(w) \/ \E p \in Pipelines : Start(w, p)
  PROVE  TypeOK'
<1>0. call[w] \in Call /\ call[w].page \in Nat \ {0} /\ call[w].pipeline \in Pipelines \cup {NoPipeline}
  BY DEF TypeOK, Call
<1>1. ASSUME NEW p \in Pipelines, Start(w, p) PROVE TypeOK'
  <2>1. DiscussedReportIds \in SUBSET Nat
    BY ThreadType DEF DiscussedReportIds, Threads
  <2>2. call' \in [Workers -> Call]
    <3> DEFINE new == [pc |-> "list", pipeline |-> p, page |-> 1, target |-> 0,
                       posted |-> FALSE, discussed |-> DiscussedReportIds]
    <3>1. new \in Call
      BY <2>1 DEF Call
    <3>2. call' = [call EXCEPT ![w] = new]
      BY <1>1 DEF Start
    <3> QED BY <3>1, <3>2 DEF TypeOK
  <2>3. upserts' \in 0..MaxUpserts
    BY <1>1, BoundsAssumption DEF Start, TypeOK
  <2> QED BY <1>1, <2>2, <2>3 DEF Start, TypeOK
<1>2. CASE FindNote(w)
  <2>1. PICK i \in ReusableOnPage(w) :
          call' = [call EXCEPT ![w].pc = "update", ![w].target = threads[i].id]
    BY <1>2 DEF FindNote
  <2>2. threads[i].id \in Nat
    BY <2>1, ThreadType DEF ReusableOnPage, OnPage, Threads
  <2>3. call' \in [Workers -> Call]
    <3>1. [call[w] EXCEPT !.pc = "update", !.target = threads[i].id] \in Call
      BY <1>0, <2>2 DEF Call
    <3>2. call' = [call EXCEPT ![w] =
              [call[w] EXCEPT !.pc = "update", !.target = threads[i].id]]
      BY <2>1
    <3> QED BY <3>1, <3>2 DEF TypeOK
  <2> QED BY <1>2, <2>3 DEF FindNote, TypeOK
<1>3. CASE NextPage(w)
  <2>1. call' \in [Workers -> Call]
    <3>1. [call[w] EXCEPT !.page = @ + 1] \in Call
      BY <1>0 DEF Call
    <3>2. call' = [call EXCEPT ![w] = [call[w] EXCEPT !.page = @ + 1]]
      BY <1>3 DEF NextPage
    <3> QED BY <3>1, <3>2 DEF TypeOK
  <2> QED BY <1>3, <2>1 DEF NextPage, TypeOK
<1>4. CASE LastPage(w)
  <2>1. call' \in [Workers -> Call]
    <3>1. [call[w] EXCEPT !.pc = "create"] \in Call
      BY <1>0 DEF Call
    <3>2. call' = [call EXCEPT ![w] = [call[w] EXCEPT !.pc = "create"]]
      BY <1>4 DEF LastPage
    <3> QED BY <3>1, <3>2 DEF TypeOK
  <2> QED BY <1>4, <2>1 DEF LastPage, TypeOK
<1>5. ASSUME NEW posted \in BOOLEAN, Return(w, posted) PROVE call' \in [Workers -> Call]
  <2>1. [call[w] EXCEPT !.pc = "idle", !.posted = posted] \in Call
    BY <1>0 DEF Call
  <2>2. call' = [call EXCEPT ![w] = [call[w] EXCEPT !.pc = "idle", !.posted = posted]]
    BY <1>5 DEF Return
  <2> QED BY <2>1, <2>2 DEF TypeOK
<1>6. CASE Update(w)
  <2>1. call' \in [Workers -> Call]
    BY <1>5, <1>6 DEF Update, Answers
  <2>2. threads' \in Seq(Threads)
    BY <1>0, <1>6, EditType DEF Update
  <2> QED BY <1>6, <2>1, <2>2 DEF Update, TypeOK
<1>7. CASE Create(w)
  <2>1. call' \in [Workers -> Call]
    BY <1>5, <1>7 DEF Create, Answers
  <2>2. threads' \in Seq(Threads) /\ nextNote' \in Nat
    BY <1>0, <1>7, NewThreadType DEF Create, Authors
  <2> QED BY <1>7, <2>1, <2>2 DEF Create, TypeOK
<1>8. CASE Fail(w)
  <2>1. call' \in [Workers -> Call]
    BY <1>5, <1>8 DEF Fail
  <2> QED BY <1>8, <2>1 DEF Fail, TypeOK
<1> QED BY <1>1, <1>2, <1>3, <1>4, <1>6, <1>7, <1>8 DEF Upsert

\* And so does everything else that happens on the merge request.
LEMMA EnvironmentTypeStep ==
  ASSUME TypeOK, Environment
  PROVE  TypeOK'
<1>1. ASSUME NEW what, Acts(what) PROVE acts' \in 0..MaxPeople /\ UNCHANGED <<call, upserts>>
  BY <1>1, BoundsAssumption DEF Acts, TypeOK
<1>2. ASSUME NEW by \in {"person", "system"}, Comment(by) PROVE TypeOK'
  BY <1>1, <1>2, NewThreadType DEF Comment, Authors, TypeOK
<1>3. CASE Quote
  BY <1>1, <1>3, NewThreadType DEF Quote, Authors, TypeOK
<1>4. ASSUME NEW i \in DOMAIN threads, Reply(i) PROVE TypeOK'
  BY <1>1, <1>4, ReplyType DEF Reply, TypeOK
<1>5. ASSUME NEW i \in DOMAIN threads, NEW w \in Workers, CommandReply(w, i) PROVE TypeOK'
  BY <1>5, ReplyType DEF CommandReply, TypeOK
<1>6. ASSUME NEW i \in DOMAIN threads, DeleteReply(i) PROVE TypeOK'
  <2>1. threads[i] \in Threads /\ threads[i].replies \in Seq({"bot", "person"})
    BY ThreadType DEF Threads
  <2>2. PICK k \in DOMAIN threads[i].replies :
          threads' = [threads EXCEPT ![i].replies =
              SubSeq(@, 1, k - 1) \o SubSeq(@, k + 1, Len(@))]
    BY <1>6 DEF DeleteReply
  <2> DEFINE rest == SubSeq(threads[i].replies, 1, k - 1)
                       \o SubSeq(threads[i].replies, k + 1, Len(threads[i].replies))
             t == [threads[i] EXCEPT !.replies = rest]
  <2>3. rest \in Seq({"bot", "person"})
    BY <2>1, CutType, LenProperties
  <2>4. threads' = [threads EXCEPT ![i] = t]
    BY <2>2
  <2>5. t \in Threads
    <3> HIDE DEF rest
    <3> QED BY <2>1, <2>3 DEF Threads
  <2> HIDE DEF t
  <2>6. threads' \in Seq(Threads)
    BY <2>4, <2>5, ReplacedThreadType
  <2> QED BY <1>1, <1>6, <2>6 DEF DeleteReply, TypeOK
<1>7. ASSUME NEW i \in DOMAIN threads, DeleteRoot(i) PROVE TypeOK'
  <2>1. CASE threads' = DropThread(i) /\ UNCHANGED nextNote
    <3>1. threads' \in Seq(Threads)
      BY <2>1, CutType, ThreadType DEF DropThread, TypeOK
    <3> QED BY <1>1, <1>7, <2>1, <3>1 DEF DeleteRoot, TypeOK
  <2>2. CASE /\ Discussed(threads[i])
             /\ threads' = [threads EXCEPT ![i] =
                   [id |-> nextNote, by |-> Head(@.replies), marked |-> Head(@.replies) = "bot",
                    report |-> NoPipeline, replies |-> Tail(@.replies)]]
             /\ nextNote' = nextNote + 1
    <3> DEFINE old == threads[i].replies
               t == [id |-> nextNote, by |-> Head(old), marked |-> Head(old) = "bot",
                     report |-> NoPipeline, replies |-> Tail(old)]
    <3>1. old \in Seq({"bot", "person"}) /\ old # <<>>
      BY <2>2, ThreadType DEF Threads, Discussed
    <3>2. Head(old) \in {"bot", "person"} /\ Tail(old) \in Seq({"bot", "person"})
      BY <3>1, HeadTailProperties
    <3>3. t \in Threads
      <4> HIDE DEF old
      <4> QED BY <3>2 DEF Threads, Authors, TypeOK
    <3>4. threads' = [threads EXCEPT ![i] = t]
      BY <2>2
    <3> HIDE DEF t
    <3>5. threads' \in Seq(Threads)
      BY <3>3, <3>4, ReplacedThreadType
    <3> QED BY <1>1, <1>7, <2>2, <3>5 DEF DeleteRoot, TypeOK
  <2> QED BY <1>7, <2>1, <2>2 DEF DeleteRoot
<1> QED BY <1>2, <1>3, <1>4, <1>5, <1>6, <1>7 DEF Environment

LEMMA TypeStep == TypeOK /\ [Next]_vars => TypeOK'
<1>1. TypeOK /\ UNCHANGED vars => TypeOK'
  BY DEF vars, TypeOK
<1> QED BY <1>1, UpsertTypeStep, EnvironmentTypeStep DEF Next

\* Every reachable state of the merge request and of the calls is well-typed,
\* whatever people do and whichever requests fail.
THEOREM TypeCorrect == Spec => []TypeOK
BY TypeInit, TypeStep, PTL DEF Spec

-----------------------------------------------------------------------------
(* What a step does to the discussions *)

\* The discussions are where they were, with the same notes.
NotesKept ==
    /\ DOMAIN threads' = DOMAIN threads
    /\ \A i \in DOMAIN threads :
          /\ threads'[i].id = threads[i].id
          /\ threads'[i].by = threads[i].by
          /\ threads'[i].marked = threads[i].marked

\* And none has lost all its replies.
RootsKept == NotesKept /\ \A i \in DOMAIN threads : Discussed(threads[i]) => Discussed(threads'[i])

\* The places at which the text of a root note changes.
Rewritten == {i \in DOMAIN threads : threads'[i].report # threads[i].report}

LEMMA EditKeepsRoots ==
  ASSUME TypeOK, NEW id, NEW p, EditNote(id, p)
  PROVE  /\ RootsKept
         /\ \A i \in DOMAIN threads :
               /\ threads'[i].report = IF threads[i].id = id THEN p ELSE threads[i].report
               /\ Discussed(threads'[i]) <=> Discussed(threads[i])
<1> SUFFICES ASSUME NEW i \in DOMAIN threads
    PROVE  /\ threads'[i].id = threads[i].id
           /\ threads'[i].by = threads[i].by
           /\ threads'[i].marked = threads[i].marked
           /\ threads'[i].report = IF threads[i].id = id THEN p ELSE threads[i].report
           /\ threads'[i].replies = threads[i].replies
  BY DEF EditNote, RootsKept, NotesKept, Discussed
<1>1. threads[i] \in Threads
  BY ThreadType
<1>2. threads'[i] = IF threads[i].id = id THEN [threads[i] EXCEPT !.report = p] ELSE threads[i]
  BY DEF EditNote
<1> QED BY <1>1, <1>2 DEF Threads

LEMMA ReplyKeepsRoots ==
  ASSUME TypeOK, NEW i \in DOMAIN threads, NEW by \in {"bot", "person"}, ReplyTo(i, by)
  PROVE  RootsKept /\ Rewritten = {}
<1>1. threads[i] \in Threads /\ threads[i].replies \in Seq({"bot", "person"})
  BY ThreadType DEF Threads
<1>2. Append(threads[i].replies, by) # <<>>
  BY <1>1, AppendProperties
<1>3. threads'[i] = [threads[i] EXCEPT !.replies = Append(threads[i].replies, by)]
  BY DEF ReplyTo
<1>4. \A j \in DOMAIN threads : j # i => threads'[j] = threads[j]
  BY DEF ReplyTo
<1>5. DOMAIN threads' = DOMAIN threads
  BY DEF ReplyTo
<1>6. /\ threads'[i].id = threads[i].id
      /\ threads'[i].by = threads[i].by
      /\ threads'[i].marked = threads[i].marked
      /\ threads'[i].report = threads[i].report
      /\ Discussed(threads'[i])
  BY <1>1, <1>2, <1>3 DEF Threads, Discussed
<1> QED BY <1>4, <1>5, <1>6 DEF RootsKept, NotesKept, Rewritten

LEMMA NewThread ==
  ASSUME TypeOK, NEW by \in Authors, NEW marked \in BOOLEAN, NEW report,
         AddThread(by, marked, report)
  PROVE  LET n == Len(threads) + 1 IN
         /\ n \notin DOMAIN threads /\ \A i \in DOMAIN threads : i < n
         /\ DOMAIN threads' = DOMAIN threads \cup {n}
         /\ \A i \in DOMAIN threads : threads'[i] = threads[i]
         /\ threads'[n].id = nextNote
         /\ threads'[n].by = by /\ threads'[n].marked = marked
         /\ threads'[n].report = report
         /\ ~Discussed(threads'[n])
<1> DEFINE n == Len(threads) + 1
           t == [id |-> nextNote, by |-> by, marked |-> marked, report |-> report,
                 replies |-> <<>>]
<1>1. threads' = Append(threads, t) /\ Len(threads) \in Nat /\ DOMAIN threads = 1..Len(threads)
  BY LenProperties DEF TypeOK, AddThread
<1>2. DOMAIN threads' = 1..n /\ threads'[n] = t /\ \A i \in DOMAIN threads : threads'[i] = threads[i]
  <2> HIDE DEF t
  <2> QED BY <1>1
<1>3. t.id = nextNote /\ t.by = by /\ t.marked = marked /\ t.report = report /\ ~Discussed(t)
  BY DEF Discussed
<1>4. n \notin DOMAIN threads /\ DOMAIN threads' = DOMAIN threads \cup {n} /\ \A i \in DOMAIN threads : i < n
  BY <1>1, <1>2
<1> HIDE DEF t
<1> QED BY <1>2, <1>3, <1>4

LEMMA NewThreadBare ==
  ASSUME TypeOK, NEW by \in Authors, NEW marked \in BOOLEAN, NEW report,
         AddThread(by, marked, report)
  PROVE  /\ BareReports' \subseteq BareReports \cup {Len(threads) + 1}
         /\ ~(by = "bot" /\ marked) => BareReports' \subseteq BareReports
BY NewThread DEF BareReports, IsReport

LEMMA KeptRootsKeepBare ==
  ASSUME RootsKept
  PROVE  BareReports' \subseteq BareReports
BY DEF RootsKept, NotesKept, BareReports, IsReport

-----------------------------------------------------------------------------
(* Reports without replies *)

\* BareReportPerReplica is not inductive: calls that have read every page are
\* about to add a report, and calls in the middle of the list rely on the
\* pages behind them.  But each report without replies has a worker of its
\* own, the one that added it: its call, if any, has not passed the report,
\* whose place and bareness last while nobody deletes.
Owners(f) ==
    /\ \A i, j \in BareReports : f[i] = f[j] => i = j
    /\ \A i \in BareReports :
          /\ call[f[i]].pc # "create"
          /\ call[f[i]].pc = "list" => (call[f[i]].page - 1) * PerPage < i

ReplicaInv == TypeOK /\ \E f \in [BareReports -> Workers] : Owners(f)

LEMMA ReplicaInit == Init => ReplicaInv
<1> SUFFICES ASSUME Init PROVE ReplicaInv
  OBVIOUS
<1>1. BareReports = {}
  BY DEF Init, BareReports
<1>2. [i \in {} |-> CHOOSE w \in Workers : TRUE] \in [BareReports -> Workers]
  BY <1>1
<1> QED BY <1>1, <1>2, TypeInit DEF ReplicaInv, Owners

\* Nothing is added, and no call gets past a report.
LEMMA OwnersKept ==
  ASSUME ReplicaInv, TypeOK', BareReports' \subseteq BareReports,
         \A w \in Workers :
            \/ call'[w].pc = call[w].pc /\ call'[w].page = call[w].page
            \/ call'[w].pc \notin {"list", "create"}
            \/ call'[w].pc = "list" /\ call'[w].page = 1
  PROVE  ReplicaInv'
<1>1. PICK f \in [BareReports -> Workers] : Owners(f)
  BY DEF ReplicaInv
<1>2. PICK g \in [BareReports' -> Workers] : \A i \in BareReports' : g[i] = f[i]
  <2>1. [i \in BareReports' |-> f[i]] \in [BareReports' -> Workers]
    OBVIOUS
  <2> QED BY <2>1
<1>3. ASSUME NEW i \in BareReports', call'[g[i]].pc = "list"
      PROVE  (call'[g[i]].page - 1) * PerPage < i
  <2>1. i \in Nat \ {0} /\ PerPage \in Nat
    BY LenProperties, PerPageAssumption DEF ReplicaInv, TypeOK, BareReports
  <2>2. CASE call'[g[i]].page = 1
    BY <2>1, <2>2
  <2>3. CASE call'[g[i]].pc = call[g[i]].pc /\ call'[g[i]].page = call[g[i]].page
    BY <1>1, <1>2, <1>3, <2>3 DEF Owners
  <2> QED BY <1>2, <1>3, <2>2, <2>3
<1>4. \A i \in BareReports' : call'[g[i]].pc # "create"
  BY <1>1, <1>2 DEF Owners
<1>5. \A i, j \in BareReports' : g[i] = g[j] => i = j
  BY <1>1, <1>2 DEF Owners
<1>6. Owners(g)'
  BY <1>3, <1>4, <1>5 DEF Owners
<1> QED BY <1>2, <1>6 DEF ReplicaInv

\* A worker's own steps, beside any number of others.
LEMMA ReplicaUpsert ==
  ASSUME ReplicaInv, TypeOK',
         NEW w \in Workers, Upsert(w) \/ \E p \in Pipelines : Start(w, p)
  PROVE  ReplicaInv'
<1> DEFINE page == call[w].page
<1>0. /\ TypeOK /\ call \in [Workers -> Call]
      /\ page \in Nat /\ PerPage \in Nat
      /\ DOMAIN threads = 1..Len(threads) /\ Len(threads) \in Nat
  BY LenProperties, PerPageAssumption DEF ReplicaInv, TypeOK, Call
<1>1. PICK f \in [BareReports -> Workers] : Owners(f)
  BY DEF ReplicaInv
\* The pages read so far, and the one in hand, hold no report of this worker.
<1>2. ASSUME call[w].pc = "list", ReusableOnPage(w) = {}, NEW i \in BareReports, f[i] = w
      PROVE  page * PerPage < i
  <2>1. (page - 1) * PerPage < i /\ i \in 1..Len(threads)
    BY <1>0, <1>1, <1>2 DEF Owners, BareReports
  <2>2. Reusable(threads[i])
    BY <1>2 DEF BareReports, IsReport, Reusable
  <2>3. i \notin OnPage(w)
    BY <1>2, <2>2 DEF ReusableOnPage
  <2>4. page * PerPage \in Nat
    BY <1>0
  <2> QED BY <1>0, <2>1, <2>3, <2>4 DEF OnPage
<1>3. ASSUME UNCHANGED threads PROVE BareReports' = BareReports
  BY <1>3 DEF BareReports
<1>4. ASSUME NEW v \in Workers, v # w PROVE call'[v] = call[v]
  BY <1>0, <1>4 DEF Upsert, Start, FindNote, NextPage, LastPage, Update, Create, Fail, Return
<1>5. ASSUME NEW p \in Pipelines, Start(w, p) PROVE ReplicaInv'
  <2>1. call'[w].pc = "list" /\ call'[w].page = 1 /\ threads' = threads
    BY <1>0, <1>5 DEF Start
  <2> QED BY <1>3, <1>4, <2>1, OwnersKept
<1>6. CASE FindNote(w)
  <2>1. call'[w].pc = "update" /\ threads' = threads
    BY <1>0, <1>6 DEF FindNote, Call
  <2> QED BY <1>3, <1>4, <2>1, OwnersKept
<1>7. CASE NextPage(w)
  <2>1. call'[w].pc = "list" /\ call'[w].page = page + 1 /\ threads' = threads
    BY <1>0, <1>7 DEF NextPage, Call
  <2>2. \A i \in BareReports : f[i] = w => (call'[w].page - 1) * PerPage < i
    <3>1. call'[w].page - 1 = page
      BY <1>0, <2>1
    <3> QED BY <1>2, <1>7, <3>1 DEF NextPage
  <2>3. Owners(f)'
    BY <1>1, <1>3, <1>4, <2>1, <2>2 DEF Owners
  <2> QED BY <1>1, <1>3, <2>1, <2>3 DEF ReplicaInv
<1>8. CASE LastPage(w)
  <2>1. call'[w].pc = "create" /\ threads' = threads
    BY <1>0, <1>8 DEF LastPage, Call
  <2>2. ASSUME NEW i \in BareReports PROVE f[i] # w
    <3> SUFFICES ASSUME f[i] = w PROVE FALSE
      OBVIOUS
    <3>1. page * PerPage < i /\ page * PerPage >= Len(threads) /\ page * PerPage \in Nat
      BY <1>0, <1>2, <1>8 DEF LastPage
    <3>2. i \in 1..Len(threads)
      BY <1>0 DEF BareReports
    <3> QED BY <1>0, <3>1, <3>2
  <2>3. Owners(f)'
    BY <1>1, <1>3, <1>4, <2>1, <2>2 DEF Owners
  <2> QED BY <1>1, <1>3, <2>1, <2>3 DEF ReplicaInv
<1>9. ASSUME NEW posted, Return(w, posted) PROVE call'[w].pc = "idle"
  BY <1>0, <1>9 DEF Return, Call
<1>10. CASE Update(w)
  <2>1. BareReports' \subseteq BareReports
    BY <1>0, <1>10, EditKeepsRoots, KeptRootsKeepBare DEF Update
  <2>2. call'[w].pc = "idle"
    BY <1>9, <1>10 DEF Update
  <2> QED BY <1>4, <2>1, <2>2, OwnersKept
<1>11. CASE Create(w)
  <2> DEFINE n == Len(threads) + 1
  <2>1. BareReports' \subseteq BareReports \cup {n}
    BY <1>0, <1>11, NewThreadBare DEF Create, Authors
  <2>2. n \notin BareReports
    BY <1>0 DEF BareReports
  <2>3. \A i \in BareReports : f[i] # w
    BY <1>1, <1>11 DEF Owners, Create
  <2>4. call'[w].pc = "idle"
    BY <1>9, <1>11 DEF Create
  <2>5. PICK g \in [BareReports' -> Workers] :
                  \A i \in BareReports' : g[i] = IF i = n THEN w ELSE f[i]
    <3>1. [i \in BareReports' |-> IF i = n THEN w ELSE f[i]] \in [BareReports' -> Workers]
      BY <2>1
    <3> QED BY <3>1
  <2>6. \A i, j \in BareReports' : g[i] = g[j] => i = j
    BY <1>1, <2>1, <2>3, <2>5 DEF Owners
  <2>7. \A i \in BareReports' :
           i # n => i \in BareReports /\ g[i] = f[i] /\ call'[g[i]] = call[g[i]]
    BY <1>1, <1>4, <2>1, <2>3, <2>5
  <2>8. Owners(g)'
    BY <1>1, <2>4, <2>5, <2>6, <2>7 DEF Owners
  <2> QED BY <2>5, <2>8 DEF ReplicaInv
<1>12. CASE Fail(w)
  <2>1. call'[w].pc = "idle" /\ threads' = threads
    BY <1>9, <1>12 DEF Fail
  <2> QED BY <1>3, <1>4, <2>1, OwnersKept
<1> QED BY <1>5, <1>6, <1>7, <1>8, <1>10, <1>11, <1>12 DEF Upsert

\* What happens on the merge request meanwhile, unless something is deleted.
LEMMA EnvironmentKeepsBare ==
  ASSUME "delete" \notin People, TypeOK, Environment
  PROVE  BareReports' \subseteq BareReports /\ UNCHANGED call
<1>1. ASSUME NEW by \in {"person", "system"}, Comment(by) PROVE BareReports' \subseteq BareReports
  BY <1>1, NewThreadBare DEF Comment, Authors
<1>2. CASE Quote
  BY <1>2, NewThreadBare DEF Quote, Acts, Authors
<1>3. ASSUME NEW i \in DOMAIN threads, NEW by \in {"bot", "person"}, ReplyTo(i, by)
      PROVE  BareReports' \subseteq BareReports
  BY <1>3, ReplyKeepsRoots, KeptRootsKeepBare
<1>4. ASSUME NEW i \in DOMAIN threads PROVE ~DeleteReply(i) /\ ~DeleteRoot(i)
  BY DEF DeleteReply, DeleteRoot, Acts
<1> QED BY <1>1, <1>2, <1>3, <1>4 DEF Environment, Comment, Quote, Reply, CommandReply, Acts

LEMMA ReplicaStep ==
  ASSUME "delete" \notin People, ReplicaInv, [Next]_vars
  PROVE  ReplicaInv'
<1>1. TypeOK'
  BY TypeStep DEF ReplicaInv
<1>2. CASE UNCHANGED vars
  BY <1>1, <1>2, OwnersKept DEF vars, BareReports
<1>3. CASE Environment
  BY <1>1, <1>3, EnvironmentKeepsBare, OwnersKept DEF ReplicaInv
<1> QED BY <1>1, <1>2, <1>3, ReplicaUpsert DEF Next

\* The owners are an injection into the workers.
LEMMA OwnersBound ==
  ASSUME IsFiniteSet(Workers), ReplicaInv
  PROVE  IsFiniteSet(BareReports) /\ BareReportPerReplica
<1>1. PICK f \in [BareReports -> Workers] : Owners(f)
  BY DEF ReplicaInv
<1>2. f \in Injection(BareReports, Workers)
  BY <1>1 DEF Owners, Injection, IsInjective
<1> QED BY <1>2, FS_Injection DEF BareReportPerReplica

\* Replicas that race, without any coordination, leave at most one report
\* without replies each: for any number of replicas, pipelines and calls, any
\* page size, whichever requests fail and whatever people say or quote, as
\* long as nobody deletes.
THEOREM ReportPerReplica ==
  ASSUME IsFiniteSet(Workers), "delete" \notin People
  PROVE  Spec => []BareReportPerReplica
<1>1. ReplicaInv /\ [Next]_vars => ReplicaInv'
  BY ReplicaStep
<1>2. ReplicaInv => BareReportPerReplica
  BY OwnersBound
<1> QED BY ReplicaInit, <1>1, <1>2, PTL DEF Spec

\* "One note per MR, never spam": a single worker never leaves two reports
\* without replies, for every page size and whichever requests fail, take
\* effect without an answer, or meet a comment, quote or reply in between.
THEOREM OneReport ==
  ASSUME \A v, w \in Workers : v = w, "delete" \notin People
  PROVE  Spec => []OneBareReport
<1>1. ReplicaInv => OneBareReport
  <2> SUFFICES ASSUME ReplicaInv PROVE OneBareReport
    OBVIOUS
  <2>1. \A i, j \in BareReports : i = j
    BY DEF ReplicaInv, Owners
  <2>2. CASE BareReports = {}
    BY <2>2, FS_EmptySet DEF OneBareReport
  <2>3. CASE BareReports # {}
    <3>1. PICK i : BareReports = {i}
      BY <2>1, <2>3
    <3>2. Cardinality({i}) = 1
      BY FS_Singleton
    <3> QED BY <3>1, <3>2 DEF OneBareReport
  <2> QED BY <2>2, <2>3
<1>2. ReplicaInv /\ [Next]_vars => ReplicaInv'
  BY ReplicaStep
<1> QED BY ReplicaInit, <1>1, <1>2, PTL DEF Spec

-----------------------------------------------------------------------------
(* Whose text a call edits *)

\* The IDs of the root notes tell them apart, and the next one is new.
NotesNumbered ==
    /\ \A i \in DOMAIN threads : threads[i].id < nextNote
    /\ \A i, j \in DOMAIN threads : threads[i].id = threads[j].id => i = j

\* A root note that is not new was there, with the same marker and text.
TextsKept ==
    \A j \in DOMAIN threads' : threads'[j].id < nextNote =>
        \E i \in DOMAIN threads :
            /\ threads'[j].id = threads[i].id
            /\ threads'[j].marked = threads[i].marked
            /\ threads'[j].report = threads[i].report

LEMMA NumberedInit == Init => NotesNumbered
BY DEF Init, NotesNumbered

LEMMA NumberedKept ==
  ASSUME TypeOK, NotesNumbered, NotesKept, UNCHANGED nextNote
  PROVE  NotesNumbered'
BY DEF NotesNumbered, NotesKept

LEMMA KeptTexts ==
  ASSUME RootsKept, Rewritten = {}
  PROVE  TextsKept
BY DEF RootsKept, NotesKept, Rewritten, TextsKept

LEMMA NumberedThread ==
  ASSUME TypeOK, NotesNumbered, NEW by \in Authors, NEW marked \in BOOLEAN, NEW report,
         AddThread(by, marked, report)
  PROVE  NotesNumbered' /\ TextsKept /\ nextNote <= nextNote'
<1>1. nextNote' = nextNote + 1 /\ nextNote \in Nat /\ \A i \in DOMAIN threads : threads[i].id \in Nat
  BY ThreadType DEF TypeOK, AddThread, Threads
<1>2. \A j \in DOMAIN threads' :
         \/ j \in DOMAIN threads /\ threads'[j] = threads[j]
         \/ j = Len(threads) + 1 /\ threads'[j].id = nextNote
  BY NewThread
<1> QED BY <1>1, <1>2 DEF NotesNumbered, TextsKept

LEMMA NumberedUpsert ==
  ASSUME TypeOK, NotesNumbered, NEW w \in Workers,
         Upsert(w) \/ \E p \in Pipelines : Start(w, p)
  PROVE  /\ NotesNumbered' /\ nextNote <= nextNote'
         /\ ~Update(w) => TextsKept
<1>0. nextNote \in Nat
  BY DEF TypeOK
<1>1. CASE UNCHANGED <<threads, nextNote>>
  BY <1>0, <1>1 DEF NotesNumbered, TextsKept
<1>2. CASE Update(w)
  BY <1>0, <1>2, EditKeepsRoots, NumberedKept DEF Update, RootsKept
<1>3. CASE Create(w)
  BY <1>3, NumberedThread DEF Create, Authors
<1> QED BY <1>1, <1>2, <1>3 DEF Upsert, Start, FindNote, NextPage, LastPage, Fail

LEMMA NumberedEnvironment ==
  ASSUME TypeOK, NotesNumbered, Environment
  PROVE  NotesNumbered' /\ TextsKept /\ nextNote <= nextNote' /\ UNCHANGED call
<1>0. /\ nextNote \in Nat /\ Len(threads) \in Nat /\ DOMAIN threads = 1..Len(threads)
      /\ \A i \in DOMAIN threads : threads[i].id \in Nat
  BY ThreadType, LenProperties DEF TypeOK, Threads
<1>1. UNCHANGED call
  BY DEF Environment, Comment, Quote, Reply, CommandReply, DeleteReply, DeleteRoot, Acts
<1>2. ASSUME NEW by \in {"person", "system"}, Comment(by)
      PROVE  NotesNumbered' /\ TextsKept /\ nextNote <= nextNote'
  BY <1>2, NumberedThread DEF Comment, Authors
<1>3. ASSUME Quote
      PROVE  NotesNumbered' /\ TextsKept /\ nextNote <= nextNote'
  BY <1>3, NumberedThread DEF Quote, Authors
<1>4. ASSUME NEW i \in DOMAIN threads, NEW by \in {"bot", "person"}, ReplyTo(i, by), UNCHANGED nextNote
      PROVE  NotesNumbered' /\ TextsKept /\ nextNote <= nextNote'
  BY <1>0, <1>4, ReplyKeepsRoots, KeptTexts, NumberedKept DEF RootsKept
<1>5. ASSUME NEW i \in DOMAIN threads, DeleteReply(i)
      PROVE  NotesNumbered' /\ TextsKept /\ nextNote <= nextNote'
  <2>1. PICK replies : threads' = [threads EXCEPT ![i].replies = replies]
    BY <1>5 DEF DeleteReply
  <2>2. threads[i] \in Threads
    BY ThreadType
  <2>3. /\ DOMAIN threads' = DOMAIN threads
        /\ \A j \in DOMAIN threads : j # i => threads'[j] = threads[j]
        /\ threads'[i] = [threads[i] EXCEPT !.replies = replies]
    BY <2>1
  <2>4. /\ threads'[i].id = threads[i].id /\ threads'[i].by = threads[i].by
        /\ threads'[i].marked = threads[i].marked /\ threads'[i].report = threads[i].report
    BY <2>2, <2>3 DEF Threads
  <2>5. NotesKept
    BY <2>3, <2>4 DEF NotesKept
  <2>6. TextsKept
    BY <2>3, <2>4 DEF TextsKept
  <2> QED BY <1>0, <1>5, <2>5, <2>6, NumberedKept DEF DeleteReply
<1>6. ASSUME NEW i \in DOMAIN threads, DeleteRoot(i)
      PROVE  NotesNumbered' /\ TextsKept /\ nextNote <= nextNote'
  <2>1. CASE threads' = DropThread(i) /\ UNCHANGED nextNote
    <3>1. /\ DOMAIN threads' = 1..(Len(threads) - 1)
          /\ \A j \in DOMAIN threads' : threads'[j] = threads[IF j < i THEN j ELSE j + 1]
      <4>1. threads \in Seq(Threads) /\ i \in 1..Len(threads)
        BY <1>0, <1>6 DEF TypeOK
      <4> QED BY <2>1, <4>1, CutElements DEF DropThread
    <3>2. \A j \in DOMAIN threads' : (IF j < i THEN j ELSE j + 1) \in DOMAIN threads
      BY <1>0, <3>1
    <3>3. TextsKept
      BY <3>1, <3>2 DEF TextsKept
    <3>4. NotesNumbered'
      <4>1. ASSUME NEW a \in DOMAIN threads', NEW b \in DOMAIN threads',
                   threads'[a].id = threads'[b].id
            PROVE  a = b
        <5>1. (IF a < i THEN a ELSE a + 1) = (IF b < i THEN b ELSE b + 1)
          BY <3>1, <3>2, <4>1 DEF NotesNumbered
        <5> QED BY <1>0, <3>1, <5>1
      <4>2. \A j \in DOMAIN threads' : threads'[j].id < nextNote'
        BY <2>1, <3>1, <3>2 DEF NotesNumbered
      <4> QED BY <4>1, <4>2 DEF NotesNumbered
    <3> QED BY <1>0, <2>1, <3>3, <3>4
  <2>2. CASE \E t : threads' = [threads EXCEPT ![i] = t] /\ t.id = nextNote /\ nextNote' = nextNote + 1
    <3>1. /\ DOMAIN threads' = DOMAIN threads /\ threads'[i].id = nextNote
          /\ \A j \in DOMAIN threads : j # i => threads'[j] = threads[j]
      BY <2>2
    <3> QED BY <1>0, <2>2, <3>1 DEF NotesNumbered, TextsKept
  <2>3. CASE threads' # DropThread(i)
    <3> DEFINE old == threads[i].replies
               t == [id |-> nextNote, by |-> Head(old), marked |-> Head(old) = "bot",
                     report |-> NoPipeline, replies |-> Tail(old)]
    <3>1. threads' = [threads EXCEPT ![i] = t] /\ nextNote' = nextNote + 1 /\ t.id = nextNote
      BY <1>6, <2>3 DEF DeleteRoot
    <3> HIDE DEF t
    <3> QED BY <2>2, <3>1
  <2> QED BY <1>6, <2>1, <2>2, <2>3 DEF DeleteRoot
<1> QED BY <1>1, <1>2, <1>3, <1>4, <1>5, <1>6 DEF Environment, Reply, CommandReply

\* A step of one worker leaves the calls of the others alone ...
LEMMA OthersStand ==
  ASSUME TypeOK, NEW w \in Workers, Upsert(w) \/ \E p \in Pipelines : Start(w, p),
         NEW v \in Workers, v # w
  PROVE  call'[v] = call[v]
BY DEF TypeOK, Upsert, Start, FindNote, NextPage, LastPage, Update, Create, Fail, Return

\* ... and is about to edit a note only when it has found it.
LEMMA TargetFound ==
  ASSUME TypeOK, NEW w \in Workers, Upsert(w) \/ \E p \in Pipelines : Start(w, p),
         call'[w].pc = "update"
  PROVE  FindNote(w)
<1>0. call \in [Workers -> Call] /\ call[w] \in Call
  BY DEF TypeOK
<1>1. ASSUME NEW p \in Pipelines, Start(w, p) PROVE call'[w].pc = "list"
  BY <1>0, <1>1 DEF Start
<1>2. CASE NextPage(w)
  <2>1. call'[w].pc = "list"
    BY <1>0, <1>2 DEF NextPage, Call
  <2> QED BY <2>1
<1>3. CASE LastPage(w)
  <2>1. call'[w].pc = "create"
    BY <1>0, <1>3 DEF LastPage, Call
  <2> QED BY <2>1
<1>4. ASSUME NEW posted, Return(w, posted) PROVE call'[w].pc = "idle"
  BY <1>0, <1>4 DEF Return, Call
<1> QED BY <1>1, <1>2, <1>3, <1>4 DEF Upsert, Update, Create, Fail

\* A call remembers what it posts.
LEMMA CallGoesOn ==
  ASSUME TypeOK, NEW w \in Workers, Upsert(w)
  PROVE  call'[w].pipeline = call[w].pipeline /\ call'[w].discussed = call[w].discussed
<1>0. call \in [Workers -> Call] /\ call[w] \in Call
  BY DEF TypeOK
<1>1. CASE FindNote(w)
  BY <1>0, <1>1 DEF FindNote, Call
<1>2. CASE NextPage(w)
  BY <1>0, <1>2 DEF NextPage, Call
<1>3. CASE LastPage(w)
  BY <1>0, <1>3 DEF LastPage, Call
<1>4. ASSUME NEW posted, Return(w, posted)
      PROVE  call'[w].pipeline = call[w].pipeline /\ call'[w].discussed = call[w].discussed
  BY <1>0, <1>4 DEF Return, Call
<1> QED BY <1>1, <1>2, <1>3, <1>4 DEF Upsert, Update, Create, Fail

\* What a call edits is its target.
LEMMA EditsTarget ==
  ASSUME TypeOK, NotesNumbered, NEW w \in Workers, Update(w), NEW id, id # call[w].target
  PROVE  ~Edited(id)
<1>1. /\ NotesKept
      /\ \A j \in DOMAIN threads : threads[j].id # call[w].target =>
            threads'[j].report = threads[j].report
  BY EditKeepsRoots DEF Update, RootsKept
<1> QED BY <1>1 DEF Edited, NotesKept, NotesNumbered

\* UnmarkedUntouched needs to know of the note a call is about to edit: it is
\* an old one, and if it is still there, it bears the marker.
MarkedInv ==
    /\ TypeOK
    /\ NotesNumbered
    /\ \A w \in Workers : call[w].pc = "update" =>
          /\ call[w].target < nextNote
          /\ \A i \in DOMAIN threads : threads[i].id = call[w].target => threads[i].marked

LEMMA MarkedInit == Init => MarkedInv
BY TypeInit, NumberedInit DEF Init, MarkedInv

LEMMA MarkedStep == MarkedInv /\ [Next]_vars => MarkedInv'
<1> SUFFICES ASSUME MarkedInv, [Next]_vars PROVE MarkedInv'
  OBVIOUS
<1>0. /\ TypeOK /\ TypeOK' /\ NotesNumbered /\ nextNote \in Nat /\ call \in [Workers -> Call]
  BY TypeStep DEF MarkedInv, TypeOK
<1>1. CASE UNCHANGED vars
  BY <1>1 DEF vars, MarkedInv, TypeOK, NotesNumbered
\* The targets of the other calls keep their marker.
<1>2. ASSUME NEW v \in Workers, UNCHANGED call[v], call[v].pc = "update",
             nextNote <= nextNote', TextsKept \/ NotesKept
      PROVE  /\ call'[v].target < nextNote'
             /\ \A i \in DOMAIN threads' : threads'[i].id = call'[v].target => threads'[i].marked
  <2>1. call[v].target \in Nat /\ nextNote' \in Nat /\ call[v].target < nextNote
    BY <1>0, <1>2 DEF MarkedInv, TypeOK, Call
  <2> QED BY <1>0, <1>2, <2>1 DEF MarkedInv, TextsKept, NotesKept
<1>3. CASE Environment
  BY <1>0, <1>2, <1>3, NumberedEnvironment DEF MarkedInv
<1>4. ASSUME NEW w \in Workers, Upsert(w) \/ \E p \in Pipelines : Start(w, p) PROVE MarkedInv'
  <2>1. NotesNumbered' /\ nextNote <= nextNote' /\ (TextsKept \/ NotesKept)
    BY <1>0, <1>4, NumberedUpsert, EditKeepsRoots DEF Update, RootsKept
  <2>2. \A v \in Workers : v # w => call'[v] = call[v]
    BY <1>0, <1>4, OthersStand
  <2>3. ASSUME call'[w].pc = "update"
        PROVE  /\ call'[w].target < nextNote'
               /\ \A i \in DOMAIN threads' : threads'[i].id = call'[w].target => threads'[i].marked
    <3>1. FindNote(w)
      BY <1>0, <1>4, <2>3, TargetFound
    <3>2. PICK i \in ReusableOnPage(w) : call'[w].target = threads[i].id
      BY <1>0, <3>1 DEF FindNote, Call
    <3>3. i \in DOMAIN threads /\ threads[i].marked
      BY <3>2 DEF ReusableOnPage, OnPage, Reusable
    <3>4. UNCHANGED <<threads, nextNote>>
      BY <3>1 DEF FindNote
    <3> QED BY <1>0, <3>2, <3>3, <3>4 DEF NotesNumbered
  <2> QED BY <1>0, <1>2, <2>1, <2>2, <2>3 DEF MarkedInv
<1> QED BY <1>1, <1>3, <1>4 DEF Next

\* A call edits no note without the marker: not for any number of replicas,
\* pipelines and people, who may quote reports and delete notes, the root
\* notes of discussions included, between the listing and the edit.
THEOREM UnmarkedNotesUntouched == Spec => UnmarkedUntouched
<1>1. ASSUME MarkedInv, [Next]_vars, NEW i \in DOMAIN threads, ~threads[i].marked
      PROVE  ~Edited(threads[i].id)
  <2>0. TypeOK /\ NotesNumbered /\ call \in [Workers -> Call]
    BY <1>1 DEF MarkedInv, TypeOK
  <2>1. CASE TextsKept
    BY <2>0, <2>1 DEF Edited, TextsKept, NotesNumbered
  <2>2. ASSUME NEW w \in Workers, Update(w) PROVE ~Edited(threads[i].id)
    <3>1. threads[i].id # call[w].target
      BY <1>1, <2>2 DEF MarkedInv, Update
    <3> QED BY <2>0, <2>2, <3>1, EditsTarget
  <2>3. CASE UNCHANGED vars
    <3>1. TextsKept
      BY <2>3 DEF vars, TextsKept
    <3> QED BY <2>1, <3>1
  <2> QED BY <1>1, <2>0, <2>1, <2>2, <2>3, NumberedUpsert, NumberedEnvironment DEF Next
<1>2. MarkedInv /\ [Next]_vars => [\A i \in DOMAIN threads : ~threads[i].marked => ~Edited(threads[i].id)]_vars
  BY <1>1
<1> QED BY MarkedInit, MarkedStep, <1>2, PTL DEF Spec, UnmarkedUntouched

-----------------------------------------------------------------------------
(* Reports under discussion *)

\* Every root note is still there, discussed if it was.
Grows ==
    \A i \in DOMAIN threads :
        /\ i \in DOMAIN threads'
        /\ threads'[i].id = threads[i].id
        /\ Discussed(threads[i]) => Discussed(threads'[i])

LEMMA KeptRootsGrow == RootsKept => Grows
BY DEF RootsKept, NotesKept, Grows

LEMMA NewThreadGrows ==
  ASSUME TypeOK, NEW by \in Authors, NEW marked \in BOOLEAN, NEW report,
         AddThread(by, marked, report)
  PROVE  Grows
BY NewThread DEF Grows

LEMMA UpsertGrows ==
  ASSUME TypeOK, NEW w \in Workers, Upsert(w) \/ \E p \in Pipelines : Start(w, p)
  PROVE  Grows
<1>1. CASE UNCHANGED threads
  BY <1>1 DEF Grows
<1>2. CASE Update(w)
  BY <1>2, EditKeepsRoots, KeptRootsGrow DEF Update
<1>3. CASE Create(w)
  BY <1>3, NewThreadGrows DEF Create, Authors
<1> QED BY <1>1, <1>2, <1>3 DEF Upsert, Start, FindNote, NextPage, LastPage, Fail

LEMMA EnvironmentGrows ==
  ASSUME "delete" \notin People, TypeOK, Environment
  PROVE  Grows
<1>1. ASSUME NEW by \in {"person", "system"}, Comment(by) PROVE Grows
  BY <1>1, NewThreadGrows DEF Comment, Authors
<1>2. CASE Quote
  BY <1>2, NewThreadGrows DEF Quote, Authors
<1>3. ASSUME NEW i \in DOMAIN threads, NEW by \in {"bot", "person"}, ReplyTo(i, by) PROVE Grows
  BY <1>3, ReplyKeepsRoots, KeptRootsGrow
<1>4. ASSUME NEW i \in DOMAIN threads PROVE ~DeleteReply(i) /\ ~DeleteRoot(i)
  BY DEF DeleteReply, DeleteRoot, Acts
<1> QED BY <1>1, <1>2, <1>3, <1>4 DEF Environment, Reply, CommandReply

\* The reports that had replies when a call was made still have them, so the
\* note the call finds, without replies and under an ID of its own, is none
\* of them.
DiscussedInv ==
    /\ TypeOK
    /\ NotesNumbered
    /\ \A w \in Workers :
          /\ \A id \in call[w].discussed :
                \E i \in DOMAIN threads : threads[i].id = id /\ Discussed(threads[i])
          /\ call[w].pc = "update" => call[w].target \notin call[w].discussed

LEMMA DiscussedInit == Init => DiscussedInv
BY TypeInit, NumberedInit DEF Init, DiscussedInv

\* The steps of other workers and of people.
LEMMA DiscussedElsewhere ==
  ASSUME DiscussedInv, Grows, NEW v \in Workers, UNCHANGED call[v]
  PROVE  /\ \A id \in call'[v].discussed :
               \E i \in DOMAIN threads' : threads'[i].id = id /\ Discussed(threads'[i])
         /\ call'[v].pc = "update" => call'[v].target \notin call'[v].discussed
BY DEF DiscussedInv, Grows

LEMMA DiscussedUpsert ==
  ASSUME DiscussedInv, TypeOK',
         NEW w \in Workers, Upsert(w) \/ \E p \in Pipelines : Start(w, p)
  PROVE  DiscussedInv'
<1>0. /\ TypeOK /\ NotesNumbered /\ NotesNumbered' /\ Grows
      /\ call \in [Workers -> Call] /\ call[w] \in Call
  BY NumberedUpsert, UpsertGrows DEF DiscussedInv, TypeOK
<1>1. \A v \in Workers : v # w => call'[v] = call[v]
  BY <1>0, OthersStand
<1>2. ASSUME NEW p \in Pipelines, Start(w, p) PROVE DiscussedInv'
  <2>1. call'[w].discussed = DiscussedReportIds /\ call'[w].pc = "list" /\ threads' = threads
    BY <1>0, <1>2 DEF Start
  <2>2. \A id \in DiscussedReportIds :
           \E i \in DOMAIN threads : threads[i].id = id /\ Discussed(threads[i])
    BY DEF DiscussedReportIds
  <2> QED BY <1>0, <1>1, <2>1, <2>2, DiscussedElsewhere DEF DiscussedInv
<1>3. CASE Upsert(w)
  <2>1. call'[w].discussed = call[w].discussed
    BY <1>0, <1>3, CallGoesOn
  <2>2. \A id \in call[w].discussed :
           \E i \in DOMAIN threads' : threads'[i].id = id /\ Discussed(threads'[i])
    BY <1>0 DEF DiscussedInv, Grows
  <2>3. ASSUME call'[w].pc = "update" PROVE call'[w].target \notin call[w].discussed
    <3>1. FindNote(w)
      BY <1>0, <2>3, TargetFound
    <3>2. PICK i \in ReusableOnPage(w) : call'[w].target = threads[i].id
      BY <1>0, <3>1 DEF FindNote, Call
    <3>3. i \in DOMAIN threads /\ ~Discussed(threads[i])
      BY <3>2 DEF ReusableOnPage, OnPage, Reusable
    <3> QED BY <1>0, <3>2, <3>3 DEF DiscussedInv, NotesNumbered
  <2> QED BY <1>0, <1>1, <2>1, <2>2, <2>3, DiscussedElsewhere DEF DiscussedInv
<1> QED BY <1>2, <1>3

LEMMA DiscussedStep ==
  ASSUME "delete" \notin People, DiscussedInv, [Next]_vars
  PROVE  DiscussedInv'
<1>0. TypeOK /\ TypeOK' /\ NotesNumbered
  BY TypeStep DEF DiscussedInv
<1>1. CASE UNCHANGED vars
  BY <1>0, <1>1 DEF vars, DiscussedInv, NotesNumbered
<1>2. CASE Environment
  BY <1>0, <1>2, NumberedEnvironment, EnvironmentGrows, DiscussedElsewhere DEF DiscussedInv
<1> QED BY <1>0, <1>1, <1>2, DiscussedUpsert DEF Next

\* "A report note whose thread has grown replies is left untouched": no call,
\* of any number of replicas, edits a report that had replies when the call
\* was made, over however many pages and requests it comes to its edit and
\* whatever people say or quote meanwhile, as long as nobody deletes.
THEOREM DiscussedReportsLeftAlone ==
  ASSUME "delete" \notin People
  PROVE  Spec => DiscussedEarlierLeftAlone
<1>1. DiscussedInv /\ [Next]_vars => DiscussedInv'
  BY DiscussedStep
<1>2. DiscussedInv =>
        \A w \in Workers : Update(w) => \A id \in call[w].discussed : ~Edited(id)
  BY EditsTarget DEF DiscussedInv, Update
<1>3. DiscussedInv /\ [Next]_vars =>
        [\A w \in Workers : Update(w) => \A id \in call[w].discussed : ~Edited(id)]_vars
  BY <1>2
<1> QED BY DiscussedInit, <1>1, <1>3, PTL DEF Spec, DiscussedEarlierLeftAlone

-----------------------------------------------------------------------------
(* One worker implements the board *)

OneWorker == \A v, w \in Workers : v = w
PeopleTalk == People \subseteq {"comment", "reply"}

\* The reports of a single worker stand in line: the last one is the only
\* one that may be without replies, so it is what a call finds, and what the
\* last successful call has posted.
LineInv ==
    /\ ReplicaInv
    /\ NotesNumbered
    /\ \A i \in DOMAIN threads : threads[i].marked => threads[i].by = "bot"
    /\ ReportPlaces # {} => \E i \in ReportPlaces : LastPlace(i)
    /\ \A i \in BareReports : LastPlace(i)
    /\ \A w \in Workers :
          /\ call[w].pc # "idle" => call[w].pipeline \in Pipelines
          /\ call[w].pc = "update" =>
                \E i \in ReportPlaces : LastPlace(i) /\ threads[i].id = call[w].target
          /\ call[w].pc = "idle" /\ call[w].posted =>
                \E i \in ReportPlaces : LastPlace(i) /\ threads[i].report = call[w].pipeline

LEMMA LineInit == Init => LineInv
<1> SUFFICES ASSUME Init PROVE LineInv
  OBVIOUS
<1>1. ReplicaInv /\ NotesNumbered
  BY ReplicaInit, NumberedInit
<1> QED BY <1>1 DEF LineInv, Init, ReportPlaces, BareReports

\* Nothing is posted: at most a report without replies gets one.
Quiet ==
    /\ ReportPlaces' = ReportPlaces
    /\ \A i \in ReportPlaces :
          /\ threads'[i].id = threads[i].id
          /\ threads'[i].report = threads[i].report
          /\ Discussed(threads[i]) => Discussed(threads'[i])

LEMMA QuietLine ==
  ASSUME LineInv, Quiet
  PROVE  /\ \A i \in ReportPlaces : LastPlace(i)' <=> LastPlace(i)
         /\ ReportPlaces' # {} => \E i \in ReportPlaces' : LastPlace(i)'
         /\ \A i \in BareReports' : LastPlace(i)'
BY DEF LineInv, Quiet, LastPlace, BareReports, ReportPlaces

LEMMA QuietBoard ==
  ASSUME Quiet
  PROVE  [Board!Next]_(Board!vars)
<1>1. Reports' = Reports
  BY DEF Quiet, Reports
<1>2. LastDiscussed => LastDiscussed'
  BY DEF Quiet, LastDiscussed, LastPlace
<1>3. LastDiscussed' => DOMAIN Reports # {}
  BY DEF Quiet, LastDiscussed, Reports
<1>4. LastDiscussed \in BOOLEAN /\ LastDiscussed' \in BOOLEAN
  BY DEF LastDiscussed
<1> QED BY <1>1, <1>2, <1>3, <1>4 DEF Board!Next, Board!Discuss, Board!vars

LEMMA CommentIsQuiet ==
  ASSUME LineInv, NEW by \in {"person", "system"}, Comment(by)
  PROVE  /\ Quiet
         /\ \A i \in DOMAIN threads' : threads'[i].marked => threads'[i].by = "bot"
<1> DEFINE n == Len(threads) + 1
<1>1. /\ n \notin DOMAIN threads /\ DOMAIN threads' = DOMAIN threads \cup {n}
      /\ \A i \in DOMAIN threads : threads'[i] = threads[i]
      /\ threads'[n].marked = FALSE
  BY NewThread DEF Comment, Authors, LineInv, ReplicaInv
<1> QED BY <1>1 DEF Quiet, ReportPlaces, IsReport, LineInv

LEMMA ReplyIsQuiet ==
  ASSUME LineInv, NEW i \in DOMAIN threads, NEW by \in {"bot", "person"}, ReplyTo(i, by)
  PROVE  /\ Quiet
         /\ \A j \in DOMAIN threads' : threads'[j].marked => threads'[j].by = "bot"
<1>1. RootsKept /\ Rewritten = {}
  BY ReplyKeepsRoots DEF LineInv, ReplicaInv
<1> QED BY <1>1 DEF RootsKept, NotesKept, Rewritten, Quiet, ReportPlaces, IsReport, LineInv

LEMMA TalkIsQuiet ==
  ASSUME PeopleTalk, LineInv, Environment
  PROVE  /\ Quiet /\ UNCHANGED call
         /\ \A i \in DOMAIN threads' : threads'[i].marked => threads'[i].by = "bot"
<1>1. ~Quote /\ \A i \in DOMAIN threads : ~DeleteReply(i) /\ ~DeleteRoot(i)
  BY DEF PeopleTalk, Quote, DeleteReply, DeleteRoot, Acts
<1> QED BY <1>1, CommentIsQuiet, ReplyIsQuiet DEF Environment, Comment, Reply, CommandReply, Acts

\* The edit rewrites the last report, and nothing else.
LEMMA UpdateEditsLast ==
  ASSUME LineInv, NEW w \in Workers, Update(w)
  PROVE  /\ RootsKept /\ call[w].pipeline \in Pipelines
         /\ \A i \in DOMAIN threads : Discussed(threads'[i]) <=> Discussed(threads[i])
         /\ \E i \in ReportPlaces :
               /\ LastPlace(i)
               /\ threads'[i].report = call[w].pipeline
               /\ \A j \in DOMAIN threads : j # i => threads'[j].report = threads[j].report
<1>1. PICK i \in ReportPlaces : LastPlace(i) /\ threads[i].id = call[w].target
  BY DEF LineInv, Update
<1>2. i \in DOMAIN threads /\ \A j \in DOMAIN threads : threads[j].id = call[w].target <=> j = i
  BY <1>1 DEF LineInv, NotesNumbered, ReportPlaces
<1>3. /\ RootsKept
      /\ \A j \in DOMAIN threads :
            /\ threads'[j].report =
                  IF threads[j].id = call[w].target THEN call[w].pipeline ELSE threads[j].report
            /\ Discussed(threads'[j]) <=> Discussed(threads[j])
  BY EditKeepsRoots DEF Update, LineInv, ReplicaInv
<1> QED BY <1>1, <1>2, <1>3 DEF LineInv, Update

\* The new report stands behind the others, which all have replies.
LEMMA CreateAddsLast ==
  ASSUME LineInv, OneWorker, NEW w \in Workers, Create(w)
  PROVE  LET n == Len(threads) + 1 IN
         /\ n \notin DOMAIN threads /\ \A i \in DOMAIN threads : i < n
         /\ DOMAIN threads' = DOMAIN threads \cup {n}
         /\ \A i \in DOMAIN threads : threads'[i] = threads[i]
         /\ threads'[n].by = "bot" /\ threads'[n].marked = TRUE
         /\ threads'[n].report = call[w].pipeline
         /\ ~Discussed(threads'[n])
         /\ BareReports = {} /\ call[w].pipeline \in Pipelines
<1>1. PICK f \in [BareReports -> Workers] : Owners(f)
  BY DEF LineInv, ReplicaInv
<1>2. BareReports = {}
  BY <1>1 DEF Owners, Create, OneWorker
<1>3. call[w].pipeline \in Pipelines
  BY DEF LineInv, Create
<1>4. TypeOK /\ AddThread("bot", TRUE, call[w].pipeline) /\ "bot" \in Authors
  BY DEF LineInv, ReplicaInv, Create, Authors
<1> QED BY <1>2, <1>3, <1>4, NewThread

LEMMA UpdateLine ==
  ASSUME LineInv, OneWorker, ReplicaInv', NotesNumbered', NEW w \in Workers, Update(w)
  PROVE  LineInv' /\ [Board!Next]_(Board!vars)
<1>0. call \in [Workers -> Call] /\ call[w] \in Call
  BY DEF LineInv, ReplicaInv, TypeOK
<1>1. PICK i \in ReportPlaces :
        /\ LastPlace(i)
        /\ threads'[i].report = call[w].pipeline
        /\ \A j \in DOMAIN threads : j # i => threads'[j].report = threads[j].report
  BY UpdateEditsLast
<1>2. /\ RootsKept /\ call[w].pipeline \in Pipelines
      /\ \A j \in DOMAIN threads : Discussed(threads'[j]) <=> Discussed(threads[j])
  BY UpdateEditsLast
<1>3. ReportPlaces' = ReportPlaces
  BY <1>2 DEF RootsKept, NotesKept, ReportPlaces, IsReport
<1>4. \A j \in ReportPlaces : LastPlace(j)' <=> LastPlace(j)
  BY <1>3 DEF LastPlace
<1>5. call'[w].pc = "idle" /\ call'[w].pipeline = call[w].pipeline
  BY <1>0 DEF Update, Return, Call
<1>6. LineInv'
  <2>1. \A j \in DOMAIN threads' : threads'[j].marked => threads'[j].by = "bot"
    BY <1>2 DEF LineInv, RootsKept, NotesKept
  <2>2. \A j \in BareReports' : LastPlace(j)'
    BY <1>2, <1>4, KeptRootsKeepBare DEF LineInv, BareReports, ReportPlaces
  <2>3. LastPlace(i)' /\ i \in ReportPlaces'
    BY <1>1, <1>3, <1>4
  <2>4. \A v \in Workers : v = w
    BY DEF OneWorker
  <2> QED BY <1>1, <1>5, <2>1, <2>2, <2>3, <2>4 DEF LineInv
<1>7. Board!Edit(call[w].pipeline)
  <2>1. Reports' = [Reports EXCEPT ![i] = call[w].pipeline]
    BY <1>1, <1>3 DEF Reports, ReportPlaces
  <2>2. Board!Last(i)
    BY <1>1 DEF Board!Last, Reports, LastPlace
  <2>3. i \in DOMAIN Reports
    BY DEF Reports
  <2>4. LastDiscussed' = LastDiscussed
    <3>1. ReportPlaces \subseteq Nat
      BY LenProperties DEF ReportPlaces, LineInv, ReplicaInv, TypeOK
    <3>2. \A j \in ReportPlaces : LastPlace(j) <=> j = i
      BY <1>1, <3>1 DEF LastPlace
    <3>3. LastDiscussed <=> Discussed(threads[i])
      BY <3>2 DEF LastDiscussed
    <3>4. LastDiscussed' <=> Discussed(threads'[i])
      BY <1>3, <1>4, <3>2 DEF LastDiscussed
    <3>5. Discussed(threads'[i]) <=> Discussed(threads[i])
      BY <1>2 DEF ReportPlaces
    <3>6. LastDiscussed \in BOOLEAN /\ LastDiscussed' \in BOOLEAN
      BY DEF LastDiscussed
    <3> QED BY <3>3, <3>4, <3>5, <3>6
  <2> QED BY <2>1, <2>2, <2>3, <2>4 DEF Board!Edit
<1> QED BY <1>2, <1>6, <1>7 DEF Board!Next

LEMMA CreateLine ==
  ASSUME LineInv, OneWorker, ReplicaInv', NotesNumbered', NEW w \in Workers, Create(w)
  PROVE  LineInv' /\ [Board!Next]_(Board!vars)
<1>0. call \in [Workers -> Call] /\ call[w] \in Call
  BY DEF LineInv, ReplicaInv, TypeOK
<1>1. PICK n :
      /\ n \in Nat /\ n \notin DOMAIN threads /\ \A i \in DOMAIN threads : i < n
      /\ DOMAIN threads' = DOMAIN threads \cup {n}
      /\ \A i \in DOMAIN threads : threads'[i] = threads[i]
      /\ threads'[n].by = "bot" /\ threads'[n].marked = TRUE
      /\ threads'[n].report = call[w].pipeline
      /\ ~Discussed(threads'[n])
      /\ BareReports = {} /\ call[w].pipeline \in Pipelines
  <2>1. Len(threads) + 1 \in Nat
    BY LenProperties DEF LineInv, ReplicaInv, TypeOK
  <2> QED BY <2>1, CreateAddsLast
<1>2. \A i \in DOMAIN threads : i \in Nat
  BY LenProperties DEF LineInv, ReplicaInv, TypeOK
<1>3. ReportPlaces' = ReportPlaces \cup {n} /\ ReportPlaces \subseteq DOMAIN threads
  BY <1>1 DEF ReportPlaces, IsReport
<1>4. \A i \in ReportPlaces' : LastPlace(i)' <=> i = n
  BY <1>1, <1>2, <1>3 DEF LastPlace
<1>5. call'[w].pc = "idle" /\ call'[w].pipeline = call[w].pipeline
  BY <1>0 DEF Create, Return, Call
<1>6. LineInv'
  <2>1. \A j \in DOMAIN threads' : threads'[j].marked => threads'[j].by = "bot"
    BY <1>1 DEF LineInv
  <2>2. BareReports' \subseteq {n}
    BY <1>1 DEF BareReports
  <2>3. \A v \in Workers : v = w
    BY DEF OneWorker
  <2>4. n \in ReportPlaces' /\ LastPlace(n)'
    BY <1>3, <1>4
  <2>5. \A j \in BareReports' : LastPlace(j)'
    BY <2>2, <2>4
  <2> QED BY <1>1, <1>5, <2>1, <2>3, <2>4, <2>5 DEF LineInv
<1>7. Board!Add(call[w].pipeline)
  <2>1. ReportPlaces = {} \/ LastDiscussed
    BY <1>1 DEF LineInv, LastDiscussed, ReportPlaces, BareReports
  <2>2. LastDiscussed' = FALSE
    BY <1>1, <1>3, <1>4 DEF LastDiscussed, LastPlace
  <2>3. /\ DOMAIN Reports = ReportPlaces /\ DOMAIN Reports' = ReportPlaces'
        /\ \A m \in ReportPlaces : m < n
    BY <1>1, <1>3 DEF Reports
  <2>4. Reports' = [m \in DOMAIN Reports \cup {n} |->
                      IF m = n THEN call[w].pipeline ELSE Reports[m]]
    BY <1>1, <1>3, <2>3 DEF Reports
  <2> QED BY <1>3, <2>1, <2>2, <2>3, <2>4 DEF Board!Add
<1> QED BY <1>1, <1>6, <1>7 DEF Board!Next

\* The requests of a call that only read, and its start.
LEMMA ReadLine ==
  ASSUME LineInv, OneWorker, ReplicaInv', NotesNumbered', UNCHANGED threads, NEW w \in Workers,
         \/ FindNote(w) \/ NextPage(w) \/ LastPage(w) \/ Fail(w)
         \/ \E p \in Pipelines : Start(w, p)
  PROVE  LineInv' /\ [Board!Next]_(Board!vars)
<1>0. TypeOK /\ call \in [Workers -> Call] /\ call[w] \in Call
  BY DEF LineInv, ReplicaInv, TypeOK
<1>1. Quiet
  BY DEF Quiet, ReportPlaces
<1>2. call'[w].pc # "idle" => call'[w].pipeline \in Pipelines
  <2>1. CASE call[w].pc # "idle" /\ Upsert(w)
    BY <1>0, <2>1, CallGoesOn DEF LineInv
  <2>2. ASSUME NEW p \in Pipelines, Start(w, p) PROVE call'[w].pipeline = p
    BY <1>0, <2>2 DEF Start
  <2> QED BY <2>1, <2>2 DEF Upsert, FindNote, NextPage, LastPage, Fail
<1>3. call'[w].pc = "update" =>
        \E i \in ReportPlaces : LastPlace(i) /\ threads[i].id = call'[w].target
  <2> SUFFICES ASSUME call'[w].pc = "update"
      PROVE  \E i \in ReportPlaces : LastPlace(i) /\ threads[i].id = call'[w].target
    OBVIOUS
  <2>1. FindNote(w)
    BY <1>0, TargetFound DEF Upsert
  <2>2. PICK i \in ReusableOnPage(w) : call'[w].target = threads[i].id
    BY <1>0, <2>1 DEF FindNote, Call
  <2>3. i \in BareReports
    BY <2>2 DEF ReusableOnPage, OnPage, Reusable, BareReports, IsReport, LineInv
  <2> QED BY <2>2, <2>3 DEF LineInv, BareReports, ReportPlaces
<1>4. ~(call'[w].pc = "idle" /\ call'[w].posted)
  <2>1. CASE FindNote(w)
    BY <1>0, <2>1 DEF FindNote, Call
  <2>2. CASE NextPage(w)
    <3>1. call'[w].pc = "list"
      BY <1>0, <2>2 DEF NextPage, Call
    <3> QED BY <3>1
  <2>3. CASE LastPage(w)
    BY <1>0, <2>3 DEF LastPage, Call
  <2>4. CASE Fail(w)
    <3>1. call'[w].posted = FALSE
      BY <1>0, <2>4 DEF Fail, Return, Call
    <3> QED BY <3>1
  <2>5. ASSUME NEW p \in Pipelines, Start(w, p) PROVE call'[w].pc = "list"
    BY <1>0, <2>5 DEF Start
  <2> QED BY <2>1, <2>2, <2>3, <2>4, <2>5
<1>5. \A v \in Workers : v = w
  BY DEF OneWorker
<1>6. LineInv'
  BY <1>1, <1>2, <1>3, <1>4, <1>5, QuietLine DEF LineInv, ReportPlaces, LastPlace
<1> QED BY <1>1, <1>6, QuietBoard

LEMMA WorkerLine ==
  ASSUME LineInv, OneWorker, ReplicaInv',
         NEW w \in Workers, Upsert(w) \/ \E p \in Pipelines : Start(w, p)
  PROVE  LineInv' /\ [Board!Next]_(Board!vars)
<1>1. NotesNumbered'
  BY NumberedUpsert DEF LineInv, ReplicaInv
<1>2. CASE Update(w)
  BY <1>1, <1>2, UpdateLine
<1>3. CASE Create(w)
  BY <1>1, <1>3, CreateLine
<1>4. CASE \/ FindNote(w) \/ NextPage(w) \/ LastPage(w) \/ Fail(w)
           \/ \E p \in Pipelines : Start(w, p)
  <2>1. UNCHANGED threads
    BY <1>4 DEF FindNote, NextPage, LastPage, Fail, Start
  <2> QED BY <1>1, <1>4, <2>1, ReadLine
<1> QED BY <1>2, <1>3, <1>4 DEF Upsert

\* Steps after which every report stands as before, and the calls too.
LEMMA QuietStep ==
  ASSUME LineInv, ReplicaInv', NotesNumbered', Quiet, UNCHANGED call,
         \A i \in DOMAIN threads' : threads'[i].marked => threads'[i].by = "bot"
  PROVE  LineInv' /\ [Board!Next]_(Board!vars)
BY QuietLine, QuietBoard DEF LineInv, Quiet

LEMMA LineStep ==
  ASSUME OneWorker, PeopleTalk, LineInv, [Next]_vars
  PROVE  LineInv' /\ [Board!Next]_(Board!vars)
<1>0. TypeOK /\ "delete" \notin People
  BY DEF LineInv, ReplicaInv, PeopleTalk
<1>1. ReplicaInv'
  BY <1>0, ReplicaStep DEF LineInv
<1>2. CASE UNCHANGED vars
  <2>1. Quiet /\ NotesNumbered' /\ UNCHANGED call
    BY <1>2 DEF vars, Quiet, ReportPlaces, LineInv, NotesNumbered
  <2> QED BY <1>1, <1>2, <2>1, QuietStep DEF vars, LineInv
<1>3. CASE Environment
  <2>1. NotesNumbered'
    BY <1>0, <1>3, NumberedEnvironment DEF LineInv
  <2> QED BY <1>1, <1>3, <2>1, TalkIsQuiet, QuietStep
<1> QED BY <1>1, <1>2, <1>3, WorkerLine DEF Next

\* What a reader finds, once an upsert has been answered with success and
\* until the next one starts: behind every other report, the one it posted.
\* For one worker, any number of pipelines and any page size, whichever
\* requests failed before and whatever people comment and reply; a quoted or
\* a deleted report breaks it.
THEOREM NewestReport ==
  ASSUME OneWorker, PeopleTalk
  PROVE  Spec => []NewestReportIsPosted
<1>1. LineInv /\ [Next]_vars => LineInv'
  BY LineStep
<1>2. LineInv => NewestReportIsPosted
  BY DEF LineInv, NewestReportIsPosted, LastPlace, ReportPlaces
<1> QED BY LineInit, <1>1, <1>2, PTL DEF Spec

LEMMA BoardInit == Init => Board!Init
BY DEF Init, Board!Init, Reports, LastDiscussed, LastPlace, ReportPlaces

\* The calls of one worker, page by page and request by request, implement
\* ReportBoard: readers only ever see the last report change, and a new one
\* is added only when there is none or the last is under discussion.
THEOREM PostingImplementsBoard ==
  ASSUME OneWorker, PeopleTalk
  PROVE  Spec => ImplementsBoard
<1>1. LineInv /\ [Next]_vars => LineInv' /\ [Board!Next]_(Board!vars)
  BY LineStep
<1> QED BY LineInit, BoardInit, <1>1, PTL DEF Spec, ImplementsBoard, Board!Spec
=============================================================================
