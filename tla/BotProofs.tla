----------------------------- MODULE BotProofs -----------------------------
(***************************************************************************)
(* Proofs about Bot, for any number of replicas, pipelines, notes,         *)
(* deliveries and restarts: type correctness, how often a command can be   *)
(* answered and what about, and that what UpsertNoteProofs shows of the    *)
(* reports survives the service around it.  For one replica: the service   *)
(* implements ReportBoard, and reports appear in the order of the          *)
(* deliveries.                                                             *)
(***************************************************************************)
EXTENDS Bot, UpsertNoteProofs

-----------------------------------------------------------------------------
(* Types *)

\* A job has what its step needs, and a call of UpsertNote is under way
\* exactly while the job is at that step.
JobOK(w) ==
    /\ Step(w) \in {"resolve", "build", "answer"} => job[w].pipeline \in Pipelines
    /\ Step(w) \in {"authorize", "answer"} =>
          job[w].event \in NoteEvents /\ job[w].event.note \in seen[w]
    /\ Step(w) = "upsert" <=> call[w].pc # "idle"

BotInv == BotTypeOK /\ \A w \in Workers : JobOK(w)

LEMMA IdleType == Idle \in Job
BY DEF Idle, Job

LEMMA BotTypeInit == BotInit => BotInv
<1> SUFFICES ASSUME BotInit PROVE BotInv
  OBVIOUS
<1>1. TypeOK
  BY TypeInit DEF BotInit
<1>2. job \in [Workers -> Job] /\ queue \in [Workers -> Seq(Events)] /\ answers \in Seq(Answer)
  BY IdleType DEF BotInit
<1>3. \A w \in Workers : Len(queue[w]) <= QueueSize
  BY QueueSizeAssumption DEF BotInit
<1>4. BotTypeOK
  BY <1>1, <1>2, <1>3, BotBoundsAssumption DEF BotTypeOK, BotInit
<1>5. \A w \in Workers : JobOK(w)
  BY DEF BotInit, Init, JobOK, Step, Idle
<1> QED BY <1>4, <1>5 DEF BotInv

\* Everything but the discussions and the calls.
ServiceTypeOK ==
    /\ mrOpen \in BOOLEAN
    /\ hooks \subseteq Events
    /\ deliveries \in 0..MaxDeliveries
    /\ queue \in [Workers -> Seq(Events)]
    /\ \A w \in Workers : Len(queue[w]) <= QueueSize
    /\ seen \in [Workers -> SUBSET (1..MaxPeople)]
    /\ job \in [Workers -> Job]
    /\ restarts \in 0..MaxRestarts
    /\ answers \in Seq(Answer)
    /\ newest \in PipelineEvents \cup {NoEvent}

LEMMA BotTypeParts == BotTypeOK <=> TypeOK /\ ServiceTypeOK
BY DEF BotTypeOK, ServiceTypeOK

\* A step of the worker moves its own job only.
LEMMA JobMoves ==
  ASSUME BotInv, NEW w \in Workers, NEW j \in Job, job' = [job EXCEPT ![w] = j],
         \A v \in Workers : v # w => seen'[v] = seen[v] /\ call'[v] = call[v],
         JobOK(w)'
  PROVE  job' \in [Workers -> Job] /\ \A v \in Workers : JobOK(v)'
<1>1. job \in [Workers -> Job]
  BY DEF BotInv, BotTypeOK
<1>2. \A v \in Workers : v # w => job'[v] = job[v]
  BY <1>1
<1> QED BY <1>1, <1>2 DEF BotInv, JobOK, Step

\* GitLab and the people on the merge request.
LEMMA PeopleTypeStep ==
  ASSUME BotInv,
         \/ OpenMergeRequest \/ Talk
         \/ \E p \in Pipelines : PipelineEnds(p)
         \/ \E i \in DOMAIN threads : Ask(i)
  PROVE  BotInv'
<1>0. TypeOK /\ ServiceTypeOK /\ \A w \in Workers : JobOK(w)
  BY BotTypeParts DEF BotInv
<1>1. CASE OpenMergeRequest
  BY <1>0, <1>1
  DEF OpenMergeRequest, vars, BotInv, BotTypeOK, TypeOK, ServiceTypeOK, JobOK, Step
<1>2. ASSUME NEW p \in Pipelines, PipelineEnds(p) PROVE BotInv'
  <2>1. [kind |-> "pipeline", pipeline |-> p, mr |-> mrOpen] \in Events
    BY <1>0 DEF ServiceTypeOK, Events, PipelineEvents
  <2>2. hooks' \subseteq Events
    BY <1>0, <1>2, <2>1 DEF ServiceTypeOK, PipelineEnds
  <2> QED BY <1>0, <1>2, <2>2
      DEF PipelineEnds, vars, BotInv, BotTypeOK, TypeOK, ServiceTypeOK, JobOK, Step
<1>3. ASSUME NEW i \in DOMAIN threads, Ask(i) PROVE BotInv'
  <2>1. TypeOK' /\ UNCHANGED call
    BY <1>0, <1>3, EnvironmentTypeStep DEF Ask, Environment, Reply, Acts
  <2>2. acts' \in 1..MaxPeople
    BY <1>0, <1>3, BoundsAssumption DEF Ask, Reply, Acts, TypeOK
  <2>3. threads[i].id \in Nat
    BY <1>0, ThreadType DEF Threads
  <2>4. [kind |-> "note", note |-> acts', thread |-> threads[i].id, shown |-> Shown(i)] \in Events
    <3>1. Shown(i) \in Pipelines \cup {NoPipeline}
      BY <1>0, ThreadType DEF Threads, Shown
    <3> QED BY <2>2, <2>3, <3>1 DEF Events, NoteEvents
  <2>5. hooks' \subseteq Events
    BY <1>0, <1>3, <2>4 DEF ServiceTypeOK, Ask
  <2> QED BY <1>0, <1>3, <2>1, <2>5 DEF Ask, BotInv, BotTypeOK, ServiceTypeOK, JobOK, Step
<1>4. CASE Talk
  <2>1. TypeOK' /\ UNCHANGED call
    BY <1>0, <1>4, EnvironmentTypeStep DEF Talk, Environment, Comment, Reply, Acts
  <2> QED BY <1>0, <1>4, <2>1 DEF Talk, botVars, BotInv, BotTypeOK, ServiceTypeOK, JobOK, Step
<1> QED BY <1>1, <1>2, <1>3, <1>4

LEMMA DeliverTypeStep ==
  ASSUME BotInv, NEW w \in Workers, NEW e \in hooks, Deliver(w, e)
  PROVE  BotInv'
<1>0. TypeOK /\ ServiceTypeOK /\ \A v \in Workers : JobOK(v)
  BY BotTypeParts DEF BotInv
<1>1. /\ e \in Events /\ queue[w] \in Seq(Events) /\ Len(queue[w]) \in Nat
      /\ QueueSize \in Nat
  BY <1>0, LenProperties, QueueSizeAssumption DEF ServiceTypeOK
<1>2. /\ queue' \in [Workers -> Seq(Events)]
      /\ \A v \in Workers : Len(queue'[v]) <= QueueSize
  <2>1. CASE UNCHANGED queue
    BY <1>0, <2>1 DEF ServiceTypeOK
  <2>2. CASE Len(queue[w]) < QueueSize /\ queue' = [queue EXCEPT ![w] = Append(@, e)]
    <3>1. Append(queue[w], e) \in Seq(Events) /\ Len(Append(queue[w], e)) = Len(queue[w]) + 1
      BY <1>1, AppendProperties
    <3> QED BY <1>0, <1>1, <2>2, <3>1 DEF ServiceTypeOK
  <2> QED BY <2>1, <2>2 DEF Deliver
<1>3. newest' \in PipelineEvents \cup {NoEvent}
  BY <1>0, <1>1 DEF Deliver, ServiceTypeOK, Events, NoteEvents
<1>4. deliveries' \in 0..MaxDeliveries
  BY <1>0, BotBoundsAssumption DEF Deliver, ServiceTypeOK
<1> QED BY <1>0, <1>2, <1>3, <1>4
    DEF Deliver, vars, BotInv, BotTypeOK, TypeOK, ServiceTypeOK, JobOK, Step

\* The worker takes an event: what it leaves in the queue.
LEMMA TakeType ==
  ASSUME BotInv, NEW w \in Workers, Take(w)
  PROVE  /\ Head(queue[w]) \in Events
         /\ queue' \in [Workers -> Seq(Events)]
         /\ \A v \in Workers : Len(queue'[v]) <= QueueSize
         /\ TypeOK'
<1>0. TypeOK /\ ServiceTypeOK
  BY BotTypeParts DEF BotInv
<1>1. queue[w] \in Seq(Events) /\ queue[w] # <<>>
  BY <1>0 DEF Take, ServiceTypeOK
<1>2. /\ Head(queue[w]) \in Events /\ Tail(queue[w]) \in Seq(Events)
      /\ Len(Tail(queue[w])) = Len(queue[w]) - 1 /\ Len(queue[w]) \in Nat
  BY <1>1, HeadTailProperties, LenProperties
<1>3. queue' = [queue EXCEPT ![w] = Tail(queue[w])] /\ UNCHANGED vars
  BY DEF Take
<1>4. \A v \in Workers : Len(queue'[v]) <= QueueSize
  <2>1. Len(Tail(queue[w])) <= QueueSize
    BY <1>0, <1>2, QueueSizeAssumption DEF ServiceTypeOK
  <2> QED BY <1>0, <1>3, <2>1 DEF ServiceTypeOK
<1>5. TypeOK'
  BY <1>0, <1>3 DEF vars, TypeOK
<1> QED BY <1>0, <1>2, <1>3, <1>4, <1>5 DEF ServiceTypeOK

LEMMA TakeTypeStep ==
  ASSUME BotInv, NEW w \in Workers, TakePipeline(w) \/ TakeNote(w) \/ SkipNote(w)
  PROVE  BotInv'
<1> DEFINE e == Head(queue[w])
<1>0. TypeOK /\ ServiceTypeOK /\ Take(w) /\ call' = call
  BY BotTypeParts DEF BotInv, TakePipeline, TakeNote, SkipNote, Take, vars
<1>1. /\ e \in Events
      /\ queue' \in [Workers -> Seq(Events)] /\ \A v \in Workers : Len(queue'[v]) <= QueueSize
      /\ TypeOK'
  BY <1>0, TakeType
<1>2. Step(w) = "idle" /\ call[w].pc = "idle"
  BY <1>0 DEF Take, BotInv, JobOK
<1> HIDE DEF e
<1>3. ASSUME job' \in [Workers -> Job], seen' \in [Workers -> SUBSET (1..MaxPeople)],
             \A v \in Workers : JobOK(v)'
      PROVE  BotInv'
  BY <1>0, <1>1, <1>3 DEF Take, BotInv, BotTypeOK, ServiceTypeOK
<1>4. CASE TakePipeline(w)
  <2> DEFINE j == [step |-> IF e.mr THEN "build" ELSE "resolve", event |-> e,
                   pipeline |-> e.pipeline]
  <2>1. e \in PipelineEvents /\ job' = [job EXCEPT ![w] = j] /\ seen' = seen
    BY <1>1, <1>4 DEF TakePipeline, e, Events, NoteEvents
  <2>2. j \in Job /\ j.step \in {"build", "resolve"} /\ j.pipeline \in Pipelines
    BY <2>1 DEF Job, Events, PipelineEvents
  <2> HIDE DEF j
  <2>3. job'[w] = j
    BY <1>0, <2>1 DEF ServiceTypeOK
  <2>4. JobOK(w)'
    BY <1>0, <1>2, <2>2, <2>3 DEF JobOK, Step
  <2>5. job' \in [Workers -> Job] /\ \A v \in Workers : JobOK(v)'
    BY <1>0, <2>1, <2>2, <2>4, JobMoves
  <2> QED BY <1>0, <1>3, <2>1, <2>5 DEF ServiceTypeOK
<1>5. CASE TakeNote(w)
  <2> DEFINE j == [step |-> "authorize", event |-> e, pipeline |-> NoPipeline]
  <2>1. /\ e \in NoteEvents /\ job' = [job EXCEPT ![w] = j]
        /\ seen' = [seen EXCEPT ![w] = @ \cup {e.note}]
    BY <1>1, <1>5 DEF TakeNote, e, Events, PipelineEvents
  <2>2. j \in Job /\ j.step = "authorize" /\ j.event = e
    BY <2>1 DEF Job, Events
  <2> HIDE DEF j
  <2>3. job'[w] = j
    BY <1>0, <2>1 DEF ServiceTypeOK
  <2>4. e.note \in 1..MaxPeople
    BY <2>1 DEF NoteEvents
  <2>5. seen' \in [Workers -> SUBSET (1..MaxPeople)] /\ e.note \in seen'[w]
    BY <1>0, <2>1, <2>4 DEF ServiceTypeOK
  <2>6. JobOK(w)'
    BY <1>0, <1>2, <2>1, <2>2, <2>3, <2>5 DEF JobOK, Step
  <2>7. job' \in [Workers -> Job] /\ \A v \in Workers : JobOK(v)'
    BY <1>0, <2>1, <2>2, <2>6, JobMoves DEF ServiceTypeOK
  <2> QED BY <1>3, <2>5, <2>7
<1>6. CASE SkipNote(w)
  <2>1. job' = job /\ seen' = seen
    BY <1>6 DEF SkipNote
  <2> QED BY <1>0, <1>3, <2>1 DEF BotInv, ServiceTypeOK, JobOK, Step
<1> QED BY <1>4, <1>5, <1>6

\* The worker gives the event in hand up, or is done with it.
LEMMA DoneJob ==
  ASSUME BotInv, NEW w \in Workers, Done(w), call'[w].pc = "idle",
         \A v \in Workers : v # w => seen'[v] = seen[v] /\ call'[v] = call[v]
  PROVE  job' \in [Workers -> Job] /\ \A v \in Workers : JobOK(v)'
<1>1. job' = [job EXCEPT ![w] = Idle] /\ job'[w] = Idle
  BY DEF Done, BotInv, BotTypeOK
<1>2. JobOK(w)'
  BY <1>1 DEF JobOK, Step, Idle
<1> QED BY <1>1, <1>2, IdleType, JobMoves

LEMMA GoToJob ==
  ASSUME BotInv, NEW w \in Workers, NEW step \in {"build", "upsert"}, GoTo(w, step),
         Step(w) \in {"resolve", "build"}, step = "upsert" <=> call'[w].pc # "idle",
         \A v \in Workers : v # w => seen'[v] = seen[v] /\ call'[v] = call[v]
  PROVE  job' \in [Workers -> Job] /\ \A v \in Workers : JobOK(v)'
<1> DEFINE j == [job[w] EXCEPT !.step = step]
<1>1. job[w] \in Job /\ job \in [Workers -> Job]
  BY DEF BotInv, BotTypeOK
<1>2. j \in Job /\ j.step = step /\ j.pipeline = job[w].pipeline
  BY <1>1 DEF Job
<1>3. job' = [job EXCEPT ![w] = j]
  BY DEF GoTo
<1> HIDE DEF j
<1>4. job'[w] = j
  BY <1>1, <1>3
<1>5. JobOK(w)'
  BY <1>2, <1>4 DEF JobOK, Step, BotInv
<1> QED BY <1>2, <1>3, <1>5, JobMoves

\* The report path: the merge request, the jobs, the note.
LEMMA ReportTypeStep ==
  ASSUME BotInv, NEW w \in Workers, Resolve(w) \/ BeginUpsert(w) \/ DoUpsert(w)
  PROVE  BotInv'
<1>0. TypeOK /\ ServiceTypeOK /\ JobOK(w)
  BY BotTypeParts DEF BotInv
<1>1. CASE Resolve(w)
  <2>1. call' = call /\ seen' = seen /\ call[w].pc = "idle" /\ TypeOK'
    BY <1>0, <1>1 DEF Resolve, vars, JobOK, TypeOK
  <2>2. job' \in [Workers -> Job] /\ \A v \in Workers : JobOK(v)'
    <3>1. CASE GoTo(w, "build")
      BY <1>1, <2>1, <3>1, GoToJob DEF Resolve
    <3>2. CASE Done(w)
      BY <2>1, <3>2, DoneJob
    <3> QED BY <1>1, <3>1, <3>2 DEF Resolve
  <2> QED BY <1>0, <1>1, <2>1, <2>2 DEF Resolve, BotInv, BotTypeOK, ServiceTypeOK
<1>2. CASE BeginUpsert(w)
  <2>1. job[w].pipeline \in Pipelines /\ Start(w, job[w].pipeline)
    BY <1>0, <1>2 DEF BeginUpsert, JobOK
  <2>2. TypeOK' /\ call'[w].pc = "list" /\ \A v \in Workers : v # w => call'[v] = call[v]
    <3>1. call \in [Workers -> Call]
      BY <1>0 DEF TypeOK
    <3> QED BY <1>0, <2>1, <3>1, UpsertTypeStep, OthersStand DEF Start
  <2>3. job' \in [Workers -> Job] /\ \A v \in Workers : JobOK(v)'
    BY <1>2, <2>2, GoToJob DEF BeginUpsert
  <2> QED BY <1>0, <1>2, <2>2, <2>3 DEF BeginUpsert, BotInv, BotTypeOK, ServiceTypeOK
<1>3. CASE DoUpsert(w)
  <2>1. TypeOK' /\ seen' = seen /\ \A v \in Workers : v # w => call'[v] = call[v]
    BY <1>0, <1>3, UpsertTypeStep, OthersStand DEF DoUpsert
  <2>2. job' \in [Workers -> Job] /\ \A v \in Workers : JobOK(v)'
    <3>1. CASE call'[w].pc = "idle"
      BY <1>3, <2>1, <3>1, DoneJob DEF DoUpsert
    <3>2. CASE call'[w].pc # "idle"
      BY <1>0, <1>3, <2>1, <3>2 DEF DoUpsert, BotInv, ServiceTypeOK, JobOK, Step
    <3> QED BY <3>1, <3>2
  <2> QED BY <1>0, <1>3, <2>1, <2>2 DEF DoUpsert, BotInv, BotTypeOK, ServiceTypeOK
<1> QED BY <1>1, <1>2, <1>3

\* The command path: the thread of the command, the answer.
LEMMA CommandTypeStep ==
  ASSUME BotInv, NEW w \in Workers, Authorize(w) \/ PostAnswer(w) \/ GiveUp(w)
  PROVE  BotInv'
<1>0. TypeOK /\ ServiceTypeOK /\ JobOK(w)
  BY BotTypeParts DEF BotInv
<1>1. CASE GiveUp(w)
  <2>1. TypeOK' /\ call' = call /\ seen' = seen /\ call[w].pc = "idle"
    BY <1>0, <1>1 DEF GiveUp, vars, TypeOK, JobOK
  <2>2. job' \in [Workers -> Job] /\ \A v \in Workers : JobOK(v)'
    BY <1>1, <2>1, DoneJob DEF GiveUp
  <2> QED BY <1>0, <1>1, <2>1, <2>2 DEF GiveUp, BotInv, BotTypeOK, ServiceTypeOK
<1>2. CASE Authorize(w)
  <2>1. TypeOK' /\ call' = call /\ seen' = seen /\ call[w].pc = "idle"
    BY <1>0, <1>2 DEF Authorize, vars, TypeOK, JobOK
  <2>2. job' \in [Workers -> Job] /\ \A v \in Workers : JobOK(v)'
    <3>1. CASE Done(w)
      BY <2>1, <3>1, DoneJob
    <3>2. ASSUME NEW i \in DOMAIN threads, threads[i].report # NoPipeline,
                 job' = [job EXCEPT ![w].step = "answer", ![w].pipeline = threads[i].report]
          PROVE  job' \in [Workers -> Job] /\ \A v \in Workers : JobOK(v)'
      <4> DEFINE j == [job[w] EXCEPT !.step = "answer", !.pipeline = threads[i].report]
      <4>1. job[w] \in Job /\ job \in [Workers -> Job] /\ threads[i].report \in Pipelines
        BY <1>0, <3>2, ThreadType DEF ServiceTypeOK, Threads
      <4>2. /\ j \in Job /\ j.step = "answer" /\ j.pipeline \in Pipelines
            /\ j.event = job[w].event
        BY <4>1 DEF Job
      <4>3. job' = [job EXCEPT ![w] = j]
        BY <3>2
      <4> HIDE DEF j
      <4>4. job'[w] = j
        BY <4>1, <4>3
      <4>5. JobOK(w)'
        BY <1>0, <1>2, <2>1, <4>2, <4>4 DEF JobOK, Step, Authorize
      <4> QED BY <2>1, <4>2, <4>3, <4>5, JobMoves
    <3> QED BY <1>2, <3>1, <3>2 DEF Authorize
  <2> QED BY <1>0, <1>2, <2>1, <2>2 DEF Authorize, BotInv, BotTypeOK, ServiceTypeOK
<1>3. CASE PostAnswer(w)
  <2>1. call' = call /\ seen' = seen /\ call[w].pc = "idle"
    BY <1>0, <1>3 DEF PostAnswer, JobOK
  <2>2. TypeOK'
    BY <1>0, <1>3, ReplyType DEF PostAnswer, TypeOK
  <2>3. job' \in [Workers -> Job] /\ \A v \in Workers : JobOK(v)'
    BY <1>3, <2>1, DoneJob DEF PostAnswer
  <2>4. answers' \in Seq(Answer)
    <3>1. [note |-> job[w].event.note, pipeline |-> job[w].pipeline] \in Answer
      BY <1>0, <1>3 DEF PostAnswer, JobOK, NoteEvents, Answer
    <3> QED BY <1>0, <1>3, <3>1, AppendProperties DEF PostAnswer, ServiceTypeOK
  <2> QED BY <1>0, <1>3, <2>1, <2>2, <2>3, <2>4
      DEF PostAnswer, BotInv, BotTypeOK, ServiceTypeOK
<1> QED BY <1>1, <1>2, <1>3

LEMMA RestartTypeStep ==
  ASSUME BotInv, NEW w \in Workers, Restart(w)
  PROVE  BotInv'
<1>0. TypeOK /\ ServiceTypeOK /\ call[w] \in Call
  BY BotTypeParts DEF BotInv, TypeOK
<1> DEFINE c == [call[w] EXCEPT !.pc = "idle", !.posted = FALSE]
<1>1. call' = [call EXCEPT ![w] = c] /\ c \in Call /\ c.pc = "idle"
  BY <1>0 DEF Restart, Call
<1> HIDE DEF c
<1>2. /\ call' \in [Workers -> Call] /\ call'[w].pc = "idle"
      /\ \A v \in Workers : v # w => call'[v] = call[v]
  BY <1>0, <1>1 DEF TypeOK
<1>3. TypeOK'
  BY <1>0, <1>2 DEF TypeOK, Restart
<1>4. /\ queue' \in [Workers -> Seq(Events)]
      /\ \A v \in Workers : Len(queue'[v]) <= QueueSize
  <2>1. queue' \in [Workers -> Seq(Events)]
    BY <1>0 DEF Restart, ServiceTypeOK
  <2>2. \A v \in Workers : queue'[v] = IF v = w THEN <<>> ELSE queue[v]
    BY <1>0 DEF Restart, ServiceTypeOK
  <2>3. Len(<<>>) <= QueueSize
    BY QueueSizeAssumption
  <2> QED BY <1>0, <2>1, <2>2, <2>3 DEF ServiceTypeOK
<1>5. seen' \in [Workers -> SUBSET (1..MaxPeople)] /\ \A v \in Workers : v # w => seen'[v] = seen[v]
  BY <1>0 DEF Restart, ServiceTypeOK
<1>6. restarts' \in 0..MaxRestarts
  BY <1>0, BotBoundsAssumption DEF Restart, ServiceTypeOK
<1>7. job' \in [Workers -> Job] /\ \A v \in Workers : JobOK(v)'
  BY <1>2, <1>5, DoneJob DEF Restart, Done
<1> QED BY <1>0, <1>3, <1>4, <1>5, <1>6, <1>7 DEF Restart, BotInv, BotTypeOK, ServiceTypeOK

LEMMA BotTypeStep == BotInv /\ [BotNext]_allVars => BotInv'
<1> SUFFICES ASSUME BotInv, [BotNext]_allVars PROVE BotInv'
  OBVIOUS
<1>1. CASE UNCHANGED allVars
  BY <1>1 DEF allVars, vars, botVars, BotInv, BotTypeOK, TypeOK, JobOK, Step
<1> QED BY <1>1, PeopleTypeStep, DeliverTypeStep, TakeTypeStep, ReportTypeStep, CommandTypeStep,
           RestartTypeStep DEF BotNext, Work

\* Every reachable state of the service is well-typed, the queues within
\* their capacity and every note and answer numbered within the bounds,
\* through any redeliveries, outages and restarts.
THEOREM BotTypeCorrect == BotSpec => []BotTypeOK
<1>1. BotInv => BotTypeOK
  BY DEF BotInv
<1> QED BY BotTypeInit, BotTypeStep, <1>1, PTL DEF BotSpec

-----------------------------------------------------------------------------
(* What the service does to the merge request *)

\* A step of the service is, for the discussions and the calls, a step of
\* UpsertNote without deletions or quotes, the bot's answer to a command, or
\* a restart.
BaseStep ==
    \/ UNCHANGED vars
    \/ \E w \in Workers : Upsert(w) \/ \E p \in Pipelines : Start(w, p)
    \/ Comment("person")
    \/ \E i \in DOMAIN threads : Reply(i)
    \/ /\ \E i \in DOMAIN threads : ReplyTo(i, "bot")
       /\ UNCHANGED <<nextNote, call, upserts, acts>>
    \/ \E w \in Workers :
          /\ call' = [call EXCEPT ![w].pc = "idle", ![w].posted = FALSE]
          /\ UNCHANGED <<threads, nextNote, upserts, acts>>

LEMMA ServiceStep ==
  ASSUME BotInv, [BotNext]_allVars
  PROVE  BaseStep
<1>1. ASSUME NEW w \in Workers, Work(w) PROVE BaseStep
  <2>1. BeginUpsert(w) => Start(w, job[w].pipeline) /\ job[w].pipeline \in Pipelines
    BY DEF BeginUpsert, BotInv, JobOK
  <2> QED BY <1>1, <2>1
      DEF BaseStep, Work, TakePipeline, TakeNote, SkipNote, Take, Resolve, DoUpsert, Authorize,
          PostAnswer, GiveUp
<1>2. ASSUME NEW w \in Workers, Restart(w) PROVE BaseStep
  BY <1>2 DEF BaseStep, Restart
<1>3. ASSUME NEW w \in Workers, NEW e \in hooks, Deliver(w, e) PROVE BaseStep
  BY <1>3 DEF BaseStep, Deliver
<1>4. CASE \/ OpenMergeRequest \/ Talk
           \/ \E p \in Pipelines : PipelineEnds(p)
           \/ \E i \in DOMAIN threads : Ask(i)
  BY <1>4 DEF BaseStep, OpenMergeRequest, Talk, PipelineEnds, Ask
<1> QED BY <1>1, <1>2, <1>3, <1>4 DEF BotNext, BaseStep, allVars

LEMMA BaseReplicaStep ==
  ASSUME ReplicaInv, TypeOK', BaseStep
  PROVE  ReplicaInv'
<1>0. TypeOK /\ call \in [Workers -> Call]
  BY DEF ReplicaInv, TypeOK
<1>1. CASE UNCHANGED vars
  BY <1>1, OwnersKept DEF vars, BareReports
<1>2. CASE Comment("person")
  <2>1. BareReports' \subseteq BareReports
    BY <1>0, <1>2, NewThreadBare DEF Comment, Authors
  <2> QED BY <1>2, <2>1, OwnersKept DEF Comment, Acts
<1>3. ASSUME NEW i \in DOMAIN threads, NEW by \in {"bot", "person"}, ReplyTo(i, by), UNCHANGED call
      PROVE  ReplicaInv'
  <2>1. BareReports' \subseteq BareReports
    BY <1>0, <1>3, ReplyKeepsRoots, KeptRootsKeepBare
  <2> QED BY <1>3, <2>1, OwnersKept
<1>4. ASSUME NEW w \in Workers, UNCHANGED threads,
             call' = [call EXCEPT ![w].pc = "idle", ![w].posted = FALSE]
      PROVE  ReplicaInv'
  <2>1. call'[w].pc = "idle" /\ \A v \in Workers : v # w => call'[v] = call[v]
    BY <1>0, <1>4 DEF Call
  <2>2. BareReports' = BareReports
    BY <1>4 DEF BareReports
  <2> QED BY <2>1, <2>2, OwnersKept
<1> QED BY <1>1, <1>2, <1>3, <1>4, ReplicaUpsert DEF BaseStep, Reply, Acts

\* Replicas of the service that race, crash and restart leave at most one
\* report without replies each, whatever is delivered to which of them, how
\* often, and whichever requests fail.
THEOREM BotReportPerReplica ==
  ASSUME IsFiniteSet(Workers)
  PROVE  BotSpec => []BareReportPerReplica
<1>1. BotInit => ReplicaInv
  BY ReplicaInit DEF BotInit
<1>2. BotInv /\ ReplicaInv /\ BotInv' /\ [BotNext]_allVars => ReplicaInv'
  BY ServiceStep, BaseReplicaStep DEF BotInv, BotTypeOK
<1>3. ReplicaInv => BareReportPerReplica
  BY OwnersBound
<1> QED BY BotTypeInit, BotTypeStep, <1>1, <1>2, <1>3, PTL DEF BotSpec

-----------------------------------------------------------------------------
(* Reports under discussion *)

LEMMA BaseDiscussedStep ==
  ASSUME DiscussedInv, TypeOK', BaseStep
  PROVE  DiscussedInv'
<1>0. TypeOK /\ NotesNumbered /\ call \in [Workers -> Call]
  BY DEF DiscussedInv, TypeOK
<1>1. CASE UNCHANGED vars
  BY <1>0, <1>1 DEF vars, DiscussedInv, NotesNumbered
<1>2. CASE Comment("person")
  <2>1. NotesNumbered' /\ UNCHANGED call
    BY <1>0, <1>2, NumberedThread DEF Comment, Acts, Authors
  <2>2. Grows
    BY <1>0, <1>2, NewThreadGrows DEF Comment, Authors
  <2> QED BY <1>2, <2>1, <2>2, DiscussedElsewhere DEF DiscussedInv
<1>3. ASSUME NEW i \in DOMAIN threads, NEW by \in {"bot", "person"}, ReplyTo(i, by),
             UNCHANGED <<nextNote, call>>
      PROVE  DiscussedInv'
  <2>1. NotesNumbered' /\ Grows
    BY <1>0, <1>3, ReplyKeepsRoots, KeptRootsGrow, NumberedKept DEF RootsKept
  <2> QED BY <1>3, <2>1, DiscussedElsewhere DEF DiscussedInv
<1>4. ASSUME NEW w \in Workers, UNCHANGED <<threads, nextNote>>,
             call' = [call EXCEPT ![w].pc = "idle", ![w].posted = FALSE]
      PROVE  DiscussedInv'
  <2>1. /\ call'[w].pc = "idle" /\ call'[w].discussed = call[w].discussed
        /\ \A v \in Workers : v # w => call'[v] = call[v]
    BY <1>0, <1>4 DEF Call
  <2>2. NotesNumbered' /\ Grows
    BY <1>0, <1>4 DEF NotesNumbered, Grows
  <2>3. \A id \in call'[w].discussed :
           \E i \in DOMAIN threads' : threads'[i].id = id /\ Discussed(threads'[i])
    BY <1>4, <2>1 DEF DiscussedInv
  <2> QED BY <2>1, <2>2, <2>3, DiscussedElsewhere DEF DiscussedInv
<1> QED BY <1>1, <1>2, <1>3, <1>4, DiscussedUpsert DEF BaseStep, Reply, Acts

\* A report that had replies when a call started is not edited by it, in the
\* running service: nor by the replica that restarted and posts again.
THEOREM BotDiscussedLeftAlone == BotSpec => DiscussedEarlierLeftAlone
<1>1. BotInit => DiscussedInv
  BY DiscussedInit DEF BotInit
<1>2. BotInv /\ DiscussedInv /\ BotInv' /\ [BotNext]_allVars => DiscussedInv'
  BY ServiceStep, BaseDiscussedStep DEF BotInv, BotTypeOK
<1>3. DiscussedInv =>
        [\A w \in Workers : Update(w) => \A id \in call[w].discussed : ~Edited(id)]_vars
  BY EditsTarget DEF DiscussedInv, Update
<1> QED BY BotTypeInit, BotTypeStep, <1>1, <1>2, <1>3, PTL DEF BotSpec, DiscussedEarlierLeftAlone

-----------------------------------------------------------------------------
(* Answers to commands *)

\* The command note n has been taken and not been answered or given up yet.
InHand(w, n) == Step(w) \in {"authorize", "answer"} /\ job[w].event.note = n

AnswersTo(n) == {i \in DOMAIN answers : answers[i].note = n}

\* The replicas that have handled n in the life of their process.
HandledBy(n) == {w \in Workers : n \in seen[w] /\ ~InHand(w, n)}

\* AnswersPerLifetime, with the answers charged to the replicas that cannot
\* give another one before they restart: not to those that are about to.
HandledInv ==
    \A n \in 1..MaxPeople :
        /\ IsFiniteSet(AnswersTo(n))
        /\ Cardinality(AnswersTo(n)) <= Cardinality(HandledBy(n)) + restarts

\* Nothing is answered, and no replica forgets what it has handled.
LEMMA NothingAnswered ==
  ASSUME IsFiniteSet(Workers), BotInv, BotInv', HandledInv, UNCHANGED <<answers, restarts>>,
         \A n \in 1..MaxPeople : HandledBy(n) \subseteq HandledBy(n)'
  PROVE  HandledInv'
<1> SUFFICES ASSUME NEW n \in 1..MaxPeople
    PROVE  /\ IsFiniteSet(AnswersTo(n)')
           /\ Cardinality(AnswersTo(n)') <= Cardinality(HandledBy(n)') + restarts'
  BY DEF HandledInv
<1>1. AnswersTo(n)' = AnswersTo(n)
  BY DEF AnswersTo
<1>2. IsFiniteSet(HandledBy(n)') /\ HandledBy(n) \subseteq HandledBy(n)'
  <2>1. HandledBy(n)' \subseteq Workers
    BY DEF HandledBy
  <2> QED BY <2>1, FS_Subset
<1>3. /\ Cardinality(HandledBy(n)) <= Cardinality(HandledBy(n)')
      /\ Cardinality(HandledBy(n)) \in Nat /\ Cardinality(HandledBy(n)') \in Nat
  BY <1>2, FS_Subset, FS_CardinalityType
<1>4. Cardinality(AnswersTo(n)) \in Nat /\ restarts \in Nat
  BY FS_CardinalityType DEF HandledInv, BotInv, BotTypeOK
<1> QED BY <1>1, <1>3, <1>4 DEF HandledInv

\* An answer: the replica that gives it has now handled the note.
LEMMA OneAnswered ==
  ASSUME IsFiniteSet(Workers), BotInv, HandledInv, NEW w \in Workers, PostAnswer(w)
  PROVE  HandledInv'
<1> DEFINE note == job[w].event.note
           k == Len(answers) + 1
<1>0. /\ answers \in Seq(Answer) /\ job \in [Workers -> Job] /\ restarts \in Nat
      /\ Step(w) = "answer" /\ note \in seen[w]
  BY DEF BotInv, BotTypeOK, PostAnswer, JobOK
<1>1. /\ DOMAIN answers = 1..Len(answers) /\ Len(answers) \in Nat
      /\ DOMAIN answers' = DOMAIN answers \cup {k} /\ k \notin DOMAIN answers
      /\ answers'[k].note = note
      /\ \A i \in DOMAIN answers : answers'[i] = answers[i]
  <2> DEFINE a == [note |-> note, pipeline |-> job[w].pipeline]
  <2>1. answers' = Append(answers, a) /\ a.note = note
    BY DEF PostAnswer
  <2> HIDE DEF a, note
  <2>2. Len(answers) \in Nat /\ DOMAIN answers = 1..Len(answers)
    BY <1>0, LenProperties
  <2> QED BY <1>0, <2>1, <2>2
<1>2. Step(w)' = "idle" /\ \A v \in Workers : v # w => job'[v] = job[v]
  BY <1>0 DEF PostAnswer, Done, Idle, Step
<1> SUFFICES ASSUME NEW n \in 1..MaxPeople
    PROVE  /\ IsFiniteSet(AnswersTo(n)')
           /\ Cardinality(AnswersTo(n)') <= Cardinality(HandledBy(n)') + restarts'
  BY DEF HandledInv
<1>3. /\ IsFiniteSet(AnswersTo(n)) /\ Cardinality(AnswersTo(n)) \in Nat
      /\ Cardinality(AnswersTo(n)) <= Cardinality(HandledBy(n)) + restarts
  BY FS_CardinalityType DEF HandledInv
<1>4. IsFiniteSet(HandledBy(n)) /\ Cardinality(HandledBy(n)) \in Nat
  <2>1. HandledBy(n) \subseteq Workers
    BY DEF HandledBy
  <2> QED BY <2>1, FS_Subset, FS_CardinalityType
<1>5. UNCHANGED <<seen, restarts>>
  BY DEF PostAnswer
<1>6. CASE n = note
  <2>1. AnswersTo(n)' = AnswersTo(n) \cup {k} /\ k \notin AnswersTo(n)
    BY <1>1, <1>6 DEF AnswersTo
  <2>2. HandledBy(n)' = HandledBy(n) \cup {w} /\ w \notin HandledBy(n)
    BY <1>0, <1>2, <1>5, <1>6 DEF HandledBy, InHand, Step
  <2>3. /\ Cardinality(AnswersTo(n)') = Cardinality(AnswersTo(n)) + 1
        /\ IsFiniteSet(AnswersTo(n)')
    BY <1>3, <2>1, FS_AddElement
  <2>4. Cardinality(HandledBy(n)') = Cardinality(HandledBy(n)) + 1
    BY <1>4, <2>2, FS_AddElement
  <2> QED BY <1>0, <1>3, <1>4, <1>5, <2>3, <2>4
<1>7. CASE n # note
  <2>1. AnswersTo(n)' = AnswersTo(n)
    BY <1>1, <1>7 DEF AnswersTo
  <2>2. HandledBy(n)' = HandledBy(n)
    BY <1>0, <1>2, <1>5, <1>7 DEF HandledBy, InHand, Step
  <2> QED BY <1>3, <1>5, <2>1, <2>2
<1> QED BY <1>6, <1>7

\* A restart forgets what one replica has handled.
LEMMA OneForgets ==
  ASSUME IsFiniteSet(Workers), BotInv, HandledInv, NEW w \in Workers, Restart(w)
  PROVE  HandledInv'
<1> SUFFICES ASSUME NEW n \in 1..MaxPeople
    PROVE  /\ IsFiniteSet(AnswersTo(n)')
           /\ Cardinality(AnswersTo(n)') <= Cardinality(HandledBy(n)') + restarts'
  BY DEF HandledInv
<1>0. /\ restarts \in Nat /\ restarts' = restarts + 1
      /\ job \in [Workers -> Job] /\ seen \in [Workers -> SUBSET (1..MaxPeople)]
  BY DEF Restart, BotInv, BotTypeOK
<1>1. AnswersTo(n)' = AnswersTo(n)
  BY DEF Restart, AnswersTo
<1>2. /\ IsFiniteSet(AnswersTo(n)) /\ Cardinality(AnswersTo(n)) \in Nat
      /\ Cardinality(AnswersTo(n)) <= Cardinality(HandledBy(n)) + restarts
  BY FS_CardinalityType DEF HandledInv
<1>3. IsFiniteSet(HandledBy(n)) /\ Cardinality(HandledBy(n)) \in Nat
  <2>1. HandledBy(n) \subseteq Workers
    BY DEF HandledBy
  <2> QED BY <2>1, FS_Subset, FS_CardinalityType
<1>4. HandledBy(n)' = HandledBy(n) \ {w}
  <2>1. \A v \in Workers : v # w => job'[v] = job[v] /\ seen'[v] = seen[v]
    BY <1>0 DEF Restart
  <2>2. seen'[w] = {}
    BY <1>0 DEF Restart
  <2> QED BY <2>1, <2>2 DEF HandledBy, InHand, Step
<1>5. /\ IsFiniteSet(HandledBy(n) \ {w})
      /\ Cardinality(HandledBy(n) \ {w}) >= Cardinality(HandledBy(n)) - 1
      /\ Cardinality(HandledBy(n) \ {w}) \in Nat
  <2>1. /\ IsFiniteSet(HandledBy(n) \ {w})
        /\ Cardinality(HandledBy(n) \ {w}) =
              IF w \in HandledBy(n) THEN Cardinality(HandledBy(n)) - 1 ELSE Cardinality(HandledBy(n))
    BY <1>3, FS_RemoveElement
  <2>2. Cardinality(HandledBy(n) \ {w}) \in Nat
    BY <2>1, FS_CardinalityType
  <2> QED BY <1>3, <2>1, <2>2
<1> QED BY <1>0, <1>1, <1>2, <1>3, <1>4, <1>5

LEMMA HandledStep ==
  ASSUME IsFiniteSet(Workers), BotInv, BotInv', HandledInv, [BotNext]_allVars
  PROVE  HandledInv'
<1>0. job \in [Workers -> Job] /\ seen \in [Workers -> SUBSET (1..MaxPeople)]
  BY DEF BotInv, BotTypeOK
<1>1. CASE UNCHANGED <<answers, restarts, seen, job>>
  <2>1. \A n \in 1..MaxPeople : HandledBy(n)' = HandledBy(n)
    BY <1>1 DEF HandledBy, InHand, Step
  <2> QED BY <1>1, <2>1, NothingAnswered
\* The job of w moves: no note it has handled comes into its hands again.
<1>2. ASSUME NEW w \in Workers, UNCHANGED <<answers, restarts>>,
             \A v \in Workers : v # w => UNCHANGED <<seen[v], job[v]>>,
             seen[w] \subseteq seen'[w],
             \A n \in 1..MaxPeople : InHand(w, n)' => InHand(w, n) \/ n \notin seen[w]
      PROVE  HandledInv'
  <2>1. \A n \in 1..MaxPeople : HandledBy(n) \subseteq HandledBy(n)'
    BY <1>2 DEF HandledBy, InHand, Step
  <2> QED BY <1>2, <2>1, NothingAnswered
<1>3. ASSUME NEW w \in Workers, Done(w), UNCHANGED <<answers, restarts, seen>> PROVE HandledInv'
  <2>1. job'[w] = Idle /\ \A v \in Workers : v # w => job'[v] = job[v]
    BY <1>0, <1>3 DEF Done
  <2>2. \A n : ~InHand(w, n)'
    BY <2>1 DEF InHand, Step, Idle
  <2> QED BY <1>2, <1>3, <2>1, <2>2
<1>4. ASSUME NEW w \in Workers, NEW step \in {"build", "upsert"}, GoTo(w, step),
             UNCHANGED <<answers, restarts, seen>>
      PROVE  HandledInv'
  <2>1. /\ job' = [job EXCEPT ![w].step = step] /\ job[w] \in Job
        /\ \A v \in Workers : v # w => job'[v] = job[v]
    BY <1>0, <1>4 DEF GoTo
  <2>2. job'[w].step = step
    BY <1>0, <2>1 DEF Job
  <2>3. \A n : ~InHand(w, n)'
    BY <2>2 DEF InHand, Step
  <2> QED BY <1>2, <1>4, <2>1, <2>3
<1>5. ASSUME NEW w \in Workers, TakePipeline(w) PROVE HandledInv'
  <2>1. /\ job'[w].step \in {"build", "resolve"} /\ UNCHANGED <<answers, restarts, seen>>
        /\ \A v \in Workers : v # w => job'[v] = job[v]
    BY <1>0, <1>5 DEF TakePipeline, Take
  <2>2. \A n : ~InHand(w, n)'
    BY <2>1 DEF InHand, Step
  <2> QED BY <1>2, <2>1, <2>2
<1>6. ASSUME NEW w \in Workers, TakeNote(w) PROVE HandledInv'
  <2> DEFINE e == Head(queue[w])
  <2>1. /\ job'[w].event = e /\ e.note \notin seen[w] /\ UNCHANGED <<answers, restarts>>
        /\ seen'[w] = seen[w] \cup {e.note}
        /\ \A v \in Workers : v # w => job'[v] = job[v] /\ seen'[v] = seen[v]
    BY <1>0, <1>6 DEF TakeNote, Take
  <2>2. \A n : InHand(w, n)' => n \notin seen[w]
    BY <2>1 DEF InHand
  <2> QED BY <1>2, <2>1, <2>2
<1>7. ASSUME NEW w \in Workers, Authorize(w) PROVE HandledInv'
  <2>1. CASE Done(w)
    BY <1>3, <1>7, <2>1 DEF Authorize
  <2>2. ASSUME NEW p, job' = [job EXCEPT ![w].step = "answer", ![w].pipeline = p]
        PROVE  HandledInv'
    <3>1. job'[w].event = job[w].event /\ \A v \in Workers : v # w => job'[v] = job[v]
      BY <1>0, <2>2 DEF Job
    <3>2. \A n : InHand(w, n)' => InHand(w, n)
      BY <1>7, <3>1 DEF InHand, Authorize
    <3> QED BY <1>2, <1>7, <3>1, <3>2 DEF Authorize
  <2> QED BY <1>7, <2>1, <2>2 DEF Authorize
<1>8. ASSUME NEW w \in Workers, Work(w) PROVE HandledInv'
  <2>1. CASE SkipNote(w)
    BY <1>1, <2>1 DEF SkipNote, Take
  <2>2. CASE Resolve(w)
    BY <1>3, <1>4, <2>2 DEF Resolve
  <2>3. CASE BeginUpsert(w)
    BY <1>4, <2>3 DEF BeginUpsert
  <2>4. CASE DoUpsert(w)
    BY <1>1, <1>3, <2>4 DEF DoUpsert
  <2>5. CASE GiveUp(w)
    BY <1>3, <2>5 DEF GiveUp
  <2> QED BY <1>5, <1>6, <1>7, <1>8, <2>1, <2>2, <2>3, <2>4, <2>5, OneAnswered DEF Work
<1>9. CASE UNCHANGED allVars
  BY <1>1, <1>9 DEF allVars, botVars
<1>10. CASE \/ OpenMergeRequest \/ Talk
            \/ \E p \in Pipelines : PipelineEnds(p)
            \/ \E i \in DOMAIN threads : Ask(i)
            \/ \E w \in Workers, e \in hooks : Deliver(w, e)
  BY <1>1, <1>10 DEF OpenMergeRequest, Talk, botVars, PipelineEnds, Ask, Deliver
<1> QED BY <1>8, <1>9, <1>10, OneForgets DEF BotNext

LEMMA HandledInit ==
  ASSUME IsFiniteSet(Workers), BotInit
  PROVE  HandledInv
<1> SUFFICES ASSUME NEW n \in 1..MaxPeople
    PROVE  /\ IsFiniteSet(AnswersTo(n))
           /\ Cardinality(AnswersTo(n)) <= Cardinality(HandledBy(n)) + restarts
  BY DEF HandledInv
<1>1. AnswersTo(n) = {} /\ restarts = 0
  BY DEF BotInit, AnswersTo
<1>2. HandledBy(n) = {}
  BY DEF BotInit, HandledBy
<1> QED BY <1>1, <1>2, FS_EmptySet

\* However often GitLab delivers the note of a command, and to however many
\* replicas, it is answered at most once by each of them, plus once for every
\* restart, which loses the set of notes seen.
THEOREM AnsweredOncePerLifetime ==
  ASSUME IsFiniteSet(Workers)
  PROVE  BotSpec => []AnswersPerLifetime
<1>1. BotInit => HandledInv
  BY HandledInit
<1>2. BotInv /\ HandledInv /\ BotInv' /\ [BotNext]_allVars => HandledInv'
  BY HandledStep
<1>3. BotInv /\ HandledInv => AnswersPerLifetime
  <2> SUFFICES ASSUME BotInv, HandledInv, NEW n \in 1..MaxPeople
      PROVE  Cardinality(AnswersTo(n)) <= Cardinality(Workers) + restarts
    BY DEF AnswersPerLifetime, AnswersTo
  <2>1. HandledBy(n) \subseteq Workers
    BY DEF HandledBy
  <2>2. /\ Cardinality(HandledBy(n)) <= Cardinality(Workers) /\ Cardinality(Workers) \in Nat
        /\ Cardinality(HandledBy(n)) \in Nat
    BY <2>1, FS_Subset, FS_CardinalityType
  <2>3. /\ Cardinality(AnswersTo(n)) <= Cardinality(HandledBy(n)) + restarts
        /\ Cardinality(AnswersTo(n)) \in Nat /\ restarts \in Nat
    BY FS_CardinalityType DEF HandledInv, BotInv, BotTypeOK
  <2> QED BY <2>2, <2>3
<1> QED BY BotTypeInit, BotTypeStep, <1>1, <1>2, <1>3, PTL DEF BotSpec

-----------------------------------------------------------------------------
(* One replica: the line of reports *)

LEMMA BaseLineStep ==
  ASSUME OneWorker, LineInv, TypeOK', BaseStep
  PROVE  LineInv' /\ [Board!Next]_(Board!vars)
<1>0. TypeOK /\ NotesNumbered /\ call \in [Workers -> Call]
  BY DEF LineInv, ReplicaInv, TypeOK
<1>1. ReplicaInv'
  BY BaseReplicaStep DEF LineInv
<1>2. CASE UNCHANGED vars
  <2>1. Quiet /\ NotesNumbered' /\ UNCHANGED call
    BY <1>2 DEF vars, Quiet, ReportPlaces, LineInv, NotesNumbered
  <2> QED BY <1>1, <1>2, <2>1, QuietStep DEF vars, LineInv
<1>3. CASE Comment("person")
  <2>1. NotesNumbered' /\ UNCHANGED call
    BY <1>0, <1>3, NumberedThread DEF Comment, Acts, Authors
  <2> QED BY <1>1, <1>3, <2>1, CommentIsQuiet, QuietStep
<1>4. ASSUME NEW i \in DOMAIN threads, NEW by \in {"bot", "person"}, ReplyTo(i, by),
             UNCHANGED <<nextNote, call>>
      PROVE  LineInv' /\ [Board!Next]_(Board!vars)
  <2>1. NotesNumbered'
    BY <1>0, <1>4, ReplyKeepsRoots, NumberedKept DEF RootsKept
  <2> QED BY <1>1, <1>4, <2>1, ReplyIsQuiet, QuietStep
<1>5. ASSUME NEW w \in Workers, UNCHANGED <<threads, nextNote>>,
             call' = [call EXCEPT ![w].pc = "idle", ![w].posted = FALSE]
      PROVE  LineInv' /\ [Board!Next]_(Board!vars)
  <2>1. Quiet /\ NotesNumbered'
    BY <1>5 DEF Quiet, ReportPlaces, LineInv, NotesNumbered
  <2>2. call'[w].pc = "idle" /\ call'[w].posted = FALSE /\ \A v \in Workers : v = w
    BY <1>0, <1>5 DEF Call, OneWorker
  <2>3. LineInv'
    BY <1>1, <1>5, <2>1, <2>2, QuietLine DEF LineInv
  <2> QED BY <2>1, <2>3, QuietBoard
<1> QED BY <1>1, <1>2, <1>3, <1>4, <1>5, WorkerLine DEF BaseStep, Reply, Acts

LEMMA BotLineStep ==
  ASSUME OneWorker, BotInv, BotInv', LineInv, [BotNext]_allVars
  PROVE  LineInv' /\ [Board!Next]_(Board!vars)
BY ServiceStep, BaseLineStep DEF BotInv, BotTypeOK

\* The running service keeps the promise of ReportBoard, with one replica:
\* through redeliveries, commands and their answers, refused and lost
\* requests, crashes and restarts.
THEOREM BotImplementsBoard ==
  ASSUME OneWorker
  PROVE  BotSpec => ImplementsBoard
<1>1. BotInit => LineInv /\ Board!Init
  BY LineInit, BoardInit DEF BotInit
<1>2. BotInv /\ LineInv /\ BotInv' /\ [BotNext]_allVars => LineInv' /\ [Board!Next]_(Board!vars)
  BY BotLineStep
<1> QED BY BotTypeInit, BotTypeStep, <1>1, <1>2, PTL DEF BotSpec, ImplementsBoard, Board!Spec

-----------------------------------------------------------------------------
(* Any number of replicas: what an answer is about *)

\* The report id is under discussion and no replica is about to edit it: what
\* it shows is settled.
Settled(id, p) ==
    /\ \E i \in DOMAIN threads :
          threads[i].id = id /\ threads[i].report = p /\ Discussed(threads[i])
    /\ \A w \in Workers : call[w].pc = "update" => call[w].target # id

\* Whoever wrote the command e read about a pipeline.
AsksAbout(e) == e.kind = "note" /\ e.shown # NoPipeline

\* Every command still shows below the report it was written about, and its
\* event is GitLab's wherever it waits; an answer is about that report.
QuestionInv ==
    /\ \A e \in hooks : AsksAbout(e) => Settled(e.thread, e.shown)
    /\ \A w \in Workers : \A k \in DOMAIN queue[w] : queue[w][k] \in hooks
    /\ \A w \in Workers : Step(w) \in {"authorize", "answer"} => job[w].event \in hooks
    /\ \A w \in Workers : Step(w) = "answer" /\ job[w].event.shown # NoPipeline =>
          job[w].pipeline = job[w].event.shown

\* The replies stay, and a listing picks a note without any: what is settled
\* stays so through any step of any replica.
LEMMA SettledStays ==
  ASSUME TypeOK, NotesNumbered, BaseStep, NEW id, NEW p, Settled(id, p)
  PROVE  Settled(id, p)'
<1>0. call \in [Workers -> Call]
  BY DEF TypeOK
<1>1. PICK i \in DOMAIN threads :
        threads[i].id = id /\ threads[i].report = p /\ Discussed(threads[i])
  BY DEF Settled
<1>2. ASSUME /\ i \in DOMAIN threads' /\ threads'[i].id = id
             /\ threads'[i].report = p /\ Discussed(threads'[i]),
             \A w \in Workers : call'[w].pc = "update" =>
                call'[w].target # id \/ call'[w] = call[w]
      PROVE  Settled(id, p)'
  BY <1>2 DEF Settled
<1>3. CASE UNCHANGED vars
  BY <1>1, <1>2, <1>3 DEF vars
<1>4. CASE Comment("person")
  BY <1>1, <1>2, <1>4, NewThread DEF Comment, Acts, Authors
<1>5. ASSUME NEW j \in DOMAIN threads, NEW by \in {"bot", "person"}, ReplyTo(j, by),
             UNCHANGED call
      PROVE  Settled(id, p)'
  BY <1>1, <1>2, <1>5, ReplyKeepsRoots DEF RootsKept, NotesKept, Rewritten
<1>6. ASSUME NEW w \in Workers, UNCHANGED threads,
             call' = [call EXCEPT ![w].pc = "idle", ![w].posted = FALSE]
      PROVE  Settled(id, p)'
  <2>1. call'[w].pc = "idle" /\ \A v \in Workers : v # w => call'[v] = call[v]
    BY <1>0, <1>6 DEF Call
  <2> QED BY <1>1, <1>2, <1>6, <2>1
<1>7. ASSUME NEW w \in Workers, Upsert(w) \/ \E q \in Pipelines : Start(w, q)
      PROVE  Settled(id, p)'
  <2>1. \A v \in Workers : v # w => call'[v] = call[v]
    BY <1>7, OthersStand
  <2>2. ASSUME call'[w].pc = "update" PROVE call'[w].target # id
    <3>1. FindNote(w)
      BY <1>7, <2>2, TargetFound
    <3>2. PICK j \in ReusableOnPage(w) : call'[w].target = threads[j].id
      BY <1>0, <3>1 DEF FindNote, Call
    <3>3. j \in DOMAIN threads /\ ~Discussed(threads[j])
      BY <3>2 DEF ReusableOnPage, OnPage, Reusable
    <3> QED BY <1>1, <3>2, <3>3 DEF NotesNumbered
  <2>3. /\ i \in DOMAIN threads' /\ threads'[i].id = id
        /\ threads'[i].report = p /\ Discussed(threads'[i])
    <3>1. CASE UNCHANGED threads
      BY <1>1, <3>1
    <3>2. CASE Update(w)
      <4>1. call[w].pc = "update" /\ call[w].target # id
        BY <3>2 DEF Update, Settled
      <4> QED BY <1>1, <3>2, <4>1, EditKeepsRoots DEF Update, RootsKept, NotesKept
    <3>3. CASE Create(w)
      BY <1>1, <3>3, NewThread DEF Create, Authors
    <3> QED BY <1>7, <3>1, <3>2, <3>3 DEF Upsert, Start, FindNote, NextPage, LastPage, Fail
  <2> QED BY <1>2, <2>1, <2>2, <2>3
<1> QED BY <1>3, <1>4, <1>5, <1>6, <1>7 DEF BaseStep, Reply, Acts

\* Taking an event moves the others up.
LEMMA TakenQueue ==
  ASSUME BotInv, NEW w \in Workers, Take(w)
  PROVE  /\ Head(queue[w]) = queue[w][1] /\ 1 \in DOMAIN queue[w]
         /\ DOMAIN queue[w] \subseteq Nat /\ DOMAIN queue'[w] \subseteq Nat \ {0}
         /\ \A k \in DOMAIN queue[w] : k # 1 =>
               k - 1 \in DOMAIN queue'[w] /\ queue'[w][k - 1] = queue[w][k]
         /\ \A k \in DOMAIN queue'[w] :
               k + 1 \in DOMAIN queue[w] /\ queue'[w][k] = queue[w][k + 1]
<1>1. /\ queue[w] \in Seq(Events) /\ queue[w] # <<>> /\ queue'[w] = Tail(queue[w])
  BY DEF Take, BotInv, BotTypeOK
<1> QED BY <1>1

\* The events in the queues are GitLab's, and so is the one in hand.
LEMMA EventsKnown ==
  ASSUME BotInv, QuestionInv, [BotNext]_allVars
  PROVE  /\ hooks \subseteq hooks'
         /\ \A w \in Workers : \A k \in DOMAIN queue'[w] : queue'[w][k] \in hooks
         /\ \A w \in Workers : Step(w)' \in {"authorize", "answer"} => job'[w].event \in hooks
<1>0. /\ queue \in [Workers -> Seq(Events)] /\ job \in [Workers -> Job]
      /\ \A w \in Workers : job[w] \in Job /\ queue[w] \in Seq(Events)
  BY DEF BotInv, BotTypeOK
<1> DEFINE Known == /\ \A v \in Workers : \A k \in DOMAIN queue'[v] : queue'[v][k] \in hooks
                    /\ \A v \in Workers :
                          Step(v)' \in {"authorize", "answer"} => job'[v].event \in hooks
<1>1. ASSUME UNCHANGED <<queue, job>> PROVE Known
  BY <1>1 DEF QuestionInv, Step
<1>2. ASSUME NEW w \in Workers,
             \A v \in Workers : v # w => queue'[v] = queue[v] /\ job'[v] = job[v],
             \A k \in DOMAIN queue'[w] : queue'[w][k] \in hooks,
             job'[w].step \in {"authorize", "answer"} => job'[w].event \in hooks
      PROVE  Known
  BY <1>2 DEF QuestionInv, Step
<1>3. ASSUME NEW w \in Workers, NEW e \in hooks, Deliver(w, e) PROVE Known
  <2>1. job' = job /\ \A v \in Workers : v # w => queue'[v] = queue[v]
    BY <1>0, <1>3 DEF Deliver
  <2>2. ASSUME NEW k \in DOMAIN queue'[w] PROVE queue'[w][k] \in hooks
    <3>1. queue'[w] = queue[w] \/ queue'[w] = Append(queue[w], e)
      BY <1>0, <1>3 DEF Deliver
    <3>2. CASE queue'[w] = queue[w]
      BY <3>2 DEF QuestionInv
    <3>3. CASE queue'[w] = Append(queue[w], e)
      <4>1. (k \in DOMAIN queue[w] /\ queue'[w][k] = queue[w][k]) \/ queue'[w][k] = e
        BY <1>0, <3>3
      <4> QED BY <4>1 DEF QuestionInv
    <3> QED BY <3>1, <3>2, <3>3
  <2> QED BY <1>2, <2>1, <2>2 DEF QuestionInv, Step
<1>4. ASSUME NEW w \in Workers, Take(w),
             \A v \in Workers : v # w => job'[v] = job[v],
             job'[w].step \in {"authorize", "answer"} => job'[w].event = Head(queue[w])
      PROVE  Known
  <2>1. \A v \in Workers : v # w => queue'[v] = queue[v]
    BY <1>0, <1>4 DEF Take
  <2>2. Head(queue[w]) \in hooks /\ \A k \in DOMAIN queue'[w] : queue'[w][k] \in hooks
    BY <1>4, TakenQueue DEF QuestionInv
  <2> QED BY <1>2, <1>4, <2>1, <2>2
<1>5. ASSUME NEW w \in Workers, UNCHANGED queue,
             \A v \in Workers : v # w => job'[v] = job[v],
             \/ job'[w].step \notin {"authorize", "answer"}
             \/ Step(w) = "authorize" /\ job'[w].event = job[w].event
      PROVE  Known
  BY <1>2, <1>5 DEF QuestionInv, Step
<1>6. ASSUME NEW w \in Workers, Done(w), UNCHANGED queue PROVE Known
  BY <1>0, <1>5, <1>6 DEF Done, Idle
<1>7. ASSUME NEW w \in Workers, Work(w) PROVE Known
  <2>1. CASE TakePipeline(w)
    <3>1. /\ Take(w) /\ job'[w].step \notin {"authorize", "answer"}
          /\ \A v \in Workers : v # w => job'[v] = job[v]
      BY <1>0, <2>1 DEF TakePipeline
    <3> QED BY <1>4, <3>1
  <2>2. CASE TakeNote(w)
    <3>1. /\ Take(w) /\ job'[w].event = Head(queue[w])
          /\ \A v \in Workers : v # w => job'[v] = job[v]
      BY <1>0, <2>2 DEF TakeNote
    <3> QED BY <1>4, <3>1
  <2>3. CASE SkipNote(w)
    BY <1>4, <2>3 DEF SkipNote, Take, Step
  <2>4. CASE \E step \in {"build", "upsert"} : GoTo(w, step) /\ UNCHANGED queue
    <3>1. PICK step \in {"build", "upsert"} : GoTo(w, step) /\ UNCHANGED queue
      BY <2>4
    <3>2. job'[w].step = step /\ \A v \in Workers : v # w => job'[v] = job[v]
      BY <1>0, <3>1 DEF GoTo, Job
    <3> QED BY <1>5, <3>1, <3>2
  <2>5. CASE DoUpsert(w)
    BY <1>1, <1>6, <2>5 DEF DoUpsert
  <2>6. CASE Authorize(w)
    <3>1. CASE Done(w)
      BY <1>6, <2>6, <3>1 DEF Authorize
    <3>2. ASSUME NEW p, job' = [job EXCEPT ![w].step = "answer", ![w].pipeline = p] PROVE Known
      <4>1. job'[w].event = job[w].event /\ \A v \in Workers : v # w => job'[v] = job[v]
        BY <1>0, <3>2 DEF Job
      <4> QED BY <1>5, <2>6, <4>1 DEF Authorize
    <3> QED BY <2>6, <3>1, <3>2 DEF Authorize
  <2>7. CASE Done(w) /\ UNCHANGED queue
    BY <1>6, <2>7
  <2> QED BY <1>7, <2>1, <2>2, <2>3, <2>4, <2>5, <2>6, <2>7
      DEF Work, Resolve, BeginUpsert, PostAnswer, GiveUp
<1>8. ASSUME NEW w \in Workers, Restart(w) PROVE Known
  <2>1. /\ queue'[w] = <<>> /\ job'[w] = Idle
        /\ \A v \in Workers : v # w => queue'[v] = queue[v] /\ job'[v] = job[v]
    BY <1>0, <1>8 DEF Restart
  <2> QED BY <1>2, <2>1 DEF Idle
<1>9. Known
  BY <1>1, <1>3, <1>7, <1>8 DEF BotNext, allVars, botVars, OpenMergeRequest, PipelineEnds, Ask, Talk
<1>10. hooks \subseteq hooks'
  <2>1. \A w \in Workers : Work(w) => UNCHANGED hooks
    BY DEF Work, TakePipeline, TakeNote, SkipNote, Take, Resolve, BeginUpsert, DoUpsert, Authorize,
           PostAnswer, GiveUp
  <2> QED BY <2>1
      DEF BotNext, allVars, botVars, OpenMergeRequest, PipelineEnds, Ask, Talk, Deliver, Restart
<1> QED BY <1>9, <1>10

\* A command is new when it is asked: the report above it is settled then.
LEMMA AskedSettled ==
  ASSUME BotInv, NEW i \in DOMAIN threads, Ask(i), NEW id, id = threads[i].id,
         NEW p, p = Shown(i), p # NoPipeline
  PROVE  Settled(id, p)'
<1>0. TypeOK /\ UNCHANGED call
  BY DEF BotInv, BotTypeOK, Ask, Reply, Acts
<1>1. p = threads[i].report /\ \A w \in Workers : call[w].pc = "update" => call[w].target # id
  BY DEF Shown
<1>2. RootsKept /\ Rewritten = {}
  BY <1>0, ReplyKeepsRoots DEF Ask, Reply
<1>3. Discussed(threads'[i])
  <2>1. threads[i] \in Threads /\ threads[i].replies \in Seq({"bot", "person"})
    BY <1>0, ThreadType DEF Threads
  <2>2. threads'[i].replies = Append(threads[i].replies, "person")
    BY <2>1 DEF Ask, Reply, ReplyTo, Threads
  <2>3. Append(threads[i].replies, "person") # <<>>
    BY <2>1, AppendProperties
  <2> QED BY <2>2, <2>3 DEF Discussed
<1> QED BY <1>0, <1>1, <1>2, <1>3 DEF Settled, RootsKept, NotesKept, Rewritten

\* Authorize reads the settled report of the command.
LEMMA AnswerAbout ==
  ASSUME BotInv, DiscussedInv, QuestionInv, [BotNext]_allVars, NEW w \in Workers,
         Step(w)' = "answer", job'[w].event.shown # NoPipeline
  PROVE  job'[w].pipeline = job'[w].event.shown
<1>0. job \in [Workers -> Job] /\ job[w] \in Job /\ NotesNumbered
  BY DEF BotInv, BotTypeOK, DiscussedInv
<1>1. CASE job'[w] = job[w]
  BY <1>1 DEF QuestionInv, Step
<1>2. CASE Authorize(w)
  <2>1. PICK i \in DOMAIN threads :
          /\ threads[i].id = job[w].event.thread
          /\ \/ job' = [job EXCEPT ![w].step = "answer", ![w].pipeline = threads[i].report]
             \/ Done(w)
    BY <1>2 DEF Authorize
  <2>2. ~Done(w)
    BY <1>0 DEF Done, Idle, Step
  <2>3. job'[w].event = job[w].event /\ job'[w].pipeline = threads[i].report
    BY <1>0, <2>1, <2>2 DEF Job
  <2>4. job[w].event \in hooks /\ AsksAbout(job[w].event)
    BY <1>2, <2>3 DEF Authorize, QuestionInv, BotInv, JobOK, NoteEvents, AsksAbout
  <2>5. Settled(job[w].event.thread, job[w].event.shown)
    BY <2>4 DEF QuestionInv
  <2> QED BY <1>0, <2>1, <2>3, <2>5 DEF Settled, NotesNumbered
<1>3. ASSUME job'[w] # job[w], ~Authorize(w) PROVE FALSE
  <2>1. \A v \in Workers : ~Work(v) \/ v = w
    BY <1>0, <1>3 DEF Work, TakePipeline, TakeNote, SkipNote, Take, Resolve, BeginUpsert, DoUpsert,
                      PostAnswer, GiveUp, Done, GoTo, Authorize
  <2>2. ~Work(w)
    BY <1>0, <1>3 DEF Work, TakePipeline, TakeNote, SkipNote, Take, Resolve, BeginUpsert, DoUpsert,
                      PostAnswer, GiveUp, Done, GoTo, Step, Idle, Job
  <2>3. \A v \in Workers : ~Restart(v)
    BY <1>0, <1>3 DEF Restart, Step, Idle
  <2> QED BY <1>3, <2>1, <2>2, <2>3
      DEF BotNext, allVars, botVars, OpenMergeRequest, PipelineEnds, Ask, Talk, Deliver
<1> QED BY <1>1, <1>2, <1>3

LEMMA QuestionStep ==
  ASSUME BotInv, DiscussedInv, QuestionInv, [BotNext]_allVars
  PROVE  QuestionInv'
<1>0. TypeOK /\ NotesNumbered /\ BaseStep
  BY ServiceStep DEF DiscussedInv
<1>1. ASSUME NEW e \in hooks', AsksAbout(e) PROVE Settled(e.thread, e.shown)'
  <2>1. CASE e \in hooks
    BY <1>0, <1>1, <2>1, SettledStays DEF QuestionInv
  <2>2. CASE e \notin hooks
    <3>1. ASSUME NEW p \in Pipelines, PipelineEnds(p) PROVE FALSE
      BY <1>1, <2>2, <3>1 DEF PipelineEnds, AsksAbout
    <3>2. ~UNCHANGED hooks
      BY <2>2
    <3>3. PICK i \in DOMAIN threads : Ask(i)
      BY <3>1, <3>2
      DEF BotNext, allVars, botVars, OpenMergeRequest, Talk, Deliver, Restart, Work, TakePipeline,
          TakeNote, SkipNote, Take, Resolve, BeginUpsert, DoUpsert, Authorize, PostAnswer, GiveUp
    <3>4. e.thread = threads[i].id /\ e.shown = Shown(i)
      BY <2>2, <3>3 DEF Ask
    <3> QED BY <1>1, <3>3, <3>4, AskedSettled DEF AsksAbout
  <2> QED BY <2>1, <2>2
<1>2. /\ \A w \in Workers : \A k \in DOMAIN queue'[w] : queue'[w][k] \in hooks'
      /\ \A w \in Workers : Step(w)' \in {"authorize", "answer"} => job'[w].event \in hooks'
  BY EventsKnown
<1>3. \A w \in Workers : Step(w)' = "answer" /\ job'[w].event.shown # NoPipeline =>
          job'[w].pipeline = job'[w].event.shown
  BY AnswerAbout
<1> QED BY <1>1, <1>2, <1>3 DEF QuestionInv

\* A command is answered about the pipeline that its author read about, and
\* below a report that still shows it, by any number of replicas, however
\* often it is delivered and through refused and lost requests, crashes and
\* restarts: unless a replica was about to edit that report when it was asked.
THEOREM QuestionsAnswered == BotSpec => AnswerMatchesQuestion
<1>1. BotInit => DiscussedInv /\ QuestionInv
  <2>1. ASSUME BotInit PROVE QuestionInv
    BY <2>1 DEF BotInit, QuestionInv, Step, Idle
  <2> QED BY <2>1, DiscussedInit DEF BotInit
<1>2. BotInv /\ DiscussedInv /\ BotInv' /\ [BotNext]_allVars => DiscussedInv'
  BY ServiceStep, BaseDiscussedStep DEF BotInv, BotTypeOK
<1>3. BotInv /\ DiscussedInv /\ QuestionInv /\ [BotNext]_allVars => QuestionInv'
  BY QuestionStep
<1>4. ASSUME BotInv, QuestionInv, NEW w \in Workers, PostAnswer(w),
             job[w].event.shown # NoPipeline
      PROVE  /\ job[w].pipeline = job[w].event.shown
             /\ \E i \in DOMAIN threads :
                   threads[i].id = job[w].event.thread /\ threads'[i].report = job[w].pipeline
  <2>1. Step(w) = "answer" /\ job[w].pipeline = job[w].event.shown
    BY <1>4 DEF PostAnswer, QuestionInv
  <2>2. job[w].event \in hooks /\ AsksAbout(job[w].event)
    BY <1>4, <2>1 DEF QuestionInv, BotInv, JobOK, NoteEvents, AsksAbout
  <2>3. Settled(job[w].event.thread, job[w].event.shown)
    BY <1>4, <2>2 DEF QuestionInv
  <2>4. Rewritten = {}
    BY <1>4, ReplyKeepsRoots DEF PostAnswer, BotInv, BotTypeOK
  <2> QED BY <2>1, <2>3, <2>4 DEF Settled, Rewritten
<1>5. BotInv /\ QuestionInv =>
        [\A w \in Workers :
            PostAnswer(w) /\ job[w].event.shown # NoPipeline =>
              /\ job[w].pipeline = job[w].event.shown
              /\ \E i \in DOMAIN threads :
                    /\ threads[i].id = job[w].event.thread
                    /\ threads'[i].report = job[w].pipeline]_allVars
  BY <1>4
<1> QED BY BotTypeInit, BotTypeStep, <1>1, <1>2, <1>3, <1>5, PTL DEF BotSpec, AnswerMatchesQuestion

-----------------------------------------------------------------------------
(* One replica: the newest delivery *)

\* Nothing fails for good: only the answer to a request may be lost.
Calm == Faults \subseteq {"lost"} /\ Outage = FALSE /\ MaxRestarts = 0

NoPipelineWaits(w) == \A k \in DOMAIN queue[w] : queue[w][k].kind = "note"

\* The event accepted last waits, behind any number of others.
NewestWaits(w) ==
    \E k \in DOMAIN queue[w] :
        /\ queue[w][k] = newest
        /\ \A j \in DOMAIN queue[w] : k < j => queue[w][j].kind = "note"

NewestInHand(w) ==
    /\ Step(w) \in {"build", "upsert"}
    /\ job[w].pipeline = newest.pipeline
    /\ Step(w) = "upsert" => call[w].pipeline = newest.pipeline

NewestShown(w) ==
    /\ Step(w) \notin {"resolve", "build", "upsert"}
    /\ \E i \in ReportPlaces : LastPlace(i) /\ threads[i].report = newest.pipeline

\* Where the event accepted last is, until the next one is accepted.
NewestSomewhere(w) ==
    \/ NewestWaits(w)
    \/ NoPipelineWaits(w) /\ NewestInHand(w)
    \/ NoPipelineWaits(w) /\ NewestShown(w)

NewestInv == newest # NoEvent /\ newest.mr => \A w \in Workers : NewestSomewhere(w)

\* A call that is not refused ends with its report in the last place.
LEMMA UpsertShows ==
  ASSUME OneWorker, Calm, LineInv, LineInv', NEW w \in Workers, Upsert(w), call'[w].pc = "idle"
  PROVE  \E i \in ReportPlaces' : LastPlace(i)' /\ threads'[i].report = call[w].pipeline
<1>0. TypeOK /\ call \in [Workers -> Call] /\ call[w] \in Call
  BY DEF LineInv, ReplicaInv, TypeOK
<1>1. CASE Update(w)
  <2>1. PICK i \in ReportPlaces : LastPlace(i) /\ threads'[i].report = call[w].pipeline
    BY <1>1, UpdateEditsLast
  <2>2. RootsKept
    BY <1>1, UpdateEditsLast
  <2>3. ReportPlaces' = ReportPlaces
    BY <2>2 DEF RootsKept, NotesKept, ReportPlaces, IsReport
  <2> QED BY <2>1, <2>3 DEF LastPlace
<1>2. CASE Create(w)
  <2>1. PICK n :
          /\ n \in Nat /\ \A i \in DOMAIN threads : i < n /\ i \in Nat
          /\ DOMAIN threads' = DOMAIN threads \cup {n}
          /\ threads'[n].by = "bot" /\ threads'[n].marked = TRUE
          /\ threads'[n].report = call[w].pipeline
    <3>1. Len(threads) + 1 \in Nat /\ \A i \in DOMAIN threads : i \in Nat
      BY <1>0, LenProperties DEF TypeOK
    <3> QED BY <1>2, <3>1, CreateAddsLast
  <2>2. n \in ReportPlaces' /\ ReportPlaces' \subseteq DOMAIN threads \cup {n}
    BY <2>1 DEF ReportPlaces, IsReport
  <2> QED BY <2>1, <2>2 DEF LastPlace
\* The note found is still there, and the bot's.
<1>3. ~Fail(w)
  <2>1. call[w].pc = "update" => TargetExists(w) /\ TargetIsOurs(w)
    BY DEF LineInv, ReportPlaces, IsReport, NotesNumbered, TargetExists, TargetIsOurs
  <2> QED BY <2>1 DEF Fail, Calm
<1>4. CASE FindNote(w)
  <2>1. call'[w].pc = "update"
    BY <1>0, <1>4 DEF FindNote, Call
  <2> QED BY <2>1
<1>5. CASE NextPage(w)
  <2>1. call'[w].pc = "list"
    BY <1>0, <1>5 DEF NextPage, Call
  <2> QED BY <2>1
<1>6. CASE LastPage(w)
  <2>1. call'[w].pc = "create"
    BY <1>0, <1>6 DEF LastPage, Call
  <2> QED BY <2>1
<1> QED BY <1>1, <1>2, <1>3, <1>4, <1>5, <1>6 DEF Upsert

\* The newest event moves up too, or is the one taken; then only notes are
\* left.
LEMMA NewestMovesUp ==
  ASSUME BotInv, NEW w \in Workers, Take(w), NewestWaits(w), newest' = newest
  PROVE  NewestWaits(w)' \/ (Head(queue[w]) = newest /\ NoPipelineWaits(w)')
<1>1. PICK k \in DOMAIN queue[w] :
        /\ queue[w][k] = newest
        /\ \A j \in DOMAIN queue[w] : k < j => queue[w][j].kind = "note"
  BY DEF NewestWaits
<1>2. ASSUME NEW j \in DOMAIN queue'[w], k < j + 1 PROVE queue'[w][j].kind = "note"
  BY <1>1, <1>2, TakenQueue
<1>3. k \in Nat /\ \A j \in DOMAIN queue'[w] : j \in Nat \ {0}
  BY TakenQueue
<1>4. CASE k = 1
  <2>1. \A j \in DOMAIN queue'[w] : k < j + 1
    BY <1>3, <1>4
  <2> QED BY <1>1, <1>2, <1>4, <2>1, TakenQueue DEF NoPipelineWaits
<1>5. CASE k # 1
  <2>1. k - 1 \in DOMAIN queue'[w] /\ queue'[w][k - 1] = newest
    BY <1>1, <1>5, TakenQueue
  <2>2. \A j \in DOMAIN queue'[w] : k - 1 < j => k < j + 1
    BY <1>3
  <2> QED BY <1>2, <2>1, <2>2 DEF NewestWaits
<1> QED BY <1>4, <1>5

LEMMA NotesMoveUp ==
  ASSUME BotInv, NEW w \in Workers, Take(w), NoPipelineWaits(w)
  PROVE  NoPipelineWaits(w)' /\ Head(queue[w]).kind = "note"
BY TakenQueue DEF NoPipelineWaits

\* A delivery puts its event behind the others, or is refused.
LEMMA NewestDelivered ==
  ASSUME BotInv, NewestInv, NEW v \in Workers, NEW e \in hooks, Deliver(v, e), OneWorker
  PROVE  NewestInv'
<1> SUFFICES ASSUME newest' # NoEvent, newest'.mr, NEW w \in Workers
    PROVE  NewestSomewhere(w)'
  BY DEF NewestInv
<1>0. v = w /\ queue \in [Workers -> Seq(Events)] /\ queue[w] \in Seq(Events) /\ e \in Events
  BY DEF OneWorker, BotInv, BotTypeOK
<1>1. UNCHANGED <<job, call, threads>>
  BY DEF Deliver, vars
<1>2. (NewestInHand(w) \/ NewestShown(w)) /\ newest' = newest
        => (NewestInHand(w) \/ NewestShown(w))'
  BY <1>1 DEF NewestInHand, NewestShown, Step, ReportPlaces, LastPlace
<1>3. CASE UNCHANGED <<queue, newest>>
  BY <1>2, <1>3 DEF NewestInv, NewestSomewhere, NewestWaits, NoPipelineWaits
<1>4. CASE /\ queue' = [queue EXCEPT ![v] = Append(@, e)]
           /\ newest' = IF e.kind = "pipeline" THEN e ELSE newest
  <2> DEFINE n == Len(queue[w]) + 1
  <2>1. /\ queue'[w] = Append(queue[w], e) /\ Len(queue[w]) \in Nat
        /\ DOMAIN queue[w] = 1..Len(queue[w])
    BY <1>0, <1>4, LenProperties
  <2>2. /\ DOMAIN queue'[w] = 1..n /\ queue'[w][n] = e /\ n \in DOMAIN queue'[w]
        /\ \A k \in DOMAIN queue[w] : queue'[w][k] = queue[w][k] /\ k \in DOMAIN queue'[w]
        /\ \A k \in DOMAIN queue'[w] : k = n \/ k \in DOMAIN queue[w]
        /\ \A k \in DOMAIN queue'[w] : ~(n < k)
    BY <1>0, <2>1
  <2> HIDE DEF n
  <2>3. CASE e.kind = "pipeline"
    BY <1>4, <2>2, <2>3 DEF NewestSomewhere, NewestWaits
  <2>4. CASE e.kind # "pipeline"
    <3>1. e.kind = "note" /\ newest' = newest
      BY <1>0, <1>4, <2>4 DEF Events, PipelineEvents, NoteEvents
    <3>2. NewestWaits(w) => NewestWaits(w)'
      BY <2>2, <3>1 DEF NewestWaits
    <3>3. NoPipelineWaits(w) => NoPipelineWaits(w)'
      BY <2>2, <3>1 DEF NoPipelineWaits
    <3> QED BY <1>2, <3>1, <3>2, <3>3 DEF NewestInv, NewestSomewhere
  <2> QED BY <2>3, <2>4
<1> QED BY <1>3, <1>4 DEF Deliver

\* The steps of the worker, with what is in its queue already said.
LEMMA NewestWorked ==
  ASSUME OneWorker, Calm, BotInv, BotInv', LineInv, LineInv', NewestInv, NEW w \in Workers, Work(w),
         newest # NoEvent, newest.mr
  PROVE  NewestSomewhere(w)'
<1>0. /\ TypeOK /\ job \in [Workers -> Job] /\ job[w] \in Job /\ JobOK(w) /\ JobOK(w)'
      /\ newest' = newest /\ newest \in PipelineEvents
      /\ NewestSomewhere(w)
  BY DEF BotInv, BotTypeOK, NewestInv, Work, TakePipeline, TakeNote, SkipNote, Take, Resolve,
         BeginUpsert, DoUpsert, Authorize, PostAnswer, GiveUp
<1>1. CASE UNCHANGED queue /\ NewestWaits(w)
  BY <1>0, <1>1 DEF NewestSomewhere, NewestWaits
<1>2. CASE UNCHANGED queue /\ NoPipelineWaits(w) /\ (NewestInHand(w)' \/ NewestShown(w)')
  BY <1>0, <1>2 DEF NewestSomewhere, NoPipelineWaits
<1>3. ASSUME NewestShown(w), UNCHANGED threads, Step(w)' \notin {"resolve", "build", "upsert"}
      PROVE  NewestShown(w)'
  BY <1>0, <1>3 DEF NewestShown, ReportPlaces, LastPlace
<1>4. CASE TakePipeline(w)
  <2>1. Take(w) /\ Head(queue[w]).kind = "pipeline"
    BY <1>4 DEF TakePipeline
  <2>2. NewestWaits(w)
    BY <1>0, <2>1, NotesMoveUp DEF NewestSomewhere
  <2>3. CASE Head(queue[w]) = newest /\ NoPipelineWaits(w)'
    <3>1. job'[w].step = "build" /\ job'[w].pipeline = newest.pipeline
      BY <1>0, <1>4, <2>3 DEF TakePipeline
    <3> QED BY <1>0, <2>3, <3>1 DEF NewestSomewhere, NewestInHand, Step
  <2> QED BY <1>0, <2>1, <2>2, <2>3, NewestMovesUp DEF NewestSomewhere
<1>5. CASE TakeNote(w) \/ SkipNote(w)
  <2>1. /\ Take(w) /\ Head(queue[w]).kind = "note" /\ UNCHANGED threads
        /\ Step(w) = "idle" /\ Step(w)' \in {"idle", "authorize"}
    BY <1>0, <1>5 DEF TakeNote, SkipNote, Take, Step, vars
  <2>2. Head(queue[w]) # newest
    BY <1>0, <2>1 DEF PipelineEvents
  <2>3. ~NewestInHand(w)
    BY <2>1 DEF NewestInHand
  <2> QED BY <1>0, <1>3, <2>1, <2>2, <2>3, NewestMovesUp, NotesMoveUp DEF NewestSomewhere
<1>6. CASE Resolve(w)
  <2>1. UNCHANGED queue /\ Step(w) = "resolve"
    BY <1>6 DEF Resolve
  <2> QED BY <1>0, <1>1, <2>1 DEF NewestSomewhere, NewestInHand, NewestShown
<1>7. CASE BeginUpsert(w)
  <2>1. /\ UNCHANGED queue /\ Step(w) = "build" /\ Step(w)' = "upsert"
        /\ job'[w].pipeline = job[w].pipeline /\ call'[w].pipeline = job[w].pipeline
    BY <1>0, <1>7 DEF BeginUpsert, GoTo, Start, Step, Job, TypeOK
  <2> QED BY <1>0, <1>1, <1>2, <2>1 DEF NewestSomewhere, NewestInHand, NewestShown
<1>8. CASE DoUpsert(w)
  <2>1. /\ UNCHANGED queue /\ Step(w) = "upsert" /\ Upsert(w)
        /\ call'[w].pipeline = call[w].pipeline
    BY <1>0, <1>8, CallGoesOn DEF DoUpsert
  <2>2. CASE call'[w].pc # "idle"
    <3>1. UNCHANGED job
      BY <1>8, <2>2 DEF DoUpsert
    <3> QED BY <1>0, <1>1, <1>2, <2>1, <3>1 DEF NewestSomewhere, NewestInHand, NewestShown, Step
  <2>3. CASE call'[w].pc = "idle"
    <3>1. \E i \in ReportPlaces' : LastPlace(i)' /\ threads'[i].report = call[w].pipeline
      BY <2>1, <2>3, UpsertShows
    <3>2. Step(w)' = "idle"
      BY <1>0, <1>8, <2>3 DEF DoUpsert, Done, Idle, Step
    <3>3. NewestInHand(w) => NewestShown(w)'
      BY <1>0, <2>1, <3>1, <3>2 DEF NewestInHand, NewestShown
    <3>4. ~NewestShown(w)
      BY <2>1 DEF NewestShown
    <3> QED BY <1>0, <1>1, <1>2, <2>1, <3>3, <3>4 DEF NewestSomewhere
  <2> QED BY <2>2, <2>3
<1>9. CASE Authorize(w)
  <2>1. /\ UNCHANGED queue /\ UNCHANGED threads
        /\ Step(w) = "authorize" /\ Step(w)' \in {"answer", "idle"}
    BY <1>0, <1>9 DEF Authorize, Done, Idle, Step, Job, vars
  <2> QED BY <1>0, <1>1, <1>2, <1>3, <2>1 DEF NewestSomewhere, NewestInHand
<1>10. CASE PostAnswer(w)
  <2>1. UNCHANGED queue /\ Step(w) = "answer" /\ Step(w)' = "idle"
    BY <1>0, <1>10 DEF PostAnswer, Done, Idle, Step
  <2>2. Quiet
    BY <1>10, ReplyIsQuiet DEF PostAnswer
  <2>3. NewestShown(w) => NewestShown(w)'
    BY <1>0, <2>1, <2>2 DEF NewestShown, Quiet, LastPlace
  <2> QED BY <1>0, <1>1, <1>2, <2>1, <2>3 DEF NewestSomewhere, NewestInHand
<1>11. ~GiveUp(w)
  BY DEF GiveUp, Calm
<1> QED BY <1>4, <1>5, <1>6, <1>7, <1>8, <1>9, <1>10, <1>11 DEF Work

LEMMA NewestStep ==
  ASSUME OneWorker, Calm, BotInv, BotInv', LineInv, LineInv', NewestInv, [BotNext]_allVars
  PROVE  NewestInv'
<1>1. CASE UNCHANGED <<job, queue, newest, call>> /\ (Quiet \/ UNCHANGED threads)
  <2>1. \A w \in Workers : NewestShown(w) => NewestShown(w)'
    BY <1>1 DEF NewestShown, Step, Quiet, ReportPlaces, LastPlace
  <2> QED BY <1>1, <2>1 DEF NewestInv, NewestSomewhere, NewestWaits, NoPipelineWaits, NewestInHand, Step
<1>2. CASE UNCHANGED allVars
  BY <1>1, <1>2 DEF allVars, botVars, vars
<1>3. CASE OpenMergeRequest \/ \E p \in Pipelines : PipelineEnds(p)
  BY <1>1, <1>3 DEF OpenMergeRequest, PipelineEnds, vars
<1>4. CASE Talk \/ \E i \in DOMAIN threads : Ask(i)
  <2>1. Quiet
    BY <1>4, CommentIsQuiet, ReplyIsQuiet DEF Talk, Ask, Reply
  <2>2. UNCHANGED <<job, queue, newest, call>>
    BY <1>4 DEF Talk, Ask, botVars, Comment, Reply, Acts
  <2> QED BY <1>1, <2>1, <2>2
<1>5. ASSUME NEW w \in Workers, Work(w) PROVE NewestInv'
  <2>1. newest' = newest
    BY <1>5 DEF Work, TakePipeline, TakeNote, SkipNote, Take, Resolve, BeginUpsert, DoUpsert,
                Authorize, PostAnswer, GiveUp
  <2> QED BY <1>5, <2>1, NewestWorked DEF NewestInv, OneWorker
<1>6. ASSUME NEW w \in Workers PROVE ~Restart(w)
  BY DEF Restart, Calm, BotInv, BotTypeOK
<1> QED BY <1>2, <1>3, <1>4, <1>5, <1>6, NewestDelivered DEF BotNext

\* Reports appear in the order of the deliveries: with one replica that is
\* at rest, whose requests are not refused, the last report of the merge
\* request is that of the pipeline event accepted last, for any capacity of
\* the queue and any events, answers and lost answers in between.
THEOREM NewestShownAtRest ==
  ASSUME OneWorker, Calm
  PROVE  BotSpec => []NewestDeliveryShown
<1>1. BotInit => LineInv /\ NewestInv
  BY LineInit DEF BotInit, NewestInv
<1>2. BotInv /\ LineInv /\ BotInv' /\ [BotNext]_allVars => LineInv'
  BY BotLineStep
<1>3. BotInv /\ LineInv /\ NewestInv /\ BotInv' /\ LineInv' /\ [BotNext]_allVars => NewestInv'
  BY NewestStep
<1>4. NewestInv => NewestDeliveryShown
  <2>1. \A w \in Workers : queue[w] = <<>> => ~NewestWaits(w)
    BY DEF NewestWaits
  <2> QED BY <2>1 DEF NewestInv, NewestSomewhere, NewestDeliveryShown, NewestInHand, NewestShown,
                       LastPlace, ReportPlaces
<1> QED BY BotTypeInit, BotTypeStep, <1>1, <1>2, <1>3, <1>4, PTL DEF BotSpec
=============================================================================
