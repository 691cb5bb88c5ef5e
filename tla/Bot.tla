-------------------------------- MODULE Bot --------------------------------
(***************************************************************************)
(* The service around one merge request: GitLab's webhook deliveries, the  *)
(* handler that enqueues them (internal/webhook), the worker of each       *)
(* replica (cmd/bot/serve.go), the report path (internal/reporter) and the *)
(* command path (internal/command), over the discussions of UpsertNote.    *)
(*                                                                         *)
(* Enqueue is one step here: WorkQueue implements DropQueue, whose Accept  *)
(* and Refuse are the two outcomes of Deliver.  Nobody deletes notes, so   *)
(* the ID of a root note also names its discussion.                        *)
(***************************************************************************)
EXTENDS UpsertNote

CONSTANTS
    QueueSize,       \* capacity of a worker's queue (queueSize, 128 in the code)
    Outage,          \* requests other than those of UpsertNote may fail
    MaxDeliveries,   \* bound: webhook deliveries, repeated ones included
    MaxRestarts      \* bound: crashes and restarts of a replica

ASSUME QueueSizeAssumption == QueueSize \in Nat \ {0}
ASSUME OutageAssumption == Outage \in BOOLEAN
ASSUME BotBoundsAssumption ==
    /\ MaxDeliveries \in Nat /\ MaxRestarts \in Nat
    /\ MaxDeliveries <= MaxUpserts

VARIABLES
    mrOpen,      \* the merge request has been created
    hooks,       \* the events GitLab delivers, any number of times
    deliveries,  \* how many deliveries there were
    queue,       \* per worker: its queue
    seen,        \* per worker: the note IDs handled
    job,         \* per worker: the event in hand and how far it is
    restarts,    \* how many restarts there were
    answers,     \* history: the replies to commands, in order
    newest       \* history: the pipeline event accepted last

botVars == <<mrOpen, hooks, deliveries, queue, seen, job, restarts, answers, newest>>
allVars == <<vars, botVars>>

\* A terminal pipeline event, with or without its merge request; a note that
\* parses as a command, the discussion it is in, and what the report above it
\* showed when it was written (history).
PipelineEvents == [kind : {"pipeline"}, pipeline : Pipelines, mr : BOOLEAN]
NoteEvents ==
    [kind : {"note"}, note : 1..MaxPeople, thread : Nat, shown : Pipelines \cup {NoPipeline}]
NoEvent == [kind |-> "none"]
Events == PipelineEvents \cup NoteEvents

Job ==
    [step : {"idle", "resolve", "build", "upsert", "authorize", "answer"},
     event : Events \cup {NoEvent}, pipeline : Pipelines \cup {NoPipeline}]

Answer == [note : 1..MaxPeople, pipeline : Pipelines]

BotTypeOK ==
    /\ TypeOK
    /\ mrOpen \in BOOLEAN
    /\ hooks \subseteq Events
    /\ deliveries \in 0..MaxDeliveries
    /\ queue \in [Workers -> Seq(Events)]
    /\ \A w \in Workers : Len(queue[w]) <= QueueSize
    /\ seen \in [Workers -> SUBSET (1..MaxPeople)]
    /\ job \in [Workers -> Job]
    /\ restarts \in 0..MaxRestarts
    /\ answers \in Seq(Answer)
    /\ newest \in PipelineEvents \cup {NoEvent}

Idle == [step |-> "idle", event |-> NoEvent, pipeline |-> NoPipeline]

BotInit ==
    /\ Init
    /\ mrOpen \in BOOLEAN
    /\ hooks = {}
    /\ deliveries = 0
    /\ queue = [w \in Workers |-> <<>>]
    /\ seen = [w \in Workers |-> {}]
    /\ job = [w \in Workers |-> Idle]
    /\ restarts = 0
    /\ answers = <<>>
    /\ newest = NoEvent

-----------------------------------------------------------------------------
(* GitLab and the people on the merge request *)

OpenMergeRequest ==
    /\ ~mrOpen
    /\ mrOpen' = TRUE
    /\ UNCHANGED <<vars, hooks, deliveries, queue, seen, job, restarts, answers, newest>>

\* The event carries a merge request only if there is one by then.
PipelineEnds(p) ==
    /\ \A e \in hooks : e.kind = "pipeline" => e.pipeline # p
    /\ hooks' = hooks \cup {[kind |-> "pipeline", pipeline |-> p, mr |-> mrOpen]}
    /\ UNCHANGED <<vars, mrOpen, deliveries, queue, seen, job, restarts, answers, newest>>

\* The pipeline whoever asks reads about; none if a replica is about to edit it.
Shown(i) ==
    IF \E w \in Workers : call[w].pc = "update" /\ call[w].target = threads[i].id
    THEN NoPipeline ELSE threads[i].report

\* A reply whose first line is a command; the count of acts numbers the note.
Ask(i) ==
    /\ Reply(i)
    /\ hooks' = hooks \cup
          {[kind |-> "note", note |-> acts', thread |-> threads[i].id, shown |-> Shown(i)]}
    /\ UNCHANGED <<mrOpen, deliveries, queue, seen, job, restarts, answers, newest>>

Talk ==
    /\ mrOpen
    /\ Comment("person") \/ \E i \in DOMAIN threads : Reply(i)
    /\ UNCHANGED botVars

-----------------------------------------------------------------------------
(* The webhook handler *)

\* Mutants: the queue has no limit; the event overtakes those that wait.
DeliverUnbounded(w, e) ==
    /\ e \in hooks
    /\ deliveries < MaxDeliveries
    /\ deliveries' = deliveries + 1
    /\ queue' = [queue EXCEPT ![w] = Append(@, e)]
    /\ UNCHANGED <<vars, mrOpen, hooks, seen, job, restarts, answers, newest>>
DeliverFirst(w, e) ==
    /\ e \in hooks
    /\ deliveries < MaxDeliveries
    /\ deliveries' = deliveries + 1
    /\ Len(queue[w]) < QueueSize
    /\ queue' = [queue EXCEPT ![w] = <<e>> \o @]
    /\ newest' = IF e.kind = "pipeline" THEN e ELSE newest
    /\ UNCHANGED <<vars, mrOpen, hooks, seen, job, restarts, answers>>

\* handlePipeline and handleNote, for an authenticated delivery that passes
\* their filters; a service in front of the replicas picks one.
Deliver(w, e) ==
    /\ e \in hooks
    /\ deliveries < MaxDeliveries
    /\ deliveries' = deliveries + 1
    /\ UNCHANGED <<vars, mrOpen, hooks, seen, job, restarts, answers>>
    /\ \/ /\ Len(queue[w]) < QueueSize
          /\ queue' = [queue EXCEPT ![w] = Append(@, e)]
          /\ newest' = IF e.kind = "pipeline" THEN e ELSE newest
       \/ /\ Len(queue[w]) = QueueSize    \* 503, dropped for good
          /\ UNCHANGED <<queue, newest>>

-----------------------------------------------------------------------------
(* The worker *)

Step(w) == job[w].step
GoTo(w, step) == job' = [job EXCEPT ![w].step = step]
Done(w) == job' = [job EXCEPT ![w] = Idle]

Take(w) ==
    /\ Step(w) = "idle"
    /\ queue[w] # <<>>
    /\ queue' = [queue EXCEPT ![w] = Tail(@)]
    /\ UNCHANGED <<vars, mrOpen, hooks, deliveries, restarts, answers, newest>>

\* process: the merge request of the event, or the one of its branch
TakePipeline(w) ==
    LET e == Head(queue[w]) IN
    /\ Take(w)
    /\ e.kind = "pipeline"
    /\ job' = [job EXCEPT ![w] =
          [step |-> IF e.mr THEN "build" ELSE "resolve", event |-> e, pipeline |-> e.pipeline]]
    /\ UNCHANGED seen

\* Mutant: a note is handled as often as it is delivered.
TakeNoteAgain(w) ==
    LET e == Head(queue[w]) IN
    /\ Take(w)
    /\ e.kind = "note"
    /\ job' = [job EXCEPT ![w] = [step |-> "authorize", event |-> e, pipeline |-> NoPipeline]]
    /\ UNCHANGED seen

\* processNote: the note counts as seen before it is handled
TakeNote(w) ==
    LET e == Head(queue[w]) IN
    /\ Take(w)
    /\ e.kind = "note"
    /\ e.note \notin seen[w]
    /\ seen' = [seen EXCEPT ![w] = @ \cup {e.note}]
    /\ job' = [job EXCEPT ![w] = [step |-> "authorize", event |-> e, pipeline |-> NoPipeline]]

SkipNote(w) ==
    /\ Take(w)
    /\ Head(queue[w]).kind = "note"
    /\ Head(queue[w]).note \in seen[w]
    /\ UNCHANGED <<seen, job>>

\* Mutant: the merge request of the branch is not looked up.
NeverResolve(w) ==
    /\ Step(w) = "resolve"
    /\ Done(w)
    /\ UNCHANGED <<vars, mrOpen, hooks, deliveries, queue, seen, restarts, answers, newest>>

\* MergeRequestForBranch: without an open merge request nothing is posted
Resolve(w) ==
    /\ Step(w) = "resolve"
    /\ IF mrOpen THEN GoTo(w, "build") ELSE Done(w)
    /\ UNCHANGED <<vars, mrOpen, hooks, deliveries, queue, seen, restarts, answers, newest>>

\* Build has listed the jobs and their usage: UpsertNote is called
BeginUpsert(w) ==
    /\ Step(w) = "build"
    /\ Start(w, job[w].pipeline)
    /\ GoTo(w, "upsert")
    /\ UNCHANGED <<mrOpen, hooks, deliveries, queue, seen, restarts, answers, newest>>

\* Mutant: the worker waits for ever on an upsert that has ended.
UpsertHangs(w) ==
    /\ Step(w) = "upsert"
    /\ Upsert(w)
    /\ UNCHANGED job
    /\ UNCHANGED <<mrOpen, hooks, deliveries, queue, seen, restarts, answers, newest>>

DoUpsert(w) ==
    /\ Step(w) = "upsert"
    /\ Upsert(w)
    /\ IF call'[w].pc = "idle" THEN Done(w) ELSE UNCHANGED job
    /\ UNCHANGED <<mrOpen, hooks, deliveries, queue, seen, restarts, answers, newest>>

\* Mutant: the command is answered about the latest pipeline, not about the
\* one the marker of its thread names.
AuthorizeLatest(w) ==
    /\ Step(w) = "authorize"
    /\ IF newest = NoEvent THEN Done(w)
       ELSE job' = [job EXCEPT ![w].step = "answer", ![w].pipeline = newest.pipeline]
    /\ UNCHANGED <<vars, mrOpen, hooks, deliveries, queue, seen, restarts, answers, newest>>

\* The root note of the command's discussion is the bot's, and its signed
\* marker names a pipeline; else the note is dropped without an answer.
Authorize(w) ==
    /\ Step(w) = "authorize"
    /\ \E i \in DOMAIN threads :
          /\ threads[i].id = job[w].event.thread
          /\ IF IsReport(threads[i]) /\ threads[i].report # NoPipeline
             THEN job' = [job EXCEPT ![w].step = "answer", ![w].pipeline = threads[i].report]
             ELSE Done(w)
    /\ UNCHANGED <<vars, mrOpen, hooks, deliveries, queue, seen, restarts, answers, newest>>

\* help, details or advise about the pipeline of the marker: one reply,
\* whether or not its answer comes back
PostAnswer(w) ==
    /\ Step(w) = "answer"
    /\ \E i \in DOMAIN threads :
          /\ threads[i].id = job[w].event.thread
          /\ ReplyTo(i, "bot")
    /\ answers' = Append(answers, [note |-> job[w].event.note, pipeline |-> job[w].pipeline])
    /\ Done(w)
    /\ UNCHANGED <<nextNote, call, upserts, acts,
                   mrOpen, hooks, deliveries, queue, seen, restarts, newest>>

\* A request fails or the two minutes are over: logged, never tried again
GiveUp(w) ==
    /\ Outage
    /\ Step(w) \in {"resolve", "build", "authorize", "answer"}
    /\ Done(w)
    /\ UNCHANGED <<vars, mrOpen, hooks, deliveries, queue, seen, restarts, answers, newest>>

Work(w) ==
    \/ TakePipeline(w) \/ TakeNote(w) \/ SkipNote(w)
    \/ Resolve(w) \/ BeginUpsert(w) \/ DoUpsert(w)
    \/ Authorize(w) \/ PostAnswer(w)
    \/ GiveUp(w)

\* The process ends, by a crash or a rolling update, and a new one starts:
\* queue, seen and the event in hand were in its memory only.
Restart(w) ==
    /\ restarts < MaxRestarts
    /\ restarts' = restarts + 1
    /\ queue' = [queue EXCEPT ![w] = <<>>]
    /\ seen' = [seen EXCEPT ![w] = {}]
    /\ job' = [job EXCEPT ![w] = Idle]
    /\ call' = [call EXCEPT ![w].pc = "idle", ![w].posted = FALSE]
    /\ UNCHANGED <<threads, nextNote, upserts, acts, mrOpen, hooks, deliveries, answers, newest>>

BotNext ==
    \/ OpenMergeRequest
    \/ \E p \in Pipelines : PipelineEnds(p)
    \/ \E i \in DOMAIN threads : Ask(i)
    \/ Talk
    \/ \E w \in Workers :
          \/ \E e \in hooks : Deliver(w, e)
          \/ Work(w)
          \/ Restart(w)

BotSpec == BotInit /\ [][BotNext]_allVars

\* The worker goroutine runs, and each request it makes ends.
BotFairSpec == BotSpec /\ \A w \in Workers : WF_allVars(Work(w))

-----------------------------------------------------------------------------
(* Properties *)

\* docs/deploy.md: "a duplicate delivery cannot produce a duplicate comment":
\* no two reports of the merge request show the same pipeline.
OneReportPerPipeline ==
    \A i, j \in DOMAIN threads :
        IsReport(threads[i]) /\ IsReport(threads[j]) /\ threads[i].report = threads[j].report
            => i = j

\* The set of handled notes lives as long as the process: what redeliveries
\* can cost is one more answer per replica and per restart.
AnswersPerLifetime ==
    \A n \in 1..MaxPeople :
        Cardinality({i \in DOMAIN answers : answers[i].note = n})
            <= Cardinality(Workers) + restarts

\* docs/usage.md: a command is answered "for every job in this report".  So
\* it is, however many replicas post and whatever fails or restarts, unless a
\* replica had listed the report and was about to edit it when the command was
\* written: the answer is about the pipeline the person saw, and the report
\* above it still shows that one.
AnswerMatchesQuestion ==
    [][\A w \in Workers :
          PostAnswer(w) /\ job[w].event.shown # NoPipeline =>
              /\ job[w].pipeline = job[w].event.shown
              /\ \E i \in DOMAIN threads :
                    /\ threads[i].id = job[w].event.thread
                    /\ threads'[i].report = job[w].pipeline]_allVars

\* Once the worker is at rest, the newest report is that of the pipeline
\* event accepted last: reports appear in delivery order.
NewestDeliveryShown ==
    \A w \in Workers :
        queue[w] = <<>> /\ Step(w) = "idle" /\ newest # NoEvent /\ newest.mr =>
            \E i \in DOMAIN threads :
                /\ IsReport(threads[i]) /\ threads[i].report = newest.pipeline
                /\ \A j \in DOMAIN threads : IsReport(threads[j]) => j <= i

\* A command accepted for a report thread is answered: no event behind or
\* before it keeps the worker from it.
CommandAnswered ==
    \A w \in Workers : \A n \in 1..MaxPeople :
        (\E i \in DOMAIN queue[w], k \in DOMAIN threads :
            /\ queue[w][i].kind = "note" /\ queue[w][i].note = n
            /\ queue[w][i].thread = threads[k].id /\ IsReport(threads[k]))
        ~> (\E i \in DOMAIN answers : answers[i].note = n)

\* A pipeline event accepted after its merge request was opened ends in a
\* report, if every request succeeds.
PipelineReported ==
    \A w \in Workers : \A p \in Pipelines :
        (\E i \in DOMAIN queue[w] :
            queue[w][i].kind = "pipeline" /\ queue[w][i].pipeline = p /\ mrOpen)
        ~> (call[w].pipeline = p /\ call[w].posted)
=============================================================================
