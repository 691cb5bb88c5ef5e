------------------------------ MODULE Reporter ------------------------------
(***************************************************************************)
(* One task of the reporter at a time: the report of a pipeline that is    *)
(* over (internal/reporter), posted by the worker or printed by `bot run`, *)
(* the details of one job printed by `bot run --job` (cmd/bot/run.go), and *)
(* the facts that advice is based on.  A task makes its requests one after *)
(* the other, each of which may fail, until its context is over: two       *)
(* minutes for the worker, a signal for the command line.                  *)
(***************************************************************************)
EXTENDS PipelineJobs

CONSTANTS
    Limits,          \* the configured thresholds
    PodResolver,     \* the configured resolver
    Faults,          \* the requests that may fail
    MaxTasks         \* bound: tasks

ASSUME LimitsAssumption == Limits \in Thresholds
ASSUME PodResolverAssumption == PodResolver \in {"trace", "prometheus"}
ASSUME FaultsAssumption == Faults \subseteq {"list", "metrics", "trace", "authorize", "upload", "post"}
ASSUME MaxTasksAssumption == MaxTasks \in Nat

VARIABLES
    task,            \* the task in hand
    expired,         \* its context is over
    tasks,           \* how many tasks there were
    board,           \* the rows of the report on the merge request
    said             \* history: the last thing posted or printed

taskVars == <<task, expired, tasks, board, said>>
vars == <<jobVars, taskVars>>

Everything == [id |-> 0, name |-> ""]        \* an empty selector
Idle == [kind |-> "none", step |-> "idle", sel |-> Everything, root |-> "report",
         todo |-> <<>>, rows |-> <<>>, target |-> <<>>, charts |-> <<>>]
Task(kind, sel) == [Idle EXCEPT !.kind = kind, !.sel = sel, !.step = "list"]

Printed == {"run", "job", "print advice"}    \* tasks of the command line
GoTo(step) == task' = [task EXCEPT !.step = step]
Done == task' = Idle

Begin(t) ==
    /\ task.step = "idle"
    /\ tasks < MaxTasks
    /\ tasks' = tasks + 1
    /\ expired' = FALSE
    /\ task' = t
    /\ IF t.step = "list" THEN StartListing ELSE UNCHANGED listing
    /\ UNCHANGED <<jobs, lastJob, board, said>>

\* The context is over: every request from now on fails.
Expire ==
    /\ task.step # "idle" /\ ~expired
    /\ expired' = TRUE
    /\ UNCHANGED <<jobVars, task, tasks, board, said>>

Advising == task.kind \in {"advise", "print advice"}
AllMeasured == task.step = "measure" /\ task.todo = <<>>
Posting == task.step = "post" \/ (AllMeasured /\ task.kind \in {"report", "advise"})

\* The request of a step that ends the task when it fails
Request ==
    CASE Posting -> "post"
      [] task.step \in {"list", "authorize", "upload"} -> task.step
      [] task.step \in {"span", "series"} -> "metrics"
      [] task.step = "resolve" /\ task.todo # <<>> /\ Ran(Head(task.todo).run) -> "metrics"
      [] OTHER -> "none"

GiveUp ==
    /\ Request # "none"
    /\ expired \/ Request \in Faults
    /\ Done
    /\ UNCHANGED <<jobVars, expired, tasks, board, said>>

-----------------------------------------------------------------------------
(* Listing the jobs *)

\* What is left to do of the jobs listed: the first of its name for the details
\* of a job, all of them for a pod to be looked for, a report or advice; else
\* the job asked for.
Chosen(kind, sel, list) ==
    CASE kind = "details" /\ sel.id = 0 -> FirstAt(list, Named(list, sel.name))
      [] kind = "details" /\ sel.id # 0 -> list
      [] kind # "details" /\ (kind \in {"report", "run"} \/ sel = Everything) -> list
      [] OTHER -> FindJob(list, sel)

\* Nothing is found: a reply says so, the command line ends with an error.
ListJobs ==
    /\ task.step = "list"
    /\ ~expired
    /\ ListPage
    /\ LET chosen == Chosen(task.kind, task.sel, listing'.list)
           missing == chosen = <<>> /\ task.sel # Everything /\ task.kind # "details"
       IN  task' = CASE listing'.page > 0 -> task
                     [] listing'.page = 0 /\ missing /\ task.kind \in Printed -> Idle
                     [] listing'.page = 0 /\ missing /\ task.kind = "advise" ->
                            [task EXCEPT !.step = "post", !.kind = "refuse"]
                     [] OTHER -> [task EXCEPT !.todo = chosen,
                            !.step = IF task.kind = "details" THEN "resolve" ELSE "measure"]
    /\ UNCHANGED <<jobs, lastJob, expired, tasks, board, said>>

-----------------------------------------------------------------------------
(* Build and Advise: one job after the other *)

\* The first line of the trace that names the pod, unless the scanner fails
\* before it; or the pod in the labels, which may be empty.
PodFromTrace(run) ==
    LET found == SelectSeq(run.log, LAMBDA l : l # "text")
    IN  IF found = <<>> THEN "none" ELSE Head(found)
PodFromLabels(run) == IF run.label = "pod" THEN "pod" ELSE "none"
PodForJob(run) == IF PodResolver = "trace" THEN PodFromTrace(run) ELSE PodFromLabels(run)

\* PodUsage: a series that Prometheus does not have leaves its quantity 0.
Scalar(series, name) == IF name \in DOMAIN series THEN series[name] ELSE 0
UsageOf(series) ==
    LET v(name) == Scalar(series, name) IN
    [peak |-> v("peak"), cpuRequest |-> v("cpuRequest"), cpuLimit |-> v("cpuLimit"),
     memRequest |-> v("memRequest"), memLimit |-> v("memLimit"),
     diskRead |-> v("diskRead"), diskWrite |-> v("diskWrite"),
     throttled |-> IF v("periods") > 0 THEN (100 * v("throttledPeriods")) \div v("periods") ELSE 0]

\* jobUsage: the cause is a history of why there is no usage.
Unmeasured(cause) == [cause |-> cause, usage |-> NoUsage]
Outcomes(j) ==
    CASE ~Ran(j.run) -> {Unmeasured("never ran")}
      [] Ran(j.run) /\ expired -> {Unmeasured("expired")}
      [] OTHER ->
            {CASE PodForJob(j.run) = "none" -> Unmeasured("no pod")
               [] PodForJob(j.run) = "too long" -> Unmeasured("failed")
               [] PodForJob(j.run) = "pod" /\ j.run.start < j.run.finish ->
                      [cause |-> "", usage |-> UsageOf(j.run.series)]
               [] OTHER -> Unmeasured("no window")}
            \cup (IF "metrics" \in Faults THEN {Unmeasured("failed")} ELSE {})

Row(j, outcome) ==
    [id |-> j.id, name |-> j.name, start |-> j.run.start, finish |-> j.run.finish,
     usage |-> outcome.usage, cause |-> outcome.cause, trace |-> {}]

FactsOf(row) ==
    [name |-> row.name, duration |-> row.finish - row.start, usage |-> row.usage, trace |-> row.trace]

\* `bot run --job` gives up where a report leaves the usage out.
EndsJob(outcome) == task.kind = "job" /\ outcome.cause \in {"expired", "no window", "failed"}

\* The loop of Build and of Advise: the usage of the next job
Measure ==
    /\ task.step = "measure"
    /\ task.todo # <<>>
    /\ \E outcome \in Outcomes(Head(task.todo)) :
          LET row == Row(Head(task.todo), outcome) IN
          task' = IF EndsJob(outcome) THEN Idle
                  ELSE IF Advising /\ ~Ran(row) THEN [task EXCEPT !.todo = Tail(@)]
                  ELSE [task EXCEPT !.rows = Append(@, row), !.todo = Tail(@),
                          !.step = IF Advising /\ NeedsTrace(Registry, FactsOf(row), Limits)
                                   THEN "trace" ELSE "measure"]
    /\ UNCHANGED <<jobVars, expired, tasks, board, said>>

\* Mutant: the trace is asked for until it is there.
FetchTraceUntilThere ==
    /\ task.step = "trace"
    /\ ~expired
    /\ LET last == Len(task.rows)
           j == CHOOSE k \in Range(listing.list) : k.id = task.rows[last].id
       IN  task' = [task EXCEPT !.step = "measure", !.rows[last].trace = j.run.trace]
    /\ UNCHANGED <<jobVars, expired, tasks, board, said>>

\* The trace of the job measured last; without it the advice goes on.
FetchTrace ==
    /\ task.step = "trace"
    /\ \E got \in (IF expired THEN {} ELSE {TRUE}) \cup
                   (IF expired \/ "trace" \in Faults THEN {FALSE} ELSE {}) :
          LET last == Len(task.rows)
              j == CHOOSE k \in Range(listing.list) : k.id = task.rows[last].id
          IN  task' = [task EXCEPT !.step = "measure",
                         !.rows[last].trace = IF got THEN j.run.trace ELSE @]
    /\ UNCHANGED <<jobVars, expired, tasks, board, said>>

-----------------------------------------------------------------------------
(* The outcome *)

Silence == [what |-> "nothing", report |-> RenderReport(0, <<>>, Limits), advice |-> <<>>,
            task |-> Idle, retried |-> 0]
Say(what, report, advice) ==
    said' = [what |-> what, report |-> report, advice |-> RenderAdvice(advice),
             task |-> task, retried |-> listing.retried]

RanJobs(rows) == Len(SelectSeq(rows, Ran))

\* The report of a single job leaves out when it ran.
JobBody ==
    RenderReport(1, [i \in DOMAIN task.rows |-> [task.rows[i] EXCEPT !.start = 0, !.finish = 0]], Limits)
Body ==
    IF task.kind = "job" THEN JobBody
    ELSE RenderReport(RanJobs(task.rows), task.rows, Limits)
AllAdvice == FlattenSeq([i \in DOMAIN task.rows |-> Analyze(Registry, FactsOf(task.rows[i]), Limits)])

\* Mutant: the upsert has a context of its own.
PostLate ==
    /\ AllMeasured /\ task.kind = "report"
    /\ Say("report", Body, <<>>)
    /\ board' = task.rows
    /\ Done
    /\ UNCHANGED <<jobVars, expired, tasks>>

\* ProcessPipeline, with UpsertNote as one step
PostReport ==
    /\ AllMeasured /\ task.kind = "report"
    /\ ~expired
    /\ Say("report", Body, <<>>)
    /\ board' = task.rows
    /\ Done
    /\ UNCHANGED <<jobVars, expired, tasks>>

\* bot run, bot run --job (its charts come after the report), bot advise
PrintOut ==
    /\ AllMeasured /\ task.kind \in Printed
    /\ IF Advising THEN Say("advice", Silence.report, AllAdvice) ELSE Say("report", Body, <<>>)
    /\ IF task.kind = "job" /\ task.rows[1].usage # NoUsage
       THEN task' = [task EXCEPT !.step = "series", !.target = FindJob(listing.list, task.sel)]
       ELSE Done
    /\ UNCHANGED <<jobVars, expired, tasks, board>>
=============================================================================
