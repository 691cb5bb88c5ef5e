--------------------------- MODULE CommandHandler ---------------------------
(***************************************************************************)
(* The interactive commands (internal/command): a note is parsed,          *)
(* authorized by the root of its thread and answered with one reply; and   *)
(* the reporter's tasks beside them.                                       *)
(*                                                                         *)
(* A note is a sequence of lines, a line a sequence of words.              *)
(***************************************************************************)
EXTENDS Reporter

CONSTANTS
    Notes,           \* the notes handled: their lines, their thread's root
    Asked,           \* what the command line is asked about
    Numerals,        \* names that are a number, and which
    Pods             \* names runner-..., and the ID of the job the pod is of

ASSUME AskedAssumption == "" \notin Asked
ASSUME NumeralsAssumption == Numerals \in [DOMAIN Numerals -> Nat \ {0}]
ASSUME PodsAssumption == Pods \in [DOMAIN Pods -> Nat \ {0}]

-----------------------------------------------------------------------------
(* Parse *)

\* The verbs and target types are matched without regard to case.
Lower == [w \in {"HELP", "Details", "Job"} |->
            CASE w = "HELP" -> "help" [] w = "Details" -> "details" [] w = "Job" -> "job"]
Word(w) == IF w \in DOMAIN Lower THEN Lower[w] ELSE w

NoCommand == [kind |-> "none"]
Command(kind, target, name) == [kind |-> kind, target |-> target, name |-> name]

\* details [job|pod] <name>; without a type, a name runner-... is a pod's
DetailsOf(args) ==
    CASE Len(args) = 2 /\ Word(args[1]) \in {"job", "pod"} ->
            Command("details", Word(args[1]), args[2])
      [] Len(args) = 1 ->
            Command("details", IF args[1] \in DOMAIN Pods THEN "pod" ELSE "job", args[1])
      [] OTHER -> NoCommand

\* advise [[job] <name>]
AdviseOf(args) ==
    CASE Len(args) = 0 -> Command("advise", "job", "")
      [] Len(args) = 1 -> Command("advise", "job", args[1])
      [] Len(args) = 2 /\ Word(args[1]) = "job" -> Command("advise", "job", args[2])
      [] OTHER -> NoCommand

\* A verb and its arguments
ParseLine(line) ==
    LET verb == Word(line[1])
        args == Tail(line)
    IN  CASE verb = "help" /\ args = <<>> -> Command("help", "job", "")
          [] verb = "details" -> DetailsOf(args)
          [] verb = "advise" -> AdviseOf(args)
          [] OTHER -> NoCommand

\* The first line that is not empty
Written(body) == SelectSeq(body, LAMBDA l : l # <<>>)
Parse(body) == IF Written(body) = <<>> THEN NoCommand ELSE ParseLine(Written(body)[1])

-----------------------------------------------------------------------------
(* Handle *)

\* A pod's name stands for its job; advise tries a number as an ID first.
NoJob == Len(Names) + MaxRetries + 1
Selector(cmd) ==
    [name |-> cmd.name,
     id |-> CASE cmd.target = "pod" -> IF cmd.name \in DOMAIN Pods THEN Pods[cmd.name] ELSE NoJob
              [] cmd.kind = "advise" /\ cmd.name \in DOMAIN Numerals -> Numerals[cmd.name]
              [] OTHER -> 0]

\* A note of the bot itself carries its marker.
HandleNote(note) ==
    LET cmd == Parse(note.body) IN
    /\ cmd # NoCommand
    /\ ~note.tagged
    /\ board # <<>>
    /\ Begin([Task(cmd.kind, Selector(cmd)) EXCEPT !.step = "authorize", !.root = note.root])

\* The root note is the bot's and its signed marker names this merge request;
\* else nothing is answered.
Authorize ==
    /\ task.step = "authorize"
    /\ ~expired
    /\ CASE task.root # "report" -> Done /\ UNCHANGED listing
         [] task.root = "report" /\ task.kind = "help" -> GoTo("post") /\ UNCHANGED listing
         [] OTHER -> GoTo("list") /\ StartListing
    /\ UNCHANGED <<jobs, lastJob, expired, tasks, board, said>>

Refuse == task' = [task EXCEPT !.step = "post", !.kind = "refuse"]

\* resolveTarget: the job of this name, or the one whose pod has this name
ResolveTarget ==
    /\ task.step = "resolve"
    /\ task.todo # <<>> => ~expired \/ ~Ran(Head(task.todo).run)
    /\ IF task.todo = <<>> THEN Refuse
       ELSE LET j == Head(task.todo)
                found == [task EXCEPT !.target = <<j>>, !.step = IF task.sel.id = 0 THEN "series" ELSE "span"]
                pod == IF Ran(j.run) THEN PodForJob(j.run) ELSE "none"
            IN  CASE pod = "too long" -> Done
                  [] pod # "too long" /\ task.sel.id = 0 ->
                        IF pod = "pod" THEN task' = found ELSE Refuse
                  [] OTHER ->
                        IF pod = "pod" /\ j.id = task.sel.id THEN task' = found
                        ELSE task' = [task EXCEPT !.todo = Tail(@)]
    /\ UNCHANGED <<jobVars, expired, tasks, board, said>>

\* PodActiveSpan: the window is the pod's, or its job's without samples
ActiveSpan ==
    /\ task.step = "span"
    /\ ~expired
    /\ GoTo("series")
    /\ UNCHANGED <<jobVars, expired, tasks, board, said>>

\* No line of the three has a point.
Empty(series) == DOMAIN series \cap {"cpu", "peak", "network"} = {}
ChartKinds == <<"cpu", "memory", "network">>

\* PodSeries: empty if Prometheus has nothing of the pod.  The charts are
\* uploaded one by one, or inline in the reply.
QuerySeries ==
    /\ task.step = "series" /\ task.kind = "details"
    /\ ~expired
    /\ \E inline \in BOOLEAN :
          LET empty == Empty(task.target[1].run.series)
          IN  task' = [task EXCEPT !.charts = IF inline THEN ChartKinds ELSE <<>>,
                         !.kind = IF empty THEN "no metrics" ELSE "charts",
                         !.step = IF empty \/ inline THEN "post" ELSE "upload"]
    /\ UNCHANGED <<jobVars, expired, tasks, board, said>>

\* bot run --job prints its charts inline, or none.
PrintCharts ==
    /\ task.step = "series" /\ task.kind \in Printed
    /\ ~expired
    /\ IF Empty(task.target[1].run.series) THEN UNCHANGED said
       ELSE said' = [said EXCEPT !.what = "charts", !.task = [task EXCEPT !.charts = ChartKinds]]
    /\ Done
    /\ UNCHANGED <<jobVars, expired, tasks, board>>

\* Mutant: a chart that cannot be uploaded is left out.
UploadOrSkip ==
    /\ task.step = "upload"
    /\ \E charts \in {Append(task.charts, ChartKinds[Len(task.charts) + 1]), task.charts} :
          task' = [task EXCEPT !.charts = charts,
                     !.step = IF Len(task.charts) = 2 THEN "post" ELSE "upload"]
    /\ UNCHANGED <<jobVars, expired, tasks, board, said>>

\* UploadFile, for the next chart
Upload ==
    /\ task.step = "upload"
    /\ ~expired
    /\ task' = [task EXCEPT !.charts = Append(@, ChartKinds[Len(@) + 1]),
                  !.step = IF Len(task.charts) = 2 THEN "post" ELSE "upload"]
    /\ UNCHANGED <<jobVars, expired, tasks, board, said>>

\* The one reply of a command
Reply ==
    /\ Posting /\ task.kind # "report"
    /\ ~expired
    /\ IF Advising THEN Say("advice", Silence.report, AllAdvice) ELSE Say(task.kind, Silence.report, <<>>)
    /\ Done
    /\ UNCHANGED <<jobVars, expired, tasks, board>>

-----------------------------------------------------------------------------
(* The specification *)

Init ==
    /\ JobsInit
    /\ task = Idle
    /\ expired = FALSE
    /\ tasks = 0
    /\ board = <<>>
    /\ said = Silence

\* A report comes from the worker, like a command; the rest from people, who
\* share nothing with the bot but the jobs (bound: last, and with no report).
CommandLine ==
    /\ tasks = MaxTasks - 1 /\ board = <<>>
    /\ \/ Begin(Task("run", Everything))
       \/ \E name \in Asked : Begin(Task("job", Selector(Command("advise", "job", name))))
       \/ \E name \in Asked \cup {""} :
             Begin(Task("print advice", Selector(Command("advise", "job", name))))

Start ==
    \/ Begin(Task("report", Everything))
    \/ CommandLine
    \/ \E note \in Notes : HandleNote(note)

Work ==
    \/ Authorize \/ ListJobs
    \/ Measure \/ FetchTrace \/ PostReport \/ PrintOut
    \/ ResolveTarget \/ ActiveSpan \/ QuerySeries \/ PrintCharts \/ Upload \/ Reply
    \/ GiveUp

Next == Start \/ Work \/ Expire \/ (Retries /\ UNCHANGED taskVars)

\* Each request of a task ends, if only because its context is over.
Spec == Init /\ [][Next]_vars /\ WF_vars(Work)

-----------------------------------------------------------------------------
(* Properties *)

CommandsTypeOK ==
    /\ lastJob \in Nat /\ Len(jobs) = Len(Names)
    /\ \A i \in DOMAIN jobs : /\ jobs[i].id \in 1..lastJob /\ jobs[i].name \in Range(Names)
                              /\ jobs[i].run \in AnyRun
                              /\ \A k \in DOMAIN jobs : k > i => jobs[k].id < jobs[i].id
    /\ expired \in BOOLEAN /\ tasks \in 0..MaxTasks
    /\ Range(listing.list) \subseteq [id : 1..lastJob, name : Range(Names), run : AnyRun]
    /\ Len(task.target) <= 1
    /\ task.kind = "job" => Len(task.rows \o task.todo) <= 1

\* A report's summary counts every attempt it measured once, and so does its
\* table, if no job was retried while the jobs were listed; each retry makes
\* at most one job appear twice.
SummaryCountsOnce ==
    said.what = "report" =>
        LET rows == said.task.rows
            measured == {r \in Range(rows) : r.usage # NoUsage}
        IN  /\ Len(rows) <= Cardinality(Ids(rows)) + said.retried
            /\ said.retried = 0 =>
                  said.report.totals.memory = MapThenSumSet(LAMBDA r : r.usage.peak, measured)

\* What is posted is never hollowed out by the two minutes: once they are
\* over the post fails like the lookups before it, and says nothing.  And no
\* report makes up a request, a limit or disk traffic: it has a dash exactly where
\* Prometheus has no series, or a zero, and no data where a job has no usage.
NothingPostedHollow ==
    /\ said.task.kind \notin Printed =>
          \A i \in DOMAIN said.task.rows : said.task.rows[i].cause # "expired"
    /\ said.what = "report" =>
          \A i \in DOMAIN said.report.rows :
              LET listed == CHOOSE k \in DOMAIN jobs : jobs[k].id = said.task.rows[i].id
                  unset(q) == Scalar(jobs[listed].run.series, q) = 0
              IN  /\ said.report.rows[i].data <=> said.task.rows[i].cause = ""
                  /\ said.task.rows[i].id \in Ids(jobs) /\ said.report.rows[i].data =>
                        said.report.rows[i].dashed = {q \in Optional : unset(q)}

\* handler.go: a target that is not part of the report is refused.  A job
\* that the report has data for is refused only if it was retried since.
MeasuredTargetsFound ==
    [][\A r \in Range(board) :
          said' # said /\ said'.what = "refuse" /\ r.usage # NoUsage
          /\ (r.id = task.sel.id \/ (task.sel.id = 0 /\ r.name = task.sel.name))
              => r.id \notin Ids(jobs)]_vars

\* Charts are complete, and of one pod: that of an attempt of the job asked for.
ChartsComplete ==
    said.what = "charts" =>
        LET t == said.task IN
        /\ t.charts = ChartKinds
        /\ Ran(t.target[1].run) /\ PodForJob(t.target[1].run) = "pod"
        /\ ~Empty(t.target[1].run.series)
        /\ t.target[1].id = t.sel.id \/ t.target[1].name = t.sel.name

\* Every task comes to its end, whatever fails.
TaskEnds == task.step # "idle" ~> task.step = "idle"

\* advice/render.go: "CleanMessage is what a pipeline with nothing to fix gets
\* back": no job that was listed had anything to fix.
CleanMeansNothingToFix ==
    said.what = "advice" /\ said.advice = Clean =>
        \A r \in Range(said.task.rows) :
            \A j \in Range(jobs) :
                j.id = r.id /\ PodForJob(j.run) = "pod" =>
                    Analyze(Registry, [FactsOf(r) EXCEPT !.usage = UsageOf(j.run.series)], Limits) = <<>>
=============================================================================
