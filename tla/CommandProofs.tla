---------------------------- MODULE CommandProofs ----------------------------
(***************************************************************************)
(* Proofs about the tasks of the reporter and of the command handler, for  *)
(* any jobs, runs, notes and page sizes and any number of retries and      *)
(* tasks: no job that stands is lost between two pages, a report has what  *)
(* was measured and nothing made up, charts are complete and of the job    *)
(* asked for, and a job that the report has data for is found.             *)
(***************************************************************************)
EXTENDS CommandHandler, TLAPS, WellFoundedInduction, SequenceTheorems

-----------------------------------------------------------------------------
(* Lemmas about the operators *)

\* A set of natural numbers that is not empty has a smallest member: Min is
\* the first of the places it is given.
LEMMA MinIsFirst ==
    ASSUME NEW S, S \subseteq Nat, S # {}
    PROVE  Min(S) \in S /\ \A k \in S : Min(S) <= k
<1>1. \E x \in S : \A y \in S : ~(<<y, x>> \in OpToRel(<, Nat))
    BY NatLessThanWellFounded, WFMin
<1>2. PICK x \in S : \A y \in S : ~(<<y, x>> \in OpToRel(<, Nat))
    BY <1>1
<1>3. ASSUME NEW y \in S PROVE x <= y
    <2>1. x \in Nat /\ y \in Nat
        OBVIOUS
    <2>2. ~(y < x)
        BY <1>2, <2>1 DEF OpToRel
    <2> QED
        BY <2>1, <2>2
<1> QED
    BY <1>2, <1>3 DEF Min

\* Smaller is the smaller of two numbers.
LEMMA SmallerFits ==
    ASSUME NEW a \in Int, NEW b \in Int
    PROVE  /\ Smaller(a, b) \in Int
           /\ Smaller(a, b) <= a /\ Smaller(a, b) <= b
           /\ Smaller(a, b) = a \/ Smaller(a, b) = b
BY DEF Smaller

\* Two sequences one after the other
LEMMA Concatenation ==
    ASSUME NEW S, NEW s \in Seq(S), NEW t \in Seq(S)
    PROVE  /\ s \o t \in Seq(S)
           /\ Len(s) \in Nat /\ Len(t) \in Nat
           /\ Len(s \o t) = Len(s) + Len(t)
           /\ \A i \in 1..Len(s) : (s \o t)[i] = s[i]
           /\ \A i \in 1..Len(t) : (s \o t)[Len(s) + i] = t[i]
OBVIOUS

-----------------------------------------------------------------------------
(* The invariants *)

\* What the data is made of: the attempts of jobs, the selectors of the tasks,
\* the rows measured.
Attempts == [id : Nat, name : Range(Names), run : AnyRun]
Sels ==
    {Everything} \cup {Selector(Parse(n.body)) : n \in {m \in Notes : Parse(m.body) # NoCommand}}
        \cup {Selector(Command("advise", "job", name)) : name \in Asked \cup {""}}
Kinds == {"none", "report", "run", "job", "print advice", "help", "details", "advise", "refuse",
          "no metrics", "charts"}
Steps == {"idle", "list", "measure", "trace", "post", "authorize", "resolve", "span", "series",
          "upload"}
Causes == {"", "never ran", "expired", "no pod", "failed", "no window"}
Rows == [id : Nat, name : Range(Names), start : {run.start : run \in AnyRun},
         finish : {run.finish : run \in AnyRun},
         usage : {UsageOf(run.series) : run \in AnyRun} \cup {NoUsage}, cause : Causes,
         trace : {run.trace : run \in AnyRun} \cup {{}}]
Tasks == [kind : Kinds, step : Steps, sel : Sels, root : {"report"} \cup {note.root : note \in Notes},
          todo : Seq(Attempts), rows : Seq(Rows), target : Seq(Attempts),
          charts : Seq({"cpu", "memory", "network"})]

\* GitLab's list: one attempt of each job, newest first.
JobsInv ==
    /\ lastJob \in Nat /\ lastJob >= Len(Names)
    /\ jobs \in Seq(Attempts) /\ Len(jobs) = Len(Names)
    /\ \A i \in DOMAIN jobs : jobs[i].id \in 1..lastJob
    /\ \A i, k \in DOMAIN jobs : i < k => jobs[k].id < jobs[i].id

\* The attempts listed: their IDs are not given again, and an attempt that had
\* run by then is still what it was, unless it was retried.
ListingInv ==
    /\ listing \in [page : Nat, list : Seq(Attempts), standing : SUBSET Nat, retried : Nat]
    /\ \A i \in DOMAIN listing.list :
          /\ listing.list[i].id \in 1..lastJob
          /\ \A k \in DOMAIN jobs :
                jobs[k].id = listing.list[i].id =>
                    /\ jobs[k].name = listing.list[i].name
                    /\ Ran(listing.list[i].run) => jobs[k].run = listing.list[i].run

\* A job that GitLab lists all along is in the list so far, or at a place that
\* a page still to come has.
StandingInv ==
    \A id \in listing.standing :
        \E k \in DOMAIN jobs :
            /\ jobs[k].id = id
            /\ id \in Ids(listing.list) \/ (listing.page > 0 /\ k > (listing.page - 1) * PerPage)

\* The task has only what the steps so far have put into it.
Fresh(t) == t.todo = <<>> /\ t.rows = <<>> /\ t.target = <<>> /\ t.charts = <<>>
TaskGood(t, list) ==
    /\ t \in Tasks
    /\ t.step \in {"idle", "authorize", "list"} => Fresh(t)
    /\ t.step = "trace" => t.rows # <<>>
    /\ \A i \in DOMAIN t.todo : t.todo[i] \in Range(list)
    /\ \A i \in DOMAIN t.rows : t.rows[i].id \in Ids(list)
TaskInv == TaskGood(task, listing.list) /\ expired \in BOOLEAN /\ tasks \in 0..MaxTasks

\* What a task of a kind is doing
KindGood(t) ==
    /\ t.step = "authorize" => t.kind \in {"help", "details", "advise"}
    /\ t.step = "list" => t.kind \in {"report", "run", "job", "details", "advise", "print advice"}
    /\ t.step \in {"measure", "trace"} => t.kind \in {"report", "run", "job", "advise", "print advice"}
    /\ t.step = "post" => t.kind \in {"help", "refuse", "no metrics", "charts"}
    /\ t.step \in {"resolve", "span"} => t.kind = "details"
    /\ t.step = "series" => t.kind \in {"details", "job"}
    /\ t.step = "upload" => /\ t.kind = "charts"
                            /\ t.charts \in {<<>>, <<"cpu">>, <<"cpu", "memory">>}
KindInv == KindGood(task)
TaskOK == TaskInv /\ KindInv

\* What is known of a row, whatever has been retried since: who was measured,
\* and that the usage is that of the pod of the job.
HasPod(run) == Ran(run) /\ PodForJob(run) = "pod"
Genuine(row, list, last) ==
    /\ row.id \in 1..last
    /\ row.cause = "" <=> row.usage # NoUsage
    /\ \A k \in DOMAIN list :
          list[k].id = row.id =>
              /\ list[k].name = row.name
              /\ row.cause = "" => HasPod(list[k].run) /\ row.usage = UsageOf(list[k].run.series)
AllGenuine(rows) == \A i \in DOMAIN rows : Genuine(rows[i], jobs, lastJob)
SaidShape(s) ==
    /\ s = [what |-> s.what, report |-> s.report, advice |-> s.advice, task |-> s.task,
            retried |-> s.retried]
    /\ s.task \in Tasks
RowsInv ==
    /\ board \in Seq(Rows) /\ SaidShape(said)
    /\ AllGenuine(task.rows) /\ AllGenuine(board) /\ AllGenuine(said.task.rows)

\* The lookups that failed because the context was over did so after it was,
\* and what is posted is what was found while it was not.
NotLate(rows) == \A i \in DOMAIN rows : rows[i].cause # "expired"
Reported(report, rows) ==
    report.rows # <<>> =>
        /\ DOMAIN report.rows = DOMAIN rows
        /\ \A i \in DOMAIN rows : report.rows[i] = Cells(rows[i], Limits)
HollowInv ==
    /\ ~expired => NotLate(task.rows)
    /\ said.task.kind \notin Printed => NotLate(said.task.rows)
    /\ said.what = "report" => Reported(said.report, said.task.rows)

\* The one job of `bot run --job`: to do, or measured; if it has usage, it is
\* there, and has a pod.
JobGood(t, list) ==
    t.kind = "job" /\ t.step # "idle" =>
        /\ t.sel # Everything
        /\ t.step # "list" => Len(t.rows) + Len(t.todo) = 1
        /\ t.todo # <<>> => t.todo = FindJob(list, t.sel)
        /\ t.rows # <<>> /\ t.rows[1].usage # NoUsage =>
              FindJob(list, t.sel) # <<>> /\ HasPod(FindJob(list, t.sel)[1].run)
JobInv == JobGood(task, listing.list)

\* A job that is resolved is the one asked for, and has a pod; the charts of a
\* reply are of such a job, and all of them once it is posted.
AskedFor(sel, j) == j.id = sel.id \/ j.name = sel.name
Resolved(t) == Len(t.target) = 1 /\ HasPod(t.target[1].run) /\ AskedFor(t.sel, t.target[1])
TargetGood(t) ==
    /\ Len(t.target) <= 1
    /\ t.step = "resolve" /\ t.sel.id = 0 => \A i \in DOMAIN t.todo : t.todo[i].name = t.sel.name
    /\ t.step \in {"span", "series", "upload"} \/ t.kind = "charts" => Resolved(t)
    /\ t.kind = "charts" => ~Empty(t.target[1].run.series)
    /\ t.kind = "charts" /\ t.step # "upload" => t.charts = ChartKinds
ChartsGood(s) ==
    s.what = "charts" => /\ Resolved(s.task) /\ s.task.charts = ChartKinds
                         /\ ~Empty(s.task.target[1].run.series)
TargetInv == TargetGood(task) /\ ChartsGood(said)

-----------------------------------------------------------------------------
(* The jobs and their list *)

\* What a step does to the jobs and to the list: nothing, or it starts a list,
\* reads a page of it, or retries a job.
LEMMA JobSteps ==
    ASSUME [Next]_vars
    PROVE  \/ UNCHANGED jobVars
           \/ UNCHANGED <<jobs, lastJob>> /\ StartListing
           \/ UNCHANGED <<jobs, lastJob>> /\ ListPage
           \/ \E i \in DOMAIN jobs : Retry(i)
           \/ \E i \in DOMAIN jobs : RetryEnds(i)
<1>1. CASE Start
    BY <1>1 DEF Start, CommandLine, HandleNote, Begin, jobVars
<1>2. CASE Work
    <2>1. CASE Authorize
        BY <2>1 DEF Authorize, jobVars
    <2>2. CASE ListJobs
        BY <2>2 DEF ListJobs
    <2>3. CASE GiveUp
        BY <2>3 DEF GiveUp
    <2>4. CASE Measure \/ FetchTrace \/ PostReport \/ PrintOut
        BY <2>4 DEF Measure, EndsJob, FetchTrace, PostReport, PrintOut
    <2>5. CASE ResolveTarget \/ ActiveSpan \/ QuerySeries \/ PrintCharts \/ Upload \/ Reply
        BY <2>5 DEF ResolveTarget, ActiveSpan, QuerySeries, PrintCharts, Upload, Reply
    <2> QED
        BY <1>2, <2>1, <2>2, <2>3, <2>4, <2>5 DEF Work
<1>3. CASE Expire
    BY <1>3 DEF Expire
<1>4. CASE Retries
    BY <1>4 DEF Retries
<1>5. CASE UNCHANGED vars
    BY <1>5 DEF vars
<1> QED
    BY <1>1, <1>2, <1>3, <1>4, <1>5 DEF Next

\* The runs of the pipelines are runs, and so is the lack of one.
LEMMA RunsKnown ==
    /\ NotRun \in AnyRun /\ Runs \subseteq AnyRun
    /\ \A p \in Pipelines : \A i \in DOMAIN Names : p[i] \in AnyRun
<1>1. ASSUME NEW p \in Pipelines, NEW i \in DOMAIN Names PROVE p[i] \in AnyRun
    <2>1. p[i] \in Range(p)
        BY PipelinesAssumption DEF Range
    <2> QED
        BY <2>1 DEF AnyRun
<1> QED
    BY <1>1 DEF AnyRun

\* The list starts empty, and the jobs as GitLab has them.
LEMMA JobsStart ==
    ASSUME JobsInit
    PROVE  JobsInv /\ ListingInv /\ StandingInv
<1> USE NamesAssumption
<1>0. Names \in Seq(STRING) /\ Len(Names) \in Nat /\ DOMAIN Names = 1..Len(Names)
    OBVIOUS
<1>1. PICK run \in Pipelines :
          jobs = Reverse([i \in DOMAIN Names |-> [id |-> i, name |-> Names[i], run |-> run[i]]])
    BY DEF JobsInit
<1>2. jobs = [i \in 1..Len(Names) |->
                  [id |-> Len(Names) - i + 1, name |-> Names[Len(Names) - i + 1],
                   run |-> run[Len(Names) - i + 1]]]
    <2>1. Len([i \in DOMAIN Names |-> [id |-> i, name |-> Names[i], run |-> run[i]]]) = Len(Names)
        BY <1>0
    <2> QED
        BY <1>0, <1>1, <2>1 DEF Reverse
<1>3. ASSUME NEW i \in 1..Len(Names) PROVE jobs[i] \in Attempts
    <2>1. Len(Names) - i + 1 \in DOMAIN Names
        BY <1>0
    <2>2. Names[Len(Names) - i + 1] \in Range(Names)
        BY <2>1 DEF Range
    <2>3. run[Len(Names) - i + 1] \in AnyRun
        BY <2>1, RunsKnown
    <2> QED
        BY <1>0, <1>2, <2>1, <2>2, <2>3 DEF Attempts
<1>4. jobs \in Seq(Attempts) /\ Len(jobs) = Len(Names)
    BY <1>0, <1>2, <1>3
<1>5. JobsInv
    <2>1. lastJob = Len(Names)
        BY DEF JobsInit
    <2>2. \A i \in DOMAIN jobs : jobs[i].id = Len(Names) - i + 1
        BY <1>0, <1>2
    <2> QED
        BY <1>0, <1>4, <2>1, <2>2 DEF JobsInv
<1>6. ListingInv /\ StandingInv
    BY DEF JobsInit, ListingInv, StandingInv
<1> QED
    BY <1>5, <1>6

\* A list that starts has every job still to come.
LEMMA StartListingKeeps ==
    ASSUME JobsInv, ListingInv, StandingInv, UNCHANGED <<jobs, lastJob>>, StartListing
    PROVE  JobsInv' /\ ListingInv' /\ StandingInv'
<1>1. listing' = [page |-> 1, list |-> <<>>, standing |-> Ids(jobs), retried |-> 0]
    BY DEF StartListing
<1>2. Ids(jobs) \subseteq Nat
    BY DEF JobsInv, Attempts, Ids
<1>3. JobsInv'
    BY DEF JobsInv
<1>4. ListingInv'
    BY <1>1, <1>2 DEF ListingInv
<1>5. ASSUME NEW id \in Ids(jobs)
      PROVE  \E k \in DOMAIN jobs : jobs[k].id = id /\ k > (1 - 1) * PerPage
    BY PerPageAssumption DEF Ids, JobsInv
<1>6. StandingInv'
    BY <1>1, <1>5 DEF StandingInv
<1> QED
    BY <1>3, <1>4, <1>6

\* What a page adds to the list: the jobs at the places of the page.
LEMMA PageAdds ==
    ASSUME JobsInv, ListingInv, UNCHANGED <<jobs, lastJob>>, ListPage
    PROVE  /\ listing'.list \in Seq(Attempts)
           /\ Len(listing.list) <= Len(listing'.list)
           /\ \A i \in 1..Len(listing.list) : listing'.list[i] = listing.list[i]
           /\ \A i \in DOMAIN listing'.list :
                 i \notin 1..Len(listing.list) => \E k \in DOMAIN jobs : listing'.list[i] = jobs[k]
           /\ \A k \in DOMAIN jobs :
                 k > (listing.page - 1) * PerPage =>
                    \/ \E i \in DOMAIN listing'.list : listing'.list[i] = jobs[k]
                    \/ /\ k > listing.page * PerPage
                       /\ listing'.page = listing.page + 1
           /\ listing'.page \in Nat
           /\ listing' = [listing EXCEPT !.list = listing'.list, !.page = listing'.page]
<1> DEFINE from == (listing.page - 1) * PerPage
           upto == listing.page * PerPage
           end == Smaller(upto, Len(jobs))
           page == SubSeq(jobs, from + 1, end)
<1>1. /\ listing.page \in Nat \ {0} /\ listing.list \in Seq(Attempts)
      /\ jobs \in Seq(Attempts) /\ Len(jobs) \in Nat /\ PerPage \in Nat \ {0}
    BY PerPageAssumption DEF JobsInv, ListingInv, ListPage
<1>2. from \in Nat /\ upto \in Nat /\ from < upto
    <2>1. upto \in Nat
        BY <1>1
    <2>2. (listing.page - 1) \in Nat
        BY <1>1
    <2>3. from \in Nat
        BY <1>1, <2>2
    <2>4. upto = from + PerPage
        BY <1>1
    <2> QED
        BY <1>1, <2>1, <2>3, <2>4
<1>3. /\ listing'.list = listing.list \o page
      /\ listing'.page = IF upto < Len(jobs) THEN listing.page + 1 ELSE 0
      /\ listing' = [listing EXCEPT !.list = listing'.list, !.page = listing'.page]
    BY DEF ListPage, ListingInv
<1>4. /\ end \in Nat /\ end <= upto /\ end <= Len(jobs) /\ (end = upto \/ end = Len(jobs))
    BY <1>1, <1>2, SmallerFits DEF Smaller
<1> HIDE DEF from, upto, end
<1>5. /\ page \in Seq(Attempts)
      /\ Len(page) = IF from + 1 <= end THEN end - from ELSE 0
      /\ \A i \in 1..Len(page) : page[i] = jobs[from + i]
    BY <1>1, <1>2, <1>4
<1> HIDE DEF page
<1> DEFINE longer == listing.list \o page
<1>a. /\ longer \in Seq(Attempts)
      /\ Len(longer) = Len(listing.list) + Len(page)
      /\ \A i \in 1..Len(listing.list) : longer[i] = listing.list[i]
      /\ \A i \in 1..Len(page) : longer[Len(listing.list) + i] = page[i]
    <2>1. listing.list \in Seq(Attempts) /\ page \in Seq(Attempts)
        BY <1>1, <1>5
    <2> QED
        BY <2>1, Concatenation
<1>b. listing'.list = longer
    BY <1>3
<1> HIDE DEF longer
<1>6. /\ listing'.list \in Seq(Attempts)
      /\ Len(listing'.list) = Len(listing.list) + Len(page)
      /\ \A i \in 1..Len(listing.list) : listing'.list[i] = listing.list[i]
      /\ \A i \in 1..Len(page) : listing'.list[Len(listing.list) + i] = page[i]
    BY <1>a, <1>b
<1>7. ASSUME NEW i \in DOMAIN listing'.list, i \notin 1..Len(listing.list)
      PROVE  \E k \in DOMAIN jobs : listing'.list[i] = jobs[k]
    <2>0. Len(listing.list) \in Nat /\ Len(page) \in Nat
        BY <1>1, <1>5
    <2>1. i - Len(listing.list) \in 1..Len(page)
        BY <1>6, <1>7, <2>0
    <2>2. listing'.list[i] = page[i - Len(listing.list)]
        BY <1>1, <1>6, <2>1
    <2>3. from + (i - Len(listing.list)) \in DOMAIN jobs
        BY <1>1, <1>2, <1>4, <1>5, <2>1
    <2> QED
        BY <1>5, <2>1, <2>2, <2>3
<1>8. ASSUME NEW k \in DOMAIN jobs, k > from, k <= end
      PROVE  \E i \in DOMAIN listing'.list : listing'.list[i] = jobs[k]
    <2>1. k - from \in 1..Len(page)
        BY <1>1, <1>2, <1>4, <1>5, <1>8
    <2>2. page[k - from] = jobs[k]
        BY <1>1, <1>2, <1>5, <1>8, <2>1
    <2>0. Len(listing.list) \in Nat /\ Len(page) \in Nat /\ k - from \in Nat
        BY <1>1, <1>5, <2>1
    <2>3. Len(listing.list) + (k - from) \in DOMAIN listing'.list
        BY <1>6, <2>0, <2>1
    <2> QED
        BY <1>6, <2>1, <2>2, <2>3
<1>9. ASSUME NEW k \in DOMAIN jobs, k > from, ~(k <= end)
      PROVE  k > upto /\ listing'.page = listing.page + 1
    <2>1. k <= Len(jobs) /\ k \in Nat
        BY <1>1
    <2>2. end = upto /\ upto < Len(jobs)
        BY <1>1, <1>2, <1>4, <1>9, <2>1
    <2> QED
        BY <1>2, <1>3, <1>4, <1>9, <2>1, <2>2
<1>10. listing'.page \in Nat
    BY <1>1, <1>3
<1>11. Len(listing.list) <= Len(listing'.list)
    <2>1. Len(listing.list) \in Nat /\ Len(page) \in Nat
        BY <1>1, <1>5
    <2> QED
        BY <1>6, <2>1
<1>12. \A k \in DOMAIN jobs :
          k > from => \/ \E i \in DOMAIN listing'.list : listing'.list[i] = jobs[k]
                      \/ k > upto /\ listing'.page = listing.page + 1
    BY <1>8, <1>9
<1> QED
    BY <1>3, <1>6, <1>7, <1>10, <1>11, <1>12 DEF from, upto

\* A page keeps the list right, and brings each standing job nearer.
LEMMA ListPageKeeps ==
    ASSUME JobsInv, ListingInv, StandingInv, UNCHANGED <<jobs, lastJob>>, ListPage
    PROVE  JobsInv' /\ ListingInv' /\ StandingInv'
<1>1. JobsInv'
    BY DEF JobsInv
<1>2. /\ listing' = [listing EXCEPT !.list = listing'.list, !.page = listing'.page]
      /\ listing'.list \in Seq(Attempts) /\ listing'.page \in Nat
    BY PageAdds
<1>3. listing' \in [page : Nat, list : Seq(Attempts), standing : SUBSET Nat, retried : Nat]
    BY <1>2 DEF ListingInv
<1>4. \A i, k \in DOMAIN jobs : jobs[i].id = jobs[k].id => i = k
    BY DEF JobsInv, Attempts
<1>5. ASSUME NEW i \in DOMAIN listing'.list
      PROVE  /\ listing'.list[i].id \in 1..lastJob
             /\ \A k \in DOMAIN jobs :
                   jobs[k].id = listing'.list[i].id =>
                      /\ jobs[k].name = listing'.list[i].name
                      /\ Ran(listing'.list[i].run) => jobs[k].run = listing'.list[i].run
    <2>1. CASE i \in 1..Len(listing.list)
        <3>1. i \in DOMAIN listing.list /\ listing'.list[i] = listing.list[i]
            BY <2>1, PageAdds DEF ListingInv
        <3> QED
            BY <3>1 DEF ListingInv
    <2>2. CASE i \notin 1..Len(listing.list)
        <3>1. PICK k \in DOMAIN jobs : listing'.list[i] = jobs[k]
            BY <2>2, PageAdds
        <3> QED
            BY <1>4, <3>1 DEF JobsInv
    <2> QED
        BY <2>1, <2>2
<1>6. ListingInv'
    BY <1>3, <1>5 DEF ListingInv
<1>7. ASSUME NEW id \in listing'.standing
      PROVE  \E k \in DOMAIN jobs :
                /\ jobs[k].id = id
                /\ \/ id \in Ids(listing'.list)
                   \/ (listing'.page > 0 /\ k > (listing'.page - 1) * PerPage)
    <2>1. id \in listing.standing
        BY <1>2 DEF ListingInv
    <2>2. PICK k \in DOMAIN jobs :
             /\ jobs[k].id = id
             /\ id \in Ids(listing.list) \/ (listing.page > 0 /\ k > (listing.page - 1) * PerPage)
        BY <2>1 DEF StandingInv
    <2>3. CASE id \in Ids(listing.list)
        <3>1. PICK i \in DOMAIN listing.list : listing.list[i].id = id
            BY <2>3 DEF Ids
        <3>2. i \in DOMAIN listing'.list /\ listing'.list[i] = listing.list[i]
            BY <1>2, PageAdds DEF ListingInv
        <3>3. id \in Ids(listing'.list)
            BY <3>1, <3>2 DEF Ids
        <3> QED
            BY <2>2, <3>3
    <2>4. CASE k > (listing.page - 1) * PerPage
        <3>1. CASE \E i \in DOMAIN listing'.list : listing'.list[i] = jobs[k]
            BY <2>2, <3>1 DEF Ids
        <3>2. CASE k > listing.page * PerPage /\ listing'.page = listing.page + 1
            <4>1. listing.page \in Nat
                BY DEF ListingInv
            <4>2. listing'.page > 0 /\ listing'.page - 1 = listing.page
                BY <3>2, <4>1
            <4> QED
                BY <2>2, <3>2, <4>2
        <3> QED
            BY <2>4, <3>1, <3>2, PageAdds
    <2> QED
        BY <2>2, <2>3, <2>4
<1>8. StandingInv'
    BY <1>7 DEF StandingInv
<1> QED
    BY <1>1, <1>6, <1>8

\* A retry takes an attempt out and puts a new one in front: the attempts
\* before it move by one place, those after it stay.
LEMMA RetryShifts ==
    ASSUME JobsInv, NEW i \in DOMAIN jobs, Retry(i)
    PROVE  /\ jobs' \in Seq(Attempts) /\ Len(jobs') = Len(jobs)
           /\ jobs'[1] = [id |-> lastJob + 1, name |-> jobs[i].name, run |-> NotRun]
           /\ \A k \in DOMAIN jobs :
                 /\ k < i => k + 1 \in DOMAIN jobs' /\ jobs'[k + 1] = jobs[k]
                 /\ k > i => k \in DOMAIN jobs' /\ jobs'[k] = jobs[k]
           /\ \A k \in DOMAIN jobs' :
                 \/ k = 1
                 \/ k > 1 /\ k <= i /\ k - 1 \in DOMAIN jobs /\ jobs'[k] = jobs[k - 1]
                 \/ k > i /\ k \in DOMAIN jobs /\ jobs'[k] = jobs[k]
<1> DEFINE new == [id |-> lastJob + 1, name |-> jobs[i].name, run |-> NotRun]
           before == SubSeq(jobs, 1, i - 1)
           after == SubSeq(jobs, i + 1, Len(jobs))
<1>1. /\ jobs \in Seq(Attempts) /\ Len(jobs) \in Nat /\ i \in 1..Len(jobs)
      /\ DOMAIN jobs = 1..Len(jobs) /\ lastJob \in Nat /\ jobs[i] \in Attempts
    BY DEF JobsInv
<1>2. new \in Attempts
    BY <1>1, RunsKnown DEF Attempts
<1>3. jobs' = <<new>> \o (before \o after)
    BY DEF Retry, RemoveAt
<1>4. /\ before \in Seq(Attempts) /\ Len(before) = i - 1
      /\ \A k \in 1..(i - 1) : before[k] = jobs[k]
    BY <1>1
<1>5. /\ after \in Seq(Attempts) /\ Len(after) = Len(jobs) - i
      /\ \A k \in 1..(Len(jobs) - i) : after[k] = jobs[i + k]
    BY <1>1
<1>6. <<new>> \in Seq(Attempts) /\ Len(<<new>>) = 1 /\ <<new>>[1] = new
    BY <1>2
<1> HIDE DEF new, before, after
<1> DEFINE rest == before \o after
<1>7. /\ rest \in Seq(Attempts) /\ Len(rest) = Len(jobs) - 1
      /\ \A k \in 1..(i - 1) : rest[k] = jobs[k]
      /\ \A k \in 1..(Len(jobs) - i) : rest[(i - 1) + k] = jobs[i + k]
    <2>1. /\ rest \in Seq(Attempts) /\ Len(rest) = Len(before) + Len(after)
          /\ \A k \in 1..Len(before) : rest[k] = before[k]
          /\ \A k \in 1..Len(after) : rest[Len(before) + k] = after[k]
        <3>1. before \in Seq(Attempts) /\ after \in Seq(Attempts)
            BY <1>4, <1>5
        <3> QED
            BY <3>1, Concatenation
    <2>2. Len(rest) = Len(jobs) - 1
        BY <1>1, <1>4, <1>5, <2>1
    <2>3. \A k \in 1..(i - 1) : rest[k] = jobs[k]
        BY <1>4, <2>1
    <2>4. \A k \in 1..(Len(jobs) - i) : rest[(i - 1) + k] = jobs[i + k]
        BY <1>4, <1>5, <2>1
    <2> QED
        BY <2>1, <2>2, <2>3, <2>4
<1> HIDE DEF rest
<1> DEFINE all == <<new>> \o rest
<1>8. /\ all \in Seq(Attempts) /\ Len(all) = Len(jobs) /\ all[1] = new
      /\ \A k \in 1..(Len(jobs) - 1) : all[1 + k] = rest[k]
    <2>0. 1 \in 1..Len(<<new>>)
        BY <1>6
    <2>1. /\ all \in Seq(Attempts) /\ Len(all) = Len(<<new>>) + Len(rest)
          /\ \A k \in 1..Len(<<new>>) : all[k] = <<new>>[k]
          /\ \A k \in 1..Len(rest) : all[Len(<<new>>) + k] = rest[k]
        <3>1. <<new>> \in Seq(Attempts) /\ rest \in Seq(Attempts)
            BY <1>6, <1>7
        <3> QED
            BY <3>1, Concatenation
    <2> HIDE DEF all
    <2>2. Len(all) = 1 + Len(rest) /\ all[1] = <<new>>[1]
        BY <1>6, <2>0, <2>1
    <2>3. Len(all) = Len(jobs)
        BY <1>1, <1>7, <2>2
    <2>4. \A k \in 1..(Len(jobs) - 1) : all[1 + k] = rest[k]
        BY <1>6, <1>7, <2>1
    <2> QED
        BY <1>6, <2>1, <2>2, <2>3, <2>4
<1>9. jobs' = all
    BY <1>3 DEF rest
<1> HIDE DEF all
<1>10. ASSUME NEW k \in DOMAIN jobs
       PROVE  /\ k < i => k + 1 \in 1..Len(jobs) /\ all[k + 1] = jobs[k]
              /\ k > i => k \in 1..Len(jobs) /\ all[k] = jobs[k]
    <2>0. k \in 1..Len(jobs)
        BY <1>1
    <2>1. ASSUME k < i PROVE k + 1 \in 1..Len(jobs) /\ all[k + 1] = jobs[k]
        <3>1. k \in 1..(i - 1) /\ k \in 1..(Len(jobs) - 1)
            BY <1>1, <2>0, <2>1
        <3>2. all[1 + k] = jobs[k]
            BY <1>7, <1>8, <3>1
        <3> QED
            BY <1>1, <3>1, <3>2
    <2>2. ASSUME k > i PROVE all[k] = jobs[k]
        <3>1. k - i \in 1..(Len(jobs) - i) /\ k - 1 \in 1..(Len(jobs) - 1)
            BY <1>1, <2>0, <2>2
        <3>2. rest[(i - 1) + (k - i)] = jobs[i + (k - i)]
            BY <1>7, <3>1
        <3>3. (i - 1) + (k - i) = k - 1 /\ i + (k - i) = k /\ 1 + (k - 1) = k
            BY <1>1, <2>0
        <3>4. all[1 + (k - 1)] = rest[k - 1]
            BY <1>8, <3>1
        <3> QED
            BY <3>2, <3>3, <3>4
    <2> QED
        BY <2>0, <2>1, <2>2
<1>11. ASSUME NEW k \in 1..Len(jobs)
       PROVE  \/ k = 1
              \/ k > 1 /\ k <= i /\ k - 1 \in DOMAIN jobs /\ all[k] = jobs[k - 1]
              \/ k > i /\ k \in DOMAIN jobs /\ all[k] = jobs[k]
    <2>1. CASE k > 1 /\ k <= i
        <3>1. k - 1 \in DOMAIN jobs /\ k - 1 < i /\ (k - 1) + 1 = k
            BY <1>1, <2>1
        <3>2. all[(k - 1) + 1] = jobs[k - 1]
            BY <1>10, <3>1
        <3> QED
            BY <2>1, <3>1, <3>2
    <2>2. CASE k > i
        BY <1>1, <1>10, <2>2
    <2> QED
        BY <1>1, <2>1, <2>2
<1>12. DOMAIN all = 1..Len(jobs)
    BY <1>8
<1>13. jobs' \in Seq(Attempts) /\ Len(jobs') = Len(jobs) /\ DOMAIN jobs' = 1..Len(jobs)
    BY <1>8, <1>9, <1>12
<1>14. jobs'[1] = [id |-> lastJob + 1, name |-> jobs[i].name, run |-> NotRun]
    BY <1>8, <1>9 DEF new
<1>15. ASSUME NEW k \in DOMAIN jobs
       PROVE  /\ k < i => k + 1 \in DOMAIN jobs' /\ jobs'[k + 1] = jobs[k]
              /\ k > i => k \in DOMAIN jobs' /\ jobs'[k] = jobs[k]
    BY <1>9, <1>10, <1>13
<1>16. ASSUME NEW k \in DOMAIN jobs'
       PROVE  \/ k = 1
              \/ k > 1 /\ k <= i /\ k - 1 \in DOMAIN jobs /\ jobs'[k] = jobs[k - 1]
              \/ k > i /\ k \in DOMAIN jobs /\ jobs'[k] = jobs[k]
    BY <1>9, <1>11, <1>13
<1> QED
    BY <1>13, <1>14, <1>15, <1>16

\* After a retry, the other attempts are those there were.
LEMMA RetryKeepsOthers ==
    ASSUME JobsInv, NEW i \in DOMAIN jobs, Retry(i), NEW k \in DOMAIN jobs'
    PROVE  \/ /\ jobs'[k].id = lastJob + 1 /\ jobs'[k].name = jobs[i].name
              /\ jobs'[k].run = NotRun /\ k = 1
           \/ \E m \in DOMAIN jobs : m # i /\ jobs'[k] = jobs[m] /\ m <= k /\ k # 1
<1>1. i \in Nat /\ k \in Nat /\ i >= 1
    <2>1. jobs \in Seq(Attempts) /\ jobs' \in Seq(Attempts)
        BY RetryShifts DEF JobsInv
    <2> QED
        BY <2>1
<1>2. CASE k = 1
    BY <1>2, RetryShifts
<1>3. CASE k > 1 /\ k <= i /\ k - 1 \in DOMAIN jobs /\ jobs'[k] = jobs[k - 1]
    <2>1. k - 1 # i /\ k - 1 <= k /\ k # 1
        BY <1>1, <1>3
    <2> QED
        BY <1>3, <2>1
<1>4. CASE k > i /\ k \in DOMAIN jobs /\ jobs'[k] = jobs[k]
    <2>1. k # i /\ k <= k /\ k # 1
        BY <1>1, <1>4
    <2> QED
        BY <1>4, <2>1
<1> QED
    BY <1>2, <1>3, <1>4, RetryShifts

\* Where an attempt comes from, and where it goes.
LEMMA RetryFrom ==
    ASSUME JobsInv, NEW i \in DOMAIN jobs, Retry(i), NEW k \in DOMAIN jobs', k # 1
    PROVE  \E m \in DOMAIN jobs : m = (IF k <= i THEN k - 1 ELSE k) /\ jobs'[k] = jobs[m]
<1>1. i \in Nat /\ k \in Nat
    <2>1. jobs \in Seq(Attempts) /\ jobs' \in Seq(Attempts)
        BY RetryShifts DEF JobsInv
    <2> QED
        BY <2>1
<1>2. CASE k <= i /\ k - 1 \in DOMAIN jobs /\ jobs'[k] = jobs[k - 1]
    BY <1>2
<1>3. CASE k > i /\ k \in DOMAIN jobs /\ jobs'[k] = jobs[k]
    <2>1. ~(k <= i)
        BY <1>1, <1>3
    <2> QED
        BY <1>3, <2>1
<1> QED
    BY <1>2, <1>3, RetryShifts

LEMMA RetryTo ==
    ASSUME JobsInv, NEW i \in DOMAIN jobs, Retry(i), NEW k \in DOMAIN jobs, k # i
    PROVE  \E m \in DOMAIN jobs' : jobs'[m] = jobs[k] /\ (m = k \/ m = k + 1)
<1>1. i \in Nat /\ k \in Nat
    BY DEF JobsInv
<1>2. CASE k < i
    BY <1>2, RetryShifts
<1>3. CASE k > i
    BY <1>3, RetryShifts
<1> QED
    BY <1>1, <1>2, <1>3

\* A retry keeps the newest attempt first, and no attempt of the list loses its
\* place to an earlier one.
LEMMA RetryKeeps ==
    ASSUME JobsInv, ListingInv, StandingInv, NEW i \in DOMAIN jobs, Retry(i)
    PROVE  JobsInv' /\ ListingInv' /\ StandingInv'
<1>1. /\ jobs \in Seq(Attempts) /\ jobs' \in Seq(Attempts) /\ Len(jobs') = Len(jobs)
      /\ lastJob \in Nat /\ lastJob' = lastJob + 1
      /\ \A k \in DOMAIN jobs : jobs[k].id \in 1..lastJob
    BY RetryShifts DEF JobsInv, Retry
<1>2. i \in Nat /\ \A k \in DOMAIN jobs' : k \in Nat
    BY <1>1
<1>3. ASSUME NEW a \in DOMAIN jobs', NEW b \in DOMAIN jobs', a < b
      PROVE  jobs'[b].id < jobs'[a].id
    <2>0. b # 1 /\ b > 1
        BY <1>1, <1>3
    <2>1. PICK m \in DOMAIN jobs : m = (IF b <= i THEN b - 1 ELSE b) /\ jobs'[b] = jobs[m]
        BY <2>0, RetryFrom
    <2>2. CASE a = 1
        <3>1. jobs'[a].id = lastJob + 1
            BY <2>2, RetryShifts
        <3> QED
            BY <1>1, <2>1, <3>1
    <2>3. CASE a # 1
        <3>1. PICK l \in DOMAIN jobs : l = (IF a <= i THEN a - 1 ELSE a) /\ jobs'[a] = jobs[l]
            BY <2>3, RetryFrom
        <3>2. l < m
            BY <1>2, <1>3, <2>1, <3>1
        <3> QED
            BY <2>1, <3>1, <3>2 DEF JobsInv
    <2> QED
        BY <2>2, <2>3
<1>4. ASSUME NEW k \in DOMAIN jobs' PROVE jobs'[k].id \in 1..lastJob'
    BY <1>1, RetryKeepsOthers
<1>5. JobsInv'
    <2>1. lastJob' >= Len(Names) /\ Len(jobs') = Len(Names)
        BY <1>1, NamesAssumption DEF JobsInv
    <2> QED
        BY <1>1, <1>3, <1>4, <2>1 DEF JobsInv
<1>6. /\ listing'.page = listing.page /\ listing'.list = listing.list
      /\ listing'.standing = listing.standing \ {jobs[i].id}
      /\ listing' \in [page : Nat, list : Seq(Attempts), standing : SUBSET Nat, retried : Nat]
    <2>1. listing \in [page : Nat, list : Seq(Attempts), standing : SUBSET Nat, retried : Nat]
        BY DEF ListingInv
    <2>2. PICK n \in Nat : listing' = [listing EXCEPT !.standing = listing.standing \ {jobs[i].id},
                                                      !.retried = n]
        <3> DEFINE n == IF listing.page > 0 THEN listing.retried + 1 ELSE listing.retried
        <3>1. n \in Nat
            BY <2>1
        <3>2. listing' = [listing EXCEPT !.standing = listing.standing \ {jobs[i].id}, !.retried = n]
            BY Zenon DEF Retry
        <3> QED
            BY <3>1, <3>2
    <2> QED
        BY <2>1, <2>2
<1>7. ASSUME NEW l \in DOMAIN listing.list
      PROVE  /\ listing.list[l].id \in 1..lastJob'
             /\ \A k \in DOMAIN jobs' :
                   jobs'[k].id = listing.list[l].id =>
                      /\ jobs'[k].name = listing.list[l].name
                      /\ Ran(listing.list[l].run) => jobs'[k].run = listing.list[l].run
    <2>1. listing.list[l].id \in 1..lastJob
        BY DEF ListingInv
    <2>2. ASSUME NEW k \in DOMAIN jobs', jobs'[k].id = listing.list[l].id
          PROVE  \E m \in DOMAIN jobs : jobs'[k] = jobs[m]
        <3>1. jobs'[k].id # lastJob + 1
            BY <1>1, <2>1, <2>2
        <3> QED
            BY <3>1, RetryKeepsOthers
    <2>3. listing.list[l].id \in 1..lastJob'
        BY <1>1, <2>1
    <2> QED
        BY <2>2, <2>3 DEF ListingInv
<1>8. ListingInv'
    BY <1>6, <1>7 DEF ListingInv
<1>9. ASSUME NEW id \in listing'.standing
      PROVE  \E k \in DOMAIN jobs' :
                /\ jobs'[k].id = id
                /\ \/ id \in Ids(listing.list)
                   \/ (listing.page > 0 /\ k > (listing.page - 1) * PerPage)
    <2>1. PICK k \in DOMAIN jobs :
             /\ jobs[k].id = id
             /\ id \in Ids(listing.list) \/ (listing.page > 0 /\ k > (listing.page - 1) * PerPage)
        BY <1>6 DEF StandingInv
    <2>2. k # i /\ k \in Nat
        BY <1>1, <1>6, <2>1
    <2>3. PICK m \in DOMAIN jobs' : jobs'[m] = jobs[k] /\ (m = k \/ m = k + 1)
        BY <2>2, RetryTo
    <2>4. (listing.page - 1) * PerPage \in Int
        <3>1. listing.page \in Nat /\ PerPage \in Nat
            BY PerPageAssumption DEF ListingInv
        <3> QED
            BY <3>1
    <2>5. k > (listing.page - 1) * PerPage => m > (listing.page - 1) * PerPage
        BY <2>2, <2>3, <2>4
    <2> QED
        BY <2>1, <2>3, <2>5
<1>10. StandingInv'
    BY <1>6, <1>9 DEF StandingInv
<1> QED
    BY <1>5, <1>8, <1>10

\* A retried job that ends had not run yet.
LEMMA RetryEndsKeeps ==
    ASSUME JobsInv, ListingInv, StandingInv, NEW i \in DOMAIN jobs, RetryEnds(i)
    PROVE  JobsInv' /\ ListingInv' /\ StandingInv'
<1>1. PICK run \in Runs : jobs' = [jobs EXCEPT ![i].run = run]
    BY DEF RetryEnds
<1>2. /\ jobs \in Seq(Attempts) /\ run \in AnyRun /\ jobs[i].run = NotRun
      /\ lastJob' = lastJob /\ listing' = listing
    BY RunsKnown DEF JobsInv, RetryEnds
<1>3. jobs' \in Seq(Attempts) /\ Len(jobs') = Len(jobs) /\ DOMAIN jobs' = DOMAIN jobs
    <2>1. [jobs[i] EXCEPT !.run = run] \in Attempts
        <3>1. jobs[i] \in Attempts
            BY <1>2
        <3> QED
            BY <1>2, <3>1 DEF Attempts
    <2>2. jobs' = [jobs EXCEPT ![i] = [jobs[i] EXCEPT !.run = run]]
        BY <1>1
    <2> QED
        BY <1>2, <2>1, <2>2
<1>4. \A k \in DOMAIN jobs :
          /\ jobs'[k].id = jobs[k].id /\ jobs'[k].name = jobs[k].name
          /\ k # i => jobs'[k].run = jobs[k].run
    BY <1>1, <1>2 DEF Attempts
<1>5. JobsInv'
    BY <1>2, <1>3, <1>4 DEF JobsInv
<1>6. ~Ran(NotRun)
    BY DEF NotRun, Ran
<1>7. ListingInv'
    <2>1. ASSUME NEW l \in DOMAIN listing.list, NEW k \in DOMAIN jobs,
                 jobs'[k].id = listing.list[l].id
          PROVE  /\ jobs'[k].name = listing.list[l].name
                 /\ Ran(listing.list[l].run) => jobs'[k].run = listing.list[l].run
        <3>1. /\ jobs[k].name = listing.list[l].name
              /\ Ran(listing.list[l].run) => jobs[k].run = listing.list[l].run
            BY <1>4, <2>1 DEF ListingInv
        <3>2. k = i => ~Ran(listing.list[l].run)
            BY <1>2, <1>6, <3>1
        <3> QED
            BY <1>4, <3>1, <3>2
    <2> QED
        BY <1>2, <1>3, <2>1 DEF ListingInv
<1>8. StandingInv'
    <2>1. ASSUME NEW id \in listing.standing
          PROVE  \E k \in DOMAIN jobs' :
                    /\ jobs'[k].id = id
                    /\ \/ id \in Ids(listing.list)
                       \/ (listing.page > 0 /\ k > (listing.page - 1) * PerPage)
        BY <1>3, <1>4 DEF StandingInv
    <2> QED
        BY <1>2, <2>1 DEF StandingInv
<1> QED
    BY <1>5, <1>7, <1>8

\* The jobs and their list are right in every state.
JobsOK == JobsInv /\ ListingInv /\ StandingInv

LEMMA JobsOKStep ==
    ASSUME JobsOK, [Next]_vars
    PROVE  JobsOK'
<1>1. CASE UNCHANGED jobVars
    <2>1. jobs' = jobs /\ lastJob' = lastJob /\ listing' = listing
        BY <1>1 DEF jobVars
    <2>2. JobsInv'
        BY <2>1 DEF JobsOK, JobsInv
    <2>3. ListingInv'
        BY <2>1 DEF JobsOK, ListingInv
    <2>4. StandingInv'
        BY <2>1 DEF JobsOK, StandingInv
    <2> QED
        BY <2>2, <2>3, <2>4 DEF JobsOK
<1>2. CASE UNCHANGED <<jobs, lastJob>> /\ StartListing
    BY <1>2, StartListingKeeps DEF JobsOK
<1>3. CASE UNCHANGED <<jobs, lastJob>> /\ ListPage
    BY <1>3, ListPageKeeps DEF JobsOK
<1>4. CASE \E i \in DOMAIN jobs : Retry(i)
    BY <1>4, RetryKeeps DEF JobsOK
<1>5. CASE \E i \in DOMAIN jobs : RetryEnds(i)
    BY <1>5, RetryEndsKeeps DEF JobsOK
<1> QED
    BY <1>1, <1>2, <1>3, <1>4, <1>5, JobSteps

\* IDs go down GitLab's list, a retried job is in front with a new one, and
\* what PipelineJobs has read of the list so far are jobs that were there, with
\* every one among them, or behind the last page read, that still stands.
THEOREM JobsAlwaysOK == Spec => []JobsOK
<1>1. Init => JobsOK
    BY JobsStart DEF Init, JobsOK
<1>2. JobsOK /\ [Next]_vars => JobsOK'
    BY JobsOKStep
<1> QED
    BY <1>1, <1>2, PTL DEF Spec

\* Every job that GitLab lists from the first page to the last is listed,
\* whatever is retried meanwhile: the pages are read while the list shifts.
THEOREM EveryStandingJobListed == Spec => []StandingJobsListed
<1>1. JobsOK => StandingJobsListed
    BY DEF JobsOK, StandingInv, StandingJobsListed
<1> QED
    BY <1>1, JobsAlwaysOK, PTL

-----------------------------------------------------------------------------
(* What the steps of a task are made of *)

\* The first of some places of a list
LEMMA FirstFound ==
    ASSUME NEW S, NEW list \in Seq(S), NEW places \in SUBSET (DOMAIN list)
    PROVE  /\ places = {} => FirstAt(list, places) = <<>>
           /\ places # {} => \E i \in places : /\ FirstAt(list, places) = <<list[i]>>
                                              /\ \A k \in places : i <= k
<1>1. places \subseteq Nat
    OBVIOUS
<1>2. places # {} => Min(places) \in places /\ \A k \in places : Min(places) <= k
    BY <1>1, MinIsFirst
<1> QED
    BY <1>2 DEF FirstAt

\* FindJob finds one job of the list, by its ID or else by its name, or none.
LEMMA JobFound ==
    ASSUME NEW S, NEW list \in Seq(S), NEW sel
    PROVE  \/ /\ FindJob(list, sel) = <<>>
              /\ \A i \in DOMAIN list : ~AskedFor(sel, list[i])
           \/ \E i \in DOMAIN list : FindJob(list, sel) = <<list[i]>> /\ AskedFor(sel, list[i])
<1> DEFINE ids == WithId(list, sel.id)
           names == Named(list, sel.name)
<1>1. ids \in SUBSET (DOMAIN list) /\ names \in SUBSET (DOMAIN list)
    BY DEF WithId, Named
<1>2. CASE ids # {}
    <2>1. FindJob(list, sel) = FirstAt(list, ids)
        BY <1>2 DEF FindJob
    <2>2. PICK i \in ids : FirstAt(list, ids) = <<list[i]>>
        BY <1>1, <1>2, FirstFound
    <2>3. i \in DOMAIN list /\ AskedFor(sel, list[i])
        BY DEF WithId, AskedFor
    <2> QED
        BY <2>1, <2>2, <2>3
<1>3. CASE ids = {} /\ names # {}
    <2>1. FindJob(list, sel) = FirstAt(list, names)
        BY <1>3 DEF FindJob
    <2>2. PICK i \in names : FirstAt(list, names) = <<list[i]>>
        BY <1>1, <1>3, FirstFound
    <2>3. i \in DOMAIN list /\ AskedFor(sel, list[i])
        BY DEF Named, AskedFor
    <2> QED
        BY <2>1, <2>2, <2>3
<1>4. CASE ids = {} /\ names = {}
    <2>1. FindJob(list, sel) = <<>>
        BY <1>1, <1>4, FirstFound DEF FindJob
    <2> QED
        BY <1>4, <2>1 DEF WithId, Named, AskedFor
<1> QED
    BY <1>2, <1>3, <1>4

\* What is left to do is in the list; the details of a job are of its name.
LEMMA ChosenFromList ==
    ASSUME NEW list \in Seq(Attempts), NEW kind, NEW sel
    PROVE  /\ Chosen(kind, sel, list) \in Seq(Attempts)
           /\ \A i \in DOMAIN Chosen(kind, sel, list) : Chosen(kind, sel, list)[i] \in Range(list)
           /\ kind = "details" /\ sel.id = 0 =>
                 \A i \in DOMAIN Chosen(kind, sel, list) : Chosen(kind, sel, list)[i].name = sel.name
<1>0. \A i \in DOMAIN list : list[i] \in Attempts /\ list[i] \in Range(list)
    BY DEF Range
<1>1. CASE kind = "details" /\ sel.id = 0
    <2>1. Chosen(kind, sel, list) = FirstAt(list, Named(list, sel.name))
        BY <1>1 DEF Chosen
    <2>2. Named(list, sel.name) \in SUBSET (DOMAIN list)
        BY DEF Named
    <2>3. CASE Named(list, sel.name) = {}
        <3>1. FirstAt(list, Named(list, sel.name)) = <<>>
            BY <2>2, <2>3, FirstFound
        <3>2. Chosen(kind, sel, list) = <<>>
            BY <2>1, <3>1
        <3> QED
            BY <3>2
    <2>4. CASE Named(list, sel.name) # {}
        <3>1. PICK i \in Named(list, sel.name) : FirstAt(list, Named(list, sel.name)) = <<list[i]>>
            BY <2>2, <2>4, FirstFound
        <3>2. i \in DOMAIN list /\ list[i].name = sel.name
            BY DEF Named
        <3> QED
            BY <1>0, <2>1, <3>1, <3>2
    <2> QED
        BY <2>3, <2>4
<1>2. CASE Chosen(kind, sel, list) = list /\ ~(kind = "details" /\ sel.id = 0)
    BY <1>0, <1>2
<1>3. CASE Chosen(kind, sel, list) = FindJob(list, sel) /\ ~(kind = "details" /\ sel.id = 0)
    <2>1. CASE FindJob(list, sel) = <<>>
        BY <1>3, <2>1
    <2>2. CASE \E i \in DOMAIN list : FindJob(list, sel) = <<list[i]>>
        BY <1>0, <1>3, <2>2
    <2>3. \/ FindJob(list, sel) = <<>>
          \/ \E i \in DOMAIN list : FindJob(list, sel) = <<list[i]>>
        <3>1. ASSUME NEW i \in DOMAIN list,
                     FindJob(list, sel) = <<list[i]>> /\ AskedFor(sel, list[i])
              PROVE  \E k \in DOMAIN list : FindJob(list, sel) = <<list[k]>>
            BY <3>1
        <3> QED
            BY <3>1, JobFound
    <2> QED
        BY <2>1, <2>2, <2>3
<1> QED
    BY <1>1, <1>2, <1>3 DEF Chosen

\* A note that is a command asks for help, details or advice.
LEMMA CommandsKnown ==
    ASSUME NEW body, Parse(body) # NoCommand
    PROVE  Parse(body).kind \in {"help", "details", "advise"}
<1>1. ASSUME NEW args, DetailsOf(args) # NoCommand PROVE DetailsOf(args).kind = "details"
    BY <1>1 DEF DetailsOf, Command
<1>2. ASSUME NEW args, AdviseOf(args) # NoCommand PROVE AdviseOf(args).kind = "advise"
    BY <1>2 DEF AdviseOf, Command
<1>3. ASSUME NEW line, ParseLine(line) # NoCommand
      PROVE  ParseLine(line).kind \in {"help", "details", "advise"}
    <2> DEFINE verb == Word(line[1])
    <2>1. CASE verb = "help" /\ Tail(line) = <<>>
        BY <2>1 DEF ParseLine, Command
    <2>2. CASE verb = "details"
        BY <1>1, <1>3, <2>2 DEF ParseLine
    <2>3. CASE verb = "advise"
        BY <1>2, <1>3, <2>3 DEF ParseLine
    <2>4. CASE ~(verb = "help" /\ Tail(line) = <<>>) /\ verb # "details" /\ verb # "advise"
        BY <1>3, <2>4 DEF ParseLine
    <2> QED
        BY <2>1, <2>2, <2>3, <2>4
<1> QED
    BY <1>3 DEF Parse

\* The row of an attempt: there is usage exactly if nothing went wrong, and then
\* it is what Prometheus has of the pod of the attempt.
LEMMA RowOfAttempt ==
    ASSUME NEW j \in Attempts, NEW outcome \in Outcomes(j)
    PROVE  /\ Row(j, outcome) \in Rows
           /\ Row(j, outcome).id = j.id /\ Row(j, outcome).name = j.name
           /\ Row(j, outcome).cause = outcome.cause /\ Row(j, outcome).usage = outcome.usage
           /\ Ran(Row(j, outcome)) <=> Ran(j.run)
           /\ outcome.cause = "" <=> outcome.usage # NoUsage
           /\ outcome.cause = "" => HasPod(j.run) /\ outcome.usage = UsageOf(j.run.series)
           /\ outcome.cause = "expired" => expired
<1>1. j.id \in Nat /\ j.name \in Range(Names) /\ j.run \in AnyRun
    BY DEF Attempts
<1>2. \A series : UsageOf(series) # NoUsage
    BY DEF UsageOf, NoUsage
<1>3. \/ outcome = Unmeasured("never ran")
      \/ outcome = Unmeasured("expired") /\ expired
      \/ outcome = Unmeasured("no pod")
      \/ outcome = Unmeasured("failed")
      \/ outcome = Unmeasured("no window")
      \/ HasPod(j.run) /\ outcome = [cause |-> "", usage |-> UsageOf(j.run.series)]
    <2>1. CASE ~Ran(j.run)
        BY <2>1 DEF Outcomes
    <2>2. CASE Ran(j.run) /\ expired
        BY <2>2 DEF Outcomes
    <2>3. CASE Ran(j.run) /\ ~expired
        <3> DEFINE pod == PodForJob(j.run)
                   measured == [cause |-> "", usage |-> UsageOf(j.run.series)]
        <3>1. Outcomes(j) \subseteq
                 {CASE pod = "none" -> Unmeasured("no pod")
                    [] pod = "too long" -> Unmeasured("failed")
                    [] pod = "pod" /\ j.run.start < j.run.finish -> measured
                    [] OTHER -> Unmeasured("no window")} \cup {Unmeasured("failed")}
            BY <2>3 DEF Outcomes
        <3>2. CASE outcome = Unmeasured("failed")
            BY <3>2
        <3>3. CASE pod = "none" /\ outcome # Unmeasured("failed")
            BY <3>1, <3>3
        <3>4. CASE pod = "too long" /\ outcome # Unmeasured("failed")
            BY <3>1, <3>4
        <3>5. CASE pod = "pod" /\ j.run.start < j.run.finish /\ outcome # Unmeasured("failed")
            <4>1. outcome = measured
                BY <3>1, <3>5
            <4> QED
                BY <2>3, <3>5, <4>1 DEF HasPod
        <3>6. CASE /\ pod # "none" /\ pod # "too long" /\ outcome # Unmeasured("failed")
                   /\ ~(pod = "pod" /\ j.run.start < j.run.finish)
            BY <3>1, <3>6
        <3> QED
            BY <3>2, <3>3, <3>4, <3>5, <3>6
    <2> QED
        BY <2>1, <2>2, <2>3
<1>4. /\ outcome.cause \in Causes
      /\ outcome.usage \in {UsageOf(run.series) : run \in AnyRun} \cup {NoUsage}
      /\ outcome.cause = "" <=> outcome.usage # NoUsage
      /\ outcome.cause = "" => HasPod(j.run) /\ outcome.usage = UsageOf(j.run.series)
      /\ outcome.cause = "expired" => expired
    <2>1. ASSUME NEW cause \in Causes \ {""}, outcome = Unmeasured(cause),
                 cause = "expired" => expired
          PROVE  /\ outcome.cause \in Causes
                 /\ outcome.usage \in {UsageOf(run.series) : run \in AnyRun} \cup {NoUsage}
                 /\ outcome.cause = "" <=> outcome.usage # NoUsage
                 /\ outcome.cause = "" => HasPod(j.run) /\ outcome.usage = UsageOf(j.run.series)
                 /\ outcome.cause = "expired" => expired
        BY <2>1 DEF Unmeasured
    <2>2. CASE HasPod(j.run) /\ outcome = [cause |-> "", usage |-> UsageOf(j.run.series)]
        <3>1. outcome.cause = "" /\ outcome.usage = UsageOf(j.run.series)
            BY <2>2
        <3>2. "" \in Causes
            BY DEF Causes
        <3> QED
            BY <1>1, <1>2, <2>2, <3>1, <3>2
    <2>3. {"never ran", "expired", "no pod", "failed", "no window"} \subseteq Causes \ {""}
        BY DEF Causes
    <2>4. CASE outcome = Unmeasured("never ran")
        BY <2>1, <2>3, <2>4
    <2>5. CASE outcome = Unmeasured("expired") /\ expired
        BY <2>1, <2>3, <2>5
    <2>6. CASE outcome = Unmeasured("no pod")
        BY <2>1, <2>3, <2>6
    <2>7. CASE outcome = Unmeasured("failed")
        BY <2>1, <2>3, <2>7
    <2>8. CASE outcome = Unmeasured("no window")
        BY <2>1, <2>3, <2>8
    <2> QED
        BY <1>3, <2>2, <2>4, <2>5, <2>6, <2>7, <2>8
<1>5. Row(j, outcome) \in Rows
    BY <1>1, <1>4 DEF Row, Rows
<1> QED
    BY <1>4, <1>5 DEF Row, Ran

\* What starts is a fresh task, of a kind that there is.
Starts(t) ==
    /\ t \in Tasks /\ Fresh(t)
    /\ \/ t.step = "authorize" /\ t.kind \in {"help", "details", "advise"}
       \/ t.step = "list" /\ t.kind \in {"report", "run", "job", "print advice"}
    /\ t.kind = "job" => t.sel # Everything

LEMMA IdleTyped == Idle \in Tasks /\ Fresh(Idle) /\ Idle.step = "idle" /\ Idle.kind = "none"
<1>1. Everything \in Sels
    BY DEF Sels
<1> QED
    BY <1>1 DEF Idle, Tasks, Kinds, Steps, Fresh

LEMMA TaskTyped ==
    ASSUME NEW kind \in Kinds, NEW sel \in Sels
    PROVE  /\ Task(kind, sel) \in Tasks /\ Fresh(Task(kind, sel))
           /\ Task(kind, sel).kind = kind /\ Task(kind, sel).sel = sel
           /\ Task(kind, sel).step = "list"
<1>1. Task(kind, sel) = [Idle EXCEPT !.kind = kind, !.sel = sel, !.step = "list"]
    BY DEF Task
<1>2. "list" \in Steps
    BY DEF Steps
<1> QED
    BY <1>1, <1>2, IdleTyped DEF Tasks, Fresh

LEMMA StartSteps ==
    ASSUME Start
    PROVE  \E t : Begin(t) /\ Starts(t)
<1>1. Everything \in Sels
    BY DEF Sels
<1>2. ASSUME Begin(Task("report", Everything))
      PROVE  \E t : Begin(t) /\ Starts(t)
    BY <1>1, <1>2, TaskTyped DEF Starts, Kinds
<1>3. ASSUME Begin(Task("run", Everything))
      PROVE  \E t : Begin(t) /\ Starts(t)
    BY <1>1, <1>3, TaskTyped DEF Starts, Kinds
<1>4. ASSUME NEW name \in Asked, Begin(Task("job", Selector(Command("advise", "job", name))))
      PROVE  \E t : Begin(t) /\ Starts(t)
    <2> DEFINE sel == Selector(Command("advise", "job", name))
    <2>1. sel \in Sels
        BY DEF Sels
    <2>2. sel # Everything
        <3>1. name # ""
            BY AskedAssumption
        <3>2. sel.name = name
            BY DEF Selector, Command
        <3>3. Everything.name = ""
            BY DEF Everything
        <3> QED
            BY <3>1, <3>2, <3>3
    <2> HIDE DEF sel
    <2>3. Starts(Task("job", sel))
        <3>1. "job" \in Kinds
            BY DEF Kinds
        <3>2. /\ Task("job", sel) \in Tasks /\ Fresh(Task("job", sel))
              /\ Task("job", sel).kind = "job" /\ Task("job", sel).sel = sel
              /\ Task("job", sel).step = "list"
            BY <2>1, <3>1, TaskTyped
        <3> QED
            BY <2>2, <3>2 DEF Starts
    <2> QED
        BY <1>4, <2>3 DEF sel
<1>5. ASSUME NEW name \in Asked \cup {""},
             Begin(Task("print advice", Selector(Command("advise", "job", name))))
      PROVE  \E t : Begin(t) /\ Starts(t)
    <2> DEFINE sel == Selector(Command("advise", "job", name))
    <2>1. sel \in Sels
        BY DEF Sels
    <2> HIDE DEF sel
    <2>2. Starts(Task("print advice", sel))
        <3>1. "print advice" \in Kinds
            BY DEF Kinds
        <3>2. /\ Task("print advice", sel) \in Tasks /\ Fresh(Task("print advice", sel))
              /\ Task("print advice", sel).kind = "print advice" /\ Task("print advice", sel).sel = sel
              /\ Task("print advice", sel).step = "list"
            BY <2>1, <3>1, TaskTyped
        <3> QED
            BY <3>2 DEF Starts
    <2> QED
        BY <1>5, <2>2 DEF sel
<1>6. ASSUME NEW note \in Notes, HandleNote(note)
      PROVE  \E t : Begin(t) /\ Starts(t)
    <2> DEFINE cmd == Parse(note.body)
               sel == Selector(cmd)
               t == [Task(cmd.kind, sel) EXCEPT !.step = "authorize", !.root = note.root]
    <2>1. cmd # NoCommand /\ Begin(t)
        BY <1>6 DEF HandleNote
    <2>2. cmd.kind \in {"help", "details", "advise"}
        BY <2>1, CommandsKnown
    <2>3. sel \in Sels
        BY <2>1 DEF Sels
    <2> DEFINE kind == cmd.kind
    <2> HIDE DEF cmd, sel, kind
    <2>4. Task(kind, sel) \in Tasks /\ Fresh(Task(kind, sel)) /\ Task(kind, sel).kind = kind
        <3>1. kind \in Kinds
            BY <2>2 DEF Kinds, kind
        <3> QED
            BY <2>3, <3>1, TaskTyped
    <2>5. Starts([Task(kind, sel) EXCEPT !.step = "authorize", !.root = note.root])
        BY <2>2, <2>4 DEF Starts, Tasks, Fresh, Steps, kind
    <2> QED
        BY <2>1, <2>5 DEF kind
<1> QED
    BY <1>2, <1>3, <1>4, <1>5, <1>6 DEF Start, CommandLine

-----------------------------------------------------------------------------
(* The task *)

\* What GitLab does leaves the task and the list so far alone.
LEMMA RetriesKeepTask ==
    ASSUME ListingInv, Retries /\ UNCHANGED taskVars
    PROVE  /\ listing'.list = listing.list /\ listing'.page = listing.page
           /\ task' = task /\ expired' = expired /\ tasks' = tasks /\ board' = board /\ said' = said
<1>1. ASSUME NEW i \in DOMAIN jobs, Retry(i)
      PROVE  listing'.list = listing.list /\ listing'.page = listing.page
    <2> DEFINE n == IF listing.page > 0 THEN listing.retried + 1 ELSE listing.retried
               standing == listing.standing \ {jobs[i].id}
    <2>1. listing \in [page : Nat, list : Seq(Attempts), standing : SUBSET Nat, retried : Nat]
        BY DEF ListingInv
    <2>2. listing' = [listing EXCEPT !.standing = standing, !.retried = n]
        BY <1>1, Zenon DEF Retry
    <2> HIDE DEF n, standing
    <2> QED
        BY <2>1, <2>2
<1>2. ASSUME NEW i \in DOMAIN jobs, RetryEnds(i)
      PROVE  listing' = listing
    BY <1>2 DEF RetryEnds
<1> QED
    BY <1>1, <1>2 DEF Retries, taskVars

\* The task in hand goes on: what its next state is made of.
Becomes(kind, step, todo, rows, target, charts) ==
    /\ task' \in Tasks /\ task'.sel = task.sel
    /\ task'.kind = kind /\ task'.step = step /\ task'.todo = todo
    /\ task'.rows = rows /\ task'.target = target /\ task'.charts = charts

\* The head of what is left to do, and its tail, are of the list.
LEMMA NextToDo ==
    ASSUME TaskInv, task.todo # <<>>
    PROVE  /\ Head(task.todo) \in Attempts /\ Head(task.todo) \in Range(listing.list)
           /\ Head(task.todo) = task.todo[1] /\ 1 \in DOMAIN task.todo
           /\ Tail(task.todo) \in Seq(Attempts) /\ Len(Tail(task.todo)) = Len(task.todo) - 1
           /\ \A i \in DOMAIN Tail(task.todo) :
                 i + 1 \in DOMAIN task.todo /\ Tail(task.todo)[i] = task.todo[i + 1]
           /\ Len(task.todo) \in Nat /\ Len(task.todo) >= 1
<1>1. task.todo \in Seq(Attempts)
    BY DEF TaskInv, TaskGood, Tasks
<1>2. Head(task.todo) = task.todo[1] /\ 1 \in DOMAIN task.todo
    BY <1>1
<1>3. /\ Tail(task.todo) \in Seq(Attempts) /\ Len(Tail(task.todo)) = Len(task.todo) - 1
      /\ \A i \in DOMAIN Tail(task.todo) :
            i + 1 \in DOMAIN task.todo /\ Tail(task.todo)[i] = task.todo[i + 1]
      /\ Len(task.todo) \in Nat /\ Len(task.todo) >= 1
    BY <1>1
<1> QED
    BY <1>1, <1>2, <1>3 DEF TaskInv, TaskGood

\* What a measurement leads to: an end, a job that advice skips, or a row.
LEMMA MeasureTo ==
    ASSUME TaskInv, Measure
    PROVE  \E outcome \in Outcomes(Head(task.todo)) :
             LET row == Row(Head(task.todo), outcome) IN
             \/ task.kind = "job" /\ outcome.cause # "" /\ task' = Idle
             \/ Advising /\ ~Ran(row) /\ task' = [task EXCEPT !.todo = Tail(task.todo)]
             \/ \E step \in {"trace", "measure"} :
                   /\ step = "trace" => Advising
                   /\ task' = [task EXCEPT !.rows = Append(task.rows, row),
                                          !.todo = Tail(task.todo), !.step = step]
<1>1. PICK outcome \in Outcomes(Head(task.todo)) :
          LET row == Row(Head(task.todo), outcome) IN
          task' = IF task.kind = "job" /\ outcome.cause \in {"expired", "no window", "failed"} THEN Idle
                  ELSE IF Advising /\ ~Ran(row) THEN [task EXCEPT !.todo = Tail(@)]
                  ELSE [task EXCEPT !.rows = Append(@, row), !.todo = Tail(@),
                          !.step = IF Advising /\ NeedsTrace(Registry, FactsOf(row), Limits)
                                   THEN "trace" ELSE "measure"]
    BY DEF Measure, EndsJob
<1> DEFINE row == Row(Head(task.todo), outcome)
           needed == NeedsTrace(Registry, FactsOf(row), Limits)
<1>2. task' = IF task.kind = "job" /\ outcome.cause \in {"expired", "no window", "failed"} THEN Idle
              ELSE IF Advising /\ ~Ran(row) THEN [task EXCEPT !.todo = Tail(task.todo)]
              ELSE [task EXCEPT !.rows = Append(task.rows, row), !.todo = Tail(task.todo),
                      !.step = IF Advising /\ needed THEN "trace" ELSE "measure"]
    BY <1>1
<1> HIDE DEF row, needed
<1>3. CASE task.kind = "job" /\ outcome.cause \in {"expired", "no window", "failed"}
    BY <1>2, <1>3 DEF row
<1>4. CASE /\ ~(task.kind = "job" /\ outcome.cause \in {"expired", "no window", "failed"})
           /\ Advising /\ ~Ran(row)
    BY <1>2, <1>4 DEF row
<1>5. CASE /\ ~(task.kind = "job" /\ outcome.cause \in {"expired", "no window", "failed"})
           /\ ~(Advising /\ ~Ran(row))
    <2>1. PICK step \in {"trace", "measure"} :
             /\ step = "trace" => Advising
             /\ task' = [task EXCEPT !.rows = Append(task.rows, row), !.todo = Tail(task.todo),
                                    !.step = step]
        BY <1>2, <1>5
    <2> QED
        BY <2>1 DEF row
<1> QED
    BY <1>3, <1>4, <1>5

\* Rows that differ in their trace only
SameMeasured(rows, others) ==
    /\ Len(rows) = Len(others) /\ DOMAIN rows = DOMAIN others
    /\ \A i \in DOMAIN rows :
          /\ rows[i].id = others[i].id /\ rows[i].name = others[i].name
          /\ rows[i].usage = others[i].usage /\ rows[i].cause = others[i].cause

LEMMA FetchTraceTo ==
    ASSUME JobsOK, TaskInv, FetchTrace
    PROVE  \E rows \in Seq(Rows) :
             /\ task' = [task EXCEPT !.step = "measure", !.rows = rows]
             /\ SameMeasured(rows, task.rows)
<1> DEFINE last == Len(task.rows)
           j == CHOOSE k \in Range(listing.list) : k.id = task.rows[last].id
<1>1. task \in Tasks /\ task.rows \in Seq(Rows) /\ task.rows # <<>>
    BY DEF TaskInv, TaskGood, FetchTrace, Tasks
<1>2. last \in DOMAIN task.rows /\ task.rows[last] \in Rows
    BY <1>1
<1>3. \E k \in Range(listing.list) : k.id = task.rows[last].id
    BY <1>2 DEF TaskInv, TaskGood, Ids, Range
<1>4. j \in Range(listing.list)
    BY <1>3
<1>5. j \in Attempts
    <2>1. listing.list \in Seq(Attempts)
        BY DEF JobsOK, ListingInv
    <2>2. \A k \in Range(listing.list) : k \in Attempts
        BY <2>1 DEF Range
    <2> QED
        BY <1>4, <2>2
<1>6. j.run.trace \in {run.trace : run \in AnyRun} \cup {{}}
    BY <1>5 DEF Attempts
<1>7. PICK got \in BOOLEAN :
          task' = [task EXCEPT !.step = "measure",
                     !.rows[last].trace = IF got THEN j.run.trace ELSE @]
    BY DEF FetchTrace
<1> DEFINE trace == IF got THEN j.run.trace ELSE task.rows[last].trace
           row == [task.rows[last] EXCEPT !.trace = trace]
           rows == [task.rows EXCEPT ![last] = row]
<1>8. trace \in {run.trace : run \in AnyRun} \cup {{}}
    BY <1>2, <1>6 DEF Rows
<1>9. task' = [task EXCEPT !.step = "measure", !.rows = rows]
    BY <1>1, <1>7
<1> HIDE DEF trace, last, j
<1>10. /\ row \in Rows
       /\ row.id = task.rows[last].id /\ row.name = task.rows[last].name
       /\ row.usage = task.rows[last].usage /\ row.cause = task.rows[last].cause
    BY <1>2, <1>8 DEF Rows
<1> HIDE DEF row
<1>11. rows \in Seq(Rows) /\ Len(rows) = Len(task.rows) /\ DOMAIN rows = DOMAIN task.rows
    BY <1>1, <1>2, <1>10
<1>12. SameMeasured(rows, task.rows)
    BY <1>1, <1>2, <1>10, <1>11 DEF SameMeasured
<1> QED
    BY <1>9, <1>11, <1>12

\* What resolving leads to: an end, a refusal, the target, or the next job.
LEMMA ResolveTo ==
    ASSUME TaskInv, ResolveTarget
    PROVE  \/ task' = Idle
           \/ /\ task' = [task EXCEPT !.step = "post", !.kind = "refuse"]
              /\ task.todo # <<>> => task.sel.id = 0 /\ ~HasPod(Head(task.todo).run)
           \/ /\ task.todo # <<>> /\ HasPod(Head(task.todo).run)
              /\ task.sel.id # 0 => Head(task.todo).id = task.sel.id
              /\ \E step \in {"series", "span"} :
                    task' = [task EXCEPT !.target = <<Head(task.todo)>>, !.step = step]
           \/ /\ task.todo # <<>> /\ task.sel.id # 0
              /\ ~(HasPod(Head(task.todo).run) /\ Head(task.todo).id = task.sel.id)
              /\ task' = [task EXCEPT !.todo = Tail(task.todo)]
<1> DEFINE j == Head(task.todo)
           step == IF task.sel.id = 0 THEN "series" ELSE "span"
           found == [task EXCEPT !.target = <<j>>, !.step = step]
           refused == [task EXCEPT !.step = "post", !.kind = "refuse"]
           next == [task EXCEPT !.todo = Tail(task.todo)]
           pod == IF Ran(j.run) THEN PodForJob(j.run) ELSE "none"
<1>1. CASE task.todo = <<>>
    BY <1>1 DEF ResolveTarget, Refuse
<1>2. CASE task.todo # <<>>
    <2>1. \/ task' = Idle
          \/ task.sel.id = 0 /\ pod = "pod" /\ task' = found
          \/ task.sel.id = 0 /\ pod # "pod" /\ task' = refused
          \/ task.sel.id # 0 /\ pod = "pod" /\ j.id = task.sel.id /\ task' = found
          \/ task.sel.id # 0 /\ ~(pod = "pod" /\ j.id = task.sel.id) /\ task' = next
        BY <1>2 DEF ResolveTarget, Refuse, Done
    <2>2. pod = "pod" <=> HasPod(j.run)
        BY DEF HasPod
    <2>3. step \in {"series", "span"}
        OBVIOUS
    <2> HIDE DEF pod, step, j
    <2>4. \/ task' = Idle
          \/ task.sel.id = 0 /\ ~HasPod(j.run) /\ task' = refused
          \/ HasPod(j.run) /\ (task.sel.id # 0 => j.id = task.sel.id) /\ task' = found
          \/ task.sel.id # 0 /\ ~(HasPod(j.run) /\ j.id = task.sel.id) /\ task' = next
        BY <2>1, <2>2
    <2> QED
        BY <1>2, <2>3, <2>4 DEF j
<1> QED
    BY <1>1, <1>2

\* The ways in which a step changes a task
LEMMA Moves ==
    ASSUME TaskInv, NEW kind \in Kinds, NEW step \in Steps
    PROVE  /\ task' = [task EXCEPT !.step = step, !.kind = kind] =>
                 Becomes(kind, step, task.todo, task.rows, task.target, task.charts)
           /\ task' = [task EXCEPT !.step = step] =>
                 Becomes(task.kind, step, task.todo, task.rows, task.target, task.charts)
BY DEF TaskInv, TaskGood, Tasks, Becomes

LEMMA MovesTodo ==
    ASSUME TaskInv, NEW todo \in Seq(Attempts), NEW step \in Steps
    PROVE  /\ task' = [task EXCEPT !.todo = todo] =>
                 Becomes(task.kind, task.step, todo, task.rows, task.target, task.charts)
           /\ task' = [task EXCEPT !.todo = todo, !.step = step] =>
                 Becomes(task.kind, step, todo, task.rows, task.target, task.charts)
BY DEF TaskInv, TaskGood, Tasks, Becomes

LEMMA MovesRows ==
    ASSUME TaskInv, NEW todo \in Seq(Attempts), NEW rows \in Seq(Rows), NEW step \in Steps
    PROVE  /\ task' = [task EXCEPT !.rows = rows, !.todo = todo, !.step = step] =>
                 Becomes(task.kind, step, todo, rows, task.target, task.charts)
           /\ task' = [task EXCEPT !.step = step, !.rows = rows] =>
                 Becomes(task.kind, step, task.todo, rows, task.target, task.charts)
BY DEF TaskInv, TaskGood, Tasks, Becomes

LEMMA MovesTarget ==
    ASSUME TaskInv, NEW target \in Seq(Attempts), NEW step \in Steps
    PROVE  /\ task' = [task EXCEPT !.target = target, !.step = step] =>
                 Becomes(task.kind, step, task.todo, task.rows, target, task.charts)
           /\ task' = [task EXCEPT !.step = step, !.target = target] =>
                 Becomes(task.kind, step, task.todo, task.rows, target, task.charts)
BY DEF TaskInv, TaskGood, Tasks, Becomes

LEMMA MovesCharts ==
    ASSUME TaskInv, NEW charts \in Seq({"cpu", "memory", "network"}), NEW step \in Steps,
           NEW kind \in Kinds
    PROVE  /\ task' = [task EXCEPT !.charts = charts, !.kind = kind, !.step = step] =>
                 Becomes(kind, step, task.todo, task.rows, task.target, charts)
           /\ task' = [task EXCEPT !.charts = charts, !.step = step] =>
                 Becomes(task.kind, step, task.todo, task.rows, task.target, charts)
BY DEF TaskInv, TaskGood, Tasks, Becomes

\* Where each step of a task takes it
LEMMA AuthorizeMoves ==
    ASSUME TaskOK, Authorize
    PROVE  /\ Fresh(task) /\ task.kind \in {"help", "details", "advise"}
           /\ \/ task' = Idle /\ listing' = listing
              \/ /\ task.kind = "help" /\ listing' = listing
                 /\ Becomes("help", "post", task.todo, task.rows, task.target, task.charts)
              \/ /\ task.kind # "help" /\ StartListing
                 /\ Becomes(task.kind, "list", task.todo, task.rows, task.target, task.charts)
<1>1. Fresh(task) /\ task.kind \in {"help", "details", "advise"}
    BY DEF TaskOK, TaskInv, TaskGood, KindInv, KindGood, Authorize
<1>2. "post" \in Steps /\ "list" \in Steps /\ task.kind \in Kinds
    BY <1>1 DEF Steps, Kinds
<1>3. \/ task' = Idle /\ listing' = listing
      \/ task.kind = "help" /\ listing' = listing /\ task' = [task EXCEPT !.step = "post"]
      \/ task.kind # "help" /\ StartListing /\ task' = [task EXCEPT !.step = "list"]
    BY DEF Authorize, Done, GoTo
<1> QED
    BY <1>1, <1>2, <1>3, Moves DEF TaskOK

\* A listing goes on to the next page, ends without an answer, is refused, or
\* comes to the jobs chosen.
ChosenJobs == Chosen(task.kind, task.sel, listing'.list)
Missing == ChosenJobs = <<>> /\ task.sel # Everything /\ task.kind # "details"
ListedTo ==
    \/ listing'.page > 0 /\ task' = task
    \/ task' = Idle
    \/ /\ listing'.page = 0 /\ Missing /\ task.kind = "advise"
       /\ Becomes("refuse", "post", <<>>, <<>>, <<>>, <<>>)
    \/ /\ listing'.page = 0 /\ task.kind = "details"
       /\ Becomes("details", "resolve", ChosenJobs, <<>>, <<>>, <<>>)
    \/ /\ listing'.page = 0 /\ task.kind # "details"
       /\ Missing => task.kind \notin Printed /\ task.kind # "advise"
       /\ Becomes(task.kind, "measure", ChosenJobs, <<>>, <<>>, <<>>)

LEMMA ListJobsMoves ==
    ASSUME JobsOK, TaskOK, ListJobs
    PROVE  /\ Fresh(task) /\ ChosenJobs \in Seq(Attempts) /\ ListedTo
           /\ task.kind \in {"report", "run", "job", "details", "advise", "print advice"}
<1> DEFINE page == listing'.page
<1>1. /\ Fresh(task) /\ TaskInv
      /\ task.kind \in {"report", "run", "job", "details", "advise", "print advice"}
      /\ task.todo = <<>> /\ task.rows = <<>> /\ task.target = <<>> /\ task.charts = <<>>
    BY DEF TaskOK, TaskInv, TaskGood, KindInv, KindGood, ListJobs, Fresh
<1>2. page \in Nat /\ listing'.list \in Seq(Attempts)
    BY PageAdds DEF ListJobs, JobsOK
<1>3. ChosenJobs \in Seq(Attempts)
    BY <1>2, ChosenFromList DEF ChosenJobs
<1>4. /\ "post" \in Steps /\ "resolve" \in Steps /\ "measure" \in Steps
      /\ "refuse" \in Kinds
    BY DEF Steps, Kinds
<1>5. task' = CASE page > 0 -> task
                [] page = 0 /\ Missing /\ task.kind \in Printed -> Idle
                [] page = 0 /\ Missing /\ task.kind = "advise" ->
                      [task EXCEPT !.step = "post", !.kind = "refuse"]
                [] OTHER -> [task EXCEPT !.todo = ChosenJobs,
                      !.step = IF task.kind = "details" THEN "resolve" ELSE "measure"]
    BY Zenon DEF ListJobs, ChosenJobs, Missing
<1>6. "advise" \notin Printed
    BY DEF Printed
<1> SUFFICES ListedTo
    BY <1>1, <1>3
<1>7. CASE page > 0
    BY <1>2, <1>5, <1>7 DEF ListedTo
<1>8. CASE page = 0 /\ Missing /\ task.kind \in Printed
    <2>1. ~(page > 0) /\ task.kind # "advise"
        BY <1>6, <1>8
    <2> QED
        BY <1>5, <1>8, <2>1 DEF ListedTo
<1>9. CASE page = 0 /\ Missing /\ task.kind = "advise"
    <2>1. ~(page > 0) /\ task.kind \notin Printed
        BY <1>6, <1>9
    <2>2. task' = [task EXCEPT !.step = "post", !.kind = "refuse"]
        BY <1>5, <1>9, <2>1
    <2>3. Becomes("refuse", "post", <<>>, <<>>, <<>>, <<>>)
        BY <1>1, <1>4, <2>2, Moves
    <2> QED
        BY <1>9, <2>3 DEF ListedTo
<1>10. CASE page = 0 /\ ~(Missing /\ (task.kind \in Printed \/ task.kind = "advise"))
    <2>1. ~(page > 0)
        BY <1>10
    <2>2. task' = [task EXCEPT !.todo = ChosenJobs,
                     !.step = IF task.kind = "details" THEN "resolve" ELSE "measure"]
        BY <1>5, <1>10, <2>1
    <2>3. CASE task.kind = "details"
        <3>1. Becomes("details", "resolve", ChosenJobs, <<>>, <<>>, <<>>)
            BY <1>1, <1>3, <1>4, <2>2, <2>3, MovesTodo
        <3> QED
            BY <1>10, <2>3, <3>1 DEF ListedTo
    <2>4. CASE task.kind # "details"
        <3>1. Becomes(task.kind, "measure", ChosenJobs, <<>>, <<>>, <<>>)
            BY <1>1, <1>3, <1>4, <2>2, <2>4, MovesTodo
        <3> QED
            BY <1>10, <2>4, <3>1 DEF ListedTo
    <2> QED
        BY <2>3, <2>4
<1> QED
    BY <1>2, <1>7, <1>8, <1>9, <1>10

\* The row measured next
LEMMA MeasureMoves ==
    ASSUME TaskOK, Measure
    PROVE  /\ task.step = "measure" /\ task.todo # <<>>
           /\ task.kind \in {"report", "run", "job", "advise", "print advice"}
           /\ \E outcome \in Outcomes(Head(task.todo)) :
                \/ task.kind = "job" /\ outcome.cause # "" /\ task' = Idle
                \/ /\ Advising /\ ~Ran(Head(task.todo).run)
                   /\ Becomes(task.kind, "measure", Tail(task.todo), task.rows, task.target,
                              task.charts)
                \/ \E step \in {"trace", "measure"} :
                     /\ step = "trace" => Advising
                     /\ Append(task.rows, Row(Head(task.todo), outcome)) \in Seq(Rows)
                     /\ Becomes(task.kind, step, Tail(task.todo),
                                Append(task.rows, Row(Head(task.todo), outcome)),
                                task.target, task.charts)
<1>1. /\ task.step = "measure" /\ task.todo # <<>> /\ TaskInv
      /\ task.kind \in {"report", "run", "job", "advise", "print advice"}
    BY DEF Measure, EndsJob, TaskOK, KindInv, KindGood
<1> DEFINE j == Head(task.todo)
           todo == Tail(task.todo)
<1>2. j \in Attempts /\ todo \in Seq(Attempts)
    BY <1>1, NextToDo
<1>3. PICK outcome \in Outcomes(j) :
         LET row == Row(j, outcome) IN
         \/ task.kind = "job" /\ outcome.cause # "" /\ task' = Idle
         \/ Advising /\ ~Ran(row) /\ task' = [task EXCEPT !.todo = todo]
         \/ \E step \in {"trace", "measure"} :
               /\ step = "trace" => Advising
               /\ task' = [task EXCEPT !.rows = Append(task.rows, row),
                                      !.todo = todo, !.step = step]
    BY <1>1, MeasureTo
<1> DEFINE row == Row(j, outcome)
           rows == Append(task.rows, row)
<1>4. row \in Rows /\ (Ran(row) <=> Ran(j.run))
    BY <1>2, RowOfAttempt
<1> HIDE DEF j, todo, row
<1>5. rows \in Seq(Rows)
    <2>1. task.rows \in Seq(Rows)
        BY <1>1 DEF TaskInv, TaskGood, Tasks
    <2> QED
        BY <1>4, <2>1
<1> HIDE DEF rows
<1>6. CASE task.kind = "job" /\ outcome.cause # "" /\ task' = Idle
    BY <1>1, <1>6 DEF j
<1>7. CASE Advising /\ ~Ran(row) /\ task' = [task EXCEPT !.todo = todo]
    <2>1. "measure" \in Steps
        BY DEF Steps
    <2>2. Becomes(task.kind, "measure", todo, task.rows, task.target, task.charts)
        BY <1>1, <1>2, <1>7, <2>1, MovesTodo
    <2> QED
        BY <1>1, <1>4, <1>7, <2>2 DEF j, todo
<1>8. ASSUME NEW step \in {"trace", "measure"}, step = "trace" => Advising,
             task' = [task EXCEPT !.rows = rows, !.todo = todo, !.step = step]
      PROVE  Becomes(task.kind, step, todo, rows, task.target, task.charts)
    <2>1. step \in Steps
        BY DEF Steps
    <2> QED
        BY <1>1, <1>2, <1>5, <1>8, <2>1, MovesRows
<1>9. CASE \E step \in {"trace", "measure"} :
             /\ step = "trace" => Advising
             /\ task' = [task EXCEPT !.rows = rows, !.todo = todo, !.step = step]
    BY <1>1, <1>5, <1>8, <1>9 DEF j, todo, row, rows
<1> QED
    BY <1>3, <1>6, <1>7, <1>9 DEF row, rows

LEMMA FetchTraceMoves ==
    ASSUME JobsOK, TaskOK, FetchTrace
    PROVE  /\ task.step = "trace"
           /\ task.kind \in {"report", "run", "job", "advise", "print advice"}
           /\ \E rows \in Seq(Rows) :
                /\ SameMeasured(rows, task.rows)
                /\ Becomes(task.kind, "measure", task.todo, rows, task.target, task.charts)
<1>1. /\ task.step = "trace" /\ TaskInv
      /\ task.kind \in {"report", "run", "job", "advise", "print advice"}
    BY DEF FetchTrace, TaskOK, KindInv, KindGood
<1>2. PICK rows \in Seq(Rows) :
         /\ task' = [task EXCEPT !.step = "measure", !.rows = rows]
         /\ SameMeasured(rows, task.rows)
    BY <1>1, FetchTraceTo
<1>3. "measure" \in Steps
    BY DEF Steps
<1>4. task.todo \in Seq(Attempts)
    BY <1>1 DEF TaskInv, TaskGood, Tasks
<1>5. Becomes(task.kind, "measure", task.todo, rows, task.target, task.charts)
    BY <1>1, <1>2, <1>3, <1>4, MovesRows
<1> QED
    BY <1>1, <1>2, <1>5

\* The details of a job end, are refused, have their target, or go on to the
\* next job.
ResolvedTo ==
    \/ task' = Idle
    \/ /\ Becomes("refuse", "post", task.todo, task.rows, task.target, task.charts)
       /\ task.todo # <<>> => task.sel.id = 0 /\ ~HasPod(Head(task.todo).run)
    \/ /\ task.todo # <<>> /\ HasPod(Head(task.todo).run)
       /\ task.sel.id # 0 => Head(task.todo).id = task.sel.id
       /\ \E step \in {"series", "span"} :
             Becomes("details", step, task.todo, task.rows, <<Head(task.todo)>>, task.charts)
    \/ /\ task.todo # <<>> /\ task.sel.id # 0
       /\ ~(HasPod(Head(task.todo).run) /\ Head(task.todo).id = task.sel.id)
       /\ Becomes("details", "resolve", Tail(task.todo), task.rows, task.target, task.charts)

LEMMA ResolveMoves ==
    ASSUME TaskOK, ResolveTarget
    PROVE  task.step = "resolve" /\ task.kind = "details" /\ ResolvedTo
<1>1. task.step = "resolve" /\ task.kind = "details" /\ TaskInv
    BY DEF ResolveTarget, TaskOK, KindInv, KindGood
<1>2. {"post", "series", "span", "resolve"} \subseteq Steps /\ "refuse" \in Kinds
    BY DEF Steps, Kinds
<1> DEFINE j == Head(task.todo)
           todo == Tail(task.todo)
<1>3. task.todo # <<>> => j \in Attempts /\ todo \in Seq(Attempts)
    BY <1>1, NextToDo
<1> SUFFICES ResolvedTo
    BY <1>1
<1>4. CASE task' = Idle
    BY <1>4 DEF ResolvedTo
<1>5. CASE /\ task' = [task EXCEPT !.step = "post", !.kind = "refuse"]
           /\ task.todo # <<>> => task.sel.id = 0 /\ ~HasPod(j.run)
    <2>1. Becomes("refuse", "post", task.todo, task.rows, task.target, task.charts)
        BY <1>1, <1>2, <1>5, Moves
    <2> QED
        BY <1>5, <2>1 DEF ResolvedTo
<1>6. CASE /\ task.todo # <<>> /\ HasPod(j.run)
           /\ task.sel.id # 0 => j.id = task.sel.id
           /\ \E step \in {"series", "span"} :
                 task' = [task EXCEPT !.target = <<j>>, !.step = step]
    <2>1. PICK step \in {"series", "span"} : task' = [task EXCEPT !.target = <<j>>, !.step = step]
        BY <1>6
    <2>2. <<j>> \in Seq(Attempts) /\ step \in Steps
        BY <1>2, <1>3, <1>6
    <2> DEFINE target == <<j>>
    <2> HIDE DEF target
    <2>3. Becomes(task.kind, step, task.todo, task.rows, target, task.charts)
        BY <1>1, <2>1, <2>2, MovesTarget DEF target
    <2> QED
        BY <1>1, <1>6, <2>3 DEF ResolvedTo, target
<1>7. CASE /\ task.todo # <<>> /\ task.sel.id # 0
           /\ ~(HasPod(j.run) /\ j.id = task.sel.id)
           /\ task' = [task EXCEPT !.todo = todo]
    <2>1. Becomes("details", "resolve", todo, task.rows, task.target, task.charts)
        BY <1>1, <1>2, <1>3, <1>7, MovesTodo
    <2> QED
        BY <1>7, <2>1 DEF ResolvedTo
<1> QED
    BY <1>1, <1>4, <1>5, <1>6, <1>7, ResolveTo

LEMMA PrintOutMoves ==
    ASSUME JobsOK, TaskOK, PrintOut
    PROVE  /\ task.step = "measure" /\ task.todo = <<>>
           /\ FindJob(listing.list, task.sel) \in Seq(Attempts)
           /\ \/ task' = Idle
              \/ /\ task.kind = "job" /\ task.rows[1].usage # NoUsage
                 /\ Becomes("job", "series", task.todo, task.rows,
                            FindJob(listing.list, task.sel), task.charts)
<1> DEFINE target == FindJob(listing.list, task.sel)
<1>1. target \in Seq(Attempts)
    <2>1. listing.list \in Seq(Attempts)
        BY DEF JobsOK, ListingInv
    <2>2. CASE target = <<>>
        BY <2>2
    <2>3. ASSUME NEW i \in DOMAIN listing.list, target = <<listing.list[i]>>
          PROVE  target \in Seq(Attempts)
        BY <2>1, <2>3
    <2> QED
        BY <2>1, <2>2, <2>3, JobFound
<1> HIDE DEF target
<1>2. \/ task' = Idle
      \/ /\ task.kind = "job" /\ task.rows[1].usage # NoUsage
         /\ task' = [task EXCEPT !.step = "series", !.target = target]
    BY DEF PrintOut, Done, target
<1>3. "series" \in Steps /\ TaskInv
    BY DEF Steps, TaskOK
<1>4. CASE /\ task.kind = "job" /\ task.rows[1].usage # NoUsage
           /\ task' = [task EXCEPT !.step = "series", !.target = target]
    <2>1. Becomes(task.kind, "series", task.todo, task.rows, target, task.charts)
        BY <1>1, <1>3, <1>4, MovesTarget
    <2> QED
        BY <1>1, <1>4, <2>1 DEF target, PrintOut, AllMeasured
<1> QED
    BY <1>1, <1>2, <1>4 DEF PrintOut, AllMeasured, target

LEMMA QuerySeriesMoves ==
    ASSUME TaskOK, QuerySeries
    PROVE  /\ task.step = "series" /\ task.kind = "details"
           /\ \/ Becomes("charts", "post", task.todo, task.rows, task.target, ChartKinds)
              \/ Becomes("charts", "upload", task.todo, task.rows, task.target, <<>>)
              \/ \E charts \in {ChartKinds, <<>>} :
                    Becomes("no metrics", "post", task.todo, task.rows, task.target, charts)
           /\ task'.kind = "charts" => ~Empty(task.target[1].run.series)
<1>1. TaskInv /\ {"post", "upload"} \subseteq Steps /\ {"charts", "no metrics"} \subseteq Kinds
    BY DEF TaskOK, Steps, Kinds
<1>2. /\ <<>> \in Seq({"cpu", "memory", "network"})
      /\ ChartKinds \in Seq({"cpu", "memory", "network"})
    <2>1. ChartKinds = <<"cpu", "memory", "network">>
        BY DEF ChartKinds
    <2> QED
        BY <2>1
<1> DEFINE empty == Empty(task.target[1].run.series)
<1>3. PICK inline \in BOOLEAN :
         task' = [task EXCEPT !.charts = IF inline THEN ChartKinds ELSE <<>>,
                    !.kind = IF empty THEN "no metrics" ELSE "charts",
                    !.step = IF empty \/ inline THEN "post" ELSE "upload"]
    BY DEF QuerySeries
<1> HIDE DEF empty
<1>4. CASE empty
    <2>1. PICK charts \in {ChartKinds, <<>>} :
             task' = [task EXCEPT !.charts = charts, !.kind = "no metrics", !.step = "post"]
        BY <1>3, <1>4
    <2>2. Becomes("no metrics", "post", task.todo, task.rows, task.target, charts)
        BY <1>1, <1>2, <2>1, MovesCharts
    <2> QED
        BY <2>2 DEF QuerySeries, Becomes
<1>5. CASE ~empty /\ inline
    <2>1. task' = [task EXCEPT !.charts = ChartKinds, !.kind = "charts", !.step = "post"]
        BY <1>3, <1>5
    <2>2. Becomes("charts", "post", task.todo, task.rows, task.target, ChartKinds)
        BY <1>1, <1>2, <2>1, MovesCharts
    <2> QED
        BY <1>5, <2>2 DEF QuerySeries, empty
<1>6. CASE ~empty /\ ~inline
    <2>1. task' = [task EXCEPT !.charts = <<>>, !.kind = "charts", !.step = "upload"]
        BY <1>3, <1>6
    <2>2. Becomes("charts", "upload", task.todo, task.rows, task.target, <<>>)
        BY <1>1, <1>2, <2>1, MovesCharts
    <2> QED
        BY <1>6, <2>2 DEF QuerySeries, empty
<1> QED
    BY <1>4, <1>5, <1>6

\* A sequence with one more element
LEMMA OneMore ==
    ASSUME NEW S, NEW s \in Seq(S), NEW e \in S, NEW t \in Seq(S),
           Len(t) = Len(s) + 1, t[Len(s) + 1] = e, \A i \in 1..Len(s) : t[i] = s[i]
    PROVE  Append(s, e) = t
<1>1. /\ Append(s, e) \in Seq(S) /\ Len(Append(s, e)) = Len(s) + 1 /\ Len(s) \in Nat
      /\ \A i \in 1..Len(s) : Append(s, e)[i] = s[i]
      /\ Append(s, e)[Len(s) + 1] = e
    BY AppendProperties
<1>2. \A i \in 1..Len(Append(s, e)) : Append(s, e)[i] = t[i]
    <2>1. \A i \in 1..Len(Append(s, e)) : i \in 1..Len(s) \/ i = Len(s) + 1
        BY <1>1
    <2> QED
        BY <1>1, <2>1
<1> QED
    BY <1>1, <1>2, SeqEqual

\* The charts after one more
LEMMA NextChart ==
    /\ Append(<<"cpu">>, "memory") = <<"cpu", "memory">>
    /\ Append(<<"cpu", "memory">>, "network") = <<"cpu", "memory", "network">>
<1> DEFINE all == {"cpu", "memory", "network"}
           one == <<"cpu">>
           two == <<"cpu", "memory">>
           three == <<"cpu", "memory", "network">>
<1>1. one \in Seq(all) /\ Len(one) = 1 /\ one[1] = "cpu"
    OBVIOUS
<1>2. two \in Seq(all) /\ Len(two) = 2 /\ two[1] = "cpu" /\ two[2] = "memory"
    OBVIOUS
<1>3. /\ three \in Seq(all) /\ Len(three) = 3
      /\ three[1] = "cpu" /\ three[2] = "memory" /\ three[3] = "network"
    OBVIOUS
<1>4. "memory" \in all /\ "network" \in all
    OBVIOUS
<1> HIDE DEF all, one, two, three
<1>5. Append(one, "memory") = two
    <2>1. \A i \in 1..Len(one) : two[i] = one[i]
        BY <1>1, <1>2
    <2>2. Len(two) = Len(one) + 1 /\ two[Len(one) + 1] = "memory"
        BY <1>1, <1>2
    <2>3. one \in Seq(all) /\ two \in Seq(all) /\ "memory" \in all
        BY <1>1, <1>2, <1>4
    <2> QED
        BY <2>1, <2>2, <2>3, OneMore, Zenon
<1>6. Append(two, "network") = three
    <2>1. \A i \in 1..Len(two) : three[i] = two[i]
        <3>1. 1..Len(two) = {1, 2}
            BY <1>2
        <3> QED
            BY <1>2, <1>3, <3>1
    <2>2. Len(three) = Len(two) + 1 /\ three[Len(two) + 1] = "network"
        BY <1>2, <1>3
    <2>3. two \in Seq(all) /\ three \in Seq(all) /\ "network" \in all
        BY <1>2, <1>3, <1>4
    <2> QED
        BY <2>1, <2>2, <2>3, OneMore, Zenon
<1> QED
    BY <1>5, <1>6 DEF one, two, three

LEMMA UploadMoves ==
    ASSUME TaskOK, Upload
    PROVE  /\ task.step = "upload" /\ task.kind = "charts"
           /\ \/ \E charts \in {<<"cpu">>, <<"cpu", "memory">>} :
                    Becomes("charts", "upload", task.todo, task.rows, task.target, charts)
              \/ Becomes("charts", "post", task.todo, task.rows, task.target, ChartKinds)
<1>1. /\ task.step = "upload" /\ task.kind = "charts" /\ TaskInv
      /\ task.charts \in {<<>>, <<"cpu">>, <<"cpu", "memory">>}
      /\ {"upload", "post"} \subseteq Steps
    BY DEF TaskOK, KindInv, KindGood, Upload, Steps
<1>a. /\ ChartKinds = <<"cpu", "memory", "network">>
      /\ ChartKinds[0 + 1] = "cpu" /\ ChartKinds[1 + 1] = "memory" /\ ChartKinds[2 + 1] = "network"
    BY DEF ChartKinds
<1> DEFINE charts == Append(task.charts, ChartKinds[Len(task.charts) + 1])
           step == IF Len(task.charts) = 2 THEN "post" ELSE "upload"
<1>2. task' = [task EXCEPT !.charts = charts, !.step = step]
    BY DEF Upload
<1>3. \/ step = "upload" /\ charts \in {<<"cpu">>, <<"cpu", "memory">>}
      \/ step = "post" /\ charts = ChartKinds
    <2>1. CASE task.charts = <<>>
        <3>1. Len(task.charts) = 0 /\ Append(task.charts, "cpu") = <<"cpu">>
            BY <2>1
        <3> QED
            BY <1>a, <3>1
    <2>2. CASE task.charts = <<"cpu">>
        <3>1. Len(task.charts) = 1
            BY <2>2
        <3>2. Append(task.charts, "memory") = <<"cpu", "memory">>
            BY <2>2, NextChart
        <3> QED
            BY <1>a, <3>1, <3>2
    <2>3. CASE task.charts = <<"cpu", "memory">>
        <3>1. Len(task.charts) = 2
            BY <2>3
        <3>2. Append(task.charts, "network") = <<"cpu", "memory", "network">>
            BY <2>3, NextChart
        <3> QED
            BY <1>a, <3>1, <3>2
    <2> QED
        BY <1>1, <2>1, <2>2, <2>3
<1> HIDE DEF charts, step
<1>4. charts \in Seq({"cpu", "memory", "network"}) /\ step \in Steps
    <2>1. /\ <<"cpu">> \in Seq({"cpu", "memory", "network"})
          /\ <<"cpu", "memory">> \in Seq({"cpu", "memory", "network"})
          /\ <<"cpu", "memory", "network">> \in Seq({"cpu", "memory", "network"})
        OBVIOUS
    <2>2. charts \in {<<"cpu">>, <<"cpu", "memory">>, <<"cpu", "memory", "network">>}
        BY <1>a, <1>3
    <2> QED
        BY <1>1, <1>3, <2>1, <2>2
<1>5. Becomes(task.kind, step, task.todo, task.rows, task.target, charts)
    <2>1. task.kind \in Kinds
        BY <1>1 DEF Kinds
    <2> QED
        BY <1>1, <1>2, <1>4, <2>1, MovesCharts
<1> QED
    BY <1>1, <1>3, <1>5

LEMMA ActiveSpanMoves ==
    ASSUME TaskOK, ActiveSpan
    PROVE  /\ task.step = "span" /\ task.kind = "details"
           /\ Becomes("details", "series", task.todo, task.rows, task.target, task.charts)
<1>1. task.step = "span" /\ task.kind = "details" /\ TaskInv /\ "series" \in Steps
    BY DEF TaskOK, KindInv, KindGood, ActiveSpan, Steps
<1>2. task' = [task EXCEPT !.step = "series"]
    BY DEF ActiveSpan, GoTo
<1>3. task.kind \in Kinds
    BY <1>1 DEF Kinds
<1> QED
    BY <1>1, <1>2, <1>3, Moves

\* Whatever a step of a task is, it is one of these; and all but the listing
\* leave the jobs and the list alone.
LEMMA WorkSteps ==
    ASSUME Work
    PROVE  /\ jobs' = jobs /\ lastJob' = lastJob /\ tasks' = tasks /\ expired' = expired
           /\ \/ Authorize /\ UNCHANGED <<board, said>>
              \/ ListJobs /\ UNCHANGED <<board, said>>
              \/ /\ listing' = listing /\ UNCHANGED <<board, said>>
                 /\ \/ GiveUp /\ task' = Idle
                    \/ Measure \/ FetchTrace \/ ResolveTarget \/ ActiveSpan \/ QuerySeries \/ Upload
              \/ /\ listing' = listing
                 /\ \/ PostReport /\ task' = Idle
                    \/ PrintOut /\ board' = board
                    \/ (PrintCharts \/ Reply) /\ board' = board /\ task' = Idle
<1>1. CASE Authorize \/ ListJobs
    BY <1>1 DEF Authorize, ListJobs
<1>2. CASE GiveUp
    BY <1>2 DEF GiveUp, Done, jobVars
<1>3. CASE Measure \/ FetchTrace
    BY <1>3 DEF Measure, EndsJob, FetchTrace, jobVars
<1>4. CASE ResolveTarget \/ ActiveSpan \/ QuerySeries \/ Upload
    BY <1>4 DEF ResolveTarget, ActiveSpan, QuerySeries, Upload, jobVars
<1>5. CASE PostReport \/ PrintOut
    BY <1>5 DEF PostReport, PrintOut, Done, jobVars
<1>6. CASE PrintCharts \/ Reply
    BY <1>6 DEF PrintCharts, Reply, Done, jobVars
<1> QED
    BY <1>1, <1>2, <1>3, <1>4, <1>5, <1>6 DEF Work

\* A step that is not of a task starts one, ends its context, or is GitLab's.
LEMMA OtherSteps ==
    ASSUME ListingInv, [Next]_vars, ~Work
    PROVE  \/ \E t : Begin(t) /\ Starts(t)
           \/ Expire
           \/ Retries /\ UNCHANGED taskVars
           \/ UNCHANGED vars
BY StartSteps DEF Next

\* A task keeps to what it listed, and each of its steps to its kind.
LEMMA TaskOKStep ==
    ASSUME JobsOK, TaskOK, [Next]_vars
    PROVE  TaskOK'
<1>0. /\ TaskGood(task, listing.list) /\ KindGood(task) /\ task \in Tasks
      /\ expired \in BOOLEAN /\ tasks \in 0..MaxTasks /\ MaxTasks \in Nat
    BY MaxTasksAssumption DEF TaskOK, TaskInv, KindInv, TaskGood
<1>a. ASSUME NEW list PROVE TaskGood(Idle, list) /\ KindGood(Idle)
    BY IdleTyped DEF TaskGood, KindGood, Fresh
<1>1. ASSUME NEW t, Begin(t), Starts(t) PROVE TaskOK'
    <2>1. task' = t /\ tasks < MaxTasks /\ tasks' = tasks + 1 /\ expired' = FALSE
        BY <1>1 DEF Begin
    <2>2. t \in Tasks /\ Fresh(t) /\ t.step \in {"authorize", "list"}
        BY <1>1 DEF Starts
    <2>3. TaskGood(t, listing'.list)
        BY <2>2 DEF TaskGood, Fresh
    <2>4. KindGood(t)
        BY <1>1 DEF KindGood, Starts
    <2>5. tasks' \in 0..MaxTasks
        BY <1>0, <2>1
    <2>6. expired' \in BOOLEAN
        BY <2>1, Zenon
    <2> QED
        BY <2>1, <2>3, <2>4, <2>5, <2>6 DEF TaskOK, TaskInv, KindInv
<1>2. CASE Expire
    <2>1. task' = task /\ listing' = listing /\ tasks' = tasks /\ expired' = TRUE
        BY <1>2 DEF Expire, jobVars
    <2> QED
        BY <1>0, <2>1 DEF TaskOK, TaskInv, KindInv
<1>3. CASE Retries /\ UNCHANGED taskVars
    <2>1. /\ listing'.list = listing.list
          /\ task' = task /\ expired' = expired /\ tasks' = tasks
        BY <1>3, RetriesKeepTask DEF JobsOK
    <2> QED
        BY <1>0, <2>1 DEF TaskOK, TaskInv, KindInv
<1>4. CASE UNCHANGED vars
    <2>1. task' = task /\ listing' = listing /\ expired' = expired /\ tasks' = tasks
        BY <1>4 DEF vars, jobVars, taskVars
    <2> QED
        BY <1>0, <2>1 DEF TaskOK, TaskInv, KindInv
<1>5. CASE Work
    <2>0. tasks' = tasks /\ expired' = expired
        BY <1>5, WorkSteps
    <2> SUFFICES TaskGood(task', listing'.list) /\ KindGood(task')
        BY <1>0, <2>0 DEF TaskOK, TaskInv, KindInv
    <2>a. CASE task' = Idle
        BY <1>a, <2>a
    <2>1. CASE Authorize
        <3>1. CASE task.kind = "help" /\ listing' = listing
                   /\ Becomes("help", "post", task.todo, task.rows, task.target, task.charts)
            <4>1. TaskGood(task', listing'.list)
                BY <1>0, <3>1 DEF TaskGood, Becomes
            <4> QED
                BY <3>1, <4>1 DEF KindGood, Becomes
        <3>2. CASE task.kind # "help" /\ StartListing
                   /\ Becomes(task.kind, "list", task.todo, task.rows, task.target, task.charts)
            <4>1. Fresh(task) /\ task.kind \in {"details", "advise"}
                BY <2>1, <3>2, AuthorizeMoves
            <4>2. task'.step = "list" /\ Fresh(task') /\ task'.kind = task.kind /\ task' \in Tasks
                BY <3>2, <4>1 DEF Becomes, Fresh
            <4>3. TaskGood(task', listing'.list)
                BY <4>2 DEF TaskGood, Fresh
            <4> QED
                BY <4>1, <4>2, <4>3 DEF KindGood
        <3> QED
            BY <2>1, <2>a, <3>1, <3>2, AuthorizeMoves
    <2>2. CASE ListJobs
        <3>1. /\ Fresh(task) /\ ChosenJobs \in Seq(Attempts) /\ ListedTo
              /\ task.kind \in {"report", "run", "job", "details", "advise", "print advice"}
            BY <2>2, ListJobsMoves
        <3>2. \A i \in DOMAIN ChosenJobs : ChosenJobs[i] \in Range(listing'.list)
            <4>1. listing'.list \in Seq(Attempts)
                BY <2>2, PageAdds DEF JobsOK, ListJobs
            <4> QED
                BY <4>1, ChosenFromList DEF ChosenJobs
        <3>3. CASE task' = task
            <4>1. task'.step = "list" /\ Fresh(task')
                BY <2>2, <3>1, <3>3 DEF ListJobs
            <4>2. TaskGood(task', listing'.list)
                BY <1>0, <3>3, <4>1 DEF TaskGood, Fresh
            <4> QED
                BY <3>1, <3>3, <4>1, <4>2 DEF KindGood
        <3>4. CASE Becomes("refuse", "post", <<>>, <<>>, <<>>, <<>>)
            <4>1. TaskGood(task', listing'.list)
                BY <3>4 DEF TaskGood, Becomes
            <4> QED
                BY <3>4, <4>1 DEF KindGood, Becomes
        <3>5. CASE Becomes("details", "resolve", ChosenJobs, <<>>, <<>>, <<>>)
            <4>1. TaskGood(task', listing'.list)
                BY <3>2, <3>5 DEF TaskGood, Becomes
            <4> QED
                BY <3>5, <4>1 DEF KindGood, Becomes
        <3>6. CASE task.kind # "details" /\ Becomes(task.kind, "measure", ChosenJobs, <<>>, <<>>, <<>>)
            <4>1. TaskGood(task', listing'.list)
                BY <3>2, <3>6 DEF TaskGood, Becomes
            <4> QED
                BY <3>1, <3>6, <4>1 DEF KindGood, Becomes
        <3> QED
            BY <2>a, <3>1, <3>3, <3>4, <3>5, <3>6 DEF ListedTo
    <2>3. CASE listing' = listing /\ Measure
        <3> DEFINE j == Head(task.todo)
                   todo == Tail(task.todo)
        <3>1. /\ task.todo # <<>>
              /\ task.kind \in {"report", "run", "job", "advise", "print advice"}
            BY <2>3, MeasureMoves
        <3>2. /\ j \in Attempts /\ j.id \in Ids(listing.list) /\ todo \in Seq(Attempts)
              /\ \A i \in DOMAIN todo : todo[i] \in Range(listing.list)
            <4>1. TaskInv
                BY DEF TaskOK
            <4>2. /\ j \in Attempts /\ j \in Range(listing.list) /\ todo \in Seq(Attempts)
                  /\ \A i \in DOMAIN todo : i + 1 \in DOMAIN task.todo /\ todo[i] = task.todo[i + 1]
                BY <3>1, <4>1, NextToDo
            <4> QED
                BY <1>0, <4>2 DEF TaskGood, Ids, Range
        <3>3. PICK outcome \in Outcomes(j) :
                 \/ task' = Idle
                 \/ Becomes(task.kind, "measure", todo, task.rows, task.target, task.charts)
                 \/ \E step \in {"trace", "measure"} :
                      Becomes(task.kind, step, todo, Append(task.rows, Row(j, outcome)),
                              task.target, task.charts)
            BY <2>3, MeasureMoves
        <3> DEFINE row == Row(j, outcome)
                   rows == Append(task.rows, row)
        <3>4. row \in Rows /\ row.id = j.id
            BY <3>2, RowOfAttempt
        <3> HIDE DEF row, j, todo
        <3>5. rows # <<>> /\ \A i \in DOMAIN rows : rows[i].id \in Ids(listing.list)
            <4>1. task.rows \in Seq(Rows)
                BY <1>0 DEF Tasks
            <4>2. \A i \in DOMAIN task.rows : task.rows[i].id \in Ids(listing.list)
                BY <1>0 DEF TaskGood
            <4>3. /\ Len(task.rows) \in Nat /\ Len(rows) = Len(task.rows) + 1
                  /\ rows \in Seq(Rows)
                  /\ DOMAIN rows = 1..Len(task.rows) + 1 /\ rows[Len(task.rows) + 1] = row
                  /\ \A i \in 1..Len(task.rows) : i \in DOMAIN task.rows /\ rows[i] = task.rows[i]
                BY <3>4, <4>1
            <4>4. rows # <<>>
                <5>1. 1 \in DOMAIN rows
                    BY <4>3
                <5> QED
                    BY <5>1
            <4> QED
                BY <3>2, <3>4, <4>2, <4>3, <4>4
        <3> HIDE DEF rows
        <3>6. CASE Becomes(task.kind, "measure", todo, task.rows, task.target, task.charts)
            <4>1. TaskGood(task', listing'.list)
                BY <1>0, <2>3, <3>2, <3>6 DEF TaskGood, Becomes
            <4> QED
                BY <3>1, <3>6, <4>1 DEF KindGood, Becomes
        <3>7. ASSUME NEW step \in {"trace", "measure"},
                     Becomes(task.kind, step, todo, rows, task.target, task.charts)
              PROVE  TaskGood(task', listing'.list) /\ KindGood(task')
            <4>1. TaskGood(task', listing'.list)
                BY <2>3, <3>2, <3>5, <3>7 DEF TaskGood, Becomes
            <4> QED
                BY <3>1, <3>7, <4>1 DEF KindGood, Becomes
        <3> QED
            BY <2>a, <3>3, <3>6, <3>7 DEF row, rows
    <2>4. CASE listing' = listing /\ FetchTrace
        <3>1. PICK rows \in Seq(Rows) :
                 /\ SameMeasured(rows, task.rows)
                 /\ Becomes(task.kind, "measure", task.todo, rows, task.target, task.charts)
            BY <2>4, FetchTraceMoves
        <3>2. task.kind \in {"report", "run", "job", "advise", "print advice"}
            BY <2>4, FetchTraceMoves
        <3>3. \A i \in DOMAIN rows : rows[i].id \in Ids(listing.list)
            BY <1>0, <3>1 DEF SameMeasured, TaskGood
        <3> QED
            <4>1. TaskGood(task', listing'.list)
                BY <1>0, <2>4, <3>1, <3>3 DEF TaskGood, Becomes
            <4> QED
                BY <3>1, <3>2, <4>1 DEF KindGood, Becomes
    <2>5. CASE listing' = listing /\ ResolveTarget
        <3>1. /\ task.step = "resolve" /\ task.kind = "details" /\ ResolvedTo
            BY <2>5, ResolveMoves
        <3> DEFINE j == Head(task.todo)
                   todo == Tail(task.todo)
        <3>2. task.todo # <<>> => \A i \in DOMAIN todo : todo[i] \in Range(listing.list)
            <4>1. TaskInv
                BY DEF TaskOK
            <4> QED
                BY <1>0, <4>1, NextToDo DEF TaskGood
        <3> HIDE DEF j, todo
        <3>3. CASE Becomes("refuse", "post", task.todo, task.rows, task.target, task.charts)
            <4>1. TaskGood(task', listing'.list)
                BY <1>0, <2>5, <3>3 DEF TaskGood, Becomes
            <4> QED
                BY <3>3, <4>1 DEF KindGood, Becomes
        <3>4. ASSUME NEW step \in {"series", "span"},
                     Becomes("details", step, task.todo, task.rows, <<j>>, task.charts)
              PROVE  TaskGood(task', listing'.list) /\ KindGood(task')
            <4>1. TaskGood(task', listing'.list)
                BY <1>0, <2>5, <3>4 DEF TaskGood, Becomes
            <4> QED
                BY <3>4, <4>1 DEF KindGood, Becomes
        <3>5. CASE /\ task.todo # <<>>
                   /\ Becomes("details", "resolve", todo, task.rows, task.target, task.charts)
            <4>1. TaskGood(task', listing'.list)
                BY <1>0, <2>5, <3>2, <3>5 DEF TaskGood, Becomes
            <4> QED
                BY <3>5, <4>1 DEF KindGood, Becomes
        <3> QED
            BY <2>a, <3>1, <3>3, <3>4, <3>5 DEF ResolvedTo, j, todo
    <2>6. CASE listing' = listing /\ (ActiveSpan \/ QuerySeries \/ Upload)
        <3>1. PICK kind, step, charts :
                 /\ Becomes(kind, step, task.todo, task.rows, task.target, charts)
                 /\ \/ kind \in {"charts", "no metrics"} /\ step = "post"
                    \/ kind = "details" /\ step = "series"
                    \/ /\ kind = "charts" /\ step = "upload"
                       /\ charts \in {<<>>, <<"cpu">>, <<"cpu", "memory">>}
            BY <2>6, ActiveSpanMoves, QuerySeriesMoves, UploadMoves
        <3>2. TaskGood(task', listing'.list)
            <4>1. step \notin {"idle", "authorize", "list", "trace"}
                BY <3>1
            <4> QED
                BY <1>0, <2>6, <3>1, <4>1 DEF TaskGood, Becomes
        <3> QED
            BY <3>1, <3>2 DEF KindGood, Becomes
    <2>7. CASE listing' = listing /\ PrintOut
        <3>1. \/ task' = Idle
              \/ Becomes("job", "series", task.todo, task.rows,
                         FindJob(listing.list, task.sel), task.charts)
            BY <2>7, PrintOutMoves
        <3>2. CASE Becomes("job", "series", task.todo, task.rows,
                           FindJob(listing.list, task.sel), task.charts)
            <4>1. TaskGood(task', listing'.list)
                BY <1>0, <2>7, <3>2 DEF TaskGood, Becomes
            <4> QED
                BY <3>2, <4>1 DEF KindGood, Becomes
        <3> QED
            BY <2>a, <3>1, <3>2
    <2> QED
        BY <1>5, <2>a, <2>1, <2>2, <2>3, <2>4, <2>5, <2>6, <2>7, WorkSteps
<1> QED
    BY <1>1, <1>2, <1>3, <1>4, <1>5, OtherSteps DEF JobsOK

\* A task has only what the steps of its kind have put into it: what Build,
\* details and advise have yet to look at, and have measured, is of the list
\* that PipelineJobs returned.
THEOREM TasksAlwaysOK == Spec => [](JobsOK /\ TaskOK)
<1>1. Init => TaskOK
    <2>1. ASSUME Init PROVE TaskOK
        <3>1. task = Idle /\ expired = FALSE /\ tasks = 0
            BY <2>1 DEF Init
        <3>2. TaskGood(Idle, listing.list) /\ KindGood(Idle)
            BY IdleTyped DEF TaskGood, KindGood, Fresh
        <3>3. expired \in BOOLEAN
            BY <3>1, Zenon
        <3>4. tasks \in 0..MaxTasks
            BY <3>1, MaxTasksAssumption
        <3> QED
            BY <3>1, <3>2, <3>3, <3>4 DEF TaskOK, TaskInv, KindInv
    <2> QED
        BY <2>1
<1>2. JobsOK /\ TaskOK /\ [Next]_vars => TaskOK'
    BY TaskOKStep
<1> QED
    BY <1>1, <1>2, JobsAlwaysOK, PTL DEF Spec

-----------------------------------------------------------------------------
(* The rows *)

\* How a step changes the rows of the task: not at all, to none, by a trace, or
\* by the row of the job next to do.
LEMMA RowsSteps ==
    ASSUME JobsOK, TaskOK, [Next]_vars
    PROVE  \/ task'.rows = task.rows
           \/ task'.rows = <<>>
           \/ SameMeasured(task'.rows, task.rows)
           \/ /\ task.todo # <<>> /\ Measure
              /\ \E outcome \in Outcomes(Head(task.todo)) :
                    task'.rows = Append(task.rows, Row(Head(task.todo), outcome))
<1>1. ASSUME NEW t, Begin(t), Starts(t) PROVE task'.rows = <<>>
    BY <1>1 DEF Begin, Starts, Fresh
<1>2. CASE Expire \/ UNCHANGED vars
    BY <1>2 DEF Expire, vars, taskVars
<1>3. CASE Retries /\ UNCHANGED taskVars
    BY <1>3 DEF taskVars
<1>4. CASE Work
    <2>a. CASE task' = Idle
        BY <2>a DEF Idle
    <2>1. CASE Authorize
        BY <2>1, <2>a, AuthorizeMoves DEF Becomes
    <2>2. CASE ListJobs
        BY <2>2, <2>a, ListJobsMoves DEF Becomes, ListedTo
    <2>3. CASE Measure
        <3>1. task.todo # <<>>
            BY <2>3, MeasureMoves
        <3>2. PICK outcome \in Outcomes(Head(task.todo)) :
                 \/ task' = Idle
                 \/ Becomes(task.kind, "measure", Tail(task.todo), task.rows, task.target,
                            task.charts)
                 \/ \E step \in {"trace", "measure"} :
                      Becomes(task.kind, step, Tail(task.todo),
                              Append(task.rows, Row(Head(task.todo), outcome)),
                              task.target, task.charts)
            BY <2>3, MeasureMoves
        <3>3. \/ task' = Idle
              \/ task'.rows = task.rows
              \/ task'.rows = Append(task.rows, Row(Head(task.todo), outcome))
            BY <3>2 DEF Becomes
        <3> QED
            BY <2>3, <2>a, <3>1, <3>3
    <2>4. CASE FetchTrace
        <3>1. PICK rows : /\ SameMeasured(rows, task.rows)
                          /\ Becomes(task.kind, "measure", task.todo, rows, task.target, task.charts)
            BY <2>4, FetchTraceMoves
        <3> QED
            BY <3>1 DEF Becomes
    <2>5. CASE ResolveTarget
        BY <2>5, <2>a, ResolveMoves DEF Becomes, ResolvedTo
    <2>6. CASE ActiveSpan \/ QuerySeries \/ Upload
        BY <2>6, ActiveSpanMoves, QuerySeriesMoves, UploadMoves DEF Becomes
    <2>7. CASE PrintOut
        BY <2>7, <2>a, PrintOutMoves DEF Becomes
    <2> QED
        BY <1>4, <2>a, <2>1, <2>2, <2>3, <2>4, <2>5, <2>6, <2>7, WorkSteps
<1> QED
    BY <1>1, <1>2, <1>3, <1>4, OtherSteps DEF JobsOK

\* What is known of a row stays so: an ID is not given again, and what has run
\* does not run again.
LEMMA GenuineStays ==
    ASSUME JobsOK, [Next]_vars, NEW row, Genuine(row, jobs, lastJob)
    PROVE  Genuine(row, jobs', lastJob')
<1>1. CASE jobs' = jobs /\ lastJob' = lastJob
    BY <1>1
<1>2. ASSUME NEW i \in DOMAIN jobs, Retry(i)
      PROVE  Genuine(row, jobs', lastJob')
    <2>1. lastJob' = lastJob + 1 /\ lastJob \in Nat
        BY <1>2 DEF Retry, JobsOK, JobsInv
    <2>a. row.id \in 1..lastJob
        BY DEF Genuine
    <2>2. row.id \in 1..lastJob' /\ row.id # lastJob + 1
        BY <2>1, <2>a
    <2>3. ASSUME NEW k \in DOMAIN jobs', jobs'[k].id = row.id
          PROVE  \E m \in DOMAIN jobs : jobs'[k] = jobs[m]
        BY <1>2, <2>2, <2>3, RetryKeepsOthers DEF JobsOK
    <2> QED
        BY <2>2, <2>3 DEF Genuine
<1>3. ASSUME NEW i \in DOMAIN jobs, RetryEnds(i)
      PROVE  Genuine(row, jobs', lastJob')
    <2>1. PICK run \in Runs : jobs' = [jobs EXCEPT ![i].run = run]
        BY <1>3 DEF RetryEnds
    <2>2. jobs \in Seq(Attempts) /\ jobs[i].run = NotRun /\ lastJob' = lastJob
        BY <1>3 DEF RetryEnds, JobsOK, JobsInv
    <2>3. /\ DOMAIN jobs' = DOMAIN jobs
          /\ \A k \in DOMAIN jobs :
                /\ jobs'[k].id = jobs[k].id /\ jobs'[k].name = jobs[k].name
                /\ k # i => jobs'[k].run = jobs[k].run
        BY <2>1, <2>2 DEF Attempts
    <2>4. ~HasPod(jobs[i].run)
        BY <2>2 DEF HasPod, NotRun, Ran
    <2> QED
        BY <2>2, <2>3, <2>4 DEF Genuine
<1> QED
    BY <1>1, <1>2, <1>3, JobSteps DEF jobVars

\* A job that is measured is still what was listed, unless it was retried.
LEMMA NewRowGenuine ==
    ASSUME JobsOK, TaskOK, task.todo # <<>>, NEW outcome \in Outcomes(Head(task.todo))
    PROVE  Genuine(Row(Head(task.todo), outcome), jobs, lastJob)
<1> DEFINE j == Head(task.todo)
           row == Row(j, outcome)
<1>1. j \in Attempts /\ j \in Range(listing.list)
    BY NextToDo DEF TaskOK
<1>2. PICK l \in DOMAIN listing.list : j = listing.list[l]
    BY <1>1 DEF Range
<1>3. /\ j.id \in 1..lastJob
      /\ \A k \in DOMAIN jobs :
            jobs[k].id = j.id =>
               jobs[k].name = j.name /\ (Ran(j.run) => jobs[k].run = j.run)
    BY <1>2 DEF JobsOK, ListingInv
<1>4. /\ row.id = j.id /\ row.name = j.name /\ row.cause = outcome.cause
      /\ row.usage = outcome.usage
      /\ outcome.cause = "" <=> outcome.usage # NoUsage
      /\ outcome.cause = "" => HasPod(j.run) /\ outcome.usage = UsageOf(j.run.series)
    BY <1>1, RowOfAttempt
<1>5. HasPod(j.run) => Ran(j.run)
    BY DEF HasPod
<1> HIDE DEF j, row
<1>6. Genuine(row, jobs, lastJob)
    BY <1>3, <1>4, <1>5 DEF Genuine
<1> QED
    BY <1>6 DEF j, row

\* What is said: nothing new; the charts of a job, printed; the report; or else.
Charted == /\ task.step = "series" /\ task.kind \in Printed
           /\ ~Empty(task.target[1].run.series)
           /\ said' = [said EXCEPT !.what = "charts", !.task = [task EXCEPT !.charts = ChartKinds]]
ReportSaid == /\ AllMeasured /\ said'.task = task /\ SaidShape(said')
              /\ said'.what = "report" /\ said'.report = Body
              /\ (task.kind = "report" /\ ~expired) \/ task.kind \in Printed
OtherSaid == /\ said'.task = task /\ SaidShape(said') /\ said'.what # "report"
             /\ \/ said'.what = "advice" /\ task.kind \in Printed
                \/ /\ Posting /\ task.kind # "report" /\ ~expired
                   /\ said'.what = IF Advising THEN "advice" ELSE task.kind

LEMMA SaidSteps ==
    ASSUME JobsOK, TaskOK, [Next]_vars
    PROVE  said' = said \/ Charted \/ ReportSaid \/ OtherSaid
<1>0. task \in Tasks
    BY DEF TaskOK, TaskInv, TaskGood
<1>a. ASSUME NEW what, NEW report, NEW advice, Say(what, report, advice)
      PROVE  said'.what = what /\ said'.report = report /\ said'.task = task /\ SaidShape(said')
    <2> DEFINE rendered == RenderAdvice(advice)
    <2>1. said' = [what |-> what, report |-> report, advice |-> rendered,
                   task |-> task, retried |-> listing.retried]
        BY <1>a DEF Say
    <2> HIDE DEF rendered
    <2> QED
        BY <1>0, <2>1 DEF SaidShape
<1>1. ASSUME NEW t, Begin(t) PROVE said' = said
    BY <1>1 DEF Begin
<1>2. CASE Expire \/ UNCHANGED vars \/ (Retries /\ UNCHANGED taskVars)
    BY <1>2 DEF Expire, vars, taskVars
<1>3. CASE PostReport
    <2>1. Say("report", Body, <<>>) /\ AllMeasured /\ task.kind = "report" /\ ~expired
        BY <1>3 DEF PostReport
    <2> HIDE DEF Body
    <2> QED
        BY <1>a, <2>1 DEF ReportSaid
<1>4. CASE PrintOut
    <2>1. AllMeasured /\ task.kind \in Printed
        BY <1>4 DEF PrintOut
    <2>2. \/ Say("advice", Silence.report, AllAdvice)
          \/ Say("report", Body, <<>>)
        BY <1>4 DEF PrintOut
    <2>3. CASE Say("advice", Silence.report, AllAdvice)
        <3>1. said'.what = "advice" /\ said'.task = task /\ SaidShape(said')
            BY <1>a, <2>3
        <3> QED
            BY <2>1, <3>1 DEF OtherSaid
    <2>4. CASE Say("report", Body, <<>>)
        <3>1. said'.what = "report" /\ said'.report = Body /\ said'.task = task /\ SaidShape(said')
            BY <1>a, <2>4
        <3> QED
            BY <2>1, <3>1 DEF ReportSaid
    <2> QED
        BY <2>2, <2>3, <2>4
<1>5. CASE PrintCharts
    BY <1>5 DEF PrintCharts, Charted
<1>6. CASE Reply
    <2>1. Posting /\ task.kind # "report" /\ ~expired
        BY <1>6 DEF Reply
    <2>2. \/ Advising /\ Say("advice", Silence.report, AllAdvice)
          \/ ~Advising /\ Say(task.kind, Silence.report, <<>>)
        BY <1>6 DEF Reply
    <2>3. CASE Advising /\ Say("advice", Silence.report, AllAdvice)
        <3>1. said'.what = "advice" /\ said'.task = task /\ SaidShape(said')
            BY <1>a, <2>3
        <3> QED
            BY <2>1, <2>3, <3>1 DEF OtherSaid
    <2>4. CASE ~Advising /\ Say(task.kind, Silence.report, <<>>)
        <3>1. said'.what = task.kind /\ said'.task = task /\ SaidShape(said')
            BY <1>a, <2>4
        <3> QED
            BY <2>1, <2>4, <3>1 DEF OtherSaid
    <2> QED
        BY <2>2, <2>3, <2>4
<1>7. CASE Work
    BY <1>3, <1>4, <1>5, <1>6, <1>7, WorkSteps
<1> QED
    BY <1>1, <1>2, <1>7, OtherSteps DEF JobsOK

\* The rows of a report are the cells of the rows of its task.
LEMMA BodyReports ==
    ASSUME TaskOK
    PROVE  Reported(Body, task.rows)
<1>1. \A rows, n : Reported(RenderReport(n, rows, Limits), rows)
    BY DEF RenderReport, Reported
<1>2. CASE task.kind # "job"
    BY <1>1, <1>2 DEF Body, JobBody
<1>3. CASE task.kind = "job"
    <2> DEFINE rows == [i \in DOMAIN task.rows |-> [task.rows[i] EXCEPT !.start = 0, !.finish = 0]]
    <2>1. Body = RenderReport(1, rows, Limits)
        BY <1>3 DEF Body, JobBody
    <2>2. Reported(RenderReport(1, rows, Limits), rows)
        BY <1>1
    <2>3. \A i \in DOMAIN task.rows : task.rows[i] \in Rows
        BY DEF TaskOK, TaskInv, TaskGood, Tasks
    <2>4. \A i \in DOMAIN task.rows : rows[i].usage = task.rows[i].usage
        BY <2>3 DEF Rows
    <2>5. DOMAIN rows = DOMAIN task.rows
        OBVIOUS
    <2> HIDE DEF rows
    <2>6. \A i \in DOMAIN task.rows : Cells(rows[i], Limits) = Cells(task.rows[i], Limits)
        BY <2>4 DEF Cells
    <2> QED
        BY <2>1, <2>2, <2>5, <2>6 DEF Reported
<1> QED
    BY <1>2, <1>3

\* What a step does to the board: only a report is written on it.
LEMMA BoardSteps ==
    ASSUME JobsOK, [Next]_vars
    PROVE  board' = board \/ board' = task.rows
<1>1. ASSUME NEW t, Begin(t) PROVE board' = board
    BY <1>1 DEF Begin
<1>2. CASE Expire \/ UNCHANGED vars \/ (Retries /\ UNCHANGED taskVars)
    BY <1>2 DEF Expire, vars, taskVars
<1>3. CASE Work
    BY <1>3, WorkSteps DEF PostReport
<1> QED
    BY <1>1, <1>2, <1>3, OtherSteps DEF JobsOK

\* Rows that are genuine before a step are genuine after it.
LEMMA AllGenuineStays ==
    ASSUME JobsOK, [Next]_vars, NEW rows, AllGenuine(rows)
    PROVE  \A i \in DOMAIN rows : Genuine(rows[i], jobs', lastJob')
<1> SUFFICES ASSUME NEW i \in DOMAIN rows PROVE Genuine(rows[i], jobs', lastJob')
    OBVIOUS
<1>1. Genuine(rows[i], jobs, lastJob)
    BY DEF AllGenuine
<1> QED
    BY <1>1, GenuineStays

LEMMA RowsInvStep ==
    ASSUME JobsOK, TaskOK, RowsInv, [Next]_vars
    PROVE  RowsInv'
<1>0. /\ task \in Tasks /\ task.rows \in Seq(Rows) /\ board \in Seq(Rows) /\ SaidShape(said)
      /\ AllGenuine(task.rows) /\ AllGenuine(board) /\ AllGenuine(said.task.rows)
    BY DEF RowsInv, TaskOK, TaskInv, TaskGood, Tasks
<1> DEFINE Stay(rows) == \A i \in DOMAIN rows : Genuine(rows[i], jobs', lastJob')
<1>1. Stay(task.rows) /\ Stay(board) /\ Stay(said.task.rows)
    BY <1>0, AllGenuineStays
<1>2. Stay(task'.rows)
    <2>1. CASE task'.rows = task.rows \/ task'.rows = <<>>
        BY <1>1, <2>1
    <2>2. CASE SameMeasured(task'.rows, task.rows)
        <3>1. ASSUME NEW i \in DOMAIN task'.rows PROVE Genuine(task'.rows[i], jobs', lastJob')
            <4>1. i \in DOMAIN task.rows /\ Genuine(task.rows[i], jobs', lastJob')
                BY <1>1, <2>2, <3>1 DEF SameMeasured
            <4>2. /\ task'.rows[i].id = task.rows[i].id /\ task'.rows[i].name = task.rows[i].name
                  /\ task'.rows[i].usage = task.rows[i].usage
                  /\ task'.rows[i].cause = task.rows[i].cause
                BY <2>2, <3>1 DEF SameMeasured
            <4> QED
                BY <4>1, <4>2 DEF Genuine
        <3> QED
            BY <3>1
    <2>3. ASSUME NEW outcome \in Outcomes(Head(task.todo)), task.todo # <<>>,
                 task'.rows = Append(task.rows, Row(Head(task.todo), outcome))
          PROVE  Stay(task'.rows)
        <3> DEFINE row == Row(Head(task.todo), outcome)
        <3>1. Genuine(row, jobs, lastJob)
            BY <2>3, NewRowGenuine
        <3>2. Genuine(row, jobs', lastJob')
            BY <3>1, GenuineStays
        <3>3. row \in Rows
            <4>1. Head(task.todo) \in Attempts
                BY <2>3, NextToDo DEF TaskOK
            <4> QED
                BY <4>1, RowOfAttempt
        <3> HIDE DEF row
        <3>4. \A i \in DOMAIN Append(task.rows, row) :
                 \/ Append(task.rows, row)[i] = row
                 \/ i \in DOMAIN task.rows /\ Append(task.rows, row)[i] = task.rows[i]
            BY <1>0, <3>3
        <3> QED
            BY <1>1, <2>3, <3>2, <3>4 DEF row
    <2> QED
        BY <2>1, <2>2, <2>3, RowsSteps
<1>3. board' \in Seq(Rows) /\ Stay(board')
    BY <1>0, <1>1, BoardSteps
<1>4. SaidShape(said') /\ Stay(said'.task.rows)
    <2>1. CASE said' = said
        BY <1>0, <1>1, <2>1
    <2>2. CASE Charted
        <3> DEFINE t == [task EXCEPT !.charts = ChartKinds]
        <3>1. t \in Tasks /\ t.rows = task.rows
            <4>1. ChartKinds \in Seq({"cpu", "memory", "network"})
                BY DEF ChartKinds
            <4> QED
                BY <1>0, <4>1 DEF Tasks
        <3>2. said' = [said EXCEPT !.what = "charts", !.task = t]
            BY <2>2 DEF Charted
        <3> HIDE DEF t
        <3>3. said' = [what |-> "charts", report |-> said.report, advice |-> said.advice,
                       task |-> t, retried |-> said.retried]
            BY <1>0, <3>2 DEF SaidShape
        <3> QED
            BY <1>1, <3>1, <3>3 DEF SaidShape
    <2>3. CASE ReportSaid \/ OtherSaid
        <3>1. said'.task = task /\ SaidShape(said')
            BY <2>3 DEF ReportSaid, OtherSaid
        <3> QED
            BY <1>1, <3>1
    <2> QED
        BY <2>1, <2>2, <2>3, SaidSteps
<1> QED
    BY <1>2, <1>3, <1>4 DEF RowsInv, AllGenuine

LEMMA HollowInvStep ==
    ASSUME JobsOK, TaskOK, RowsInv, HollowInv, [Next]_vars
    PROVE  HollowInv'
<1>0. task \in Tasks /\ task.rows \in Seq(Rows)
    BY DEF TaskOK, TaskInv, TaskGood, Tasks
<1>1. ~expired' => NotLate(task'.rows)
    <2>1. ASSUME NEW t, Begin(t), Starts(t) PROVE NotLate(task'.rows)
        <3>1. task'.rows = <<>>
            BY <2>1 DEF Begin, Starts, Fresh
        <3> QED
            BY <3>1 DEF NotLate
    <2>2. CASE Expire
        BY <2>2 DEF Expire
    <2>3. CASE UNCHANGED vars \/ (Retries /\ UNCHANGED taskVars)
        BY <2>3 DEF vars, taskVars, HollowInv
    <2>4. CASE Work
        <3>1. expired' = expired
            BY <2>4, WorkSteps
        <3> SUFFICES ASSUME ~expired PROVE NotLate(task'.rows)
            BY <3>1
        <3>2. NotLate(task.rows)
            BY DEF HollowInv
        <3>3. CASE task'.rows = task.rows \/ task'.rows = <<>>
            BY <3>2, <3>3 DEF NotLate
        <3>4. CASE SameMeasured(task'.rows, task.rows)
            BY <3>2, <3>4 DEF NotLate, SameMeasured
        <3>5. ASSUME NEW outcome \in Outcomes(Head(task.todo)), task.todo # <<>>,
                     task'.rows = Append(task.rows, Row(Head(task.todo), outcome))
              PROVE  NotLate(task'.rows)
            <4> DEFINE row == Row(Head(task.todo), outcome)
            <4>1. Head(task.todo) \in Attempts
                BY <3>5, NextToDo DEF TaskOK
            <4>2. row \in Rows /\ row.cause # "expired"
                BY <4>1, RowOfAttempt
            <4> HIDE DEF row
            <4>3. \A i \in DOMAIN Append(task.rows, row) :
                     \/ Append(task.rows, row)[i] = row
                     \/ i \in DOMAIN task.rows /\ Append(task.rows, row)[i] = task.rows[i]
                BY <1>0, <4>2
            <4> QED
                BY <3>2, <3>5, <4>2, <4>3 DEF NotLate, row
        <3> QED
            BY <3>3, <3>4, <3>5, RowsSteps
    <2> QED
        BY <2>1, <2>2, <2>3, <2>4, OtherSteps DEF JobsOK
<1>2. /\ said'.task.kind \notin Printed => NotLate(said'.task.rows)
      /\ said'.what = "report" => Reported(said'.report, said'.task.rows)
    <2>1. CASE said' = said
        BY <2>1 DEF HollowInv
    <2>2. CASE Charted
        <3>1. SaidShape(said)
            BY DEF RowsInv
        <3>2. said'.what = "charts"
            BY <2>2, <3>1 DEF Charted, SaidShape
        <3>3. said'.task.kind = task.kind /\ task.kind \in Printed
            BY <1>0, <2>2, <3>1 DEF Charted, SaidShape, Tasks
        <3> QED
            BY <3>2, <3>3
    <2>3. CASE ReportSaid
        <3>1. said'.task = task /\ said'.report = Body /\ (task.kind \in Printed \/ ~expired)
            BY <2>3 DEF ReportSaid
        <3>2. Reported(said'.report, said'.task.rows)
            BY <3>1, BodyReports
        <3> QED
            BY <3>1, <3>2 DEF HollowInv
    <2>4. CASE OtherSaid
        <3>1. said'.task = task /\ said'.what # "report" /\ (task.kind \in Printed \/ ~expired)
            BY <2>4 DEF OtherSaid
        <3> QED
            BY <3>1 DEF HollowInv
    <2> QED
        BY <2>1, <2>2, <2>3, <2>4, SaidSteps
<1> QED
    BY <1>1, <1>2 DEF HollowInv

-----------------------------------------------------------------------------
(* The targets *)

\* The job of `bot run --job` is looked for by FindJob: there is one, or none.
LEMMA OneJobChosen ==
    ASSUME NEW list \in Seq(Attempts), NEW sel, sel # Everything
    PROVE  /\ Chosen("job", sel, list) = FindJob(list, sel)
           /\ FindJob(list, sel) # <<>> =>
                 /\ Len(FindJob(list, sel)) = 1 /\ AskedFor(sel, FindJob(list, sel)[1])
                 /\ FindJob(list, sel)[1] \in Attempts
<1>1. Chosen("job", sel, list) = FindJob(list, sel)
    BY DEF Chosen
<1>2. ASSUME NEW i \in DOMAIN list, FindJob(list, sel) = <<list[i]>>, AskedFor(sel, list[i])
      PROVE  /\ Len(FindJob(list, sel)) = 1 /\ AskedFor(sel, FindJob(list, sel)[1])
             /\ FindJob(list, sel)[1] \in Attempts
    <2>1. Len(FindJob(list, sel)) = 1 /\ FindJob(list, sel)[1] = list[i] /\ list[i] \in Attempts
        BY <1>2
    <2> QED
        BY <1>2, <2>1
<1> QED
    BY <1>1, <1>2, JobFound

LEMMA JobInvStep ==
    ASSUME JobsOK, TaskOK, JobInv, [Next]_vars
    PROVE  JobInv'
<1>0. /\ task \in Tasks /\ task.rows \in Seq(Rows) /\ task.todo \in Seq(Attempts)
      /\ listing.list \in Seq(Attempts) /\ JobGood(task, listing.list)
    BY DEF JobInv, TaskOK, TaskInv, TaskGood, Tasks, JobsOK, ListingInv
<1>1. ASSUME NEW t, Begin(t), Starts(t) PROVE JobInv'
    <2>1. task' = t
        BY <1>1 DEF Begin
    <2>2. t.todo = <<>> /\ t.rows = <<>> /\ (t.kind = "job" => t.sel # Everything /\ t.step = "list")
        BY <1>1 DEF Starts, Fresh
    <2> QED
        BY <2>1, <2>2 DEF JobInv, JobGood
<1>2. CASE Expire \/ UNCHANGED vars
    BY <1>2 DEF Expire, vars, jobVars, taskVars, JobInv
<1>3. CASE Retries /\ UNCHANGED taskVars
    BY <1>3, RetriesKeepTask DEF JobsOK, JobInv
<1>4. CASE Work
    <2> SUFFICES JobGood(task', listing'.list)
        BY DEF JobInv
    <2>a. CASE task' = Idle
        BY <2>a, IdleTyped DEF JobGood
    <2>1. CASE task'.kind # "job"
        BY <2>1 DEF JobGood
    <2>2. CASE Authorize
        <3>1. task'.kind # "job"
            BY <2>2, AuthorizeMoves, IdleTyped DEF Becomes
        <3> QED
            BY <2>1, <3>1
    <2>3. CASE ListJobs
        <3>1. /\ Fresh(task) /\ ListedTo /\ listing'.list \in Seq(Attempts)
              /\ task.kind \in {"report", "run", "job", "details", "advise", "print advice"}
            BY <2>3, ListJobsMoves, PageAdds DEF JobsOK, ListJobs
        <3>2. CASE task' = task
            <4>1. task.step = "list" /\ task.todo = <<>> /\ task.rows = <<>>
                BY <2>3, <3>1 DEF ListJobs, Fresh
            <4>2. task.kind = "job" => task.sel # Everything
                BY <1>0, <4>1 DEF JobGood
            <4> QED
                BY <3>2, <4>1, <4>2 DEF JobGood
        <3>3. CASE /\ task.kind = "job" /\ ~Missing
                   /\ Becomes("job", "measure", ChosenJobs, <<>>, <<>>, <<>>)
            <4>1. task.sel # Everything
                BY <1>0, <2>3, <3>3 DEF JobGood, ListJobs
            <4>2. ChosenJobs = FindJob(listing'.list, task.sel) /\ ChosenJobs # <<>>
                BY <3>1, <3>3, <4>1, OneJobChosen DEF ChosenJobs, Missing
            <4>3. Len(ChosenJobs) = 1
                BY <3>1, <4>1, <4>2, OneJobChosen
            <4>4. /\ task'.sel = task.sel /\ task'.todo = ChosenJobs /\ task'.rows = <<>>
                BY <3>3 DEF Becomes
            <4>5. Len(task'.rows) = 0
                BY <4>4
            <4> QED
                BY <4>1, <4>2, <4>3, <4>4, <4>5 DEF JobGood
        <3>4. \/ task' = Idle \/ task' = task \/ task'.kind # "job"
              \/ /\ task.kind = "job" /\ ~Missing
                 /\ Becomes("job", "measure", ChosenJobs, <<>>, <<>>, <<>>)
            BY <3>1 DEF ListedTo, Becomes, Printed
        <3> QED
            BY <2>a, <2>1, <3>2, <3>3, <3>4
    <2>4. CASE listing' = listing /\ Measure /\ task.kind = "job"
        <3> DEFINE j == Head(task.todo)
                   found == FindJob(listing.list, task.sel)
        <3>1. task.step = "measure" /\ task.todo # <<>> /\ ~Advising
            BY <2>4, MeasureMoves DEF Advising
        <3>2. PICK outcome \in Outcomes(j) :
                 \/ task' = Idle
                 \/ \E step \in {"trace", "measure"} :
                      Becomes("job", step, Tail(task.todo), Append(task.rows, Row(j, outcome)),
                              task.target, task.charts)
            BY <2>4, <3>1, MeasureMoves
        <3> DEFINE row == Row(j, outcome)
                   rows == Append(task.rows, row)
        <3>3. /\ task.sel # Everything /\ Len(task.rows) + Len(task.todo) = 1 /\ task.todo = found
            BY <1>0, <2>4, <3>1 DEF JobGood
        <3>4. /\ j = task.todo[1] /\ Len(task.todo) \in Nat /\ Len(task.todo) >= 1
              /\ Len(Tail(task.todo)) = Len(task.todo) - 1 /\ j \in Attempts
            BY <3>1, NextToDo DEF TaskOK
        <3>5. row \in Rows /\ (row.usage # NoUsage => HasPod(j.run))
            BY <3>4, RowOfAttempt
        <3>6. found # <<>> /\ found[1] = j
            BY <3>1, <3>3, <3>4
        <3> HIDE DEF j, row, found
        <3>7. Len(task.rows) = 0 /\ Len(task.todo) = 1
            <4>1. Len(task.rows) \in Nat
                BY <1>0
            <4>2. Len(task.todo) \in Nat /\ Len(task.todo) >= 1
                BY <3>4
            <4>3. Len(task.rows) + Len(task.todo) = 1
                BY <3>3
            <4>4. \A m, n \in Nat : n >= 1 /\ m + n = 1 => m = 0 /\ n = 1
                OBVIOUS
            <4> QED
                BY <4>1, <4>2, <4>3, <4>4
        <3>8. Len(rows) = 1 /\ rows[1] = row
            BY <1>0, <3>5, <3>7
        <3> HIDE DEF rows
        <3>9. ASSUME NEW step \in {"trace", "measure"},
                     Becomes("job", step, Tail(task.todo), rows, task.target, task.charts)
              PROVE  JobGood(task', listing'.list)
            <4>1. /\ task'.sel = task.sel /\ task'.todo = Tail(task.todo) /\ task'.rows = rows
                BY <3>9 DEF Becomes
            <4>2. Len(Tail(task.todo)) = 0 /\ Tail(task.todo) = <<>>
                <5>1. Tail(task.todo) \in Seq(Attempts)
                    BY <1>0, <3>1
                <5>2. Len(Tail(task.todo)) = 0
                    BY <3>4, <3>7
                <5> QED
                    BY <5>1, <5>2, EmptySeq
            <4>3. /\ task'.sel # Everything /\ Len(task'.rows) + Len(task'.todo) = 1
                  /\ task'.todo = <<>>
                BY <3>3, <3>8, <4>1, <4>2
            <4>4. task'.rows[1].usage # NoUsage =>
                     /\ FindJob(listing'.list, task'.sel) # <<>>
                     /\ HasPod(FindJob(listing'.list, task'.sel)[1].run)
                BY <2>4, <3>5, <3>6, <3>8, <4>1 DEF found
            <4> QED
                BY <4>3, <4>4 DEF JobGood
        <3> QED
            BY <2>a, <3>2, <3>9 DEF row, rows, j
    <2>5. CASE listing' = listing /\ Measure /\ task.kind # "job"
        <3>1. task' = Idle \/ task'.kind # "job"
            BY <2>5, MeasureMoves DEF Becomes
        <3> QED
            BY <2>a, <2>1, <3>1
    <2>6. CASE listing' = listing /\ FetchTrace
        <3>1. PICK rows \in Seq(Rows) :
                 /\ SameMeasured(rows, task.rows)
                 /\ Becomes(task.kind, "measure", task.todo, rows, task.target, task.charts)
            BY <2>6, FetchTraceMoves
        <3>2. task.step = "trace"
            BY <2>6, FetchTraceMoves
        <3>3. /\ task'.sel = task.sel /\ task'.todo = task.todo /\ task'.rows = rows
              /\ task'.kind = task.kind
            BY <3>1 DEF Becomes
        <3>4. /\ Len(rows) = Len(task.rows) /\ DOMAIN rows = DOMAIN task.rows
              /\ \A i \in DOMAIN rows : rows[i].usage = task.rows[i].usage
            BY <3>1 DEF SameMeasured
        <3>5. rows # <<>> => task.rows # <<>> /\ 1 \in DOMAIN rows
            BY <1>0, <3>1, <3>4
        <3> SUFFICES ASSUME task.kind = "job" PROVE JobGood(task', listing'.list)
            BY <2>1, <3>3
        <3>6. /\ task.sel # Everything /\ Len(task.rows) + Len(task.todo) = 1
              /\ task.todo # <<>> => task.todo = FindJob(listing.list, task.sel)
              /\ task.rows # <<>> /\ task.rows[1].usage # NoUsage =>
                    /\ FindJob(listing.list, task.sel) # <<>>
                    /\ HasPod(FindJob(listing.list, task.sel)[1].run)
            BY <1>0, <3>2 DEF JobGood
        <3> QED
            BY <2>6, <3>3, <3>4, <3>5, <3>6 DEF JobGood
    <2>7. CASE ResolveTarget \/ ActiveSpan \/ QuerySeries \/ Upload
        <3>1. task' = Idle \/ task'.kind # "job"
            BY <2>7, ResolveMoves, ActiveSpanMoves, QuerySeriesMoves, UploadMoves
               DEF Becomes, ResolvedTo
        <3> QED
            BY <2>a, <2>1, <3>1
    <2>8. CASE listing' = listing /\ PrintOut
        <3>1. CASE /\ task.kind = "job" /\ task.step = "measure"
                   /\ Becomes("job", "series", task.todo, task.rows,
                              FindJob(listing.list, task.sel), task.charts)
            <4>1. /\ task'.sel = task.sel /\ task'.todo = task.todo /\ task'.rows = task.rows
                BY <3>1 DEF Becomes
            <4> QED
                BY <1>0, <2>8, <3>1, <4>1 DEF JobGood
        <3> QED
            BY <2>8, <2>a, <3>1, PrintOutMoves
    <2> QED
        BY <1>4, <2>a, <2>2, <2>3, <2>4, <2>5, <2>6, <2>7, <2>8, WorkSteps
<1> QED
    BY <1>1, <1>2, <1>3, <1>4, OtherSteps DEF JobsOK

LEMMA TargetGoodStep ==
    ASSUME JobsOK, TaskOK, JobInv, TargetInv, [Next]_vars
    PROVE  TargetGood(task')
<1>0. /\ task \in Tasks /\ task.todo \in Seq(Attempts) /\ listing.list \in Seq(Attempts)
      /\ TargetGood(task)
    BY DEF TargetInv, TaskOK, TaskInv, TaskGood, Tasks, JobsOK, ListingInv
<1>a. Len(<<>>) = 0
    OBVIOUS
<1>1. ASSUME NEW t, Begin(t), Starts(t) PROVE TargetGood(task')
    <2>1. task' = t /\ t.target = <<>> /\ t.step \in {"authorize", "list"} /\ t.kind # "charts"
        BY <1>1 DEF Begin, Starts, Fresh
    <2> QED
        BY <1>a, <2>1 DEF TargetGood
<1>2. CASE Expire \/ UNCHANGED vars \/ (Retries /\ UNCHANGED taskVars)
    BY <1>0, <1>2 DEF Expire, vars, taskVars
<1>3. CASE Work
    <2>a. CASE task' = Idle
        BY <1>a, <2>a DEF TargetGood, Idle
    <2>b. ASSUME task'.target = task.target, task'.kind # "charts",
                 task'.step \notin {"resolve", "span", "series", "upload"}
          PROVE  TargetGood(task')
        BY <1>0, <2>b DEF TargetGood
    <2>1. CASE Authorize
        <3>1. \/ task' = Idle
              \/ /\ task'.target = task.target /\ task'.kind # "charts"
                 /\ task'.step \notin {"resolve", "span", "series", "upload"}
            BY <2>1, AuthorizeMoves DEF Becomes
        <3> QED
            BY <2>a, <2>b, <3>1
    <2>2. CASE ListJobs
        <3>1. /\ Fresh(task) /\ ListedTo /\ listing'.list \in Seq(Attempts)
              /\ task.kind \in {"report", "run", "job", "details", "advise", "print advice"}
            BY <2>2, ListJobsMoves, PageAdds DEF JobsOK, ListJobs
        <3>2. CASE task' = task
            BY <1>0, <3>2
        <3>3. CASE /\ task.kind = "details"
                   /\ Becomes("details", "resolve", ChosenJobs, <<>>, <<>>, <<>>)
            <4>1. /\ task'.sel = task.sel /\ task'.todo = ChosenJobs /\ task'.target = <<>>
                  /\ task'.step = "resolve" /\ task'.kind = "details"
                BY <3>3 DEF Becomes
            <4>2. task.sel.id = 0 => \A i \in DOMAIN ChosenJobs : ChosenJobs[i].name = task.sel.name
                BY <3>1, <3>3, ChosenFromList DEF ChosenJobs
            <4> QED
                BY <1>a, <4>1, <4>2 DEF TargetGood
        <3>4. \/ task' = Idle \/ task' = task
              \/ /\ task'.target = <<>> /\ task.target = <<>> /\ task'.kind # "charts"
                 /\ task'.step \in {"post", "measure"}
              \/ /\ task.kind = "details"
                 /\ Becomes("details", "resolve", ChosenJobs, <<>>, <<>>, <<>>)
            BY <3>1 DEF ListedTo, Becomes, Fresh
        <3> QED
            BY <2>a, <2>b, <3>2, <3>3, <3>4
    <2>3. CASE Measure \/ FetchTrace
        <3>1. \/ task' = Idle
              \/ /\ task'.target = task.target /\ task'.kind # "charts"
                 /\ task'.step \notin {"resolve", "span", "series", "upload"}
            BY <2>3, MeasureMoves, FetchTraceMoves DEF Becomes
        <3> QED
            BY <2>a, <2>b, <3>1
    <2>4. CASE ResolveTarget
        <3> DEFINE j == Head(task.todo)
        <3>1. task.step = "resolve" /\ task.kind = "details" /\ ResolvedTo
            BY <2>4, ResolveMoves
        <3>2. CASE Becomes("refuse", "post", task.todo, task.rows, task.target, task.charts)
            <4>1. task'.target = task.target /\ task'.kind = "refuse" /\ task'.step = "post"
                BY <3>2 DEF Becomes
            <4> QED
                BY <2>b, <4>1
        <3>3. ASSUME NEW step \in {"series", "span"}, task.todo # <<>>, HasPod(j.run),
                     task.sel.id # 0 => j.id = task.sel.id,
                     Becomes("details", step, task.todo, task.rows, <<j>>, task.charts)
              PROVE  TargetGood(task')
            <4>1. /\ task'.target = <<j>> /\ task'.sel = task.sel /\ task'.kind = "details"
                  /\ task'.step = step
                BY <3>3 DEF Becomes
            <4>2. task.sel.id = 0 => j.name = task.sel.name
                <5>1. j = task.todo[1] /\ 1 \in DOMAIN task.todo
                    BY <3>3, NextToDo DEF TaskOK
                <5> QED
                    BY <1>0, <3>1, <5>1 DEF TargetGood
            <4>3. AskedFor(task.sel, j)
                BY <3>3, <4>2 DEF AskedFor
            <4> HIDE DEF j
            <4>4. Len(task'.target) = 1 /\ task'.target[1] = j
                BY <4>1
            <4>5. Resolved(task')
                BY <3>3, <4>1, <4>3, <4>4 DEF Resolved
            <4> QED
                BY <4>1, <4>4, <4>5 DEF TargetGood
        <3>4. CASE /\ task.todo # <<>> /\ task.sel.id # 0
                   /\ Becomes("details", "resolve", Tail(task.todo), task.rows, task.target,
                              task.charts)
            <4>1. /\ task'.target = task.target /\ task'.sel = task.sel /\ task'.kind = "details"
                  /\ task'.step = "resolve"
                BY <3>4 DEF Becomes
            <4> QED
                BY <1>0, <3>4, <4>1 DEF TargetGood
        <3> QED
            BY <2>a, <3>1, <3>2, <3>3, <3>4 DEF ResolvedTo
    <2>5. CASE ActiveSpan \/ QuerySeries \/ Upload
        <3>1. task.step \in {"span", "series", "upload"}
            BY <2>5 DEF ActiveSpan, QuerySeries, Upload
        <3>2. Resolved(task) /\ Len(task.target) <= 1
            BY <1>0, <3>1 DEF TargetGood
        <3>3. /\ task'.target = task.target /\ task'.sel = task.sel /\ task'.step # "resolve"
              /\ task'.kind = "charts" /\ task'.step # "upload" => task'.charts = ChartKinds
            BY <2>5, ActiveSpanMoves, QuerySeriesMoves, UploadMoves DEF Becomes
        <3>4. Resolved(task')
            BY <3>2, <3>3 DEF Resolved
        <3>5. task'.kind = "charts" => ~Empty(task.target[1].run.series)
            <4>1. CASE ActiveSpan
                BY <4>1, ActiveSpanMoves DEF Becomes
            <4>2. CASE QuerySeries
                BY <4>2, QuerySeriesMoves
            <4>3. CASE Upload
                BY <1>0, <4>3, UploadMoves DEF TargetGood
            <4> QED
                BY <2>5, <4>1, <4>2, <4>3
        <3> QED
            BY <3>2, <3>3, <3>4, <3>5 DEF TargetGood
    <2>6. CASE PrintOut
        <3> DEFINE found == FindJob(listing.list, task.sel)
        <3>1. CASE /\ task.kind = "job" /\ task.rows[1].usage # NoUsage
                   /\ Becomes("job", "series", task.todo, task.rows, found, task.charts)
            <4>1. task.step = "measure" /\ task.todo = <<>>
                BY <2>6, PrintOutMoves
            <4>2. task.sel # Everything /\ Len(task.rows) + Len(task.todo) = 1
                BY <3>1, <4>1 DEF JobInv, JobGood
            <4>3. task.rows # <<>>
                BY <1>a, <4>1, <4>2
            <4>4. found # <<>> /\ HasPod(found[1].run)
                BY <3>1, <4>1, <4>3 DEF JobInv, JobGood
            <4>5. Len(found) = 1 /\ AskedFor(task.sel, found[1])
                BY <1>0, <4>2, <4>4, OneJobChosen
            <4> HIDE DEF found
            <4>6. /\ task'.target = found /\ task'.sel = task.sel /\ task'.kind = "job"
                  /\ task'.step = "series"
                BY <3>1 DEF Becomes
            <4>7. Resolved(task')
                BY <4>4, <4>5, <4>6 DEF Resolved
            <4> QED
                <5>1. Len(task'.target) = 1
                    BY <4>5, <4>6
                <5>2. Len(task'.target) <= 1
                    BY <5>1
                <5> QED
                    BY <4>6, <4>7, <5>2 DEF TargetGood
        <3> QED
            BY <2>6, <2>a, <3>1, PrintOutMoves
    <2> QED
        BY <1>3, <2>a, <2>1, <2>2, <2>3, <2>4, <2>5, <2>6, WorkSteps
<1> QED
    BY <1>0, <1>1, <1>2, <1>3, OtherSteps DEF JobsOK

\* The charts that a step posts or prints are all there, and of the task's job.
LEMMA ChartsGoodStep ==
    ASSUME JobsOK, TaskOK, RowsInv, TargetInv, [Next]_vars
    PROVE  ChartsGood(said')
<1>0. task \in Tasks /\ TargetGood(task) /\ SaidShape(said)
    BY DEF TargetInv, TaskOK, TaskInv, TaskGood, RowsInv
<1>1. CASE said' = said
    BY <1>1 DEF TargetInv
<1>2. CASE Charted
    <2> DEFINE t == [task EXCEPT !.charts = ChartKinds]
    <2>1. Resolved(task) /\ ~Empty(task.target[1].run.series)
        BY <1>0, <1>2 DEF Charted, TargetGood
    <2>2. t.target = task.target /\ t.sel = task.sel /\ t.charts = ChartKinds
        BY <1>0 DEF Tasks
    <2>3. said' = [said EXCEPT !.what = "charts", !.task = t]
        BY <1>2 DEF Charted
    <2> HIDE DEF t
    <2>4. said'.task = t
        BY <1>0, <2>3 DEF SaidShape
    <2> QED
        BY <2>1, <2>2, <2>4 DEF ChartsGood, Resolved
<1>3. CASE ReportSaid
    BY <1>3 DEF ReportSaid, ChartsGood
<1>4. CASE OtherSaid
    <2> SUFFICES ASSUME said'.what = "charts" PROVE ChartsGood(said')
        BY DEF ChartsGood
    <2>1. said'.task = task /\ Posting /\ task.kind = "charts"
        BY <1>4 DEF OtherSaid
    <2>2. task.step # "upload"
        BY <2>1 DEF Posting, AllMeasured
    <2>3. Resolved(task) /\ task.charts = ChartKinds /\ ~Empty(task.target[1].run.series)
        BY <1>0, <2>1, <2>2 DEF TargetGood
    <2> QED
        BY <2>1, <2>3 DEF ChartsGood
<1> QED
    BY <1>1, <1>2, <1>3, <1>4, SaidSteps

-----------------------------------------------------------------------------
(* What is always so *)

AllInv == JobsOK /\ TaskOK /\ RowsInv /\ HollowInv /\ JobInv /\ TargetInv

\* Whatever is retried, times out or fails: each row is what jobUsage found of
\* its job, nothing that was cut off by the deadline is posted, and the target
\* of the charts is a job that was asked for and has a pod.
THEOREM AlwaysAllInv == Spec => []AllInv
<1>1. Init => RowsInv /\ HollowInv /\ JobInv /\ TargetInv
    <2> SUFFICES ASSUME Init PROVE RowsInv /\ HollowInv /\ JobInv /\ TargetInv
        OBVIOUS
    <2>1. task = Idle /\ board = <<>> /\ said = Silence
        BY DEF Init
    <2>2. Idle \in Tasks /\ Idle.step = "idle" /\ Idle.kind = "none"
        BY IdleTyped
    <2>3. Idle.rows = <<>> /\ Idle.target = <<>>
        BY DEF Idle
    <2>4. Len(<<>>) = 0 /\ DOMAIN <<>> = {} /\ board \in Seq(Rows)
        BY <2>1
    <2>5. said.task = Idle /\ said.what = "nothing" /\ SaidShape(said)
        <3> DEFINE report == RenderReport(0, <<>>, Limits)
        <3>1. said = [what |-> "nothing", report |-> report, advice |-> <<>>,
                      task |-> Idle, retried |-> 0]
            BY <2>1 DEF Silence
        <3> HIDE DEF report
        <3> QED
            BY <2>2, <3>1 DEF SaidShape
    <2>6. RowsInv
        BY <2>1, <2>3, <2>4, <2>5 DEF RowsInv, AllGenuine
    <2>7. HollowInv
        BY <2>1, <2>3, <2>4, <2>5 DEF HollowInv, NotLate
    <2>8. JobInv
        BY <2>1, <2>2 DEF JobInv, JobGood
    <2>9. TargetInv
        BY <2>1, <2>2, <2>3, <2>4, <2>5 DEF TargetInv, TargetGood, ChartsGood
    <2> QED
        BY <2>6, <2>7, <2>8, <2>9
<1>2. JobsOK /\ TaskOK /\ RowsInv /\ HollowInv /\ JobInv /\ TargetInv /\ [Next]_vars
         => (RowsInv /\ HollowInv /\ JobInv /\ TargetInv)'
    <2> SUFFICES ASSUME JobsOK, TaskOK, RowsInv, HollowInv, JobInv, TargetInv, [Next]_vars
                 PROVE  (RowsInv /\ HollowInv /\ JobInv /\ TargetInv)'
        OBVIOUS
    <2>1. RowsInv' /\ HollowInv' /\ JobInv'
        BY RowsInvStep, HollowInvStep, JobInvStep
    <2>2. TargetInv'
        BY TargetGoodStep, ChartsGoodStep DEF TargetInv
    <2> QED
        BY <2>1, <2>2
<1> QED
    BY <1>1, <1>2, TasksAlwaysOK, PTL DEF Spec, AllInv

\* What the jobs, the list and the task are made of, whatever is retried: the
\* IDs go down the list, what is listed was there, and `bot run --job` has one
\* job.
THEOREM CommandsTypeCorrect == Spec => []CommandsTypeOK
<1>1. AllInv => CommandsTypeOK
    <2> SUFFICES ASSUME AllInv PROVE CommandsTypeOK
        OBVIOUS
    <2>1. /\ lastJob \in Nat /\ Len(jobs) = Len(Names) /\ jobs \in Seq(Attempts)
          /\ \A i \in DOMAIN jobs : jobs[i].id \in 1..lastJob
          /\ \A i, k \in DOMAIN jobs : i < k => jobs[k].id < jobs[i].id
        BY DEF AllInv, JobsOK, JobsInv
    <2>2. \A i \in DOMAIN jobs : jobs[i].name \in Range(Names) /\ jobs[i].run \in AnyRun
        <3>1. \A i \in DOMAIN jobs : jobs[i] \in Attempts
            BY <2>1
        <3> QED
            BY <3>1 DEF Attempts
    <2>3. \A i, k \in DOMAIN jobs : k > i => jobs[k].id < jobs[i].id
        BY <2>1
    <2>4. expired \in BOOLEAN /\ tasks \in 0..MaxTasks
        BY DEF AllInv, TaskOK, TaskInv
    <2>5. Range(listing.list) \subseteq [id : 1..lastJob, name : Range(Names), run : AnyRun]
        <3>1. listing.list \in Seq(Attempts) /\ \A i \in DOMAIN listing.list : listing.list[i].id \in 1..lastJob
            BY DEF AllInv, JobsOK, ListingInv
        <3>2. \A i \in DOMAIN listing.list :
                 listing.list[i] \in [id : 1..lastJob, name : Range(Names), run : AnyRun]
            <4>1. \A i \in DOMAIN listing.list : listing.list[i] \in Attempts
                BY <3>1
            <4>2. \A a \in Attempts : a.id \in 1..lastJob =>
                     a \in [id : 1..lastJob, name : Range(Names), run : AnyRun]
                BY DEF Attempts
            <4> QED
                BY <3>1, <4>1, <4>2
        <3> QED
            BY <3>2 DEF Range
    <2>6. Len(task.target) <= 1
        BY DEF AllInv, TargetInv, TargetGood
    <2>7. ASSUME task.kind = "job" PROVE Len(task.rows \o task.todo) <= 1
        <3>1. task.rows \in Seq(Rows) /\ task.todo \in Seq(Attempts) /\ TaskGood(task, listing.list)
            BY DEF AllInv, TaskOK, TaskInv, TaskGood, Tasks
        <3>2. /\ Len(task.rows \o task.todo) = Len(task.rows) + Len(task.todo)
              /\ Len(task.rows) \in Nat /\ Len(task.todo) \in Nat
            BY <3>1
        <3>3. CASE task.step \in {"idle", "list"}
            <4>1. task.rows = <<>> /\ task.todo = <<>>
                BY <3>1, <3>3 DEF TaskGood, Fresh
            <4>2. Len(task.rows) = 0 /\ Len(task.todo) = 0
                BY <4>1
            <4> QED
                BY <3>2, <4>2
        <3>4. CASE task.step \notin {"idle", "list"}
            <4>1. Len(task.rows) + Len(task.todo) = 1
                BY <2>7, <3>4 DEF AllInv, JobInv, JobGood
            <4>2. Len(task.rows \o task.todo) = 1
                BY <3>2, <4>1
            <4> QED
                BY <4>2
        <3> QED
            BY <3>3, <3>4
    <2> QED
        BY <2>1, <2>2, <2>3, <2>4, <2>5, <2>6, <2>7 DEF CommandsTypeOK
<1> QED
    BY <1>1, AlwaysAllInv, PTL

\* No report and no reply is hollowed out by the two minutes, and a report has a
\* dash exactly where Prometheus has nothing of the job, though jobs are retried
\* before, while and after they are measured.
THEOREM NothingHollow == Spec => []NothingPostedHollow
<1>1. AllInv => NothingPostedHollow
    <2> SUFFICES ASSUME AllInv PROVE NothingPostedHollow
        OBVIOUS
    <2> DEFINE rows == said.task.rows
    <2>1. said.task.kind \notin Printed => \A i \in DOMAIN rows : rows[i].cause # "expired"
        BY DEF AllInv, HollowInv, NotLate
    <2>2. ASSUME said.what = "report", NEW i \in DOMAIN said.report.rows
          PROVE  LET listed == CHOOSE k \in DOMAIN jobs : jobs[k].id = rows[i].id
                     unset(q) == Scalar(jobs[listed].run.series, q) = 0
                 IN  /\ said.report.rows[i].data <=> rows[i].cause = ""
                     /\ rows[i].id \in Ids(jobs) /\ said.report.rows[i].data =>
                           said.report.rows[i].dashed = {q \in Optional : unset(q)}
        <3> DEFINE listed == CHOOSE k \in DOMAIN jobs : jobs[k].id = rows[i].id
                   series == jobs[listed].run.series
        <3>1. said.report.rows # <<>>
            BY <2>2
        <3>2. i \in DOMAIN rows /\ said.report.rows[i] = Cells(rows[i], Limits)
            BY <2>2, <3>1 DEF AllInv, HollowInv, Reported
        <3>3. Genuine(rows[i], jobs, lastJob)
            BY <3>2 DEF AllInv, RowsInv, AllGenuine
        <3>4. said.report.rows[i].data <=> rows[i].cause = ""
            <4> DEFINE cells == said.report.rows[i]
                       unset == {q \in Optional : Dashed(rows[i].usage[q])}
                       marked == Marked(rows[i].usage, Limits)
            <4>1. rows[i].cause = "" <=> rows[i].usage # NoUsage
                BY <3>3 DEF Genuine
            <4>2. cells = IF rows[i].usage = NoUsage
                          THEN [data |-> FALSE, dashed |-> {}, marked |-> FALSE]
                          ELSE [data |-> TRUE, dashed |-> unset, marked |-> marked]
                BY <3>2 DEF Cells
            <4> HIDE DEF cells, unset, marked
            <4>3. CASE rows[i].usage = NoUsage
                <5>1. cells = [data |-> FALSE, dashed |-> {}, marked |-> FALSE]
                    BY <4>2, <4>3
                <5>2. cells.data = FALSE
                    BY <5>1
                <5> QED
                    BY <4>1, <4>3, <5>2, Zenon DEF cells
            <4>4. CASE rows[i].usage # NoUsage
                <5>1. cells = [data |-> TRUE, dashed |-> unset, marked |-> marked]
                    BY <4>2, <4>4
                <5>2. cells.data = TRUE
                    BY <5>1
                <5> QED
                    BY <4>1, <4>4, <5>2, Zenon DEF cells
            <4> QED
                BY <4>3, <4>4
        <3>5. ASSUME rows[i].id \in Ids(jobs), said.report.rows[i].data
              PROVE  said.report.rows[i].dashed = {q \in Optional : Scalar(series, q) = 0}
            <4>1. listed \in DOMAIN jobs /\ jobs[listed].id = rows[i].id
                BY <3>5 DEF Ids
            <4>2. rows[i].usage = UsageOf(series) /\ rows[i].usage # NoUsage
                BY <3>3, <3>4, <3>5, <4>1 DEF Genuine
            <4> HIDE DEF listed, series
            <4>3. said.report.rows[i].dashed = {q \in Optional : rows[i].usage[q] = 0}
                BY <3>2, <4>2 DEF Cells, Dashed
            <4>4. \A q \in Optional : UsageOf(series)[q] = Scalar(series, q)
                BY DEF Optional, UsageOf
            <4> QED
                BY <4>2, <4>3, <4>4
        <3> QED
            BY <3>4, <3>5
    <2> QED
        BY <2>1, <2>2 DEF NothingPostedHollow
<1> QED
    BY <1>1, AlwaysAllInv, PTL

\* The charts of a reply, and those of `bot run --job`, are all there and of one
\* pod: that of an attempt of the job that was asked for.
THEOREM ChartsAlwaysComplete == Spec => []ChartsComplete
<1>1. AllInv => ChartsComplete
    BY DEF AllInv, TargetInv, ChartsGood, ChartsComplete, Resolved, HasPod, AskedFor
<1> QED
    BY <1>1, AlwaysAllInv, PTL

-----------------------------------------------------------------------------
(* The jobs asked for *)

\* The jobs of a pipeline have names of their own, as GitLab's do.
NamesDiffer == \A i, k \in DOMAIN Names : Names[i] = Names[k] => i = k

\* The report has data for the job asked for.
Sought(r, sel) == r.usage # NoUsage /\ (r.id = sel.id \/ (sel.id = 0 /\ r.name = sel.name))
Seeking == task.kind \in {"details", "advise", "refuse"} /\ task.step \notin {"idle", "authorize"}

\* The list has at most one attempt of each job that GitLab lists all along.
NamesInv ==
    /\ \A i, k \in DOMAIN jobs : jobs[i].name = jobs[k].name => i = k
    /\ \A k \in DOMAIN jobs, l \in DOMAIN listing.list :
          jobs[k].id \in listing.standing /\ listing.list[l].name = jobs[k].name
             => listing.list[l].id = jobs[k].id

\* A job of the report that GitLab still lists was so when the listing began,
\* and had its pod by then; it is still to be looked at, and not refused.
SeekInv ==
    Seeking =>
        /\ task.step # "list" => listing.page = 0
        /\ task.step = "resolve" /\ task.sel.id = 0 =>
              task.todo = FirstAt(listing.list, Named(listing.list, task.sel.name))
        /\ \A b \in DOMAIN board :
              /\ board[b].id \in Ids(jobs) => board[b].id \in listing.standing
              /\ board[b].usage # NoUsage =>
                    \A l \in DOMAIN listing.list :
                        listing.list[l].id = board[b].id => HasPod(listing.list[l].run)
              /\ Sought(board[b], task.sel) /\ board[b].id \in Ids(jobs) =>
                    /\ task.kind # "refuse"
                    /\ task.step = "resolve" /\ task.sel.id # 0 => board[b].id \in Ids(task.todo)

LEMMA NamesStart ==
    ASSUME NamesDiffer, Init
    PROVE  NamesInv
<1>0. Names \in Seq(STRING) /\ Len(Names) \in Nat /\ DOMAIN Names = 1..Len(Names)
    BY NamesAssumption
<1>1. PICK run \in Pipelines :
          jobs = Reverse([i \in DOMAIN Names |-> [id |-> i, name |-> Names[i], run |-> run[i]]])
    BY DEF Init, JobsInit
<1>2. jobs = [i \in 1..Len(Names) |->
                  [id |-> Len(Names) - i + 1, name |-> Names[Len(Names) - i + 1],
                   run |-> run[Len(Names) - i + 1]]]
    <2>1. Len([i \in DOMAIN Names |-> [id |-> i, name |-> Names[i], run |-> run[i]]]) = Len(Names)
        BY <1>0
    <2> QED
        BY <1>0, <1>1, <2>1 DEF Reverse
<1>3. ASSUME NEW i \in DOMAIN jobs, NEW k \in DOMAIN jobs, jobs[i].name = jobs[k].name
      PROVE  i = k
    <2>1. i \in 1..Len(Names) /\ k \in 1..Len(Names)
        BY <1>2
    <2>2. Names[Len(Names) - i + 1] = Names[Len(Names) - k + 1]
        BY <1>2, <1>3, <2>1
    <2>3. Len(Names) - i + 1 \in DOMAIN Names /\ Len(Names) - k + 1 \in DOMAIN Names
        BY <1>0, <2>1
    <2>4. Len(Names) - i + 1 = Len(Names) - k + 1
        BY <2>2, <2>3 DEF NamesDiffer
    <2> QED
        BY <1>0, <2>1, <2>4
<1>4. listing.list = <<>>
    BY DEF Init, JobsInit
<1> QED
    BY <1>3, <1>4 DEF NamesInv

\* A retry gives the name of its job to a new attempt, and takes it from the old.
LEMMA RetryKeepsNames ==
    ASSUME JobsOK, NamesInv, NEW i \in DOMAIN jobs, Retry(i)
    PROVE  NamesInv'
<1>0. JobsInv /\ i \in Nat /\ lastJob \in Nat
    BY DEF JobsOK, JobsInv
<1>1. jobs'[1].name = jobs[i].name /\ jobs'[1].id = lastJob + 1
    <2>1. jobs'[1] = [id |-> lastJob + 1, name |-> jobs[i].name, run |-> NotRun]
        BY <1>0, RetryShifts
    <2> QED
        BY <2>1
<1>2. ASSUME NEW k \in DOMAIN jobs', k # 1
      PROVE  \E m \in DOMAIN jobs : /\ m = (IF k <= i THEN k - 1 ELSE k) /\ m # i
                                    /\ jobs'[k] = jobs[m] /\ k \in Nat
    <2>1. PICK m \in DOMAIN jobs : m = (IF k <= i THEN k - 1 ELSE k) /\ jobs'[k] = jobs[m]
        BY <1>0, <1>2, RetryFrom
    <2>2. k \in Nat
        BY <1>0, RetryShifts
    <2> QED
        BY <1>0, <2>1, <2>2
<1>3. ASSUME NEW a \in DOMAIN jobs', NEW b \in DOMAIN jobs', jobs'[a].name = jobs'[b].name
      PROVE  a = b
    <2>1. CASE a = 1 /\ b # 1
        BY <1>1, <1>2, <1>3, <2>1 DEF NamesInv
    <2>2. CASE a # 1 /\ b = 1
        BY <1>1, <1>2, <1>3, <2>2 DEF NamesInv
    <2>3. CASE a # 1 /\ b # 1
        <3>1. PICK m \in DOMAIN jobs : /\ m = (IF a <= i THEN a - 1 ELSE a)
                                       /\ jobs'[a] = jobs[m] /\ a \in Nat
            BY <1>2, <2>3
        <3>2. PICK n \in DOMAIN jobs : /\ n = (IF b <= i THEN b - 1 ELSE b)
                                       /\ jobs'[b] = jobs[n] /\ b \in Nat
            BY <1>2, <2>3
        <3>3. m = n
            BY <1>3, <3>1, <3>2 DEF NamesInv
        <3> QED
            BY <1>0, <3>1, <3>2, <3>3
    <2> QED
        BY <2>1, <2>2, <2>3
<1>4. /\ listing'.list = listing.list
      /\ listing'.standing \subseteq listing.standing
    <2> DEFINE standing == listing.standing \ {jobs[i].id}
               n == IF listing.page > 0 THEN listing.retried + 1 ELSE listing.retried
    <2>1. listing \in [page : Nat, list : Seq(Attempts), standing : SUBSET Nat, retried : Nat]
        BY DEF JobsOK, ListingInv
    <2>2. listing' = [listing EXCEPT !.standing = standing, !.retried = n]
        BY Zenon DEF Retry
    <2>3. standing \subseteq listing.standing
        OBVIOUS
    <2> HIDE DEF n, standing
    <2> QED
        BY <2>1, <2>2, <2>3
<1>5. ASSUME NEW k \in DOMAIN jobs', NEW l \in DOMAIN listing.list,
             jobs'[k].id \in listing.standing, listing.list[l].name = jobs'[k].name
      PROVE  listing.list[l].id = jobs'[k].id
    <2>1. jobs'[k].id # lastJob + 1
        <3>1. \E m \in DOMAIN jobs : jobs[m].id = jobs'[k].id
            BY <1>5 DEF JobsOK, StandingInv
        <3>2. \A m \in DOMAIN jobs : jobs[m].id \in 1..lastJob
            BY <1>0 DEF JobsInv
        <3> QED
            BY <1>0, <3>1, <3>2
    <2>2. \E m \in DOMAIN jobs : jobs'[k] = jobs[m]
        BY <1>1, <1>2, <2>1
    <2> QED
        BY <1>5, <2>2 DEF NamesInv
<1> QED
    BY <1>3, <1>4, <1>5 DEF NamesInv

LEMMA NamesInvStep ==
    ASSUME JobsOK, NamesInv, [Next]_vars
    PROVE  NamesInv'
<1>1. CASE UNCHANGED jobVars
    BY <1>1 DEF jobVars, NamesInv
<1>2. CASE UNCHANGED <<jobs, lastJob>> /\ StartListing
    <2>1. listing'.list = <<>> /\ jobs' = jobs
        BY <1>2 DEF StartListing
    <2> QED
        BY <2>1 DEF NamesInv
<1>3. CASE UNCHANGED <<jobs, lastJob>> /\ ListPage
    <2>1. /\ listing'.list \in Seq(Attempts) /\ listing.list \in Seq(Attempts) /\ jobs' = jobs
          /\ \A l \in 1..Len(listing.list) : listing'.list[l] = listing.list[l]
          /\ \A l \in DOMAIN listing'.list :
                l \notin 1..Len(listing.list) => \E k \in DOMAIN jobs : listing'.list[l] = jobs[k]
          /\ listing' = [listing EXCEPT !.list = listing'.list, !.page = listing'.page]
        BY <1>3, PageAdds DEF JobsOK, ListingInv
    <2>2. listing'.standing = listing.standing
        <3>1. listing \in [page : Nat, list : Seq(Attempts), standing : SUBSET Nat, retried : Nat]
            BY DEF JobsOK, ListingInv
        <3> QED
            BY <2>1, <3>1
    <2>3. ASSUME NEW k \in DOMAIN jobs, NEW l \in DOMAIN listing'.list,
                 jobs[k].id \in listing.standing, listing'.list[l].name = jobs[k].name
          PROVE  listing'.list[l].id = jobs[k].id
        <3>1. CASE l \in 1..Len(listing.list)
            <4>1. l \in DOMAIN listing.list /\ listing'.list[l] = listing.list[l]
                BY <2>1, <3>1
            <4> QED
                BY <2>3, <4>1 DEF NamesInv
        <3>2. CASE l \notin 1..Len(listing.list)
            <4>1. PICK m \in DOMAIN jobs : listing'.list[l] = jobs[m]
                BY <2>1, <3>2
            <4> QED
                BY <2>3, <4>1 DEF NamesInv
        <3> QED
            BY <3>1, <3>2
    <2> QED
        BY <2>1, <2>2, <2>3 DEF NamesInv
<1>4. CASE \E i \in DOMAIN jobs : Retry(i)
    BY <1>4, RetryKeepsNames
<1>5. ASSUME NEW i \in DOMAIN jobs, RetryEnds(i) PROVE NamesInv'
    <2>1. PICK run \in Runs : jobs' = [jobs EXCEPT ![i].run = run]
        BY <1>5 DEF RetryEnds
    <2>2. jobs \in Seq(Attempts) /\ listing' = listing
        BY <1>5 DEF RetryEnds, JobsOK, JobsInv
    <2>3. /\ DOMAIN jobs' = DOMAIN jobs
          /\ \A k \in DOMAIN jobs : jobs'[k].id = jobs[k].id /\ jobs'[k].name = jobs[k].name
        BY <2>1, <2>2 DEF Attempts
    <2> QED
        BY <2>2, <2>3 DEF NamesInv
<1> QED
    BY <1>1, <1>2, <1>3, <1>4, <1>5, JobSteps

\* The job sought is not refused when the job of its name is looked for.
LEMMA SoughtHasPod ==
    ASSUME JobsOK, RowsInv, NamesInv, SeekInv, Seeking, NEW b \in DOMAIN board,
           Sought(board[b], task.sel), board[b].id \in Ids(jobs), listing.page = 0,
           task.sel.id = 0
    PROVE  /\ Named(listing.list, task.sel.name) # {}
           /\ \A l \in Named(listing.list, task.sel.name) : HasPod(listing.list[l].run)
<1>1. Genuine(board[b], jobs, lastJob)
    BY DEF RowsInv, AllGenuine
<1>2. board[b].id \in listing.standing
    BY DEF SeekInv
<1>3. board[b].id \in Ids(listing.list)
    BY <1>2 DEF JobsOK, StandingInv
<1>4. PICK m \in DOMAIN listing.list : listing.list[m].id = board[b].id
    BY <1>3 DEF Ids
<1>5. PICK k \in DOMAIN jobs : jobs[k].id = board[b].id
    BY DEF Ids
<1>6. jobs[k].name = listing.list[m].name
    BY <1>4, <1>5 DEF JobsOK, ListingInv
<1>7. jobs[k].name = board[b].name
    BY <1>1, <1>5 DEF Genuine
<1>8. board[b].usage # NoUsage
    BY DEF Sought
<1>9. task.sel.name = board[b].name
    <2>1. CASE board[b].id = task.sel.id
        <3>1. board[b].id \in 1..lastJob /\ lastJob \in Nat
            BY <1>1 DEF Genuine, JobsOK, JobsInv
        <3> QED
            BY <2>1, <3>1
    <2> QED
        BY <2>1 DEF Sought
<1>10. ASSUME NEW l \in Named(listing.list, task.sel.name) PROVE HasPod(listing.list[l].run)
    <2>1. l \in DOMAIN listing.list /\ listing.list[l].name = jobs[k].name
        BY <1>7, <1>9 DEF Named
    <2>2. listing.list[l].id = board[b].id
        BY <1>2, <1>5, <2>1 DEF NamesInv
    <2> QED
        BY <1>8, <2>1, <2>2 DEF SeekInv
<1> QED
    BY <1>4, <1>6, <1>7, <1>9, <1>10 DEF Named

\* GitLab may take a job out of the list, and then it is not looked for.
LEMMA SeekWhileRetried ==
    ASSUME JobsOK, RowsInv, SeekInv, Retries /\ UNCHANGED taskVars
    PROVE  SeekInv'
<1>1. /\ task' = task /\ board' = board
      /\ listing'.list = listing.list /\ listing'.page = listing.page
    BY RetriesKeepTask DEF JobsOK
<1>2. ASSUME NEW b \in DOMAIN board, board[b].id \in Ids(jobs')
      PROVE  /\ board[b].id \in Ids(jobs)
             /\ board[b].id \in listing.standing => board[b].id \in listing'.standing
    <2>1. PICK k \in DOMAIN jobs' : jobs'[k].id = board[b].id
        BY <1>2 DEF Ids
    <2>2. board[b].id \in 1..lastJob /\ lastJob \in Nat
        BY DEF RowsInv, AllGenuine, Genuine, JobsOK, JobsInv
    <2>3. ASSUME NEW i \in DOMAIN jobs, Retry(i)
          PROVE  /\ board[b].id \in Ids(jobs)
                 /\ board[b].id \in listing.standing => board[b].id \in listing'.standing
        <3>1. jobs'[k].id # lastJob + 1
            BY <2>1, <2>2
        <3>2. PICK m \in DOMAIN jobs : m # i /\ jobs'[k] = jobs[m]
            BY <2>3, <3>1, RetryKeepsOthers DEF JobsOK
        <3>3. jobs[m].id # jobs[i].id
            BY <3>2 DEF JobsOK, JobsInv, Attempts
        <3>4. listing'.standing = listing.standing \ {jobs[i].id}
            <4> DEFINE standing == listing.standing \ {jobs[i].id}
                       n == IF listing.page > 0 THEN listing.retried + 1 ELSE listing.retried
            <4>1. listing \in [page : Nat, list : Seq(Attempts), standing : SUBSET Nat, retried : Nat]
                BY DEF JobsOK, ListingInv
            <4>2. listing' = [listing EXCEPT !.standing = standing, !.retried = n]
                BY <2>3, Zenon DEF Retry
            <4> HIDE DEF n, standing
            <4>3. listing'.standing = standing
                BY <4>1, <4>2
            <4> QED
                BY <4>3 DEF standing
        <3> QED
            BY <2>1, <3>2, <3>3, <3>4 DEF Ids
    <2>4. ASSUME NEW i \in DOMAIN jobs, RetryEnds(i)
          PROVE  /\ board[b].id \in Ids(jobs)
                 /\ board[b].id \in listing.standing => board[b].id \in listing'.standing
        <3>1. PICK run \in Runs : jobs' = [jobs EXCEPT ![i].run = run]
            BY <2>4 DEF RetryEnds
        <3>2. jobs \in Seq(Attempts) /\ listing' = listing
            BY <2>4 DEF RetryEnds, JobsOK, JobsInv
        <3>3. DOMAIN jobs' = DOMAIN jobs /\ \A m \in DOMAIN jobs : jobs'[m].id = jobs[m].id
            BY <3>1, <3>2 DEF Attempts
        <3> QED
            BY <2>1, <3>2, <3>3 DEF Ids
    <2> QED
        BY <2>3, <2>4 DEF Retries
<1>3. CASE Seeking
    <2>1. ASSUME NEW b \in DOMAIN board
          PROVE  /\ board[b].id \in Ids(jobs') => board[b].id \in listing'.standing
                 /\ board[b].usage # NoUsage =>
                       \A l \in DOMAIN listing.list :
                           listing.list[l].id = board[b].id => HasPod(listing.list[l].run)
                 /\ Sought(board[b], task.sel) /\ board[b].id \in Ids(jobs') =>
                       /\ task.kind # "refuse"
                       /\ task.step = "resolve" /\ task.sel.id # 0 =>
                             board[b].id \in Ids(task.todo)
        BY <1>2, <1>3 DEF SeekInv
    <2>2. /\ task.step # "list" => listing.page = 0
          /\ task.step = "resolve" /\ task.sel.id = 0 =>
                task.todo = FirstAt(listing.list, Named(listing.list, task.sel.name))
        BY <1>3 DEF SeekInv
    <2> QED
        BY <1>1, <2>1, <2>2 DEF SeekInv
<1> QED
    BY <1>1, <1>3 DEF SeekInv, Seeking

\* A step that leaves the jobs, the list and the board alone
LEMMA SeekOn ==
    ASSUME SeekInv, Seeking, jobs' = jobs, listing' = listing, board' = board,
           task'.sel = task.sel, task.step # "list", task'.step # "resolve",
           task'.kind # "refuse"
    PROVE  SeekInv'
<1>1. listing.page = 0
    BY DEF SeekInv
<1>2. ASSUME NEW b \in DOMAIN board
      PROVE  /\ board[b].id \in Ids(jobs) => board[b].id \in listing.standing
             /\ board[b].usage # NoUsage =>
                   \A l \in DOMAIN listing.list :
                       listing.list[l].id = board[b].id => HasPod(listing.list[l].run)
    BY DEF SeekInv
<1> QED
    BY <1>1, <1>2 DEF SeekInv

\* The listing finds every job of the report that GitLab still lists.
LEMMA SeekWhileListed ==
    ASSUME JobsOK, TaskOK, RowsInv, NamesInv, SeekInv, ListJobs, board' = board, jobs' = jobs,
           JobsOK', NamesInv'
    PROVE  SeekInv'
<1>1. /\ Fresh(task) /\ ListedTo /\ task.step = "list"
      /\ task.kind \in {"report", "run", "job", "details", "advise", "print advice"}
    BY ListJobsMoves DEF ListJobs
<1>2. /\ listing'.list \in Seq(Attempts) /\ listing.list \in Seq(Attempts)
      /\ \A l \in 1..Len(listing.list) : listing'.list[l] = listing.list[l]
      /\ \A l \in DOMAIN listing'.list :
            l \notin 1..Len(listing.list) => \E k \in DOMAIN jobs : listing'.list[l] = jobs[k]
      /\ listing' = [listing EXCEPT !.list = listing'.list, !.page = listing'.page]
    BY PageAdds DEF JobsOK, ListingInv, ListJobs
<1>3. listing'.standing = listing.standing
    <2>1. listing \in [page : Nat, list : Seq(Attempts), standing : SUBSET Nat, retried : Nat]
        BY DEF JobsOK, ListingInv
    <2> QED
        BY <1>2, <2>1
<1> SUFFICES ASSUME Seeking' PROVE SeekInv'
    BY DEF SeekInv
<1>4. task.kind \in {"details", "advise"}
    BY <1>1, IdleTyped DEF ListedTo, Becomes, Seeking
<1>5. Seeking
    BY <1>1, <1>4 DEF Seeking
<1>6. ASSUME NEW b \in DOMAIN board
      PROVE  /\ board[b].id \in Ids(jobs) => board[b].id \in listing'.standing
             /\ board[b].usage # NoUsage =>
                   \A l \in DOMAIN listing'.list :
                       listing'.list[l].id = board[b].id => HasPod(listing'.list[l].run)
    <2>1. board[b].id \in Ids(jobs) => board[b].id \in listing'.standing
        BY <1>3, <1>5 DEF SeekInv
    <2>2. ASSUME board[b].usage # NoUsage, NEW l \in DOMAIN listing'.list,
                 listing'.list[l].id = board[b].id
          PROVE  HasPod(listing'.list[l].run)
        <3>1. CASE l \in 1..Len(listing.list)
            <4>1. l \in DOMAIN listing.list /\ listing'.list[l] = listing.list[l]
                BY <1>2, <3>1
            <4> QED
                BY <1>5, <2>2, <4>1 DEF SeekInv
        <3>2. CASE l \notin 1..Len(listing.list)
            <4>1. PICK k \in DOMAIN jobs : listing'.list[l] = jobs[k]
                BY <1>2, <3>2
            <4>2. Genuine(board[b], jobs, lastJob)
                BY DEF RowsInv, AllGenuine
            <4> QED
                BY <2>2, <4>1, <4>2 DEF Genuine
        <3> QED
            BY <3>1, <3>2
    <2> QED
        BY <2>1, <2>2
<1>7. ASSUME NEW b \in DOMAIN board, board[b].id \in Ids(jobs), listing'.page = 0
      PROVE  \E l \in DOMAIN listing'.list :
                listing'.list[l].id = board[b].id /\ listing'.list[l].name = board[b].name
    <2>1. board[b].id \in Ids(listing'.list)
        <3>1. board[b].id \in listing'.standing
            BY <1>6, <1>7
        <3>2. StandingInv' /\ listing'.page = 0
            BY <1>7 DEF JobsOK
        <3> QED
            BY <3>1, <3>2 DEF StandingInv
    <2>2. PICK l \in DOMAIN listing'.list : listing'.list[l].id = board[b].id
        BY <2>1 DEF Ids
    <2>3. PICK k \in DOMAIN jobs : jobs[k].id = board[b].id
        BY <1>7 DEF Ids
    <2>4. jobs[k].name = listing'.list[l].name
        BY <2>2, <2>3 DEF JobsOK, ListingInv
    <2>5. jobs[k].name = board[b].name
        BY <2>3 DEF RowsInv, AllGenuine, Genuine
    <2> QED
        BY <2>2, <2>4, <2>5
<1>8. CASE listing'.page > 0 /\ task' = task
    <2>1. task.step = "list" /\ task.kind # "refuse"
        BY <1>1, <1>4
    <2> QED
        BY <1>6, <1>8, <2>1 DEF SeekInv
<1>9. CASE /\ listing'.page = 0 /\ Missing
           /\ Becomes("refuse", "post", <<>>, <<>>, <<>>, <<>>)
    <2>1. task'.step = "post" /\ task'.sel = task.sel
        BY <1>9 DEF Becomes
    <2>2. ASSUME NEW b \in DOMAIN board, Sought(board[b], task.sel), board[b].id \in Ids(jobs)
          PROVE  FALSE
        <3>1. PICK l \in DOMAIN listing'.list :
                 listing'.list[l].id = board[b].id /\ listing'.list[l].name = board[b].name
            BY <1>7, <1>9, <2>2
        <3>2. AskedFor(task.sel, listing'.list[l])
            BY <2>2, <3>1 DEF Sought, AskedFor
        <3>3. FindJob(listing'.list, task.sel) # <<>>
            <4> DEFINE list == listing'.list
            <4>1. list \in Seq(Attempts)
                BY <1>2
            <4>2. AskedFor(task.sel, list[l]) /\ l \in DOMAIN list
                BY <3>1, <3>2
            <4> HIDE DEF list
            <4>3. \/ /\ FindJob(list, task.sel) = <<>>
                     /\ \A i \in DOMAIN list : ~AskedFor(task.sel, list[i])
                  \/ \E i \in DOMAIN list : /\ FindJob(list, task.sel) = <<list[i]>>
                                            /\ AskedFor(task.sel, list[i])
                BY <4>1, JobFound
            <4>4. \A x : <<x>> # <<>>
                OBVIOUS
            <4> QED
                BY <4>2, <4>3, <4>4 DEF list
        <3>4. task.kind = "advise" /\ task.sel # Everything /\ ChosenJobs = <<>>
            BY <1>4, <1>9 DEF Missing
        <3>5. ChosenJobs = FindJob(listing'.list, task.sel)
            BY <3>4 DEF ChosenJobs, Chosen
        <3> QED
            BY <3>3, <3>4, <3>5
    <2> QED
        BY <1>6, <1>9, <2>1, <2>2 DEF SeekInv
<1>10. CASE /\ listing'.page = 0 /\ task.kind = "details"
            /\ Becomes("details", "resolve", ChosenJobs, <<>>, <<>>, <<>>)
    <2>1. /\ task'.step = "resolve" /\ task'.kind = "details" /\ task'.sel = task.sel
          /\ task'.todo = ChosenJobs
        BY <1>10 DEF Becomes
    <2>2. task.sel.id = 0 =>
             ChosenJobs = FirstAt(listing'.list, Named(listing'.list, task.sel.name))
        BY <1>10 DEF ChosenJobs, Chosen
    <2>3. ASSUME NEW b \in DOMAIN board, Sought(board[b], task.sel), board[b].id \in Ids(jobs),
                 task.sel.id # 0
          PROVE  board[b].id \in Ids(ChosenJobs)
        <3>1. ChosenJobs = listing'.list
            BY <1>10, <2>3 DEF ChosenJobs, Chosen
        <3> QED
            BY <1>7, <1>10, <2>3, <3>1 DEF Ids
    <2> QED
        BY <1>6, <1>10, <2>1, <2>2, <2>3 DEF SeekInv
<1>11. CASE /\ listing'.page = 0
            /\ Becomes(task.kind, "measure", ChosenJobs, <<>>, <<>>, <<>>)
    <2>1. task'.step = "measure" /\ task'.kind # "refuse" /\ task'.sel = task.sel
        BY <1>4, <1>11 DEF Becomes
    <2> QED
        BY <1>6, <1>11, <2>1 DEF SeekInv
<1>12. task' # Idle
    BY IdleTyped DEF Seeking
<1> QED
    BY <1>1, <1>8, <1>9, <1>10, <1>11, <1>12 DEF ListedTo

\* Looking for the job comes to one that is sought, if there is one.
LEMMA SeekWhileResolved ==
    ASSUME JobsOK, TaskOK, RowsInv, NamesInv, SeekInv, ResolveTarget,
           jobs' = jobs, listing' = listing, board' = board
    PROVE  SeekInv'
<1>1. task.step = "resolve" /\ task.kind = "details" /\ ResolvedTo
    BY ResolveMoves
<1>2. Seeking /\ listing.page = 0
    BY <1>1 DEF Seeking, SeekInv
<1>3. ASSUME NEW b \in DOMAIN board
      PROVE  /\ board[b].id \in Ids(jobs) => board[b].id \in listing.standing
             /\ board[b].usage # NoUsage =>
                   \A l \in DOMAIN listing.list :
                       listing.list[l].id = board[b].id => HasPod(listing.list[l].run)
    BY <1>2 DEF SeekInv
<1>4. task.sel.id = 0 =>
         task.todo = FirstAt(listing.list, Named(listing.list, task.sel.name))
    BY <1>1, <1>2 DEF SeekInv
<1> DEFINE j == Head(task.todo)
<1>5. task.todo # <<>> => j \in Range(listing.list) /\ j = task.todo[1] /\ 1 \in DOMAIN task.todo
    BY NextToDo DEF TaskOK
<1>6. CASE task' = Idle
    BY <1>6, IdleTyped DEF SeekInv, Seeking
<1>7. CASE /\ Becomes("refuse", "post", task.todo, task.rows, task.target, task.charts)
           /\ task.todo # <<>> => task.sel.id = 0 /\ ~HasPod(j.run)
    <2>1. task'.step = "post" /\ task'.sel = task.sel
        BY <1>7 DEF Becomes
    <2>2. ASSUME NEW b \in DOMAIN board, Sought(board[b], task.sel), board[b].id \in Ids(jobs)
          PROVE  FALSE
        <3>1. CASE task.sel.id # 0
            <4>1. board[b].id \in Ids(task.todo)
                BY <1>1, <1>2, <2>2, <3>1 DEF SeekInv
            <4>2. task.todo = <<>>
                BY <1>7, <3>1
            <4>3. Ids(<<>>) = {}
                BY DEF Ids
            <4> QED
                BY <4>1, <4>2, <4>3
        <3>2. CASE task.sel.id = 0
            <4> DEFINE list == listing.list
                       named == Named(list, task.sel.name)
            <4>1. named # {} /\ \A l \in named : HasPod(list[l].run)
                BY <1>2, <2>2, <3>2, SoughtHasPod
            <4>2. list \in Seq(Attempts) /\ named \in SUBSET (DOMAIN list)
                BY DEF JobsOK, ListingInv, Named
            <4>3. task.todo = FirstAt(list, named)
                BY <1>4, <3>2
            <4> HIDE DEF list, named
            <4>4. PICK l \in named : task.todo = <<list[l]>>
                BY <4>1, <4>2, <4>3, FirstFound
            <4>5. task.todo # <<>> /\ Head(task.todo) = list[l]
                BY <4>4
            <4> QED
                BY <1>7, <4>1, <4>5
        <3> QED
            BY <3>1, <3>2
    <2> QED
        BY <1>2, <1>3, <2>1, <2>2 DEF SeekInv
<1>8. ASSUME NEW step \in {"series", "span"},
             Becomes("details", step, task.todo, task.rows, <<j>>, task.charts)
      PROVE  SeekInv'
    <2>1. task'.step # "resolve" /\ task'.kind # "refuse" /\ task'.sel = task.sel
        BY <1>8 DEF Becomes
    <2> QED
        BY <1>1, <1>2, <2>1, SeekOn
<1>9. CASE /\ task.todo # <<>> /\ task.sel.id # 0
           /\ ~(HasPod(j.run) /\ j.id = task.sel.id)
           /\ Becomes("details", "resolve", Tail(task.todo), task.rows, task.target, task.charts)
    <2>1. /\ task'.step = "resolve" /\ task'.kind = "details" /\ task'.sel = task.sel
          /\ task'.todo = Tail(task.todo)
        BY <1>9 DEF Becomes
    <2>2. ASSUME NEW b \in DOMAIN board, Sought(board[b], task.sel), board[b].id \in Ids(jobs)
          PROVE  board[b].id \in Ids(Tail(task.todo))
        <3>1. board[b].id \in Ids(task.todo)
            BY <1>1, <1>2, <1>9, <2>2 DEF SeekInv
        <3>2. PICK i \in DOMAIN task.todo : task.todo[i].id = board[b].id
            BY <3>1 DEF Ids
        <3>3. board[b].id = task.sel.id /\ board[b].usage # NoUsage
            BY <1>9, <2>2 DEF Sought
        <3>4. i # 1
            <4>1. j.id = board[b].id => HasPod(j.run)
                BY <1>3, <1>5, <1>9, <3>3 DEF Range
            <4> QED
                BY <1>5, <1>9, <3>2, <3>3, <4>1
        <3>5. task.todo \in Seq(Attempts)
            BY DEF TaskOK, TaskInv, TaskGood, Tasks
        <3>6. i - 1 \in DOMAIN Tail(task.todo) /\ Tail(task.todo)[i - 1] = task.todo[i]
            BY <1>9, <3>4, <3>5
        <3> QED
            BY <3>2, <3>6 DEF Ids
    <2> QED
        BY <1>2, <1>3, <1>9, <2>1, <2>2 DEF SeekInv
<1> QED
    BY <1>1, <1>6, <1>7, <1>8, <1>9 DEF ResolvedTo

LEMMA SeekInvStep ==
    ASSUME AllInv, NamesInv, SeekInv, [Next]_vars
    PROVE  SeekInv'
<1>0. /\ JobsOK /\ TaskOK /\ RowsInv
      /\ JobsOK' /\ NamesInv'
    BY JobsOKStep, NamesInvStep DEF AllInv
<1>1. ASSUME NEW t, Begin(t), Starts(t) PROVE SeekInv'
    <2>1. task' = t /\ ~(t.kind \in {"details", "advise", "refuse"} /\ t.step # "authorize")
        BY <1>1 DEF Begin, Starts
    <2> QED
        BY <2>1 DEF SeekInv, Seeking
<1>2. CASE Expire \/ UNCHANGED vars
    <2>1. task' = task /\ jobs' = jobs /\ listing' = listing /\ board' = board
        BY <1>2 DEF Expire, vars, jobVars, taskVars
    <2> QED
        BY <2>1 DEF SeekInv, Seeking
<1>3. CASE Retries /\ UNCHANGED taskVars
    BY <1>0, <1>3, SeekWhileRetried
<1>4. CASE Work
    <2>0. jobs' = jobs
        BY <1>4, WorkSteps
    <2>a. CASE ~Seeking'
        BY <2>a DEF SeekInv
    <2>b. CASE task' = Idle
        BY <2>a, <2>b, IdleTyped DEF Seeking
    <2>1. CASE Authorize /\ board' = board
        <3>1. CASE /\ StartListing
                   /\ Becomes(task.kind, "list", task.todo, task.rows, task.target, task.charts)
            <4>1. listing'.list = <<>> /\ listing'.standing = Ids(jobs)
                BY <3>1 DEF StartListing
            <4>2. task'.step = "list" /\ task'.kind # "refuse"
                BY <2>1, <3>1, AuthorizeMoves, <1>0 DEF Becomes
            <4> QED
                BY <2>0, <2>1, <4>1, <4>2 DEF SeekInv
        <3>2. CASE Becomes("help", "post", task.todo, task.rows, task.target, task.charts)
            BY <2>a, <3>2 DEF Becomes, Seeking
        <3> QED
            BY <1>0, <2>1, <2>b, <3>1, <3>2, AuthorizeMoves
    <2>2. CASE ListJobs /\ board' = board
        BY <1>0, <2>0, <2>2, SeekWhileListed
    <2>3. CASE listing' = listing /\ board' = board /\ (Measure \/ FetchTrace)
        <3>1. \/ task' = Idle
              \/ /\ task'.kind = task.kind /\ task'.sel = task.sel
                 /\ task'.step \in {"trace", "measure"} /\ task.step \in {"trace", "measure"}
                 /\ task.kind \in {"report", "run", "job", "advise", "print advice"}
            BY <1>0, <2>3, MeasureMoves, FetchTraceMoves DEF Becomes
        <3>2. CASE Seeking' /\ task' # Idle
            <4>1. Seeking /\ task.step # "list" /\ task'.step # "resolve" /\ task'.kind # "refuse"
                BY <3>1, <3>2 DEF Seeking
            <4> QED
                BY <2>0, <2>3, <3>1, <3>2, <4>1, SeekOn
        <3> QED
            BY <2>a, <2>b, <3>2
    <2>4. CASE listing' = listing /\ board' = board /\ ResolveTarget
        BY <1>0, <2>0, <2>4, SeekWhileResolved
    <2>5. CASE listing' = listing /\ board' = board /\ ActiveSpan
        <3>1. /\ task.step = "span" /\ task.kind = "details"
              /\ task'.kind = "details" /\ task'.sel = task.sel /\ task'.step = "series"
            BY <1>0, <2>5, ActiveSpanMoves DEF Becomes
        <3>2. Seeking
            BY <3>1 DEF Seeking
        <3> QED
            BY <2>0, <2>5, <3>1, <3>2, SeekOn
    <2>6. CASE QuerySeries \/ Upload
        <3>1. task'.kind \in {"charts", "no metrics"}
            BY <1>0, <2>6, QuerySeriesMoves, UploadMoves DEF Becomes
        <3> QED
            BY <2>a, <3>1 DEF Seeking
    <2>7. CASE PrintOut
        <3>1. task' = Idle \/ task'.kind = "job"
            BY <1>0, <2>7, PrintOutMoves DEF Becomes
        <3> QED
            BY <2>a, <2>b, <3>1 DEF Seeking
    <2> QED
        BY <1>4, <2>b, <2>1, <2>2, <2>3, <2>4, <2>5, <2>6, <2>7, WorkSteps
<1> QED
    BY <1>0, <1>1, <1>2, <1>3, <1>4, OtherSteps DEF JobsOK

\* A job that the report has data for is refused only if it was retried since:
\* neither the pages of the listing, nor a retry of another job, nor the order
\* of the attempts hides it from the one who asks for its details or advice.
THEOREM MeasuredTargetsAreFound ==
    ASSUME NamesDiffer
    PROVE  Spec => MeasuredTargetsFound
<1>1. Init => NamesInv /\ SeekInv
    <2> SUFFICES ASSUME Init PROVE NamesInv /\ SeekInv
        OBVIOUS
    <2>1. NamesInv
        BY NamesStart
    <2>2. task = Idle
        BY DEF Init
    <2>3. SeekInv
        BY <2>2, IdleTyped DEF SeekInv, Seeking
    <2> QED
        BY <2>1, <2>3
<1>2. AllInv /\ NamesInv /\ SeekInv /\ [Next]_vars => NamesInv' /\ SeekInv'
    BY NamesInvStep, SeekInvStep DEF AllInv
<1> DEFINE Found == \A r \in Range(board) :
                       said' # said /\ said'.what = "refuse" /\ r.usage # NoUsage
                       /\ (r.id = task.sel.id \/ (task.sel.id = 0 /\ r.name = task.sel.name))
                           => r.id \notin Ids(jobs)
<1>3. AllInv /\ SeekInv /\ [Next]_vars => Found
    <2> SUFFICES ASSUME AllInv, SeekInv, [Next]_vars, said' # said, said'.what = "refuse",
                        NEW b \in DOMAIN board, Sought(board[b], task.sel)
                 PROVE  board[b].id \notin Ids(jobs)
        BY DEF Range, Sought
    <2>1. JobsOK /\ TaskOK /\ RowsInv
        BY DEF AllInv
    <2>2. ~Charted /\ ~ReportSaid
        <3>1. SaidShape(said)
            BY <2>1 DEF RowsInv
        <3>2. Charted => said'.what = "charts"
            BY <3>1 DEF Charted, SaidShape
        <3> QED
            BY <3>2 DEF ReportSaid
    <2>3. OtherSaid
        BY <2>1, <2>2, SaidSteps
    <2>4. Posting /\ task.kind = "refuse"
        BY <2>3 DEF OtherSaid
    <2>5. task.step = "post"
        BY <2>4 DEF Posting, AllMeasured
    <2>6. Seeking
        BY <2>4, <2>5 DEF Seeking
    <2> QED
        BY <2>4, <2>6 DEF SeekInv
<1>4. AllInv /\ SeekInv /\ [Next]_vars => [Found]_vars
    BY <1>3
<1> HIDE DEF Found
<1>5. Spec => [][Found]_vars
    BY <1>1, <1>2, <1>4, AlwaysAllInv, PTL DEF Spec
<1> QED
    BY <1>5 DEF Found, MeasuredTargetsFound
=============================================================================
