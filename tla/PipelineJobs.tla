---------------------------- MODULE PipelineJobs ----------------------------
(***************************************************************************)
(* Listing the jobs of a pipeline, page by page, while people retry jobs   *)
(* (internal/gitlab: PipelineJobs, FindJob).  GitLab lists the last        *)
(* attempt of each job, newest ID first: a retry takes the old attempt out *)
(* of the list and puts a new one in front of it.                          *)
(***************************************************************************)
EXTENDS Report

CONSTANTS
    Names,           \* the names of the pipeline's jobs, oldest job first
    Runs,            \* what a retried job does
    PerPage,         \* jobs on a page (100 in the code)
    Pipelines,       \* what the jobs have done at first
    MaxRetries       \* bound: retries of jobs

ASSUME NamesAssumption == Names \in Seq(STRING) /\ Names # <<>>
ASSUME PipelinesAssumption == \A p \in Pipelines : DOMAIN p = DOMAIN Names
ASSUME PerPageAssumption == PerPage \in Nat \ {0}
ASSUME MaxRetriesAssumption == MaxRetries \in Nat

\* A run: when it was; the lines of its log ("text", the runner's line that
\* names the "pod", or one "too long" to scan) and the tools seen in it; what
\* Prometheus has: the pod in the labels of the job ("pod", "empty" or
\* "none") and the series of the pod, by name.
NotRun == [start |-> 0, finish |-> 0, log |-> <<>>, trace |-> {}, label |-> "none",
           series |-> [s \in {} |-> 0]]

VARIABLES
    jobs,            \* the list in GitLab: [id, name, run], newest first
    lastJob,         \* the last ID given to a job
    listing          \* the list being fetched: the next page or 0, the jobs so
                     \* far; history: the jobs listed in GitLab all along, and
                     \* how many were retried meanwhile

jobVars == <<jobs, lastJob, listing>>

AnyRun == Runs \cup {NotRun} \cup UNION {Range(p) : p \in Pipelines}

\* Bytes, cores and periods are never negative.
ASSUME SeriesAssumption == \A run \in AnyRun : \A s \in DOMAIN run.series : run.series[s] \in Nat

Ids(list) == {list[i].id : i \in DOMAIN list}

\* The places of the jobs with an ID or a name, and the first job of some places
WithId(list, id) == {i \in DOMAIN list : list[i].id = id}
Named(list, name) == {i \in DOMAIN list : list[i].name = name}
FirstAt(list, places) ==
    IF places = {} THEN <<>> ELSE <<list[Min(places)]>>

\* Mutant: every job that matches is found.
FindEveryJob(list, sel) ==
    SelectSeq(list, LAMBDA j : j.id = sel.id \/ j.name = sel.name)

\* FindJob: by ID if the selector is a number (else its ID is 0), then by name
FindJob(list, sel) ==
    FirstAt(list, IF WithId(list, sel.id) # {} THEN WithId(list, sel.id) ELSE Named(list, sel.name))

JobsInit ==
    /\ \E run \in Pipelines :
          jobs = Reverse([i \in DOMAIN Names |-> [id |-> i, name |-> Names[i], run |-> run[i]]])
    /\ lastJob = Len(Names)
    /\ listing = [page |-> 0, list |-> <<>>, standing |-> {}, retried |-> 0]

-----------------------------------------------------------------------------
(* PipelineJobs *)

StartListing ==
    listing' = [page |-> 1, list |-> <<>>, standing |-> Ids(jobs), retried |-> 0]

\* Mutant: the page after the first is the first one again.
ListPageAgain ==
    /\ listing.page > 0
    /\ listing' = [listing EXCEPT
          !.list = @ \o SubSeq(jobs, 1, Smaller(PerPage, Len(jobs))),
          !.page = IF listing.page * PerPage < Len(jobs) THEN @ + 1 ELSE 0]

\* Mutant: every request asks for the first page.
ListFirstPage ==
    /\ listing.page > 0
    /\ listing' = [listing EXCEPT
          !.list = @ \o SubSeq(jobs, 1, Smaller(PerPage, Len(jobs))),
          !.page = 0]

ListPage ==
    /\ listing.page > 0
    /\ listing' = [listing EXCEPT
          !.list = @ \o SubSeq(jobs, (listing.page - 1) * PerPage + 1,
                               Smaller(listing.page * PerPage, Len(jobs))),
          !.page = IF listing.page * PerPage < Len(jobs) THEN @ + 1 ELSE 0]

-----------------------------------------------------------------------------
(* GitLab *)

Retry(i) ==
    /\ lastJob < Len(Names) + MaxRetries
    /\ Ran(jobs[i].run)
    /\ jobs' = <<[id |-> lastJob + 1, name |-> jobs[i].name, run |-> NotRun]>> \o RemoveAt(jobs, i)
    /\ lastJob' = lastJob + 1
    /\ listing' = [listing EXCEPT
          !.standing = @ \ {jobs[i].id},
          !.retried = IF listing.page > 0 THEN @ + 1 ELSE @]

RetryEnds(i) ==
    /\ jobs[i].id > Len(Names) /\ jobs[i].run = NotRun
    /\ \E run \in Runs : jobs' = [jobs EXCEPT ![i].run = run]
    /\ UNCHANGED <<lastJob, listing>>

Retries == \E i \in DOMAIN jobs : Retry(i) \/ RetryEnds(i)

-----------------------------------------------------------------------------
(* Property *)

\* Once the last page is read, every attempt that GitLab listed from the
\* first page to the last is in the list: a retry shifts jobs to later pages
\* only, so it can make one appear twice but hides none that is still there.
StandingJobsListed == listing.page = 0 => listing.standing \subseteq Ids(listing.list)
=============================================================================
