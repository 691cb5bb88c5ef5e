# Verification of cigar, the GitLab CI resource bot

cigar receives GitLab webhooks, measures the jobs of a finished pipeline with
Prometheus, and posts one report as a note on the merge request. People reply
to the report with commands (`help`, `details`, `advise`), which the bot answers
in the same discussion; `bot run` and `bot advise` print the same things on the
command line. This directory holds the TLA+ specifications of the program, the
TLC configurations that check them and the proofs that TLAPS checks. Paths below
are relative to the repository.

## Inventory

| Component | Code | State it keeps | Operations | Interacts with |
|---|---|---|---|---|
| worker queue | `cmd/bot/serve.go` 44-88 | buffered channel, `warned` flag | `Enqueue`, the worker's receive | called by every HTTP handler goroutine, drained by one worker |
| webhook handler | `internal/webhook/handler.go` | none | `handle`, `handlePipeline`, `handleNote` | authenticator, queue, telemetry |
| webhook authentication | `internal/webhook/auth.go` | secret or key | `Authenticate` of two methods | handler |
| worker loop | `cmd/bot/serve.go` 167-229 | `seen` note IDs | `worker`, `process`, `processNote` | queue, reporter, command handler |
| reporter | `internal/reporter` | none | `ProcessPipeline`, `Build`, `jobUsage`, `Advise` | GitLab, pod resolver, metrics, report |
| GitLab client | `internal/gitlab` | none; the discussions and jobs are GitLab's | `UpsertNote`, `PipelineJobs`, `FindJob`, `MergeRequestForBranch`, `MergeRequestDiscussion`, `CreateDiscussionReply`, `UploadFile`, `JobTrace` | GitLab's REST API |
| report and markers | `internal/report` | none | `Render`, `SignedMarker`, `ParseSignedMarker` | reporter, command handler |
| command parser and handler | `internal/command` | none | `Parse`, `Handle`, `details`, `advise`, `resolveTarget` | GitLab, resolver, series, advice |
| advice engine and rules | `internal/advice` | registry of rules | `New`, `NeedsTrace`, `Analyze`, four rules | reporter |
| pod correlation | `internal/correlate` | none | `PodForJob` by trace or Prometheus | GitLab, Prometheus |
| metrics source | `internal/metrics` | none | `PodUsage`, `PodSeries`, `PodActiveSpan` | Prometheus |
| charts | `internal/chart` | none | `Render` (PNG, SVG, markdown), `downsample` | command handler, `bot run` |
| telemetry | `internal/telemetry` | counters, user set under a mutex | `Record*`, counting log core | everything |
| configuration | `internal/config` | none | `Resolve`, `Load` | start-up |
| process lifecycle | `cmd/bot` | context, two servers | `serve`, `main` | all |
| command line | `cmd/bot/run.go`, `advise.go` | none | `bot run`, `bot run --job`, `bot advise` | reporter, charts, advice |

What makes the components correct, and what is hard about it:

* **Queue.** Many handlers run `Enqueue` at once, without a lock. An event is
  accepted or refused at once, refused only when the buffer is full, and served
  in order; the operator is warned before drops start and once per crossing. The
  send, the read of the depth and the update of the flag are three steps.
* **Report note.** One running report per merge request; a report that people
  discuss is left alone and succeeded by a new one. `UpsertNote` is a list of
  pages followed by an update or a create, with nothing that makes the sequence
  atomic: people, GitLab and another replica act in between, and answers get
  lost.
* **Worker.** One event at a time, each bounded by two minutes and never
  retried. Reports must appear in delivery order, and a command must be
  answered once although GitLab may deliver it again, to another replica or
  after a restart.
* **Building reports, commands.** The jobs are listed page by page while people
  retry them; each job then costs requests that may fail one by one, or all at
  once when the deadline strikes in the middle. Jobs without a pod or without
  metrics must not be reported as zeros, counted in the totals, or hide the
  others. Commands list the jobs again, perhaps not the ones of the report.
* **Advice, charts, durations, signatures.** Pure arithmetic: what matters is
  its boundaries (rounding that lets a request exceed its limit, empty buckets,
  flat lines, the zero time, both ends of the tolerance).
* **Start-up, telemetry, shutdown.** A setting has five possible sources; a
  server must not listen without what its handlers need. Counters and a user set
  are shared by concurrent handlers. `serve` ends with the first server that
  fails, or with both.

`PROJECT.json` lists the hazards one by one with the line where each bites and
the properties that cover it.

## Modules

| Module | What it is |
|---|---|
| `DropQueue` | abstract: a bounded queue whose calls are answered at once |
| `WorkQueue` | `type queue` and the receiving side of `worker`, by shared-memory operation |
| `ReportBoard` | abstract: a line of reports of which only the last one changes |
| `UpsertNote` | `UpsertNote` by API request, against the discussions of one merge request |
| `Bot` | deliveries, queue, worker, report path and command path around one merge request; extends `UpsertNote` |
| `Advice` | the advice engine and its rules, as operators |
| `Report` | what a report says; extends `Advice` for the thresholds and the usage |
| `Chart` | where charts put their samples, as operators |
| `WebhookAuth` | the two authentication methods, as operators |
| `Calculations` | asks the four modules above one question at a time |
| `PipelineJobs` | the listing of a pipeline's jobs by page, beside retries; extends `Report` |
| `Reporter` | the reporter's tasks, request by request; extends `PipelineJobs` |
| `CommandHandler` | the commands and `bot run --job`'s charts; extends `Reporter` |
| `Config` | where settings come from and which are refused, as operators |
| `Serve` | the process, its servers, its requests and its telemetry; extends `Config` and `WebhookAuth` |
| `*Proofs` | theorems about `WorkQueue`, `UpsertNote`, `Bot`, `Advice`, `Calculations`, `Serve` and, in `CommandProofs` and `SummaryProofs`, about `PipelineJobs`, `Reporter` and `CommandHandler` |
| `MC*` | instances for TLC |

**WorkQueue.** `ch` is `q.ch`, `warned` is `q.warned`. `pc[c]` is the point at
which the goroutine of delivery `c` is: `Send` and `Drop` are the two cases of
the `select`, `ReadDepth` is `len(q.ch)`, `WarnOnce` and `ClearWarned` are the
arms of the `switch`. `Receive`, `Finish` and `Stop` are the worker's loop;
`Cancel` is the signal. With the context done and an event queued both `Receive`
and `Stop` are enabled, as in Go's `select`. `warnings` is a history of the log
lines since the queue was last empty and since it last crossed the threshold, and
of the calls that had read a low depth before (`late`); `taken` is a history of
the received events.

**UpsertNote.** A discussion is its root note (ID, author, marker, pipeline
shown) and the authors of its replies. `Start` is the call, `FindNote`,
`NextPage` and `LastPage` are what the loop does with one page, read at that
moment; `Update` and `Create` are the final requests. A lost answer is a request
that takes effect and returns an error. People comment, quote a report with its
marker, reply, and delete notes and replies; the bot answers commands. Notes of
other people can be edited or not depending on the token, so an update of such
a note may succeed or fail.

**Bot.** `hooks` holds the events that GitLab has to deliver; each may be
delivered any number of times, to any replica. `Deliver` is the handler and
`Enqueue` in one step, which is what `WorkQueue` is shown to implement.
`TakePipeline`, `Resolve`, `BeginUpsert` and `DoUpsert` are `process` and
`ProcessPipeline`; `TakeNote`, `SkipNote`, `Authorize` and `PostAnswer` are
`processNote` and `Handle`; `GiveUp` is every other error and the timeout;
`Restart` loses what was in memory. A command remembers what the report showed
when it was written, and whether a replica was about to edit it then (`shown`).

**Advice, Report, Chart, WebhookAuth.** Operators named after the functions
they translate. CPU is counted in tenths of a millicore, one digit finer than
the code rounds to, ratios in percent. `NaN` is a value of its own, because the
configuration accepts it and every comparison with it is false. A report is its
notice, which cells of each row are dashes or marked, its duration, and the
totals of memory. A MAC is the record of what it covers.

**Calculations** has one step: a question with its inputs, and the code's
answer. `EverySampleOnce`, `WallClockSpans` and `FreshAndGenuineAccepted` compare
the answer with a definition that shares nothing with the code's; the others say
what the numbers must fit.

**PipelineJobs.** `jobs` is what GitLab lists: the last attempt of each job,
newest ID first. `listing` is the fetch: `StartListing` and `ListPage` are the
loop of `PipelineJobs`, one request each; `Retry` and `RetryEnds` are people and
runners. `listing.standing` and `listing.retried` are histories.

**Reporter** and **CommandHandler.** `task` is what one worker (or one command
line) is doing: the kind, the step, the jobs left (`todo`), the `rows` so far,
the target and the charts. `ListJobs`, `Measure` (`jobUsage` for the next job),
`FetchTrace` and `PostReport` are `Build`, `Advise` and `ProcessPipeline`;
`HandleNote`, `Authorize`, `ResolveTarget`, `ActiveSpan`, `QuerySeries`,
`Upload` and `Reply` are `Handle` and what it calls; `PrintOut` and `PrintCharts`
are the command line. `Expire` is the deadline or the signal, after which every
request fails: with `GiveUp` where an error ends the task, and inside `Measure`
and `FetchTrace` where the code logs it and goes on. `board` is the report on
the merge request and `said` what was posted or printed last.

**Serve.** `pc` follows `PersistentPreRunE`, `Load`, `CurrentUser`,
`buildAuthenticator` and the collection of `errCh`; `server` is what each
`Listen` is doing. A request goes through `Receive`, `Handle`, `LockUsers`,
`SetGauge`, `Enqueue` and `Record`, the deferred `RecordWebhook`. A body over the
limit (`TooLarge`) is refused in `Receive` by fiber with 413 and never gets to
`Handle`, so that nothing records it. `LockUsers`
and `SetGauge` are the critical section of `RecordUser`. `logs` is what
`countingCore` counts. `given` is the environment, the flags and the files the
process was started with.

## Runs

| Run | Checks | Shows |
|---|---|---|
| `WorkQueue` | `TypeOK`, `CrossingWarned`, `OneLinePerCrossing`, `BurstWarned`, `ImplementsDropQueue`, `AcceptedServed` | under every interleaving of two overlapping calls: the warning of a nearly full queue, the atomic queue it implements, and that accepted events are served |
| `UpsertOneWorker` | `TypeOK`, `OneBareReport`, `NewestReportIsPosted`, `ImplementsBoard` | with one worker there is one running report and it is the one posted last, whatever fails |
| `UpsertChurn` | `UnmarkedUntouched`, `CallEnds` | deletions and quotes while pages are read |
| `BotFaults` | `BotTypeOK`, `AnswersPerLifetime`, `BareReportPerReplica`, `DiscussedEarlierLeftAlone`, `AnswerMatchesQuestion` | how far two replicas, faults and a restart can damage answers and reports |
| `BotCalm` | `NewestDeliveryShown`, `CommandAnswered`, `PipelineReported` | the whole path when every request succeeds |
| `Calculations` | `CPUAdviceFits`, `MemoryAdviceSettles`, `LazyTraceLosesNothing`, `EverySampleOnce`, `ChartSpansItsLine`, `WallClockSpans`, `FreshAndGenuineAccepted` | the pure functions on every small input |
| `Commands` | `CommandsTypeOK`, `StandingJobsListed`, `SummaryCountsOnce`, `NothingPostedHollow`, `ChartsComplete`, `MeasuredTargetsFound`, `TaskEnds` | two tasks in a row over jobs that people retry, with every request failing or running into the deadline |
| `Serve` | `ServeTypeOK`, `CallsCounted`, `GaugeMatchesUsers`, `WarningsCounted`, `ListensOnlyWhenReady`, `StopsWhenTold` | 21 configurations, two servers that fail or not, two concurrent requests and a signal |
| `UpsertPageShift` | `OneBareReport`, violated | a deletion moves the report to a page already read |
| `BotDuplicate` | `OneReportPerPipeline`, violated | one event on two replicas, two reports |
| `CleanAdvice` | `CleanMeansNothingToFix`, violated | a failed metrics query turns a throttled pipeline into a clean one |
| `UpsertDiscussed` | `DiscussedNeverEdited`, violated | the first reply comes between the listing and the edit |

The four violated runs are disagreements between the code and what its
documents or comments say; `PROJECT.json` quotes them under `findings`, with a
fifth one that a passing run shows: `CallsCounted` says that what fiber refuses is
not counted, while `docs/monitoring.md` has every delivery counted.
`OneReportPerPipeline` also fails with one worker, as soon as somebody has
replied to the report before its event is delivered again.

### Bounds

* Queue: 8 calls on a buffer of 5 with the threshold at 4 and two calls in
  flight, so that the queue hovers above the threshold without being full, fills,
  overflows, drains to the bottom and crosses again, and a stale read or store of
  one call meets any step of another. The calls are numbered in the order in
  which they begin, which loses nothing, as they differ in nothing else, and
  needs no symmetry set. `BurstWarned` needs fewer than `WarnAt` overlapping
  calls: with 128 and 80% that is 103.
* Discussions: `PerPage` is 1 or 2 so that a handful of notes takes several
  pages; two pipelines distinguish an old report from a new one; 3 or 4 upserts
  are enough to create, update, leave a discussed report and succeed it.
  `MaxPeople` bounds what people do.
* Bot: 4 deliveries with repetition, 2 pipelines, 1 or 2 commands, queues of 1
  or 2 so that they overflow, one restart.
* Calculations: charts of 3 columns and 4 rows with lines of up to 7 samples,
  which is more than two per column, evenly divided or not; pipelines of up to 3
  jobs; a mebibyte of 2 bytes, so that the steps of 128 MiB are met and crossed
  by small peaks; quantities on both sides of each rounding; clock values on
  both sides of a tolerance of 2; timestamps that are absent, no number, or the
  same instant in another text.
* Commands: 3 jobs on pages of 2, one retry, two tasks, so that a command or a
  second report meets a board and jobs that have changed since. Three pipelines
  of seven kinds of job runs: throttled, without a pod, without samples,
  instantaneous, with a log that cannot be scanned, not run, retried. Nine notes,
  among them those that are no command or not in a report's thread. The command
  line runs as the last task and only without a report, as it shares nothing with
  the bot but the jobs. The pods come from the trace in `Commands` and from
  Prometheus in `CleanAdvice`.
* Serve: two requests, eight deliveries, one of them over the body limit, a queue
  of 1 so that the second event
  is dropped; three configurations that serve, by flag, environment, either kind
  of file and each method, and eighteen that are refused at different points.

Every run says `CHECK_DEADLOCK FALSE`: with every bounded delivery, task and act
used up, or the process at its end, the system is at rest, which is legitimate.

### Fairness

* `WorkQueue`: weak fairness of `Receive` and `Finish` (the worker goroutine is
  scheduled, and every event ends within `processTimeout`), and of what a call
  does after its send (a goroutine that does not block runs on). None of `Send`,
  `Cancel` and `Stop`: nobody promises deliveries or a shutdown.
* `UpsertNote`, `Bot`, `CommandHandler`: weak fairness of each worker's next
  step, which stands for the HTTP client and the context ending every request.
  None of people, deliveries, faults, the deadline or restarts.
* `Serve`: weak fairness of what `serve` does by itself, of each `Listen` and
  of its return once the context is done (fiber's promise, which the code relies
  on), and of `CurrentUser` only once the context is cancelled: that request has
  no deadline of its own. None of GitLab, the requests or the signal.

## Proofs

Each safety property is proved from an invariant that the steps preserve, one
lemma per action. The assumptions are the `ASSUME`s of the modules, which TLC
evaluates in the runs, and the hypotheses named below. Hypotheses narrow the
claim to the instance its run has (one worker, nobody deletes) because the
property is false without them, as the violated runs show, or are met by the
values the code has.

**`WorkQueueProofs`**, for every finite set of calls, capacity, percentage and
number of overlapping calls:

* `TypeCorrect`: `TypeOK`, which contains the capacity bound.
* `CrossingIsWarned`: `CrossingWarned` is not inductive, as it speaks of moments
  without a call in flight. The invariant says what holds in between: in a
  crossing that has no line and found the flag clear, the flag is still clear, and
  some call has yet to read the depth or has read it high.
* `OneLineEachCrossing`: `OneLinePerCrossing`. A call that reads the depth during
  a crossing reads it high, so that the calls about to clear the flag only get
  fewer: each line but the first is paid for by one of those that had read a low
  depth before (`late`).
* `BurstIsWarned`: `BurstWarned`, if fewer calls overlap than `WarnAt`
  (103 for 128 and 80%). A flag left set from an earlier burst hides this one
  only while every event in the channel is that of a call that has yet to clear
  it (`BurstInv`), and those are too few to reach the threshold.
* `ImplementsQueue`: `Spec => Queue!Spec` under the mapping stated in
  `WorkQueue` (accepted is `taken \o ch`). It needs that a call that has not
  begun is in neither sequence and that a dropped one was never sent.

**`UpsertNoteProofs`**, for every page size, set of pipelines, choice of failures
and number of calls:

* `TypeCorrect`: `TypeOK`, for any number of workers.
* `ReportPerReplica`: `BareReportPerReplica`, for any finite set of replicas, if
  nobody deletes. Each report without replies has a replica of its own that has
  passed it: one whose call does not stand before the report's page and is not
  about to create (`Owners`). A replica that creates owned none, so that the new
  report can be given to it. `OneReport` is this with one replica. A deletion
  moves reports to pages already read and breaks it (`UpsertPageShift`).
* `UnmarkedNotesUntouched`: `UnmarkedUntouched`, with deletions. The note a call
  is about to edit is an old one, and bears the marker if it still exists.
* `DiscussedReportsLeftAlone`: `DiscussedEarlierLeftAlone`, if nobody deletes. What a
  call is about to edit had no replies when it was listed, and replies stay.
* `NewestReport` and `PostingImplementsBoard`: `NewestReportIsPosted` and the
  safety part of `ImplementsBoard`, for one worker while people comment and
  reply. The reports of one worker stand in line (`LineInv`): only the last may
  be without replies, it is the one a call finds, and after a success it is the
  one posted.

**`BotProofs`** carries these to the service, for any number of notes,
deliveries, queues and restarts. Each step of `Bot` is a step of `UpsertNote`,
or leaves its state alone, or is a crash in the middle of a call:

* `BotTypeCorrect`, `BotReportPerReplica`, `BotDiscussedLeftAlone`: as above, for
  any number of replicas.
* `AnsweredOncePerLifetime`: `AnswersPerLifetime`. What is answered is counted
  against the replicas that have the note in their seen set without having it in
  hand, and against the restarts.
* `QuestionsAnswered`: `AnswerMatchesQuestion`, for any number of replicas. A
  command makes its report a discussed one, which no call that lists it later
  picks, so that only a call that had picked it before can still edit it. Unless
  there was one, the report shows what it showed when the command was written,
  wherever the command waits and whichever replica has it in hand (`QuestionInv`).
* `BotImplementsBoard`, for one replica.
* `NewestShownAtRest`: `NewestDeliveryShown` for one replica without restarts,
  whose requests are not refused. The event accepted last waits behind any number
  of others that are not pipelines, or is in hand, or is shown (`NewestInv`).

**`CommandProofs`**, for any jobs, runs, notes and page sizes and any number of
retries and tasks:

* `EveryStandingJobListed`: `StandingJobsListed`. A job that stands never moves
  to an earlier place, as a retry puts the new attempt in front of all others:
  it is listed or behind the last page read (`JobsAlwaysOK`).
* `CommandsTypeCorrect`: `CommandsTypeOK`; `TasksAlwaysOK` says what each step of
  each kind of task has to work on.
* `NothingHollow`: `NothingPostedHollow`. Each row agrees with the pod of its job
  through any retries (`Genuine`), and only rows measured after the deadline have
  the cause "expired", with which nothing is posted (`HollowInv`).
* `ChartsAlwaysComplete`: `ChartsComplete`; the target of the charts is a job that
  was asked for and has a pod (`TargetInv`).
* `MeasuredTargetsAreFound`: `MeasuredTargetsFound`, if the names of the pipeline's
  jobs differ, as GitLab's do: with two jobs of one name `FindJob` takes the
  newer. A job of the report that still stands was there when the listing began,
  and no other attempt of it can be listed (`NamesInv`, `SeekInv`).

**`AdviceProofs`**, for every quantity, threshold and size of the mebibyte:

* `CPURequestFits`, `CPULimitGrows`, `ThreadsHaveCores`: the roundings of the
  rules, by arithmetic.
* `MemorySettles`: from `RoundUpBounds` the suggested limit is at least 1.5 times
  the peak, and at least 128 bytes; with a ratio of at least 67 percent the rest
  is two multiplications.
* `LazyTrace`: a rule of the engine fires and says the same with any trace, if
  `NeedsTrace` is false.
* `AdviceOfFiringRules`: each piece of advice that `Analyze` returns is that of a
  rule that fires, with its numbers. What is flattened from the rules' answers has
  no other members (`FlattenMembers`).

**`SummaryProofs`**, for any jobs, runs and page sizes and any number of retries
and tasks, proves `SummaryAlwaysCountsOnce`: `SummaryCountsOnce`. It is
about two counts:

* The list has at most as many entries as IDs and retries together. A retry
  while the list is read moves one job behind the page read, so that one of those
  already listed comes again: the invariant (`CountInv`) counts what is listed
  twice and what is yet to come twice against the retries. `OrderInv` says that a
  report takes the list in its order, one row for each entry.
* The total is a sum along the rows (`TotalsSteps`), the property a sum over the
  set of them (`MapThenSumSet`). They agree if no two rows are the same
  (`SumAlong`, `TotalIsSum`), which is the first count without a retry. Sums
  need numbers: `SeriesAssumption` in `PipelineJobs`, that bytes, cores and
  periods are never negative.

**`CalculationsProofs`**:

* `SamplesOnce`: `EverySampleOnce` for every number of columns and every longer
  line. `Column` names the bucket of a sample, the last one that does not begin
  after it (`InItsColumn`), and no bucket begins before the one before it has
  ended (`BucketsOrdered`). None is empty because there are more samples than
  columns, so that the quotients grow strictly.
* `AcceptedIfGenuine`: `FreshAndGenuineAccepted` for every tolerance and any
  clocks: `Fresh` is the distance of the two clocks, and a signature matches only
  if key, ID, timestamp and body are what GitLab signed.
* `CPUAdviceAlwaysFits`, `MemoryAdviceAlwaysSettles` and `LazyLosesNothing`:
  `CPUAdviceFits`, `MemoryAdviceSettles` and `LazyTraceLosesNothing` for the whole
  list of advice, with `AdviceOfFiringRules` from what each rule says. For the
  last one each rule answers the same with and without the trace (`LazyTrace`).
* `WallClockAlwaysSpans`: `WallClockSpans` for any number of jobs. The first n of
  them are covered by what `WallClock` has after n steps (`Covers`): its ends are
  the start of one of them and the finish of one, and no job is outside.
* `ChartAlwaysSpans`: `ChartSpansItsLine` for every line of integers, every width
  and every height of at least two rows. What is drawn is a line of integers
  again (`DownsampleIsLine`: no bucket is empty, and `SumIsInteger`), a line has
  extremes that it reaches (`HasExtremes`), and `Rounded` takes the ends of a
  scale to its ends and what is between to what is between. The grid is then
  `Drawn`, from which the property follows; the pixels go the same way.

**`ServeProofs`**, for any number of requests and any deliveries, queue sizes and
configurations:

* `ServeTypeCorrect` and `ListensReady`: `ServeTypeOK` and `ListensOnlyWhenReady`.
  From `Load` on the configuration has no error (`LifeOK`), no server is on before
  the authenticator is built, and each server that ended has exactly one result in
  the channel or collected (`ResultsOK`).
* `EveryCallCounted` and `EveryWarningCounted`: `CallsCounted` and
  `WarningsCounted`, about the requests that reach the handler; that those refused
  for their size are not counted is part of the first. What each counter holds is
  the number of requests that have passed the point where it is counted, under
  the label they had there (`CountInv`): the bags of the model against sets of
  requests.
* `GaugeCorrect`: `GaugeMatchesUsers`. The lock is held exactly by the request
  that is about to set the gauge, and that one holds the size of the set
  (`GaugeInvariant`).

Every safety and action property of the passing runs is proved, some under the
hypotheses named above. Only
model-checked is every liveness property (`AcceptedServed`, `CallEnds`,
`CommandAnswered`, `PipelineReported`, `TaskEnds`, `StopsWhenTold`), and the
fairness part of the refinements: the prover handles neither `ENABLED` nor
fairness.

## Known limits of the program

The violated runs are where the program does not do what a document or a comment
of it says. Besides, the models show:

* Memory advice may suggest a limit below the present one when the pressure
  ratio is configured below two thirds; `MemoryAdviceSettles` and
  `MemorySettles` say from where on it does not. `NaN` passes both checks of the
  ratios, and then switches throttle marks off and memory advice on.
* The notice that no job could be correlated also stands for a Prometheus that
  failed for every job.
* A reply that arrives after the discussions were listed does not keep the
  report from being edited (`UpsertDiscussed`); `DiscussedEarlierLeftAlone` is
  about the replies there were when the call began, and `AnswerMatchesQuestion`
  about the commands written when no replica was about to edit the report.
* `docs/monitoring.md` 410-412 promises one line per near-full episode, re-armed
  once an enqueue sees the queue back under the threshold. The `Store(false)` of
  that enqueue may come after the next crossing, whose enqueues found the flag of
  the last one still set: an episode without a line. That is possible only if the
  flag stood when the queue crossed the threshold, which `CrossingWarned`
  excepts, and not for a burst from an empty queue (`BurstWarned`).
* `docs/monitoring.md` 45-51 has every delivery to `POST /webhook` counted, with
  413 among the statuses. Fiber refuses a body over its `BodyLimit` before
  `handle` and its deferred `RecordWebhook` run, so that those are counted
  nowhere, as `CallsCounted` says.
* An answer may be about a pipeline that the report above it no longer shows: the
  pipeline is read from the root and the answer is posted requests later, and
  another replica that had listed the report before the command was written may
  edit it in between. `AnswerMatchesQuestion` is what holds for every other
  command, with any number of replicas.
* A command that failed or ran into the deadline is not handled again when it is
  delivered again, as it counts as seen; after a restart, or at another replica,
  one that succeeded is answered again. `AnswersPerLifetime` is the bound.
* Without a measured CPU limit the advice is two threads beside a limit of one
  core.
* Of a pod without CPU, peak or network series these count as 0 and are shown so;
  the dashes that `internal/report/report.go` 194 speaks of are those of requests,
  limits and disk.
* `JobUsage.LowConfidence` is set and logged and nothing shows it, although
  `README.md` 37 and `internal/metrics/source.go` 27 speak of a flag or a marker
  on jobs shorter than two scrapes. As no state depends on it, it is not in the
  model.

## Abstractions and what is not modelled

* One project and one merge request. Events of others only occupy the queue.
* A request takes effect, if at all, before its caller sees it end. A request
  that GitLab carries out after the client has given up is not modelled.
* Signatures cannot be forged; in `Bot` the marker is either there or not, and
  a signed marker is the pipeline it names.
* `Bot` has no deletion of notes, so that a root note's ID names its discussion.
  `UpsertNote` counts as one request in `Reporter`, and `Enqueue` as one step in
  `Serve` and `Bot`; `UpsertNote` and `WorkQueue` have their steps.
* GitLab's job list shifts by what is retried, nothing is deleted from it.
* What `strconv`, `time`, `net/url` and `base64` make of a text is given by
  constants; regular expressions match words.
* Samples and averages are integers: an average is rounded down. Pixels are
  rounded to whole ones, as the PNG does; the SVG prints one decimal.
* fiber is its body limit, the end of each `Listen` and the order of the calls it
  makes; its other answers (404, 405, timeouts) are outside the handler and are
  not modelled.

Not modelled: PromQL, its windows and steps; HTTP, JSON and TLS; which payloads
are terminal pipelines or notes on merge requests beyond the outcome of the
filter; the text, the number formats and the wording of reports, advice and
replies, and of the totals those of CPU and network; axis labels, legends and
the rasterization of charts; `RecordCommand` and `ObserveQuery`, a counter
each; `Register` of new rules, which the program never calls; the Helm chart, the
dashboards and the development scripts, which have no behaviour of the
program.

## Plan

No safety property is left to prove. What is left are weaker hypotheses:

1. `NewestShownAtRest` for restarts, once the property says what a restart may
   lose, and for several replicas, whose events have no common order.
2. `BurstIsWarned` for any number of overlapping calls: what is still
   reported when as many overlap as the threshold.
