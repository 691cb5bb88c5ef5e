---------------------------- MODULE Calculations ----------------------------
(***************************************************************************)
(* The functions of the bot that are pure: one question, one answer.  What *)
(* the advice says of a job, where a chart puts its line, how long a       *)
(* pipeline took, and which signed deliveries are accepted.                *)
(***************************************************************************)
EXTENDS Chart, Report, WebhookAuth

CONSTANTS
    JobFacts,        \* facts asked about
    ThresholdSets,   \* thresholds asked with
    SampleValues,    \* values of the lines charted
    MaxSamples,      \* bound: samples of a line
    Times,           \* times of jobs; 0 is the zero time
    MaxJobs,         \* bound: jobs of a pipeline
    Dates,           \* timestamps of deliveries, those that are no number included
    Clock            \* the seconds they are received at

ASSUME JobFactsAssumption == JobFacts \subseteq Facts
ASSUME ThresholdsAssumption == ThresholdSets \subseteq Thresholds
ASSUME CalculationBoundsAssumption ==
    /\ SampleValues \subseteq Int /\ Times \subseteq Nat /\ Clock \subseteq Nat
    /\ MaxSamples \in Nat /\ MaxJobs \in Nat

VARIABLES asked, answer
vars == <<asked, answer>>

Nothing == [about |-> "nothing"]
Init == asked = Nothing /\ answer = Nothing

\* internal/reporter/advise.go for one job: facts with their trace or not
AskAdvice ==
    \E f \in JobFacts, th \in ThresholdSets :
        /\ asked' = [about |-> "advice", facts |-> f, th |-> th]
        /\ answer' = [lazy |-> LET trace == IF NeedsTrace(Registry, f, th) THEN f.trace ELSE {}
                               IN  Analyze(Registry, [f EXCEPT !.trace = trace], th),
                      full |-> Analyze(Registry, f, th)]

\* A sample is taken per second.
AskChart ==
    \E n \in 1..MaxSamples : \E v \in [1..n -> SampleValues] :
        /\ asked' = [about |-> "chart", samples |-> v]
        /\ answer' = [grid |-> Grid(v),
                      pixels |-> LET points == [i \in DOMAIN v |-> <<i, v[i]>>]
                                 IN  [i \in DOMAIN v |-> Pixel(points, i, v[i])]]

AskDuration ==
    \E n \in 0..MaxJobs : \E w \in [1..n -> Times \X Times] :
        /\ \A i \in DOMAIN w : w[i][2] # 0 => w[i][1] <= w[i][2]
        /\ asked' = [about |-> "duration", windows |-> w]
        /\ answer' = [duration |-> WallClock([i \in DOMAIN w |-> [start |-> w[i][1], finish |-> w[i][2]]])]

\* GitLab signs with one key, or with two while the token is rotated; the
\* delivery arrives some time later, whole or with another body or date, which
\* may be the same instant in another text, no number or absent.
AskDelivery ==
    \E sent \in Dates \cap DOMAIN Seconds, dated \in Dates, now \in Clock,
            keys \in {<<"old">>, <<"old", "new">>, <<"new">>}, body \in {"event", "other"} :
        LET r == [id |-> "id", ts |-> dated, body |-> body,
                  signatures |-> [i \in DOMAIN keys |-> MAC(keys[i], "id", sent, "event")]]
        IN  /\ asked' = [about |-> "delivery", request |-> r, sent |-> sent, now |-> now]
            /\ answer' = [accepted |-> SignatureMatches("new", now, r)]

Next ==
    /\ asked = Nothing
    /\ AskAdvice \/ AskChart \/ AskDuration \/ AskDelivery

Spec == Init /\ [][Next]_vars

-----------------------------------------------------------------------------
(* Properties *)

\* The advice of the rule of this name, for the facts asked about
Says(rule) == {answer.full[i].says : i \in {j \in DOMAIN answer.full : answer.full[j].rule = rule}}

\* CPU advice is coherent: a request fits its limit, a measured limit of a
\* millicore or more grows, and the threads suggested fit the limit there is
\* and the new one.
CPUAdviceFits ==
    asked.about = "advice" =>
        LET limit == asked.facts.usage.cpuLimit IN
        \A cpu \in Says("cpu-throttle") :
            /\ cpu.request <= cpu.limit
            /\ limit >= 10 => cpu.limit * 10 > limit
            /\ \A java \in Says("java-threads") :
                  limit > 0 => \/ java.threads = 1
                               \/ 10000 * java.threads <= limit /\ 1000 * java.threads <= cpu.limit

\* Followed once, memory advice is enough: with the limit it suggests the
\* same job is no longer under pressure, unless the configured ratio is below
\* two thirds (or NaN); and Kubernetes accepts the request.
MemoryAdviceSettles ==
    asked.about = "advice" =>
        \A memory \in Says("memory-pressure") :
            /\ memory.request <= memory.limit
            /\ asked.th.memory >= 67 =>
                  /\ memory.limit >= asked.facts.usage.memLimit
                  /\ ~UnderPressure([asked.facts EXCEPT !.usage.memLimit = memory.limit], asked.th)

\* Fetching the trace only when a rule asks for it changes no advice.
LazyTraceLosesNothing ==
    asked.about = "advice" => answer.lazy = answer.full

\* Every sample is averaged into exactly one column, and no column is empty.
EverySampleOnce ==
    asked.about = "chart" /\ Len(asked.samples) > Columns =>
        LET len == Len(asked.samples)
            buckets == [i \in 0..(Columns - 1) |-> Bucket(len, Columns, i)]
        IN  /\ \A i \in DOMAIN buckets : buckets[i] # {}
            /\ \A j \in 0..(len - 1) :
                  Cardinality({i \in DOMAIN buckets : j \in buckets[i]}) = 1

\* A chart uses its whole height: a marker in the top and in the bottom row
\* (only in the bottom one if the line is flat), one marker per column, and
\* no gap between the rows of neighbours; the pixels reach both corners and
\* stay between them: all are at the left if there is one sample, and at the
\* bottom if the samples are equal.
ChartSpansItsLine ==
    asked.about = "chart" =>
        LET grid == answer.grid
            columns == {cell[1] : cell \in DOMAIN grid}
            marks == {cell \in DOMAIN grid : grid[cell] = "marker"}
            filled(x, r) == grid[<<x, r>>] # "blank"
            level == \A x \in Range(asked.samples) : x = asked.samples[1]
            flat == Cardinality(Range(Downsample(asked.samples, Columns))) = 1
            xs == {p[1] : p \in Range(answer.pixels)}
            ys == {p[2] : p \in Range(answer.pixels)}
        IN  /\ \A x \in columns : Cardinality({m \in marks : m[1] = x}) = 1
            /\ \E m \in marks : m[2] = Rows - 1
            /\ flat \/ \E m \in marks : m[2] = 0
            /\ \A m, n \in marks : n[1] = m[1] + 1 =>
                  \A r \in 0..(Rows - 1) :
                      (m[2] < r /\ r < n[2]) \/ (n[2] < r /\ r < m[2]) => filled(n[1], r)
            /\ Min(xs) = PadX /\ Max(ys) = PadY + PlotH
            /\ Max(xs) = IF Len(asked.samples) = 1 THEN PadX ELSE PadX + PlotW
            /\ Min(ys) = IF level THEN PadY + PlotH ELSE PadY

\* A pipeline took as long as from the first start to the last finish of the
\* jobs that ran: no job took longer, whatever never ran beside it.
WallClockSpans ==
    asked.about = "duration" =>
        LET ran == {i \in DOMAIN asked.windows : asked.windows[i][1] # 0 /\ asked.windows[i][2] # 0}
        IN  answer.duration =
                IF ran = {} THEN 0
                ELSE Max({asked.windows[i][2] : i \in ran}) - Min({asked.windows[i][1] : i \in ran})

\* A delivery is accepted exactly if it is the one GitLab signed, dated when
\* it was signed, also under the key being rotated in, and no older nor newer
\* than the tolerance.
FreshAndGenuineAccepted ==
    asked.about = "delivery" =>
        LET r == asked.request
            sent == Seconds[asked.sent]
        IN  answer.accepted <=>
                /\ \E i \in DOMAIN r.signatures : r.signatures[i].key = "new"
                /\ r.body = "event" /\ r.ts = asked.sent
                /\ Max({asked.now - sent, sent - asked.now}) <= Tolerance
=============================================================================
