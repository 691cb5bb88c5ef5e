------------------------------- MODULE Report -------------------------------
(***************************************************************************)
(* What a report says (internal/report): its rows, its summary and the     *)
(* notice that stands for both.  A row has its job, the times it ran       *)
(* between, 0 being the zero time, and its usage.                          *)
(***************************************************************************)
EXTENDS Advice, SequencesExt

Ran(row) == row.start # 0 /\ row.finish # 0

\* Mutant: the jobs that never ran count, from the zero time on.
WidenByAll(span, r) ==
    [start |-> IF span.start = 0 \/ r.start < span.start THEN r.start ELSE span.start,
     end |-> IF r.finish > span.end THEN r.finish ELSE span.end]

\* The loop of wallClock: the span that covers one more job
Widen(span, r) ==
    IF ~Ran(r) THEN span
    ELSE [start |-> IF span.start = 0 \/ r.start < span.start THEN r.start ELSE span.start,
          end |-> IF r.finish > span.end THEN r.finish ELSE span.end]

\* wallClock: 0 stands for "not known"
WallClock(rows) ==
    LET span[n \in 0..Len(rows)] ==
            IF n = 0 THEN [start |-> 0, end |-> 0] ELSE Widen(span[n - 1], rows[n])
        all == span[Len(rows)]
    IN  IF all.start = 0 \/ all.end <= all.start THEN 0 ELSE all.end - all.start

\* The loop of totals: of memory, the one resource with a sum and a maximum
AddUsage(t, r) ==
    IF r.usage = NoUsage THEN t
    ELSE [memory |-> t.memory + r.usage.peak,
          peak |-> IF r.usage.peak > t.peak THEN r.usage.peak ELSE t.peak]

Totals(rows) ==
    LET totals[n \in 0..Len(rows)] ==
            IF n = 0 THEN [memory |-> 0, peak |-> 0] ELSE AddUsage(totals[n - 1], rows[n])
    IN  totals[Len(rows)]

\* hasUsage, and Render: jobs ran, and none of them has usage
HasUsage(rows) == \E i \in DOMAIN rows : rows[i].usage # NoUsage
NothingMeasured(ranJobs, rows) == ranJobs > 0 /\ ~HasUsage(rows)

\* cores and optBytes print a dash for 0; throttle marks the ratio.
Optional == {"cpuRequest", "cpuLimit", "memRequest", "memLimit", "diskRead", "diskWrite"}
Dashed(quantity) == quantity = 0
Marked(usage, th) == Below(0, th.throttle) /\ AtMost(th.throttle, usage.throttled)

\* row: "no data", or which cells have a dash and whether there is a mark
Cells(row, th) ==
    IF row.usage = NoUsage THEN [data |-> FALSE, dashed |-> {}, marked |-> FALSE]
    ELSE [data |-> TRUE, dashed |-> {q \in Optional : Dashed(row.usage[q])},
          marked |-> Marked(row.usage, th)]

RenderReport(ranJobs, rows, th) ==
    IF NothingMeasured(ranJobs, rows)
    THEN [notice |-> TRUE, rows |-> <<>>, totals |-> Totals(<<>>), duration |-> 0]
    ELSE [notice |-> FALSE, rows |-> [i \in DOMAIN rows |-> Cells(rows[i], th)],
          totals |-> Totals(rows), duration |-> WallClock(rows)]
=============================================================================
