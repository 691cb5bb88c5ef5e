------------------------------- MODULE Advice -------------------------------
(***************************************************************************)
(* The advice engine and its four rules (internal/advice): pure functions  *)
(* of the facts of one job.                                                *)
(*                                                                         *)
(* CPU quantities are in tenths of a millicore, one digit finer than what  *)
(* the rules round to; memory is in bytes, of which a mebibyte has MiB;    *)
(* ratios are in percent, durations in minutes.  A quantity whose series   *)
(* is absent is 0, as in the code.  A job's trace is the set of the build  *)
(* tools whose pattern matches it.                                         *)
(***************************************************************************)
EXTENDS Integers, SequencesExt

CONSTANT
    MiB              \* bytes in a mebibyte (1048576; scaled down for TLC)

ASSUME MiBAssumption == MiB \in Nat \ {0}

\* strconv.ParseFloat accepts "NaN", and every comparison with it is false.
NaN == -1
Below(x, y) == x # NaN /\ y # NaN /\ x < y
AtMost(x, y) == x # NaN /\ y # NaN /\ x <= y

Ratios == Nat \cup {NaN}
Thresholds == [throttle : Ratios, longJob : Nat, memory : Ratios]

Usage == [cpuRequest : Nat, cpuLimit : Nat, throttled : Nat,
          peak : Nat, memRequest : Nat, memLimit : Nat, diskRead : Nat, diskWrite : Nat]
NoUsage == [none |-> TRUE]       \* a nil *metrics.JobUsage

BuildTools == <<"Maven", "Gradle", "Java">>
Facts == [name : STRING, duration : Nat, usage : Usage \cup {NoUsage},
          trace : SUBSET {"Maven", "Gradle", "Java"}]

-----------------------------------------------------------------------------
(* Selecting the rules: New *)

Registry == <<"cpu-throttle", "java-threads", "long-job", "memory-pressure">>

Unknown(enabled) ==
    SelectSeq(enabled, LAMBDA n : \A i \in DOMAIN Registry : Registry[i] # n)

\* An empty selection is every rule; the first unknown name is the error.
New(enabled) ==
    CASE enabled = <<>> -> [error |-> "", rules |-> Registry]
      [] Unknown(enabled) # <<>> -> [error |-> Head(Unknown(enabled)), rules |-> <<>>]
      [] OTHER -> [error |-> "",
                   rules |-> SelectSeq(Registry, LAMBDA r : \E i \in DOMAIN enabled : enabled[i] = r)]

-----------------------------------------------------------------------------
(* The rules *)

Smaller(a, b) == IF a < b THEN a ELSE b
RoundUp(n, step) == ((n + step - 1) \div step) * step

Throttled(f, th) ==
    /\ f.usage # NoUsage
    /\ Below(0, th.throttle)
    /\ AtMost(th.throttle, f.usage.throttled)

\* detectBuildTool: the most specific tool wins
DetectBuildTool(trace) ==
    LET found == SelectSeq(BuildTools, LAMBDA t : t \in trace)
    IN  IF found = <<>> THEN "none" ELSE Head(found)

\* In millicores: twice the limit, rounded to a millicore, then up to 100.
SuggestedCPULimit(limit) ==
    IF limit <= 0 THEN 1000 ELSE RoundUp((2 * limit + 5) \div 10, 100)

\* Mutant: the request is not clamped to the limit.
SuggestedCPURequestUnclamped(request, limit) ==
    IF request <= 0 THEN SuggestedCPULimit(limit) ELSE (request + 5) \div 10

SuggestedCPURequest(request, limit) ==
    IF request <= 0 THEN SuggestedCPULimit(limit)
    ELSE Smaller((request + 5) \div 10, SuggestedCPULimit(limit))

\* Whole cores of the limit, at least 1; 2 when no limit is known.
ThreadHint(limit) ==
    CASE limit <= 0 -> 2
      [] limit \div 10000 >= 1 -> limit \div 10000
      [] OTHER -> 1

\* Mutant: the headroom is left out.
SuggestedMemoryBare(peak) == RoundUp(peak, 128 * MiB)

\* The next multiple of 128 MiB above 1.5 times the peak.
SuggestedMemory(peak) == RoundUp((peak * 3) \div 2, 128 * MiB)

SuggestedMemoryRequest(request, peak, limit) ==
    Smaller(IF request = 0 THEN peak ELSE request, limit)

\* Written as the early returns of Check, which NaN passes.
UnderPressure(f, th) ==
    /\ f.usage # NoUsage
    /\ f.usage.memLimit # 0
    /\ ~AtMost(th.memory, 0)
    /\ ~(th.memory # NaN /\ 100 * f.usage.peak < th.memory * f.usage.memLimit)

Fires(rule, f, th) ==
    CASE rule = "cpu-throttle" -> Throttled(f, th)
      [] rule = "java-threads" -> Throttled(f, th) /\ DetectBuildTool(f.trace) # "none"
      [] rule = "long-job" -> th.longJob > 0 /\ f.duration > th.longJob
      [] rule = "memory-pressure" -> UnderPressure(f, th)

\* What the body of each rule's advice recommends
CPUThrottleSays(u) ==
    [request |-> SuggestedCPURequest(u.cpuRequest, u.cpuLimit),
     limit |-> SuggestedCPULimit(u.cpuLimit)]
JavaThreadsSays(f) ==
    [tool |-> DetectBuildTool(f.trace), threads |-> ThreadHint(f.usage.cpuLimit)]
LongJobSays(f) == [duration |-> f.duration]
MemoryPressureSays(u) ==
    LET limit == SuggestedMemory(u.peak) IN
    [request |-> SuggestedMemoryRequest(u.memRequest, u.peak, limit), limit |-> limit]

Numbers(rule, f) ==
    CASE rule = "cpu-throttle" -> CPUThrottleSays(f.usage)
      [] rule = "java-threads" -> JavaThreadsSays(f)
      [] rule = "long-job" -> LongJobSays(f)
      [] rule = "memory-pressure" -> MemoryPressureSays(f.usage)

-----------------------------------------------------------------------------
(* The engine *)

\* Mutant: the trace is wanted only above the threshold.
NeedsTraceAbove(rules, f, th) ==
    /\ \E i \in DOMAIN rules : rules[i] = "java-threads"
    /\ Throttled(f, th)
    /\ f.usage.throttled > th.throttle

\* java-threads is the only rule that consumes the trace.
NeedsTrace(rules, f, th) ==
    (\E i \in DOMAIN rules : rules[i] = "java-threads") /\ Throttled(f, th)

\* A rule's Check: no advice, or one piece of it
Check(rule, f, th) ==
    IF Fires(rule, f, th)
    THEN <<[job |-> f.name, rule |-> rule, says |-> Numbers(rule, f)]>>
    ELSE <<>>

Analyze(rules, f, th) == FlattenSeq([i \in DOMAIN rules |-> Check(rules[i], f, th)])

\* advice.Render: the advice under one heading per job, in order of first
\* appearance, or the clean message; every rule's advice names a job.
Clean == <<>>
JobOrder(all) ==
    LET first(i) == \A j \in 1..(i - 1) : all[j].job # all[i].job
        firsts == SelectSeq([i \in DOMAIN all |-> i], first)
    IN  [i \in DOMAIN firsts |-> all[firsts[i]].job]
RenderAdvice(all) ==
    [i \in DOMAIN JobOrder(all) |->
        [heading |-> JobOrder(all)[i],
         advice |-> SelectSeq(all, LAMBDA a : a.job = JobOrder(all)[i])]]
=============================================================================
