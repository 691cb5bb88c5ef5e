----------------------------- MODULE WorkQueue -----------------------------
(***************************************************************************)
(* cmd/bot/serve.go, type queue and the receiving side of worker: the      *)
(* bounded in-memory channel between the HTTP handlers (many goroutines)   *)
(* and the one worker goroutine.                                           *)
(*                                                                         *)
(* Enqueue takes no lock.  It is three shared-memory operations -- the     *)
(* channel send, the read of len(q.ch), and the compare-and-swap or store  *)
(* on q.warned -- and other handlers and the worker run between any two of *)
(* them.  Each is an action here.                                          *)
(***************************************************************************)
EXTENDS Naturals, Sequences, FiniteSets

CONSTANTS
    Calls,          \* Enqueue calls, one per delivery, numbered as they begin
    Size,           \* capacity of the channel (queueSize, 128 in the code)
    WarnPercent,    \* queueWarnPercent (80 in the code)
    MaxInFlight     \* bound: Enqueue calls running at the same time

ASSUME CallsAssumption == Calls \subseteq Nat /\ IsFiniteSet(Calls)
ASSUME SizeAssumption == Size \in Nat \ {0}
ASSUME WarnPercentAssumption == WarnPercent \in 1..100
ASSUME MaxInFlightAssumption == MaxInFlight \in Nat \ {0}

\* The percentage rounded up: the first depth at or above it.
WarnAt == (Size * WarnPercent + 99) \div 100

VARIABLES
    ch,         \* q.ch: the buffered events
    warned,     \* q.warned
    pc,         \* where each Enqueue call is
    worker,     \* where the worker loop is
    taken,      \* every event received by the worker, in order
    cancelled,  \* ctx of serve is done (SIGINT or SIGTERM)
    warnings    \* history: the "nearly full" lines, and what they answer to

vars == <<ch, warned, pc, worker, taken, cancelled, warnings>>

\* burst: a line was logged since the channel was last empty.
\* Of the crossing, from the send that takes the depth to WarnAt: crossing, the
\* lines logged since; standing, whether warned was set by then; late, how many
\* calls had read a low depth and not yet cleared warned.
Warnings ==
    [burst : BOOLEAN, crossing : Nat, standing : BOOLEAN, late : Nat]

\* "sent", "high" and "low" are the points inside Enqueue; high and low are
\* the two arms of the switch on the depth read.
InEnqueue == {"sent", "high", "low"}
InFlight == {c \in Calls : pc[c] \in InEnqueue}
Low == {c \in Calls : pc[c] = "low"}

TypeOK ==
    /\ ch \in Seq(Calls)
    /\ Len(ch) <= Size
    /\ warned \in BOOLEAN
    /\ pc \in [Calls -> {"ready", "accepted", "dropped"} \cup InEnqueue]
    /\ worker \in {"waiting", "busy", "stopped"}
    /\ taken \in Seq(Calls)
    /\ cancelled \in BOOLEAN
    /\ warnings \in Warnings

Init ==
    /\ ch = <<>>
    /\ warned = FALSE
    /\ pc = [c \in Calls |-> "ready"]
    /\ worker = "waiting"
    /\ taken = <<>>
    /\ cancelled = FALSE
    /\ warnings = [burst |-> FALSE, crossing |-> 0, standing |-> FALSE, late |-> 0]

-----------------------------------------------------------------------------
(* Enqueue *)

\* The history of a send or a receive: a burst ends when the channel is
\* empty, a crossing begins and ends where the depth passes WarnAt.
Rises == Len(ch) < WarnAt /\ Len(ch') >= WarnAt
Falls == Len(ch) >= WarnAt /\ Len(ch') < WarnAt

DepthChanges ==
    warnings' = [warnings EXCEPT
        !.burst = @ /\ ch' # <<>>,
        !.crossing = IF Rises \/ Falls THEN 0 ELSE @,
        !.standing = IF Rises \/ Falls THEN Rises /\ warned ELSE @,
        !.late = IF Rises THEN Cardinality(Low) ELSE IF Falls THEN 0 ELSE @]

Begin(c) ==
    /\ pc[c] = "ready"
    /\ \A d \in Calls : d < c => pc[d] # "ready"
    /\ Cardinality(InFlight) < MaxInFlight

\* Mutant: the send does not look at the capacity.
SendUnbounded(c) ==
    /\ Begin(c)
    /\ ch' = Append(ch, c)
    /\ pc' = [pc EXCEPT ![c] = "sent"]
    /\ DepthChanges
    /\ UNCHANGED <<warned, worker, taken, cancelled>>

\* select { case q.ch <- ev: ... }
Send(c) ==
    /\ Begin(c)
    /\ Len(ch) < Size
    /\ ch' = Append(ch, c)
    /\ pc' = [pc EXCEPT ![c] = "sent"]
    /\ DepthChanges
    /\ UNCHANGED <<warned, worker, taken, cancelled>>

\* ... default: return false
Drop(c) ==
    /\ Begin(c)
    /\ Len(ch) = Size
    /\ pc' = [pc EXCEPT ![c] = "dropped"]
    /\ UNCHANGED <<ch, warned, worker, taken, cancelled, warnings>>

DepthRead(c, high) ==
    /\ pc' = [pc EXCEPT ![c] = IF high THEN "high" ELSE "low"]
    /\ UNCHANGED <<ch, warned, worker, taken, cancelled, warnings>>

\* Mutant: the threshold is the first depth that does not warn.
ReadDepthAbove(c) ==
    /\ pc[c] = "sent"
    /\ DepthRead(c, Len(ch) > WarnAt)

\* depth := len(q.ch), some time after the send
ReadDepth(c) ==
    /\ pc[c] = "sent"
    /\ DepthRead(c, Len(ch) >= WarnAt)

Line == [warnings EXCEPT !.burst = TRUE, !.crossing = @ + 1]

\* Mutant: a Store in place of the compare-and-swap, one line per event.
WarnAlways(c) ==
    /\ pc[c] = "high"
    /\ pc' = [pc EXCEPT ![c] = "accepted"]
    /\ warned' = TRUE
    /\ warnings' = Line
    /\ UNCHANGED <<ch, worker, taken, cancelled>>

\* q.warned.CompareAndSwap(false, true), which logs when it succeeds
WarnOnce(c) ==
    /\ pc[c] = "high"
    /\ pc' = [pc EXCEPT ![c] = "accepted"]
    /\ warned' = TRUE
    /\ warnings' = IF warned THEN warnings ELSE Line
    /\ UNCHANGED <<ch, worker, taken, cancelled>>

\* Mutant: the warning is never re-armed.
NeverCleared(c) ==
    /\ pc[c] = "low"
    /\ pc' = [pc EXCEPT ![c] = "accepted"]
    /\ UNCHANGED <<ch, warned, worker, taken, cancelled, warnings>>

\* Mutant: the low arm returns FALSE for an event it has sent.
ClearThenRefuse(c) ==
    /\ pc[c] = "low"
    /\ pc' = [pc EXCEPT ![c] = "dropped"]
    /\ warned' = FALSE
    /\ UNCHANGED <<ch, worker, taken, cancelled, warnings>>

\* q.warned.Store(false)
ClearWarned(c) ==
    /\ pc[c] = "low"
    /\ pc' = [pc EXCEPT ![c] = "accepted"]
    /\ warned' = FALSE
    /\ UNCHANGED <<ch, worker, taken, cancelled, warnings>>

Enqueue(c) == Send(c) \/ Drop(c) \/ ReadDepth(c) \/ WarnOnce(c) \/ ClearWarned(c)

-----------------------------------------------------------------------------
(* The worker loop: what it does with an event is elsewhere (Bot.tla). *)

\* case ev := <-q.ch; still possible once ctx is done, the select is random
Receive ==
    /\ worker = "waiting"
    /\ ch # <<>>
    /\ taken' = Append(taken, Head(ch))
    /\ ch' = Tail(ch)
    /\ worker' = "busy"
    /\ DepthChanges
    /\ UNCHANGED <<warned, pc, cancelled>>

\* Mutant: the worker returns after its first event instead of looping.
FinishForGood ==
    /\ worker = "busy"
    /\ worker' = "stopped"
    /\ UNCHANGED <<ch, warned, pc, taken, cancelled, warnings>>

\* process or processNote has returned; both are bounded by processTimeout
Finish ==
    /\ worker = "busy"
    /\ worker' = "waiting"
    /\ UNCHANGED <<ch, warned, pc, taken, cancelled, warnings>>

\* case <-ctx.Done()
Stop ==
    /\ worker = "waiting"
    /\ cancelled
    /\ worker' = "stopped"
    /\ UNCHANGED <<ch, warned, pc, taken, cancelled, warnings>>

Cancel ==
    /\ ~cancelled
    /\ cancelled' = TRUE
    /\ UNCHANGED <<ch, warned, pc, worker, taken, warnings>>

Next ==
    \/ \E c \in Calls : Enqueue(c)
    \/ Receive
    \/ Finish
    \/ Stop
    \/ Cancel

Spec == Init /\ [][Next]_vars

\* The worker goroutine is scheduled and every event it handles ends (a
\* two-minute timeout); a handler that has started Enqueue never blocks in
\* it.  Nobody promises that a delivery arrives or that the process is
\* stopped, and of a select with both cases ready either may win.
Fairness ==
    /\ WF_vars(Receive)
    /\ WF_vars(Finish)
    /\ \A c \in Calls : WF_vars(ReadDepth(c) \/ WarnOnce(c) \/ ClearWarned(c))

FairSpec == Spec /\ Fairness

-----------------------------------------------------------------------------
(* Properties *)

\* At rest at or above the threshold, the crossing that led there has been
\* reported, unless warned still stood from an earlier one when it began.
\* Whichever of the overlapping calls reads the depth, and however much the
\* worker drains meanwhile, one of them must find it high and the flag clear.
\* (serve.go: Enqueue warns when drops are close.)
CrossingWarned ==
    Len(ch) >= WarnAt /\ InFlight = {} => warnings.crossing > 0 \/ warnings.standing

\* serve.go, the comment on warned: a queue hovering above the threshold logs
\* once per crossing, and "racing enqueues may cost an extra line": one for
\* each call that had read a low depth before the crossing and clears warned
\* during it, and none for whatever else is sent and drained above.
OneLinePerCrossing ==
    Len(ch) >= WarnAt =>
        warnings.crossing <= warnings.late + (IF warnings.standing THEN 0 ELSE 1)

\* docs/monitoring.md: the warning "fires from inside the enqueue path, so it
\* cannot miss a burst".  So it is for a burst that starts from an empty
\* channel, as long as fewer than WarnAt enqueues overlap: at or above the
\* threshold at rest, a line has been logged since the channel was last empty,
\* although every Store(FALSE) and every compare-and-swap may be late.
BurstWarned ==
    Len(ch) >= WarnAt /\ InFlight = {} => warnings.burst

\* A delivery answered 200 reaches the worker, unless the process is told to
\* stop first: nothing in the queue outlives it.
AcceptedServed ==
    \A c \in Calls :
        pc[c] = "accepted" ~> (\E i \in DOMAIN taken : taken[i] = c) \/ cancelled

\* The lock-free Enqueue and the channel implement the bounded queue that
\* refuses only when full and serves what it accepted once, in order, for as
\* long as there is a worker.
Queue == INSTANCE DropQueue WITH
    accepted <- taken \o ch,
    refused <- {c \in Calls : pc[c] = "dropped"},
    served <- Len(taken),
    closed <- worker = "stopped"

ImplementsDropQueue == Queue!FairSpec
=============================================================================
