----------------------------- MODULE DropQueue -----------------------------
(***************************************************************************)
(* What the queue between the webhook handlers and the worker promises,    *)
(* with no word about how Enqueue is carried out: a call is either         *)
(* accepted or refused, at once; it is refused only when Size accepted     *)
(* events are waiting; the worker is served in acceptance order, each      *)
(* event once, until it stops.                                             *)
(*                                                                         *)
(* WorkQueue.tla is the implementation and refines this module.            *)
(***************************************************************************)
EXTENDS Naturals, Sequences

CONSTANTS
    Calls,    \* the Enqueue calls, one per webhook delivery
    Size      \* capacity of the buffer, at least 1

VARIABLES
    accepted,   \* every call answered TRUE, in acceptance order
    refused,    \* the calls answered FALSE
    served,     \* how many of accepted the worker has taken
    closed      \* the worker has returned

vars == <<accepted, refused, served, closed>>

Answered(c) == c \in refused \/ \E i \in DOMAIN accepted : accepted[i] = c

Waiting == Len(accepted) - served

Init ==
    /\ accepted = <<>>
    /\ refused = {}
    /\ served = 0
    /\ closed = FALSE

Accept(c) ==
    /\ ~Answered(c)
    /\ Waiting < Size
    /\ accepted' = Append(accepted, c)
    /\ UNCHANGED <<refused, served, closed>>

Refuse(c) ==
    /\ ~Answered(c)
    /\ Waiting = Size
    /\ refused' = refused \cup {c}
    /\ UNCHANGED <<accepted, served, closed>>

Serve ==
    /\ ~closed
    /\ served < Len(accepted)
    /\ served' = served + 1
    /\ UNCHANGED <<accepted, refused, closed>>

Close ==
    /\ closed' = TRUE
    /\ UNCHANGED <<accepted, refused, served>>

Next ==
    \/ \E c \in Calls : Accept(c) \/ Refuse(c)
    \/ Serve
    \/ Close

Spec == Init /\ [][Next]_vars

\* What is waiting is served, for as long as there is a worker.
FairSpec == Spec /\ WF_vars(Serve)
=============================================================================
