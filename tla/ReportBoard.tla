---------------------------- MODULE ReportBoard ----------------------------
(***************************************************************************)
(* What posting reports on one merge request promises to its readers: each *)
(* report has its place among the discussions, only the last report ever   *)
(* changes, and a new one is added, behind the others, only when there is  *)
(* none or the last is under discussion.                                   *)
(*                                                                         *)
(* UpsertNote.tla with a single worker, and nobody deleting notes,         *)
(* implements it.                                                          *)
(***************************************************************************)
EXTENDS Naturals

CONSTANTS
    Pipelines     \* the pipelines whose reports are posted

VARIABLES
    reports,      \* the places of the reports, and the pipeline each shows
    discussed     \* the last report has replies

vars == <<reports, discussed>>

Init ==
    /\ reports = [n \in {} |-> 0]
    /\ discussed = FALSE

Last(n) == n \in DOMAIN reports /\ \A m \in DOMAIN reports : m <= n

\* The running report is brought up to date.  Someone may have replied a
\* moment ago: the edit is not withheld for that.
Edit(p) ==
    /\ \E n \in DOMAIN reports : Last(n) /\ reports' = [reports EXCEPT ![n] = p]
    /\ UNCHANGED discussed

Add(p) ==
    /\ DOMAIN reports = {} \/ discussed
    /\ \E n \in DOMAIN reports' :
          /\ \A m \in DOMAIN reports : m < n
          /\ reports' = [m \in DOMAIN reports \cup {n} |-> IF m = n THEN p ELSE reports[m]]
    /\ discussed' = FALSE

Discuss ==
    /\ DOMAIN reports # {}
    /\ discussed' = TRUE
    /\ UNCHANGED reports

Next == Discuss \/ \E p \in Pipelines : Edit(p) \/ Add(p)

Spec == Init /\ [][Next]_vars
=============================================================================
