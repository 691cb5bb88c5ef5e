------------------------------- MODULE MCBot -------------------------------
(* Bot on small instances. *)
EXTENDS Bot, TLC

\* The replicas are interchangeable, and so are the pipelines.
BotSymmetry == Permutations(Workers) \cup Permutations(Pipelines)
=============================================================================
