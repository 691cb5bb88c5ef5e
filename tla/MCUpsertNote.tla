---------------------------- MODULE MCUpsertNote ----------------------------
(* UpsertNote on small instances. *)
EXTENDS UpsertNote, TLC

\* The pipelines are interchangeable: no constant and no property names one.
PipelineSymmetry == Permutations(Pipelines)
=============================================================================
