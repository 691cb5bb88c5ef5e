---------------------------- MODULE MCWorkQueue ----------------------------
(* WorkQueue on a small instance.  The calls differ only in the order in    *)
(* which they begin, which their numbers say.                              *)
EXTENDS WorkQueue, TLC
=============================================================================
