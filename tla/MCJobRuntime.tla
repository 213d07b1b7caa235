---------------------------- MODULE MCJobRuntime ----------------------------
(* Instances of JobRuntime for TLC.  Callers are interchangeable, and so   *)
(* are workers; the reduction is used for safety only.                     *)
EXTENDS JobRuntime, TLC

Interchangeable == Permutations(Callers) \cup Permutations(Workers)
=============================================================================
