--------------------------- MODULE MCWriteSuspension ---------------------------
(* Instances of WriteSuspension for TLC. *)
EXTENDS WriteSuspension, TLC

Symmetry == Permutations(Calls) \cup Permutations(Processes)
=============================================================================
