------------------------------- MODULE MCPartner -------------------------------
(* An instance of PartnerRotation. *)
EXTENDS PartnerRotation, TLC

ProcessSymmetry == Permutations(Processes)

=============================================================================
