---------------------------- MODULE MCBlueGreen ----------------------------
(* An instance of BlueGreen for TLC.                                       *)
EXTENDS BlueGreen, FiniteSets, TLC

AllScripts == DOMAIN Program

(* the defaults, and both settings the other way round *)
MCSettings == {[auto |-> TRUE, verify |-> FALSE], [auto |-> FALSE, verify |-> TRUE]}

Ran == {o \in Operators : cmd[o].script # "none"}

(* One operator runs four scripts, or two run one each after the other, or    *)
(* three guarded ones at the same time while nothing fails.  A script is      *)
(* killed, or Nginx fails.                                                    *)
Meeting ==
    /\ Cardinality(Ran) > 1 => used.commands <= IF used.overlapped THEN 3 ELSE 2
    /\ used.overlapped => NoKills /\ NoFaults /\ ~used.unguarded
    /\ NoKills \/ used.faults = 0

OperatorSymmetry == Permutations(Operators)
=============================================================================
