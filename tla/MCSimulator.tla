---------------------------- MODULE MCSimulator ----------------------------
(***************************************************************************)
(* Small instances of Simulator: up to three processes with a priority and *)
(* a burst each.                                                           *)
(***************************************************************************)
EXTENDS Simulator

CONSTANTS p1, p2, p3

MCpriority == [p \in Proc |-> IF p = p1 THEN 1 ELSE 2]
MCburst == [p \in Proc |-> IF p = p3 THEN 1 ELSE 2]

CoreSymmetry == Permutations(Cores)
=============================================================================
