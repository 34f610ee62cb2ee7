------------------------------ MODULE MCPaxos ------------------------------
(***************************************************************************)
(* Instances of Paxos for TLC.                                             *)
(***************************************************************************)
EXTENDS PaxosInvariant, TLC

NoOwner == [s \in Slot |-> Nobody]
Owner1 == [s \in Slot |-> IF s = 0 THEN 1 ELSE Nobody]
Symmetry == Permutations(Member)
=============================================================================
