------------------------------ MODULE MCCluster ------------------------------
(***************************************************************************)
(* Instances of Cluster for TLC.                                           *)
(***************************************************************************)
EXTENDS ClusterInvariant, TLC

CONSTANTS n1, n2, n3

Symmetry == Permutations(Server)
=============================================================================
