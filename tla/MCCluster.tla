----------------------------- MODULE MCCluster ------------------------------
(* A small instance of Cluster for TLC. *)
EXTENDS Cluster, TLC

CONSTANTS p1, p2, n1, n2, a1, a2

Interchangeable ==
  Permutations(Procs) \cup Permutations(Nodes) \cup Permutations(Addresses)
=============================================================================
