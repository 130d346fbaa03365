------------------------------ MODULE MCCluster ------------------------------
(* Cluster for TLC: symmetric servers, and the transactions clients commit. *)
EXTENDS ClusterRefinement, TLC

CONSTANTS k1, v1, v2

\* Set, overwrite and delete one key.
SetSetDelete ==
  << [k \in {k1} |-> v1], [k \in {k1} |-> v2], [k \in {k1} |-> NoValue] >>

SetSet == << [k \in {k1} |-> v1], [k \in {k1} |-> v2] >>

Symmetry == Permutations(Server)
=============================================================================
