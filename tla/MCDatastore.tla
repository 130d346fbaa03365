----------------------------- MODULE MCDatastore -----------------------------
(* Datastore for TLC: symmetric clients and values. *)
EXTENDS Datastore, TLC

Symmetry == Permutations(Client) \cup Permutations(Key)
=============================================================================
