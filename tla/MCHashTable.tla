---------------------------- MODULE MCHashTable ----------------------------
(***************************************************************************)
(* HashTable for TLC: two workers and the two other threads on one bucket, *)
(* two objects, and as many nodes as let an evicted one be used again.     *)
(* What follows once ht_mutex is taken from its holder is not explored:    *)
(* the properties say nothing of it.                                       *)
(***************************************************************************)
EXTENDS HashTable, TLC

Symmetry == Permutations(Putters) \cup Permutations(Nodes) \cup Permutations(Keys)
NotStolen == ~stolen
=============================================================================
