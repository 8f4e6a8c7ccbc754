---------------------------- MODULE MCThreadPool ----------------------------
(***************************************************************************)
(* ThreadPool for TLC.  The workers and the jobs are interchangeable:      *)
(* symmetric where only an invariant is checked.                           *)
(***************************************************************************)
EXTENDS ThreadPool, TLC

Symmetry == Permutations(Workers) \cup Permutations(Jobs)
=============================================================================
