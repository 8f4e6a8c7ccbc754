------------------------------ MODULE MCDbPool ------------------------------
(* DbPool for TLC: the clients are interchangeable.                        *)
EXTENDS DbPool, TLC

Symmetry == Permutations(Clients)
=============================================================================
