---------------------------- MODULE MCAreaTable -----------------------------
(* AreaTable for TLC. main starts summary thread number k with the AreaSet *)
(* that begins at index k.                                                 *)
EXTENDS AreaTable, TLC

MCSummarizers == {0, 1}
MCStart == [t \in Summarizers |-> t]
Symmetry == Permutations(Workers)
=============================================================================
