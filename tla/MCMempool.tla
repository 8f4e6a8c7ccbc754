----------------------------- MODULE MCMempool -----------------------------
(* Mempool for TLC: blocks of three slots of four bytes, at addresses whose*)
(* distances are and are not multiples of the size of a slot.              *)
EXTENDS Mempool

MCBases == {8, 20, 34, 46}
=============================================================================
