----------------------------- MODULE MCPktQueue -----------------------------
(* PktQueue for TLC: a ring of three slots, so that it wraps around, fills *)
(* up and holds one packet in every slot; distinct packets show the order. *)
EXTENDS PktQueue
=============================================================================
