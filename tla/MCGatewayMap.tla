---------------------------- MODULE MCGatewayMap ----------------------------
(* GatewayMap for TLC: its constants are sets of model values. Workers and  *)
(* gateways are interchangeable where only invariants are checked.          *)
EXTENDS GatewayMap, TLC

Symmetry == Permutations(Workers) \cup Permutations(Gateways)
=============================================================================
