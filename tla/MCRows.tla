-------------------------------- MODULE MCRows --------------------------------
(* Rows for TLC. Readings of b1 come late. Those of b2 jump by more than is *)
(* reasonable, between a strength that differs from that of b1 by less and  *)
(* one that differs by more than the tolerance.                             *)
EXTENDS Rows, TLC

CONSTANTS b1, b2

MCStrengths == b1 :> {-50} @@ b2 :> {-53, -60}
MCrssi_threashold == -80
MCMaxDelay == b1 :> 1 @@ b2 :> 0
=============================================================================
