----------------------------- MODULE MCGeoFence -----------------------------
(***************************************************************************)
(* GeoFence for TLC: two areas with an object each, a beacon of each kind  *)
(* in the first, one fence there that watches every object and one that    *)
(* watches those of its area, and strengths on both sides of each          *)
(* threshold.                                                              *)
(***************************************************************************)
EXTENDS GeoFence

MCObjects == {"m1", "m2"}
MCBeacons == {"gate", "exit"}
MCAreaOf == [x \in MCObjects \cup MCBeacons |-> IF x = "m2" THEN 2 ELSE 1]
Global == [area |-> 1, is_global_fence |-> TRUE,
           perimeters |-> {"gate"}, fences |-> {"exit"},
           rssi_of_perimeters |-> -80, rssi_of_fences |-> -60]
Local == [Global EXCEPT !.is_global_fence = FALSE, !.perimeters = {"exit"},
                        !.fences = {"gate"}]
OneFence == <<<<Global>>, <<>>>>
TwoFences == <<<<Global, Local>>, <<>>>>
MCRssi == {-90, -70}
=============================================================================
