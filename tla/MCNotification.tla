---------------------------- MODULE MCNotification ----------------------------
(* Notification for TLC: a monitor of packets and one of locations, and     *)
(* records of which two fit into the buffer, or one.                        *)
EXTENDS Notification, TLC

CONSTANTS o1, o2

MCmonitor_types == <<"panic", "location">>
MCmonitor_type == o1 :> {"panic", "location"} @@ o2 :> {"panic"}
MCrecord_len == o1 :> 1 @@ o2 :> 2
=============================================================================
