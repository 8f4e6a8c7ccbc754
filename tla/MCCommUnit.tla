----------------------------- MODULE MCCommUnit -----------------------------
(* CommUnit for TLC: four of the server's lists, registered out of priority*)
(* order as in main, one of each kind that differs in what happens to its  *)
(* nodes.                                                                  *)
EXTENDS CommUnit, TLC

MCRegistered == <<"data_receive", "Geo_fence_receive", "NSI_send", "NSI_receive">>
MCPriority ==
  [l \in Lists |-> CASE l = "Geo_fence_receive" -> "critical"
                     [] l = "data_receive" -> "normal"
                     [] OTHER -> "high"]
MCReceived == Lists \ {"NSI_send"}
MCSuccessor == [l \in Lists |-> IF l = "NSI_receive" THEN "NSI_send" ELSE "free"]

Symmetry == Permutations(Nodes)
=============================================================================
