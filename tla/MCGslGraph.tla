----------------------------- MODULE MCGslGraph -----------------------------
(* Two handles whose key vectors meet in the device subgraph: g1 selects a
   stream path and may add the bare device, g2 selects the bare device. *)
EXTENDS GslGraph

CONSTANTS g1, g2

MCSgsOf ==
  [k \in GKV |-> SG \cap (IF k = "path" THEN {"stream", "device"} ELSE {"device"})]
MCGkvOf == [g \in Graph |-> IF g = g1 THEN {"path", "dev"} ELSE {"dev"}]
=============================================================================
