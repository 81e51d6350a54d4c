---------------------------- MODULE MCGslMainGate ----------------------------
(* One client thread with two graphs, and QACT's thread. *)
EXTENDS GslMainGate

CONSTANTS c1, g1, g2

MCOwnerOf == [g \in Graph |-> c1]
=============================================================================
