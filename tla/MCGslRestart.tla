----------------------------- MODULE MCGslRestart -----------------------------
EXTENDS GslRestart
\* g1 runs on the master alone, the others also on the satellite.
MCNeededBy == [g \in Graph |-> IF g = "g1" THEN {Master} ELSE Proc]
=============================================================================
