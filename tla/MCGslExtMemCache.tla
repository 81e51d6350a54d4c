--------------------------- MODULE MCGslExtMemCache ---------------------------
EXTENDS GslExtMemCache, TLC

Symmetry == Permutations(DataPaths) \cup Permutations(Handles)
===============================================================================
