----------------------------- MODULE MCGslShmem -----------------------------
(* Small pages: requests of one to MaxFrames frames. *)
EXTENDS GslShmem, TLC

Pages == Permutations(Page)
=============================================================================
