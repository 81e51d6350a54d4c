----------------------------- MODULE SharedHeap -----------------------------
(***************************************************************************)
(* What gsl_shmem_mgr.c promises the parts of GSL that ask it for memory:  *)
(* every allocation is an extent of frames that no other allocation has,   *)
(* and it stays that extent until its owner gives it back.                 *)
(***************************************************************************)
EXTENDS Integers

CONSTANTS Page, MaxFrames

Extent == [page : Page, base : 0 .. MaxFrames - 1, size : 1 .. MaxFrames]

VARIABLE held      \* the extents that have an owner

Apart(e, f) ==
  e.page = f.page => e.base + e.size <= f.base \/ f.base + f.size <= e.base

Init == held = {}

Give == \E e \in Extent :
  /\ \A f \in held : Apart(e, f)
  /\ held' = held \cup {e}

TakeBack == \E e \in held : held' = held \ {e}

Next == Give \/ TakeBack
Spec == Init /\ [][Next]_held
=============================================================================
