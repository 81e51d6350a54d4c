---------------------------- MODULE MappedMemory ----------------------------
(***************************************************************************)
(* What the external memory cache of the data paths promises its clients:  *)
(* the memory of a buffer is mapped on the DSP before the buffer is sent,  *)
(* and it is not unmapped while a buffer in it is with the DSP.            *)
(***************************************************************************)
EXTENDS Naturals

CONSTANT Handles \* the client's allocations

VARIABLES
  mapped, \* those mapped on the DSP
  out     \* [Handles -> Nat]: how many buffers in each are with the DSP

Init == mapped = {} /\ out = [h \in Handles |-> 0]

Map(h) == h \notin mapped /\ mapped' = mapped \cup {h} /\ UNCHANGED out

Unmap(S) ==
  /\ S # {} /\ S \subseteq mapped /\ \A h \in S : out[h] = 0
  /\ mapped' = mapped \ S /\ UNCHANGED out

Send(h) == h \in mapped /\ out' = [out EXCEPT ![h] = @ + 1] /\ UNCHANGED mapped

\* Buffers come back one by one, or all those of a graph that is closed.
Return ==
  /\ out' \in [Handles -> Nat] /\ \A h \in Handles : out'[h] <= out[h]
  /\ UNCHANGED mapped

Next ==
  \/ \E h \in Handles : Map(h) \/ Send(h)
  \/ \E S \in SUBSET Handles : Unmap(S)
  \/ Return

Spec == Init /\ [][Next]_<<mapped, out>>
=============================================================================
