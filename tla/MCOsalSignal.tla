---------------------------- MODULE MCOsalSignal ----------------------------
(* The threads of a run are model values; the waiter stands for the sender of
   a group of commands, the setters for GPR's thread and the restart callback's. *)
EXTENDS OsalSignal

CONSTANTS w1, s1, s2
=============================================================================
