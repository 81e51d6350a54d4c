---------------------------- MODULE MCGslDataPath ----------------------------
(* Playback and capture with blocking calls, with and without metadata, capture on a
   processor without shared memory, playback from buffers of the client's own, and a
   graph that does both.  The clients that play with metadata write media formats, too. *)
EXTENDS GslDataPath

Conf(mode, shmem, md) == [mode |-> mode, shmem |-> shmem, md |-> md, formats |-> FALSE]
WithFormats(c) == [c EXCEPT !.formats = TRUE]
None == Conf("NONE", TRUE, FALSE)
Scenario(read, write, faults) ==
  [conf |-> [d \in Dir |-> IF d = "read" THEN read ELSE write], faults |-> faults]

MCSeq == <<
  Scenario(None, WithFormats(Conf("NON_BLOCKING", TRUE, TRUE)), {"SSR"}),
  Scenario(Conf("BLOCKING", TRUE, TRUE), None, {}),
  Scenario(None, Conf("BLOCKING", TRUE, FALSE), {"SEND", "TIMEOUT", "WAIT", "STOP"}),
  Scenario(Conf("BLOCKING", TRUE, FALSE), None, {"SEND", "SSR", "CONFIG", "EARLY", "REORDER"}),
  Scenario(Conf("NON_BLOCKING", FALSE, FALSE), None, {"WAIT", "SSR", "STOP"}),
  Scenario(None, WithFormats(Conf("SHMEM", TRUE, TRUE)), {}),
  Scenario(Conf("SHMEM", TRUE, TRUE), None, {"SSR"}),
  Scenario(Conf("SHMEM", TRUE, FALSE), Conf("SHMEM", TRUE, FALSE), {"SEND"})>>
MCScenarios == {MCSeq[i] : i \in DOMAIN MCSeq}
=============================================================================
