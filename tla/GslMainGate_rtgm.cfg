SPECIFICATION FairSpec
CONSTANTS
  c1 = c1
  g1 = g1
  g2 = g2
  Rtc = Rtc
  Free = Free
  NoGraph = NoGraph
  Client = {c1}
  Graph = {g1, g2}
  OwnerOf <- MCOwnerOf
  Faults = {"STOP", "PREPARE", "CHANGE", "START"}
  MaxPrepared = 2
  MaxInProg = 3
  MaxListed = 4
INVARIANTS
  RtgmExcludesClient
  RestartedAfterRtgm
PROPERTY BlockedClientGoesOn
