SPECIFICATION FairSpec
CONSTANTS
  Sig = {"grp1", "grp3"}
  Opcode = {"START", "STOP", "CLOSE"}
  GroupOf <- MCGroupOf
  MaxToken = 2
INVARIANTS
  SuccessIsReal
  NothingFreedTwice
  SsrIsReported
  NoPacketLeak
PROPERTY EveryCommandReturns
CHECK_DEADLOCK FALSE
