SPECIFICATION FairSpec
CONSTANTS
  g1 = g1
  g2 = g2
  Free = Free
  MaxRefs = 1
  Graph = {g1, g2}
  GKV = {"path", "dev"}
  SG = {"stream", "device"}
  SgsOf <- MCSgsOf
  GkvOf <- MCGkvOf
  Matching = {"device"}
  Faults = {"OPEN", "SET_CFG", "CLOSE", "START", "STOP"}
PROPERTIES
  EveryHandleOnItsOwn
  LocksAreReleased
