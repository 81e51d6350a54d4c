SPECIFICATION FairSpec
CONSTANTS
  Graph = {"g2"}
  Proc = {"adsp", "sat"}
  Master = "adsp"
  NeededBy <- MCNeededBy
  Tries = 2
  MaxCrash = 2
  Servreg = "servreg"
  Free = "free"
INVARIANTS
  LostGraphsAreShut
  RestartIsRemembered
PROPERTY WaitersAreTold
CHECK_DEADLOCK FALSE
