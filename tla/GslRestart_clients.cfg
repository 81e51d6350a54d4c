SPECIFICATION Spec
CONSTANTS
  Graph = {"g1", "g2"}
  Proc = {"adsp", "sat"}
  Master = "adsp"
  NeededBy <- MCNeededBy
  Tries = 2
  MaxCrash = 1
  Servreg = "servreg"
  Free = "free"
INVARIANTS
  ToldOfWhatIsShut
  SignalsOutliveTheWalk
CHECK_DEADLOCK FALSE
