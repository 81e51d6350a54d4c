SPECIFICATION FairSpec
CONSTANTS
  NumBuffs = 2
  Scenarios <- MCScenarios
  MaxRetries = 3
  MaxChunks = 2
  MaxFaults = 1
INVARIANTS
  GslKeepsOff
  BuffersComeBack
  
PROPERTIES
  ControlEnds
CHECK_DEADLOCK FALSE
