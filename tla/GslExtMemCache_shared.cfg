SPECIFICATION Spec
CONSTANTS
  DataPaths = {p, q}
  Handles = {h1, h2, h3}
  NotAllocd = NotAllocd
  NumEntries = 2
  Faults = {"MAP", "UNMAP", "SEND", "EARLY", "RECONFIG"}
  MaxUses = 4
  MaxOut = 2
SYMMETRY Symmetry
INVARIANTS
  MappedOnce
  DoneReportsItsBuffer
  NothingStaysMapped
PROPERTIES
  KeepsMemoryMapped
CHECK_DEADLOCK FALSE
