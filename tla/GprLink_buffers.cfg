SPECIFICATION FairSpec
CONSTANTS
  Client = {c1, c2}
  Packet = {p1}
  Buffer = {b1, b2}
  MaxCalls = 2
  MaxEvents = 1
  None = None
INVARIANTS
  OneOwner
  AnswersAreTaken
PROPERTIES
  MessagesAreRead
  LinkStops
CHECK_DEADLOCK FALSE
