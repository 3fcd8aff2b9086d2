SPECIFICATION FairSpec
CONSTANTS
  s1 = s1
  s2 = s2
  Slots = {s1, s2}
  NoSlot = NoSlot
  NumTxns = 2
  NumEvents = 2
  Messages <- MessagesAndReaction
  MaxFaults = 2
  MaxTimeouts = 2
  MaxCrashes = 1
INVARIANTS
  TypeOK
  HandledOncePerRelease
  EventsInOrder
  AckedMeansHandled
PROPERTY
  StreamAdvances
CHECK_DEADLOCK FALSE
