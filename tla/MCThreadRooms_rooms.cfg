SPECIFICATION FairSpec
CONSTANTS
  w1 = w1
  w2 = w2
  e1 = e1
  e2 = e2
  ta = ta
  composed = composed
  Composed = {composed}
  Space = Space
  None = None
  Tasks = {w1, w2}
  Emails = {e1, e2}
  Threads = {ta}
  ThreadOf <- OneThread
  MaxFaults = 2
INVARIANTS
  TypeOK
  OneRoomPerThread
  PostBound
  RoomsAreKept
PROPERTIES
  WaitersProceed
CONSTRAINT
  Bounded
CHECK_DEADLOCK FALSE
