SPECIFICATION FairSpec
CONSTANTS
  m1 = m1
  m2 = m2
  r1 = r1
  u1 = u1
  Msgs = {m1, m2}
  Rooms = {r1}
  Users = {u1}
  RoomOf <- OneRoom
  OwnerOf <- OneOwner
  Gestures = {}
  NoMsg = NoMsg
  NoUser = NoUser
  MaxAttempts = 2
  BatchLimit = 1
  MaxEdits = 0
  MaxFaults = 0
PROPERTY
  OutboxCloses
