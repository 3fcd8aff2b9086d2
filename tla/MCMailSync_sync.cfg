SPECIFICATION FairSpec
CONSTANTS
  Loop = Loop
  c1 = c1
  Commands = {c1}
  NoToken = NoToken
  NumMails = 3
  NumOld = 2
  SyncLimit = 1
  Windowed = TRUE
  MaxTicks = 1
  MaxFaults = 1
INVARIANTS
  TypeOK
  NoMailPassed
PROPERTY
  MailIsBridged
CHECK_DEADLOCK FALSE
