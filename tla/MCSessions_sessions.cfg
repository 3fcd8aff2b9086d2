SPECIFICATION FairSpec
CONSTANTS
    h1 = h1
    h2 = h2
    b = b
    Handlers = {h1, h2}
    Boot = b
    MaxLogins = 3
    MaxLoops = 4
    MaxFaults = 2
    MaxRestarts = 1
INVARIANTS
    TypeOK
    SinglePoller
    SessionConsistent
    NoDeadClient
PROPERTY SessionResumes
CHECK_DEADLOCK FALSE
