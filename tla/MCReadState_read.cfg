SPECIFICATION FairSpec
CONSTANTS
    p1 = p1
    p2 = p2
    EventLoop = p1
    Commands = {p2}
    MaxActs = 4
    MaxFaults = 1
INVARIANTS
    TypeOK
    Agreement
PROPERTY ReceiptEchoEnds
CHECK_DEADLOCK FALSE
