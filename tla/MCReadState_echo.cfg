SPECIFICATION FairSpec
CONSTANTS
    p1 = p1
    p2 = p2
    EventLoop = p1
    Commands = {}
    MaxActs = 2
    MaxFaults = 0
PROPERTY EchoesEnd
CHECK_DEADLOCK FALSE
