SPECIFICATION Spec
CONSTANTS
    h1 = h1
    h2 = h2
    b = b
    Handlers = {h1}
    Boot = b
    MaxLogins = 2
    MaxLoops = 3
    MaxFaults = 1
    MaxRestarts = 1
INVARIANT LogoutIsFinal
CHECK_DEADLOCK FALSE
