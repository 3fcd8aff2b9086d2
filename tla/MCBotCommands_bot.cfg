SPECIFICATION FairSpec
CONSTANTS
    s1 = s1
    s2 = s2
    Slots = {s1, s2}
    SharedSecret = TRUE
    MaxMsgs = 4
    MaxTokens = 2
    MaxFaults = 1
INVARIANTS
    TypeOK
    LoginDialogue
    ActsInSession
PROPERTIES
    DeniedGainsNothing
    PuppetFollowsToken
CHECK_DEADLOCK FALSE
