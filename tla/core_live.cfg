CONSTANTS
    t1 = t1
    t2 = t2
    r1 = r1
    r2 = r2
    r3 = r3
    b1 = b1
    b2 = b2
    NONE = NONE
    Threads <- OneThread
    Ids <- TwoIds
    Bodies <- TwoBodies
    Near <- AllNear
    Scopes = {"project"}
    ReviewScopes = {}
    Kinds = {"procedural"}
    Ops = {"write", "feedback", "forget", "promote", "graduate", "rebuild"}
    MinUses = 1
    MinRate = 80
    MaxCalls = 3
    MaxCrashes = 1
    MaxClock = 1
SPECIFICATION FairSpec
PROPERTIES IndexConverges 
CHECK_DEADLOCK FALSE
