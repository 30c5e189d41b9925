CONSTANTS
    t1 = t1
    t2 = t2
    r1 = r1
    r2 = r2
    r3 = r3
    b1 = b1
    b2 = b2
    NONE = NONE
    Threads <- OneThread
    Ids <- TwoIds
    Bodies <- TwoBodies
    Near <- NoNear
    Scopes = {"org"}
    ReviewScopes = {"org"}
    Kinds = {"semantic"}
    Ops = {"write", "forget", "promote", "approve"}
    MinUses = 1
    MinRate = 80
    MaxCalls = 4
    MaxCrashes = 0
    MaxClock = 0
SPECIFICATION Spec
INVARIANT ApprovedIsCommitted
CHECK_DEADLOCK FALSE
