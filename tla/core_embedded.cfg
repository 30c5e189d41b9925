CONSTANTS
    t1 = t1
    t2 = t2
    r1 = r1
    r2 = r2
    r3 = r3
    b1 = b1
    b2 = b2
    NONE = NONE
    Threads <- OneThread
    Ids <- ThreeIds
    Bodies <- TwoBodies
    Near <- NoNear
    Scopes = {"org"}
    ReviewScopes = {"org"}
    Kinds = {"procedural"}
    Ops = {"write", "feedback", "forget", "promote", "approve", "graduate"}
    MinUses = 0
    MinRate = 0
    MaxCalls = 4
    MaxCrashes = 1
    MaxClock = 0
SPECIFICATION Spec
INVARIANTS TypeOK NoDuplicateValid ForgottenStaysGone FeedbackCounted GraduatedOnce
PROPERTY InvalidStaysInvalid
CHECK_DEADLOCK FALSE
SYMMETRY EmbeddedSymmetry
