CONSTANTS
    t1 = t1
    t2 = t2
    r1 = r1
    r2 = r2
    r3 = r3
    b1 = b1
    b2 = b2
    NONE = NONE
    Threads <- TwoThreads
    Ids <- ThreeIds
    Bodies <- OneBody
    Near <- NoNear
    Scopes = {"project"}
    ReviewScopes = {}
    Kinds = {"semantic", "skill"}
    Ops = {"write", "feedback", "forget", "promote", "approve", "reject"}
    MinUses = 1
    MinRate = 80
    MaxCalls = 3
    MaxCrashes = 1
    MaxClock = 0
SPECIFICATION Spec
INVARIANTS QueueConserved SkillsReviewed 
CHECK_DEADLOCK FALSE
SYMMETRY DaemonSymmetry
