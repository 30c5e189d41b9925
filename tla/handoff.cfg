CONSTANTS
    Sessions = {s1}
    Borrowers = {b1}
    Daemon = daemon
    NONE = NONE
    MaxRequests = 2
    MaxRuns = 2
    MaxStarts = 1
    MaxStops = 1
    MaxKills = 1
SPECIFICATION FairSpec
INVARIANTS TypeOK   NeverRefused
PROPERTIES  RequestsHeard 
CHECK_DEADLOCK FALSE
