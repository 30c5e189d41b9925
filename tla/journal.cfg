CONSTANTS
    Writers = {w1, w2}
    Paths = {p1, p2}
    Hashes = {h1, h2}
    NONE = NONE
    MaxEntries = 2
    MaxFaults = 2
SPECIFICATION FairSpec
INVARIANTS TypeOK ChainVerifies ReconcileExact LiveMatchesDisk
PROPERTIES AppendOnly ComesUp
CHECK_DEADLOCK FALSE
