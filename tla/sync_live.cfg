SPECIFICATION FairSpec
CONSTANTS
  d1 = d1
  d2 = d2
  p1 = p1
  p2 = p2
  NONE = NONE
  Device = {d1, d2}
  Worker = {d1, d2}
  Home <- OneEach
  Verbs = {"cycle"}
  Path = {p1}
  Dek = {1, 2, 3, 4, 5, 6}
  Overlap = FALSE
  MaxEdits = 3
  MaxFaults = 0
  MaxRotations = 1
  MaxOps = 12
 
PROPERTY TombstonesSeen
PROPERTY Converges
CHECK_DEADLOCK FALSE
