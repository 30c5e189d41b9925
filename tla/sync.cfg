SPECIFICATION Spec
CONSTANTS
  d1 = d1
  d2 = d2
  p1 = p1
  p2 = p2
  NONE = NONE
  Device = {d1, d2}
  Worker = {d1, d2}
  Home <- OneEach
  Verbs = {"cycle", "push", "pull"}
  Path = {p1}
  Dek = {1, 2, 3, 4, 5, 6}
  Overlap = TRUE
  MaxEdits = 2
  MaxFaults = 1
  MaxRotations = 0
  MaxOps = 3
INVARIANT TypeOK
INVARIANT NothingDestroyed
INVARIANT TombstonesOwn
PROPERTY NoRevertUncut
CHECK_DEADLOCK FALSE
