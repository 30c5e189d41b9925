SPECIFICATION Spec
CONSTANTS
  d1 = d1
  d2 = d2
  d3 = d3
  r1 = r1
  r2 = r2
  NONE = NONE
  Device = {d1}
  Repo = {r1, r2}
  MaxKeys = 2
  MaxFaults = 0
  MaxRunning = 1
SYMMETRY Symmetric
INVARIANT EndsBackedUp
CHECK_DEADLOCK FALSE
