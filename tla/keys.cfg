SPECIFICATION Spec
CONSTANTS
  d1 = d1
  d2 = d2
  d3 = d3
  r1 = r1
  r2 = r2
  NONE = NONE
  Device = {d1, d2, d3}
  Repo = {r1}
  MaxKeys = 2
  MaxFaults = 1
  MaxRunning = 2
SYMMETRY Symmetric
INVARIANTS TypeOK WrapsForMembers KeyNeverLost 
PROPERTIES NeverClobbered
CHECK_DEADLOCK FALSE
