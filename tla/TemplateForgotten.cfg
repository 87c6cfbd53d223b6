SPECIFICATION Spec
CONSTANTS
  None = None
  r1 = r1
  r2 = r2
  r3 = r3
  r4 = r4
  s1 = s1
  Requests = {r1, r2, r3, r4}
  Servers = {s1}
  MaxInFlight = 1
  MaxFaults = 0
SYMMETRY RequestSymmetry
INVARIANT DeleteLeavesNothing
CHECK_DEADLOCK FALSE
