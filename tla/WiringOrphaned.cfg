SPECIFICATION Spec
CONSTANTS
  None = None
  r1 = r1
  r2 = r2
  r3 = r3
  r4 = r4
  r5 = r5
  s1 = s1
  Requests = {r1, r2}
  Servers = {s1}
  MaxInFlight = 1
  MaxFaults = 1
SYMMETRY RequestSymmetry
INVARIANT FailureOrphansNothing
CHECK_DEADLOCK FALSE
