SPECIFICATION Spec
CONSTANTS
  None = None
  r1 = r1
  r2 = r2
  r3 = r3
  r4 = r4
  r5 = r5
  s1 = s1
  Requests = {r1, r2, r3, r4, r5}
  Servers = {s1}
  MaxInFlight = 2
  MaxFaults = 1
SYMMETRY RequestSymmetry
INVARIANTS
  TypeOK
  TestedReflectsJob
  PublishedHasCredentials
  FailedDeployCleans
CHECK_DEADLOCK FALSE
