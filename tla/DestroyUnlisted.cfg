CONSTANTS
  wA = wA
  wB = wB
  Workspaces <- MCOneWorkspace
  MaxFaults = 1
  MaxRequests = 1
SPECIFICATION Spec
INVARIANT
  FailedDestroyStaysListed
CHECK_DEADLOCK FALSE
