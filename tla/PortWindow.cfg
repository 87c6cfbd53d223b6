CONSTANTS
  w1 = w1
  w2 = w2
  w3 = w3
  Workspaces <- MCWorkspaces
  MinPort = 1
  MaxPort = 2
  MaxErrors = 0
  MaxRestarts = 0
SPECIFICATION Spec
INVARIANT
  PublishedPortsDistinct
CHECK_DEADLOCK FALSE
