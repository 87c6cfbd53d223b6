CONSTANTS
  wA = wA
  wB = wB
  n1 = n1
  n2 = n2
  Workspaces <- MCWorkspaces
  Nodes <- MCNodes
  None = None
  MaxPlaced = 3
  MaxStops = 1
  MaxFaults = 1
SPECIFICATION Spec
INVARIANTS
  TypeOK
  PassResultFresh
  HostsFollowHostSets
PROPERTY
  ConvergedStays
  Convergence
