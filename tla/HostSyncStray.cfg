CONSTANTS
  wA = wA
  wB = wB
  n1 = n1
  n2 = n2
  Workspaces <- MCOneWorkspace
  Nodes <- MCNodes
  None = None
  MaxPlaced = 1
  MaxStops = 1
  MaxFaults = 0
SPECIFICATION Spec
INVARIANT
  DestroyRemovesHost
