CONSTANTS
  wA = wA
  wB = wB
  Workspaces <- MCWorkspaces
  MaxFaults = 1
  MaxRequests = 2
SPECIFICATION Spec
SYMMETRY Symmetry
INVARIANTS
  TypeOK
  DestroyIsComplete
  NoVolumeOrphanedByDestroy
  CreateIsUsable
CHECK_DEADLOCK FALSE
