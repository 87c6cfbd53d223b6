SPECIFICATION SideBySide
CONSTANTS
  w1 = w1
  w2 = w2
  w3 = w3
  Workspaces <- MCWorkspaces
  MinPort = 1
  MaxPort = 2
  MaxErrors = 1
  MaxRestarts = 1
  None = None
  Founder = Founder
  r1 = r1
  r2 = r2
  Requests = {r1, r2}
  Sources = {"v1", "v2"}
  Agents = {"claude", "bob"}
  Addons = {"jira"}
  MaxInFlight = 2
  MaxFaults = 1
SYMMETRY BothSymmetries
INVARIANTS
  TypeOK
  ReservationsAccounted
  SerialCreatesDistinct
  PlatformTypeOK
  GatewayMatchesRows
  VersionsNameOneSource
PROPERTIES
  ImplementsPool
  PublishedWasTested
CHECK_DEADLOCK FALSE
