SPECIFICATION CatalogueSpec
CONSTANTS
  None = None
  Founder = Founder
  r1 = r1
  Requests = {r1}
  Sources = {"v1"}
  Agents = {"claude"}
  Addons = {"jira"}
  MaxInFlight = 1
  MaxFaults = 1
PROPERTY
  DeleteRemovesModel
CHECK_DEADLOCK FALSE
