SPECIFICATION Spec
CONSTANTS
  None = None
  Founder = Founder
  r1 = r1
  r2 = r2
  f1 = f1
  f2 = f2
  a1 = a1
  a2 = a2
  g1 = g1
  g2 = g2
  Requests = {r1, r2}
  Flavors = {f1, f2}
  Subjects = {a1, a2}
  Groups = {g1, g2}
  MaxInFlight = 2
  MaxFaults = 0
PROPERTY
  SyncPreservesRest
CHECK_DEADLOCK FALSE
