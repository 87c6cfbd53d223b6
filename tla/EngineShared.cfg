SPECIFICATION Spec
CONSTANTS
  None = None
  Founder = Founder
  r1 = r1
  r2 = r2
  s1 = s1
  s2 = s2
  m1 = m1
  plain = plain
  slash = slash
  d1 = d1
  d2 = d2
  Requests = {r1, r2}
  Servers = {s1, s2}
  Mounts = {m1}
  Spellings = {plain, slash}
  Sources = {"static"}
  Definitions = {d1, d2}
  MaxInFlight = 1
  MaxFaults = 0
INVARIANT
  EngineHasOneServer
CHECK_DEADLOCK FALSE
