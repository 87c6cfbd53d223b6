SPECIFICATION Spec
CONSTANTS
  None = None
  Founder = Founder
  r1 = r1
  r2 = r2
  r3 = r3
  s1 = s1
  s2 = s2
  m1 = m1
  d1 = d1
  d2 = d2
  Requests = {r1, r2}
  Servers = {s1, s2}
  Mounts = {m1}
  plain = plain
  slash = slash
  Spellings = {plain, slash}
  Sources = {"static"}
  Definitions = {d1, d2}
  MaxInFlight = 2
  MaxFaults = 1
SYMMETRY Symmetry
INVARIANTS
  TypeOK
  RowIsServed
  NothingLeftBehind
  WiringServes
  ProbesLeaveNothing
PROPERTIES
  UnmountsAfterRevoke
CHECK_DEADLOCK FALSE
