CONSTANTS
  u1 = u1
  c1 = c1
  c2 = c2
  Subjects = {u1}
  Clients <- ChatClients
  SubjectOf <- ClientOf
  TTL = 0
  MaxTime = 1
  MaxAllocs = 3
  MaxChats = 3
  MaxDeletes = 1
  MaxFaults = 1
SPECIFICATION Spec
CHECK_DEADLOCK FALSE
INVARIANTS TypeOK JobTracked CalmChatServed
PROPERTY IdleIsReaped
