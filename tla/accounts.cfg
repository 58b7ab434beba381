CONSTANTS
  u1 = u1
  u2 = u2
  s1 = s1
  s2 = s2
  c1 = c1
  a1 = a1
  a2 = a2
  None = None
  User = {u1, u2}
  Session = {s1, s2}
  Client = {c1}
  Admin = {a1, a2}
  Faults = {"abort"}
  MaxResets = 1
  MaxOffs = 1
  MaxHash = 2
CHECK_DEADLOCK FALSE
SPECIFICATION Spec
SYMMETRY Symmetry
CONSTRAINT Scenario
INVARIANTS
  LiveIsIndexed
PROPERTIES
  LastAdminStays
  RevocationComplete
  ResetEndsSessions
  ResetIsNotUndone
