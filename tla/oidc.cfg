CONSTANTS
  k1 = k1
  k2 = k2
  t1 = t1
  t2 = t2
  t3 = t3
  s1 = s1
  s2 = s2
  s3 = s3
  x1 = x1
  c1 = c1
  c2 = c2
  r1 = r1
  r2 = r2
  None = None
  Config = {k1, k2}
  Token = {t1, t2, t3}
  Session = {s1, s2, s3}
  Login = {x1}
  Code = {c1, c2}
  Request = {r1, r2}
  OldToken <- OneOld
  OldLogin = {}
  SingleUse = TRUE
  Faults = {"settings", "accounts", "ttl", "provider", "crash"}
  Legacy = k1
CHECK_DEADLOCK FALSE
SPECIFICATION Spec
SYMMETRY Symmetry
CONSTRAINT Scenario
INVARIANTS
  TokensStayHome
  DisabledIsShutOut
  LogoutEnds
  StateUsedOnce
PROPERTY
  UserStaysIn
