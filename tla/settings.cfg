SPECIFICATION Spec
CONSTANTS
  Backend = {b1, b2}
  Admin = {y1, y2}
  Account = {c1, c2}
  Secret = {s1, s2}
  Env <- Environments
  Form <- Forms
  b1 = b1
  b2 = b2
  y1 = y1
  y2 = y2
  c1 = c1
  c2 = c2
  s1 = s1
  s2 = s2
  None = None
SYMMETRY Symmetry
CONSTRAINT Scenario
INVARIANTS BindingIsOfStored SecretStaysWithAccount
PROPERTY StoredWins
