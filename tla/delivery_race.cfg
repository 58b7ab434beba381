SPECIFICATION Spec
CONSTANTS
  Rows <- TwoRows
  Jobs = {j1, j2}
  JobOf <- RowPerJob
  Messages = {m1, m2}
  Runs = {w1}
  Hooks = {h1, h2}
  Imports = {i1, i2}
  Reported = {"delivered"}
  MaxTime = 2
  MaxEvents = 2
  Lag = 0
  Overlap = FALSE
  DBFaults = TRUE
  None = None
  m1 = m1
  m2 = m2
  j1 = j1
  j2 = j2
  i1 = i1
  i2 = i2
CONSTRAINT Scenario
SYMMETRY Symmetry
INVARIANTS
  RowShowsEvent
  NoLockCycle
PROPERTIES
  NewestEventSpec
  ImportCoversFile
CHECK_DEADLOCK FALSE
