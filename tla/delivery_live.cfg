SPECIFICATION FairSpec
CONSTANTS
  Rows <- OneRow
  Jobs = {j1}
  JobOf <- OneJob
  Messages = {m1, m2}
  Runs = {w1, w2}
  Hooks = {h1, h2}
  Imports = {i1}
  Reported = {"delivered"}
  MaxTime = 1
  MaxEvents = 1
  Lag = 0
  Overlap = TRUE
  DBFaults = FALSE
  None = None
  m1 = m1
  m2 = m2
  j1 = j1
  j2 = j2
  i1 = i1
  i2 = i2
PROPERTY
  EveryEventLands
CHECK_DEADLOCK FALSE
