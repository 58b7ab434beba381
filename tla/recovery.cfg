CONSTANTS
  r1 = r1
  r2 = r2
  w1 = w1
  q1 = q1
  None = None
  Recipient = {r1, r2}
  Payload = {"a"}
  Request = {q1}
  Worker = {w1}
  Lists <- WholeList
  Outcomes = {"accept", "reject"}
  Faults = {}
  MaxAttempts = 1
  MaxStalled = 1
  ChunkSize = 2
  Disasters = {"redis", "logs", "dump"}
  MaxStrikes = 2
  MaxCommands = 1
CHECK_DEADLOCK FALSE
SPECIFICATION RecoverySpec
CONSTRAINT Scenario
SYMMETRY Symmetry
INVARIANTS
  RecoveryTypeOK
  RepairedAgrees
  RepairedCounts
  AtMostOnceButDoubt
