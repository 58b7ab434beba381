CONSTANTS
  r1 = r1
  r2 = r2
  w1 = w1
  w2 = w2
  w3 = w3
  q1 = q1
  q2 = q2
  None = None
  Recipient = {r1, r2}
  Payload = {"a"}
  Request = {q1}
  Worker = {w1}
  Lists <- AnyList
  Outcomes = {"accept"}
  Faults = {}
  MaxAttempts = 1
  MaxStalled = 0
  ChunkSize = 1
CHECK_DEADLOCK FALSE
SPECIFICATION Spec
INVARIANT
  CompletedCoversEveryLog
