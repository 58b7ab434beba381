CONSTANTS
  r1 = r1
  r2 = r2
  w1 = w1
  w2 = w2
  w3 = w3
  q1 = q1
  q2 = q2
  None = None
  Recipient = {r1}
  Payload = {"a"}
  Request = {q1}
  Worker = {w1, w2, w3}
  Lists <- WholeList
  Outcomes = {"accept", "reject", "throw", "lost"}
  Faults = {"db", "crash", "lock"}
  MaxAttempts = 3
  MaxStalled = 1
  ChunkSize = 2
CHECK_DEADLOCK FALSE
SPECIFICATION Spec
SYMMETRY Symmetry
INVARIANTS
  TypeOK
  CountersBounded
PROPERTIES
  PromiseKept
  TerminalBullFinal
