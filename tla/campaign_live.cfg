CONSTANTS
  r1 = r1
  r2 = r2
  w1 = w1
  w2 = w2
  w3 = w3
  q1 = q1
  q2 = q2
  None = None
  Recipient = {r1, r2}
  Payload = {"a"}
  Request = {q1}
  Worker = {w1}
  Lists <- WholeList
  Outcomes = {"accept", "throw"}
  Faults = {"crash"}
  MaxAttempts = 2
  MaxStalled = 1
  ChunkSize = 2
CHECK_DEADLOCK FALSE
SPECIFICATION FairSpec
INVARIANT
  QueueAndLogAgree
PROPERTIES
  NoResendAfterSent
  SentIsFinal
  JobsSettle
  CompletionSynced
