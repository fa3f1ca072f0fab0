SPECIFICATION FairSpec
CONSTANTS
  None = None
  Requests = {r1, r3}
  Streams = {r3}
  AgentSteps = {}
  Jobs = {1}
  MaxConcurrent = 1
  WaitLimited = TRUE
  PersistentMax = 1
  WriteErrors = TRUE
  DirErrors = TRUE
  MaxStarts = 2
INVARIANTS AtMostOnce ResultHasItsFile ChatJobNeedsTwoSlots
PROPERTIES RequestsSettle
