SPECIFICATION FairSpec
CONSTANTS
  None = None
  Requests = {r1, r2, r3}
  Streams = {r3}
  AgentSteps = {r2}
  Jobs = {1, 2}
  MaxConcurrent = 2
  WaitLimited = TRUE
  PersistentMax = 2
  WriteErrors = FALSE
  DirErrors = FALSE
  MaxStarts = 2
INVARIANTS TypeOK SlotConservation RunningHasWorker NotAnsweredTwice
PROPERTIES LifeCycle JobsSettle
