SPECIFICATION FairSpec
CONSTANTS
  None = None
  Writers = {w1, w2}
  Readers = {r1}
  MaxEvents = 2
  Buffer = 1
  Ttl = 5
  MaxNow = 1
CHECK_DEADLOCK FALSE
INVARIANTS ResumesSoundly PanicHasACause StrandedOnlyIfLate
PROPERTIES ReadersReleased
