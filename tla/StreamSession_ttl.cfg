SPECIFICATION Spec
CONSTANTS
  None = None
  Writers = {w1}
  Readers = {r1}
  MaxEvents = 2
  Buffer = 1
  Ttl = 5
  MaxNow = 6
CHECK_DEADLOCK FALSE
PROPERTIES KeptForTtl
