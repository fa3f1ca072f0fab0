SPECIFICATION FairSpec
CONSTANTS
  None = None
  Callers = {c1, c2}
  Servers = {s1}
  Ttl = 1
  Timeout = 1
  MaxVersion = 1
  MaxNow = 2
INVARIANTS ListFreshness OfferedTools
PROPERTIES CallersReturn
