SPECIFICATION Spec
CONSTANTS
  Clients = {c1, c2}
  Ids = {k1}
  Kinds = {"plain", "tools"}
  MaxPerDay = 2
  Estimate = 2
  MaxUsage = 2
  Ttl = 1
  Day = 2
  HistoryMax = 1
  Budget = 1
  MaxTurns = 1
  MaxNow = 3
  None = None
SYMMETRY Symmetry
INVARIANT Remembered
INVARIANT QuotaOvershoot
