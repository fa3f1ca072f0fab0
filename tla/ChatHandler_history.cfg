SPECIFICATION Spec
CONSTANTS
  Clients = {c1, c2}
  Ids = {}
  Kinds = {"stream", "toolstream"}
  MaxPerDay = 2
  Estimate = 2
  MaxUsage = 0
  Ttl = 1
  Day = 9
  HistoryMax = 4
  Budget = 3
  MaxTurns = 2
  MaxNow = 0
  None = None
PROPERTY HistoryKept
