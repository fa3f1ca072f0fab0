SPECIFICATION FairSpec
CONSTANTS
  None = None
  Runners = {a1, a2}
  BreakerFailures = 1
  BreakerCooldown = 1
  ProbeTtl = 1
  BackoffMax = 2
  BackoffShift = 1
  Gpu <- SameGpu
  Callers = {c1}
  Kinds = {"chat", "pinned", "embed"}
  Retries = 0
  MaxBlocked <- OneLeaks
  MaxNow = 2
INVARIANTS NoFalseUnavailable InflightExact
PROPERTIES CallsReturn
