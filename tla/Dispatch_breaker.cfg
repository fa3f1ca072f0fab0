SPECIFICATION Spec
CONSTANTS
  None = None
  Runners = {a1}
  BreakerFailures = 2
  BreakerCooldown = 1
  ProbeTtl = 1
  BackoffMax = 2
  BackoffShift = 1
  Gpu <- SameGpu
  Callers = {c1, c2}
  Kinds = {"chat"}
  Retries = 0
  MaxBlocked <- OneLeaks
  MaxNow = 4
SYMMETRY Symmetry
INVARIANTS OpenIffFailing BlameBound
