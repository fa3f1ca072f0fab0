SPECIFICATION MCSpec
CONSTANTS
  c1 = c1
  c2 = c2
  c3 = c3
  k1 = k1
  k2 = k2
  s1 = s1
  None = None
  Calls <- MCCalls
  Ids <- MCIds
  Sessions <- MCSessions
  IdOf <- MCIdOf
  Proposals <- MCProposals
  MaxSteps = 2
  Burst = 1
  MaxNow = 2
  ChunkOverlap = 1
  MaxSegments = 5
  CharsPerToken = 2
  DefaultTokenBudget = 20
  SystemReserveTokens = 2
  MinContextBudget = 3
  MessageOverhead = 1
  SafetyMargin = 2
  TruncatedNotice = 1
  Labels <- MCLabels
  MaxTree = 12
  MaxPrefixes = 1
  DefaultMaxTokens = 2
  RoleOverhead = 1
  ShortContent = 4
  KeepAtLeast = 3
  CutNotice = 2
  MaxCuts = 12
  PreserveOutput = 2
  HierarchyNote = 2
  BlockFrame = 2
  MinRoom = 5
  MinBody = 2
  BudgetNotice = 1
INVARIANTS
  StepsOnce
  SessionsApart
  RateKept
  TextsKept
  PromptsFit
