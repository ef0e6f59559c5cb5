SPECIFICATION CompanionsSpec
CONSTANTS
  u1 = u1
  u2 = u2
  u3 = u3
  u4 = u4
  CandCount = 2
  CandTimes = 2
  EmbItems = 6
  EmbBatch = 4
  EmbWorkers = 2
  EmbTimes = 2
  LLMChunks = 4
  LLMBuffer = 2
  AgentTools = {u1, u2, u3, u4}
  AgentDenied = {u4}
  AgentCharges <- Charges
  AgentLimits <- Limits
  BudScopes = 4
  BudCells = 2
  BudLimit = 1
  ResUses = {u1, u2, u3}
  RetryBudgets = {"first", "second"}
  MaxDemand = 4
  Interval = 2
  Horizon = 7
  MaxWaits = 5
  Kinds = {"timeout", "uncancellable", "retry", "supervise", "hedge", "fallback", "offload"}
  MaxAttempts = 3
  Budget = 1
  root = root
  child = child
  Buses = {root, child}
  Above <- RootAndChild
  Attached = root
  Limit = 2
  SizeOf <- Sizes
  MaxQueueItems = 2
  MaxQueueBytes = 3
  FailureThreshold = 2
  OpenFor = 1
  MaxEvents = 4
  MaxTime = 2
  WorkItems = 3
  WorkLimit = 2
  SrcValues = 3
  DlDepth = 2
  DlHorizon = 2
  DlDelays = {0, 1, 2}
  DlHandlers = {u1}
  SiteCases = {u1, u2}
  SitePresets = {u3, u4}
  SiteClicks = 2
  FetIssues <- Imported
  SiteVisits = 2
  AmbKeys = {u1, u2}
  AmbDefaults <- Defaults
  AmbLimit = 1
  AmbScopes = 3
  AmbObjects = 3
  PlCalls = 3
  PlItems = {0, 1, 2, 3}
  PlMap <- NextItem
  PlPasses = {0, 1, 3}
INVARIANTS SelectionTruth BatchTruth AITruth  ClockTruth  ExportsTruth
   
PROPERTIES AttemptsInTurn CompanionsSettle
CHECK_DEADLOCK FALSE
