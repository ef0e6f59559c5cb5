SPECIFICATION CombinatorFairSpec
CONSTANTS
  t1 = t1
  t2 = t2
  t3 = t3
  Outer = outer
  Group = group
  Scopes = {outer, group}
  Roots = {outer}
  Misconfigured = {}
  Tasks = {t1, t2, t3}
  Background = {}
  Silent = {}
  Keys = {}
  KeysOf <- NoKeys
  NoOne = none
  MaxDefers <- SomeCleanups
  TaskList <- ThreeTasks
  Kinds = {"all", "allSettled", "race", "any", "series", "pool"}
  Concurrency = 2
INVARIANTS  ConcurrencyBounded LosersJoined
PROPERTIES StartsInTurn DecidedEnds
CHECK_DEADLOCK FALSE
