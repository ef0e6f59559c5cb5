SPECIFICATION FairSpec
CONSTANTS
  t1 = t1
  t2 = t2
  k1 = k1
  Scopes = {s1, s2}
  Roots = {s1}
  Misconfigured = {}
  Tasks = {t1, t2}
  Background = {t2}
  Silent = {s2}
  Keys = {k1}
  KeysOf <- CompetingKeys
  NoOne = none
  MaxDefers <- FewCleanups
INVARIANTS BodiesJoined OutcomeTruth ClosingTruth OneInFlightPerKey
PROPERTIES CancelledCloses ImplementsNursery
CHECK_DEADLOCK FALSE
