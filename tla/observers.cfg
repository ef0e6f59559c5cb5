SPECIFICATION BoundedSpec
CONSTANTS
  t1 = t1
  t2 = t2
  Scopes = {s1, s2}
  Roots = {s1}
  Misconfigured = {}
  Tasks = {t1, t2}
  Background = {t1}
  Silent = {}
  Keys = {}
  KeysOf <- NoKeys
  NoOne = none
  MaxDefers <- OneCleanup
  Watched = s1
  MaxEvents = 8
INVARIANTS  SummaryTruth
CHECK_DEADLOCK FALSE
