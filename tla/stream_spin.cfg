SPECIFICATION StreamFairSpec
CONSTANTS
  t1 = t1
  t2 = t2
  t3 = t3
  Outer = outer
  Stream = stream
  Scopes = {outer, stream}
  Roots = {outer}
  Misconfigured = {}
  Tasks = {t1, t2, t3}
  Background = {}
  Silent = {}
  Keys = {}
  KeysOf <- NoKeys
  NoOne = none
  MaxDefers <- OneCleanup
  Items <- ThreeItems
  Concurrency = 2

PROPERTY CancelledStreamEnds
CHECK_DEADLOCK FALSE
