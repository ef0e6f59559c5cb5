SPECIFICATION Spec
CONSTANTS
  t1 = t1
  t2 = t2
  k1 = k1
  Scopes = {s1}
  Roots = {s1}
  Misconfigured = {}
  Tasks = {t1, t2}
  Background = {t2}
  Silent = {}
  Keys = {k1}
  KeysOf <- NoKeys
  NoOne = none
  MaxDefers <- TaskCleanups
INVARIANT NoPendingTaskInClosedScope
CHECK_DEADLOCK FALSE
