SPECIFICATION FairSpec
CONSTANTS
  Calls = {c1, c2, c3}
  Cancellable = {c3}
  FailureThreshold = 2
  ResetAfter = 1
  MaxHalfOpenCalls = 2
  MaxTime = 3
  MaxEpoch = 3
INVARIANT ProbesBounded
PROPERTIES NoStaleRecovery ProbeDecides
CHECK_DEADLOCK FALSE
