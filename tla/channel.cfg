SPECIFICATION Spec
CONSTANTS
  v1 = v1
  r1 = r1
  a1 = a1
  Sends = {v1, v2, v3, v4}
  Receives = {r1, r2, r3, r4}
  Signals = {a1}
  NoSignal = none
  SignalOf <- OneSharedSignal
  Capacity = 2
INVARIANTS NobodyWaitsInVain PromiseTruth
PROPERTY ImplementsLine
CHECK_DEADLOCK FALSE
