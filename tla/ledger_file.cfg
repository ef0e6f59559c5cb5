SPECIFICATION Spec
CONSTANTS
  i = i
  j = j
  x = x
  y = y
  p = p
  q = q
  a1 = a1
  a2 = a2
  a3 = a3
  a4 = a4
  Ids = {i}
  Receipts = {x, y}
  Appends = {a1, a2}
  IdOf <- TwoIds
  ReceiptOf <- TwoReceipts
  ProcessOf <- OneProcess
  Adapters = {"file"}
  MaxReceipts = 1
  MaxTime = 1
  None = none
  Torn = torn
INVARIANT ConflictsDetected
CHECK_DEADLOCK FALSE
