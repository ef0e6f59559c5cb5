SPECIFICATION Spec
CONSTANTS
  i = i
  j = j
  x = x
  y = y
  p = p
  q = q
  a1 = a1
  a2 = a2
  a3 = a3
  a4 = a4
  Ids = {i, j}
  Receipts = {x, y}
  Appends = {a1, a2, a3, a4}
  IdOf <- FourIds
  ReceiptOf <- FourReceipts
  ProcessOf <- TwoProcesses
  Adapters = {"memory", "sqlite", "postgres", "file"}
  MaxReceipts = 1
  MaxTime = 1
  None = none
  Torn = torn
INVARIANTS  AnswerTruth
PROPERTY NothingReplaced
CHECK_DEADLOCK FALSE
