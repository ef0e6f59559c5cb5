SPECIFICATION Spec
CONSTANTS
  a = a
  b = b
  x = x
  y = y
  r1 = r1
  r2 = r2
  r3 = r3
  r4 = r4
  Ids = {a, b}
  Inputs = {x, y}
  Runs = {r1, r2, r3, r4}
  IdOf <- FourIds
  InputOf <- FourInputs
  Stores = {"memory", "file"}
  MaxRecords = 1
  NoRun = none
INVARIANTS RunsOnce ResultTruth EvidenceTruth
PROPERTY TerminalForever
CHECK_DEADLOCK FALSE
