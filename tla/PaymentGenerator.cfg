CONSTANTS
  Clients = {c1, c2}
  NumGenerators = 3
  Rates = {0, 10}
  NumAccounts = 4
  IntMax = 3
SPECIFICATION Spec
INVARIANT TypeOK
INVARIANT StatusAgrees
PROPERTY StopIsFinal
CHECK_DEADLOCK FALSE
