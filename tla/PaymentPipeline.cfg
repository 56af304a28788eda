CONSTANTS
  NumAccounts = 2
  NumPayments = 3
  NumGroups = 2
  From <- MCFrom
  To <- MCTo
  Amount <- MCAmount
  Partitions <- MCPartitions
  PartitionOf <- MCPartitionOf
  GroupOf <- MCGroupOf
SPECIFICATION Spec
PROPERTY KeepsPauseProtocol
INVARIANT MoneyConserved
INVARIANT ThreadsSurvive
INVARIANT PostalState
PROPERTY ImplementsLedger
CHECK_DEADLOCK FALSE
