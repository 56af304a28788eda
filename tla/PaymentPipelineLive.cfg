CONSTANTS
  NumAccounts = 2
  NumPayments = 2
  NumGroups = 2
  From <- MCFrom
  To <- MCTo
  Amount <- MCAmount
  Partitions <- MCPartitions
  PartitionOf <- MCPartitionOf
  GroupOf <- MCGroupOf
SPECIFICATION FairSpec
PROPERTY EventuallyConfirmed InflightDrains
CHECK_DEADLOCK FALSE
