CONSTANTS
  NumAccounts = 2
  NumPayments = 3
  From <- MCFrom
  To <- MCTo
  Amount <- MCAmount
SPECIFICATION Spec
INVARIANT Conservation
CHECK_DEADLOCK FALSE
