CONSTANTS
  c1 = c1
  c2 = c2
  t1 = t1
  t2 = t2
  Clients <- MCClients
  Topics <- MCTopics
  MaxChanges = 4
SPECIFICATION Spec
INVARIANTS TypeOK Served SelectionAgrees OneUnlessHasty
PROPERTY AllServed
CHECK_DEADLOCK FALSE
