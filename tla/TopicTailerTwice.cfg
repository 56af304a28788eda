CONSTANTS
  c1 = c1
  c2 = c2
  t1 = t1
  t2 = t2
  Clients <- MCClients
  Topics <- MCTopics
  MaxChanges = 2
SPECIFICATION Spec
INVARIANT OneConsumer
CHECK_DEADLOCK FALSE
