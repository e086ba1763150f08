SPECIFICATION FairPoolSpec
CONSTANTS
  c1 = c1
  c2 = c2
  c3 = c3
  w1 = w1
  w2 = w2
  Connections <- MCConnections
  Workers <- MCWorkers
  NoConnection = none
  MaxQSize = 2
  MaxMessages = 2
INVARIANTS PoolTypeOK OneOwner NoLostWakeup NoneLost
PROPERTIES ImplementsConnServer MessagesRead
CHECK_DEADLOCK FALSE
