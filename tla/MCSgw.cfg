SPECIFICATION MCSpec
CONSTANTS
  UEs = {3, 5}
  S11Sock <- MCS11Sock
  S5Sock <- MCS5Sock
  S11Threads <- MCThreads
  MaxS5Timeouts = 1
  t1 = t1
  t2 = t2
  MaxRequests = 3
  Requests = {"create", "modify", "detach", "setup", "complete", "teardown"}
INVARIANTS SgwTypeOK UeIsolation HandlerIsolation
CHECK_DEADLOCK FALSE
SYMMETRY MCSymmetry
VIEW MCView
