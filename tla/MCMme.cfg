SPECIFICATION MCSpec
CONSTANTS
  UEs = {1, 2}
  HoUE = 0
  S11Sock <- MCS11Sock
  S5Sock = {}
  MaxS11Timeouts = 1
  MaxUeId = 3
  MaxMessages = 4
INVARIANTS MmeTypeOK ContextReachable HandlerKeepsSubscriber
PROPERTY IdsGivenOnce
CHECK_DEADLOCK FALSE
