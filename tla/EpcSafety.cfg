SPECIFICATION FairEpcSpec
CONSTANTS
  UEs = {1, 3}
  HoUE = 1
  AutnInfo <- AnyRow
  S11Sock <- MCS11Sock
  S5Sock <- MCS5Sock
  S11Threads = {1}
  S5Threads = {1}
  MaxS11Timeouts = 0
  MaxS5Timeouts = 0
  MaxUeId = 3
  MaxAttaches = 2
  MaxUeCount = 10
  SleepCovers = TRUE
INVARIANTS EpcTypeOK Lockstep Identity SessionRouted DetachedClean Registered NeverExits IndirectTunnelLive HandoverClean HandoverContext PgwIsolation
PROPERTIES MmeSpec SgwSpec PgwSpec SessionLife AttachDetachCompletes HandoverCompletes
CHECK_DEADLOCK FALSE
