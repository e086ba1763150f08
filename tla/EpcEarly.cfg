SPECIFICATION FairEpcSpec
CONSTANTS
  UEs = {1}
  HoUE = 1
  AutnInfo <- AllKeys
  S11Sock <- MCS11Sock
  S5Sock <- MCS5Sock
  S11Threads = {1}
  S5Threads = {1}
  MaxS11Timeouts = 0
  MaxS5Timeouts = 0
  MaxUeId = 3
  MaxAttaches = 2
  MaxUeCount = 10
  SleepCovers = FALSE
PROPERTY HandoverCompletes
CHECK_DEADLOCK FALSE
