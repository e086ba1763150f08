SPECIFICATION EpcSpec
CONSTANTS
  UEs = {1, 3}
  HoUE = 1
  AutnInfo <- AllKeys
  S11Sock <- MCS11Sock
  S5Sock <- MCS5Sock
  S11Threads = {1, 2}
  S5Threads = {1}
  MaxS11Timeouts = 0
  MaxS5Timeouts = 0
  MaxUeId = 3
  MaxAttaches = 2
  MaxUeCount = 10
  SleepCovers = TRUE
INVARIANT NeverExits
CHECK_DEADLOCK FALSE
