SPECIFICATION EpcSpec
CONSTANTS
  UEs = {1, 3}
  HoUE = 1
  AutnInfo <- AllKeys
  S11Sock <- MCS11Sock
  S5Sock <- MCS5Sock
  S11Threads = {1}
  S5Threads = {1}
  MaxS11Timeouts = 1
  MaxS5Timeouts = 1
  MaxUeId = 3
  MaxAttaches = 1
  MaxUeCount = 10
  SleepCovers = TRUE
INVARIANTS Lockstep Identity UeIsolation
CHECK_DEADLOCK FALSE
