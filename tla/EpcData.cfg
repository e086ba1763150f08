SPECIFICATION UserSpec
CONSTANTS
  UEs = {1, 3}
  HoUE = 1
  AutnInfo <- AllKeys
  S11Sock <- MCS11Sock
  S5Sock <- MCS5Sock
  S11Threads = {1}
  S5Threads = {1}
  MaxS11Timeouts = 0
  MaxS5Timeouts = 0
  MaxUeId = 3
  MaxAttaches = 1
  MaxUeCount = 10
  MaxPackets = 1
  SleepCovers = TRUE
INVARIANT DataIsolation
PROPERTIES ServedWhileActive ExitWindows
CHECK_DEADLOCK FALSE
