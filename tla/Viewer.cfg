SPECIFICATION FairSpec
CONSTANTS
  Dts = {2, 3}
  Delay = 1
  StartPaused = TRUE
  Speeds <- SteadyOrDouble
  EarlyPause = FALSE
  AnySpeed = FALSE
  MaxTime = 5
  MaxPackets = 3
  MaxFlush = 1
INVARIANTS InOrderOnce NotEarly
PROPERTIES OverdueIsSent CommandsKeepPosition
CHECK_DEADLOCK FALSE
