SPECIFICATION FairSpec
CONSTANTS
  Room = 3
  FirstSize = 2
  PlaySize = 3
  Wrap = 8
  Refresh = 2
  Late = 1
  Loads <- SomeLoads
INVARIANTS ArrivesAsSent InStep
PROPERTIES AllArrives
