SPECIFICATION FairSpec
CONSTANTS
  Source = source
  Viewers = {v1}
  Streams = {1}
  MaxPackets = 3
PROPERTIES SourceReturns
CHECK_DEADLOCK FALSE
