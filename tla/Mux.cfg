SPECIFICATION FairSpec
CONSTANTS
  Streams <- TwoStreams
  Required = 2
  Delay = 1
  PerFrame = 2
  Spread = 2
  Resets = 1
  Quota = 5
PROPERTIES Merges Drains
