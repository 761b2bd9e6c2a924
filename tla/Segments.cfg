SPECIFICATION PipelineFairSpec
CONSTANTS
  Streams <- TwoStreams
  Required = 2
  Delay = 4
  Shape = 2
  Interval = 8
  Loops = 1
  Inc <- Durations
  Files <- UnevenFiles
INVARIANTS DryOnlyAtGaps SegmentsStartClean Recorded
PROPERTIES Terminates
