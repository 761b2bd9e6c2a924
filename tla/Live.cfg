SPECIFICATION Spec
CONSTANTS
  Source = source
  Viewers = {v1, v2}
  Streams = {1, 2}
  MaxPackets = 4
SYMMETRY AnyViewer
INVARIANTS StartsAtKey RisingPerStream SameForAll NeverRoutedToDead
CHECK_DEADLOCK FALSE
