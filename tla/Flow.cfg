SPECIFICATION FairSpec
CONSTANTS
  Comps <- JoinComps
  Threaded = {"capture", "encode"}
  Sources = {"capture", "file"}
  Readers = {"file"}
  Route <- JoinRoute
  InitOrder <- JoinOrder
  Quota = 2
INVARIANTS InSourceOrder
PROPERTIES EverythingArrives
