SPECIFICATION FairSpec
CONSTANTS
  alice = alice
  bob = bob
  Clients <- TwoClients
  Threads = {1, 2}
  None = None
  Garbled = Garbled
  InSize = 2
  OutSize = 1
  Loads <- SomeLoads
INVARIANTS BytesInOrder OnlyTheEndDangles MixedOnlyTogether
PROPERTIES Reclaimed
