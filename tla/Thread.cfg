SPECIFICATION FairSpec
CONSTANTS
  Upstream = {u1, u2}
  MaxPackets = 3
  Tcp = FALSE
INVARIANTS TypeOK EveryPacketOnce ReceivedInOrder AtMostOneStale AtMostOneLate NeverDeletedAlive
PROPERTIES ImplementsChannel StopLeadsToDelete PushedIsConsumed
