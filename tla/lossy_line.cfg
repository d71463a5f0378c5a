SPECIFICATION FairSpec
CONSTANTS
  N = 3
  Round = 1
  MaxDid = 2
  MaxPackets = 1
  Horizon = 30
  NoPacket = NoPacket
  MaxData <- FirstTwo
  Lossy = TRUE
INVARIANTS TypeOK AwaitingHasOneTimer TimerIsForTxPacket AckFlagsSound
PROPERTIES ExchangeUndisturbed Quiesces
CHECK_DEADLOCK FALSE
