SPECIFICATION FairSpec
CONSTANTS
  N = 8
  Round = 1
  MaxDid = 2
  MaxPackets = 1
  Horizon = 30
  NoPacket = NoPacket
  MaxData <- OnlyThird
  Lossy = FALSE
INVARIANT NoCollision
PROPERTY ReachesBothGateways
CHECK_DEADLOCK FALSE
