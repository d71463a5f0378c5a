SPECIFICATION Spec
CONSTANTS
  N = 3
  Round = 1
  MaxDid = 2
  MaxPackets = 3
  Horizon = 30
  NoPacket = NoPacket
  MaxData <- OneEach
  Lossy = FALSE
INVARIANT OwnDataTransmitted
CHECK_DEADLOCK FALSE
