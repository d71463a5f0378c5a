SPECIFICATION Spec
CONSTANTS
  N = 3
  Round = 2
  MaxDid = 2
  MaxPackets = 3
  Horizon = 30
  NoPacket = NoPacket
  MaxData <- OneEach
  Lossy = FALSE
INVARIANTS
  SlotAligned SendFlagCoversSending ReceptionWindow NoDuplicatesQueued
  BackoffBelongsToExchange NoHopSkipped
PROPERTY ImplementsLineRelay
CHECK_DEADLOCK FALSE
