SPECIFICATION Spec
CONSTANTS
  Sizes <- NonEmptyPackets
  PacketLimits <- OneToThree
  ByteLimits <- TwoAndFive
  Word = 16
  MaxOffered = 4
INVARIANTS CountersAgree CapacityKept TotalsAccount FifoOrder
PROPERTY ModeChangesWhenEmpty
