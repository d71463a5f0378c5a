SPECIFICATION Spec
CONSTANTS
  Sizes <- AnyPackets
  PacketLimits <- OneToThree
  ByteLimits <- TwoAndFive
  Word = 16
  MaxOffered = 4
PROPERTY ModeChangesWhenEmpty
