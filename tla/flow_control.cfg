SPECIFICATION Spec
CONSTANTS
  Word = 32
  MaxObject = 2
  MinLimit = 1
  MaxLimit = 3
  Sizes <- OneTwo
  Capacity = 3
INVARIANTS TypeOK InFlightAccounted NoLostWakeup StoppedHasInFlight
PROPERTIES QueueReopens StaysBounded
