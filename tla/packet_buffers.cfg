SPECIFICATION Spec
CONSTANTS
  Packet = {p1, p2}
  Address <- Addresses
  Byte = {Zero, One}
  Zero = Zero
  Old = Old
  Gone = Gone
  Slack = {0}
  AddSizes = {1}
  MaxLength = 3
  TailsAfterZeroes = FALSE
VIEW Layout
INVARIANTS CheckInternalState CountsBuffers
 
