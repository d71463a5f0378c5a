SPECIFICATION Spec
CONSTANTS
  Packet = {p1, p2}
  Address <- Addresses
  Tag = {t1}
  Null = Null
  Gone = Gone
  Infinity = 100
  Slack = {1}
  MaxLength = 2
  MaxItems = 2
  MaxReach = 2
VIEW Shape
SYMMETRY PacketSymmetry
INVARIANTS SharedBelowDirty BoundsCoverItems
PROPERTY ImplementsPerByteTags
