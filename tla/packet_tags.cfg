SPECIFICATION Spec
CONSTANTS
  Packet = {p1, p2, p3}
  Address <- Addresses
  t1 = t1
  t2 = t2
  t3 = t3
  v1 = v1
  v2 = v2
  Type = {t1, t2, t3}
  Value = {v1, v2}
  Tag <- Tags
  Null = Null
  None = None
INVARIANTS TypeOK CountsPointers AllReachable
PROPERTY ImplementsOwnLists
VIEW Shape
