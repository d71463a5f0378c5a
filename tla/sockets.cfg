SPECIFICATION Spec
CONSTANTS
  Socket = {s1, s2, s3}
  d1 = d1
  d2 = d2
  Device = {d1, d2}
  Protocol = {1, 2}
  Binding <- Bindings
  AllDevices = AllDevices
  Sizes = {1, 2}
  RcvBufSize = 2
  Mtu = 1
  None = None
VIEW Observed
SYMMETRY SocketSymmetry
INVARIANTS RegisteredWhileBound RxAvailableIsQueued OfferedOnce
PROPERTY SilentAfterShutdown
