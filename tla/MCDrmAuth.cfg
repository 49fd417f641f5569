CONSTANTS
  Device = {d1, d2}
  Magic = {m1, m2}
  Port = {p1, p2}
  MaxCalls = 2
  Daemon = Daemon
  XServer = XServer
  None = None
SPECIFICATION Spec
INVARIANTS
  ReturnsAsPromised
PROPERTIES
  AuthenticatesOneFile
  CreateReturns
