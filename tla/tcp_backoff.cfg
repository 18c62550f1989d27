CONSTANTS
  k1 = k1
  k2 = k2
  Conns = {k1}
  NoConn = NoConn
  Parts = 2
  SendCap = 4
  WireCap = 3
  DelayInit = 1000
  DelayMax = 30000
  IntMax = 2147483647
  Immediate = {}
  MaxSent <- Nothing
  MaxFaults = 30
SPECIFICATION Spec
CHECK_DEADLOCK FALSE
INVARIANT RetryIsArmed
