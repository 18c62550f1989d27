CONSTANTS
  k1 = k1
  k2 = k2
  Conns = {k1, k2}
  NoConn = NoConn
  Parts = 2
  SendCap = 3
  WireCap = 2
  DelayInit = 1000
  DelayMax = 30000
  IntMax = 2147483647
  Immediate = {"ok", "failed"}
  MaxSent <- Mostly
  MaxFaults = 2
SPECIFICATION FairSpec
CHECK_DEADLOCK FALSE
INVARIANT TypeOK
INVARIANT StreamIntact
PROPERTY OnceInOrder
PROPERTY Drains
