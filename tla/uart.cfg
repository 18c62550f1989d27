CONSTANTS
  Parts = 2
  DelayInit = 1000
  DelayMax = 30000
  IntMax = 2147483647
  Modes = {"232", "485"}
  SendCap = 3
  OutCap = 1
  InCap = 2
  IdleRead = {"again", "zero"}
  MaxSent = 3
  MaxHeard = 2
  MaxFaults = 2
SPECIFICATION FairSpec
CHECK_DEADLOCK FALSE
INVARIANT TypeOK
INVARIANT DriverOn
INVARIANT BusReleased
INVARIANT LineInOrder
INVARIANT KeepsTrying
INVARIANT OnceInOrder
PROPERTY Drains
PROPERTY Hears
