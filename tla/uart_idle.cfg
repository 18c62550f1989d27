CONSTANTS
  Parts = 2
  DelayInit = 1000
  DelayMax = 30000
  IntMax = 2147483647
  Modes = {"232", "485"}
  SendCap = 3
  OutCap = 1
  InCap = 2
  IdleRead = {"again", "zero"}
  MaxSent = 3
  MaxHeard = 2
  MaxFaults = 2
SPECIFICATION Spec
CHECK_DEADLOCK FALSE
PROPERTY KeepsDevice
