CONSTANTS
  a = a
  c = c
  Boards = {a, c}
  Nobody = Nobody
  Slots = 2
  Total = 2
  MaxSeq = 2
  Restarting = {a}
  MaxBoots = 1
  MaxFaults = 2
  Faults = {"lose", "repeat", "delay", "break"}
SPECIFICATION Spec
CHECK_DEADLOCK FALSE
INVARIANT TypeOK
INVARIANT Unmixed
INVARIANT SlotsAccounted
INVARIANT Lossless
