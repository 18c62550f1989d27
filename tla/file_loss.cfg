CONSTANTS
  a = a
  b = b
  Senders = {a}
  Nobody = Nobody
  Size <- TwoChunks
  Window = 2
  MaxRounds = 2
  Faults = {"lose"}
  Losable = {"DATA"}
  MaxFaults = 1
SPECIFICATION Spec
CHECK_DEADLOCK FALSE
INVARIANT LossIsRepaired
