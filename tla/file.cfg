CONSTANTS
  a = a
  b = b
  Senders = {a, b}
  Nobody = Nobody
  Size <- TwoFiles
  Window = 2
  MaxRounds = 2
  Faults = {"lose", "repeat", "delay", "break", "disk"}
  Losable = {"START", "DATA", "END", "NACK", "DONE"}
  MaxFaults = 1
SPECIFICATION FairSpec
CHECK_DEADLOCK FALSE
INVARIANT TypeOK
PROPERTY OnlyMixingSpoils
INVARIANT Truthful
PROPERTY Promise
PROPERTY EverybodyReturns
