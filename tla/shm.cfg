CONSTANTS
  Size = 6
  Turns = 2
  Hdr = 2
  Bytes = {0, 1}
  Split <- MCSplit
  Join <- MCJoin
  Records <- MCRecords
  ReadCap = 3
  MaxWrites = 6
SPECIFICATION FairSpec
CHECK_DEADLOCK FALSE
INVARIANT TypeOK
INVARIANT RingHolds
PROPERTY IsChannel
PROPERTY AllRead
