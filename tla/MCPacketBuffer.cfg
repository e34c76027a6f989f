SPECIFICATION FairSpec
CONSTANTS
  Word = 128
  InitialAlloc = 16
  Offset = 11
  MaxFields = 2
  MaxData = 136
  Streams = {14, 60}
INVARIANTS
  TypeOK OneByteOver SizeIsTrue ArrivesIntact
PROPERTY AddReturns
CHECK_DEADLOCK FALSE
