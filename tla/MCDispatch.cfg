SPECIFICATION FairSpec
CONSTANTS
  Word = 16
  Internal = 4
  None = None
  a = a
  b = b
  NoId = NoId
  Ids = {a, b}
  UserCodes = {11, 12}
  SentCodes = {11}
  MaxPackets = 4
  MaxDatagrams = 1
  MaxQueue = 2
INVARIANTS
  TypeOK MapTellsLast ToldOnceIsKeptOnce LinksHold
PROPERTY HandlingEnds
CHECK_DEADLOCK FALSE
