SPECIFICATION FairSpec
CONSTANTS
  Builds <- AllBuilds
  Wire <- OneAndGarbage
  Garbage = 9
  Datagrams = {3}
INVARIANTS
  TypeOK 
PROPERTIES
  HandledInOrder RemovalReturnsOnLinux
CHECK_DEADLOCK FALSE
