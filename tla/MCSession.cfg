SPECIFICATION FairSpec
CONSTANTS
  MaxSessions = 2
  MaxPackets = 1
INVARIANTS
  TypeOK CountTellsLive RecycleIsConsumed
PROPERTIES
  DisconnectReturnsOnWin32 FailureIsCleanedUpOnLinux
CHECK_DEADLOCK FALSE
