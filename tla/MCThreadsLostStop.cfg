SPECIFICATION FairSpec
CONSTANTS
  Builds <- LinuxServer
  Wire <- OnePacket
  Garbage = 9
  Datagrams = {3}
PROPERTY StopIsNoticed
CHECK_DEADLOCK FALSE
