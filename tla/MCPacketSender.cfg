SPECIFICATION FairSpec
CONSTANTS
  p1 = p1
  p2 = p2
  u = u
  t1 = t1
  t2 = t2
  Packets = {p1, p2, u}
  UdpPackets = {u}
  Null = Null
  NoThread = NoThread
  Producers = {t1, t2}
  Destroyer = Destroyer
  Local = FALSE
  MaxStops = 1
INVARIANTS TypeOK TakesPackets OnePlace JoinedBeforeDrain
PROPERTIES FifoOrder EventuallySent DestructorReturns
CHECK_DEADLOCK FALSE
