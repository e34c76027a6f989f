SPECIFICATION CrowdFairSpec
CONSTANTS
  c1 = c1
  c2 = c2
  c3 = c3
  c4 = c4
  pub1 = pub1
  pub2 = pub2
  pub3 = pub3
  pub4 = pub4
  priv1 = priv1
  priv2 = priv2
  priv3 = priv3
  priv4 = priv4
  Clients = {c1, c2, c3, c4}
  PublicIds = {pub1, pub2, pub3, pub4}
  PrivateIds = {priv1, priv2, priv3, priv4}
  None = None
  Listener = Listener
  Vendor = FALSE
  Udp = FALSE
  AppSends = FALSE
  MayLeave = {c1, c2}
INVARIANTS TypeOK KnowsOthersIfOneLeaves
PROPERTIES WokenIsFreed RemovalIsTold
CHECK_DEADLOCK FALSE
