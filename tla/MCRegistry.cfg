SPECIFICATION Spec
CONSTANTS
  c1 = c1
  c2 = c2
  c3 = c3
  c4 = c4
  pub1 = pub1
  pub2 = pub2
  pub3 = pub3
  pub4 = pub4
  priv1 = priv1
  priv2 = priv2
  priv3 = priv3
  priv4 = priv4
  Clients = {c1, c2, c3}
  PublicIds = {pub1, pub2}
  PrivateIds = {priv1, priv2}
  None = None
  Listener = Listener
  Vendor = TRUE
  Udp = TRUE
  AppSends = TRUE
  MayLeave = {c1, c2}
SYMMETRY Symmetry
INVARIANTS
  TablesAgree RemovesItself RemovalIsTrue OriginIsOwnUnlessReused
CHECK_DEADLOCK FALSE
