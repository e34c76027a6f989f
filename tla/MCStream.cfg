SPECIFICATION FairSpec
CONSTANTS
  Bound <- Bounds
  N = 3
  Base = 4
  MagicA = 2
  MagicB = 3
  Filler = 1
INVARIANTS
  TypeOK FramingHolds
PROPERTY EventuallyCut
CHECK_DEADLOCK FALSE
