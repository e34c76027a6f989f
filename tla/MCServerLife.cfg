SPECIFICATION Spec
CONSTANTS
  MaxClients = 2
  MaxLives = 2
  MaxPackets = 1
INVARIANTS
  TypeOK ServicesAreDown MisusesAreKnown
CHECK_DEADLOCK FALSE
