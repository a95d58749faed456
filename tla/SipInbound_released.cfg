SPECIFICATION InboundFairSpec
CONSTANTS
  Contacts = {k1, k2}
  NoContact = NoContact
  MaxInvites = 1
  MaxMoves = 1
  Faults = FALSE
PROPERTIES
  RingingEnds
  LegReleased
CHECK_DEADLOCK FALSE
