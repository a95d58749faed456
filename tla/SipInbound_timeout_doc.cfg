SPECIFICATION InboundSpec
CONSTANTS
  Contacts = {k1, k2}
  NoContact = NoContact
  MaxInvites = 2
  MaxMoves = 1
  Faults = FALSE
PROPERTY
  TimeoutOnlyWhileRinging
CHECK_DEADLOCK FALSE
