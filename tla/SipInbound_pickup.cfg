SPECIFICATION InboundSpec
CONSTANTS
  Contacts = {k1, k2}
  NoContact = NoContact
  MaxInvites = 2
  MaxMoves = 0
  Faults = TRUE
SYMMETRY ContactSymmetry
INVARIANTS
  InboundTypeOK
  OnePickup
  RungOnce
  NeverAbandoned
CHECK_DEADLOCK FALSE
