SPECIFICATION OutboundFairSpec
CONSTANTS
  Copies = {h1, h2}
  Calls = {c1}
  Passes = {p1}
  None = None
  Rungs = 2
INVARIANTS
  OutboundTypeOK
  ClientIsTold
PROPERTIES
  LineUnderControl
  InviteConcluded
  OrphanReaped
CHECK_DEADLOCK FALSE
