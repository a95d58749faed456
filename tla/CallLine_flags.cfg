SPECIFICATION LineSpec
CONSTANTS
  Users = {u1}
  Reader = rd
  Ops <- AllOps
  Faults = TRUE
  MaxCall = 2
  MaxUrc = 2
  EventCap = 1
INVARIANTS
  LineTypeOK
  NothingLeftOfLastCall
  EndedIsOver
CHECK_DEADLOCK FALSE
