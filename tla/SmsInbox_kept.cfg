SPECIFICATION InboxFairSpec
CONSTANTS
  a = a
  b1 = b1
  b2 = b2
  x = x
  short = short
  long = long
  noise = noise
  Texts = {short, long, noise}
  Parts = {a, b1, b2, x}
  TextOf <- MCTextOf
  Garbled = {x}
  Slots = {0, 1}
  Free = Free
  Faults = {"list", "known", "record", "assemble", "store", "link", "delete", "stop"}
  MaxFaults = 2
INVARIANTS
  InboxTypeOK
  LostOnlyWhenCut
PROPERTIES
  KeepsPromise
  TextsAnnounced
  SlotsFreed
CHECK_DEADLOCK FALSE
