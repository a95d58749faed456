SPECIFICATION InboxSpec
CONSTANTS
  a = a
  b1 = b1
  b2 = b2
  x = x
  short = short
  long = long
  noise = noise
  Texts = {short, long, noise}
  Parts = {a, b1, b2, x}
  TextOf <- MCTextOf
  Garbled = {x}
  Slots = {0, 1}
  Free = Free
  Faults = {"stop"}
  MaxFaults = 1
INVARIANT
  StopBeforeDeletionIsSafe
CHECK_DEADLOCK FALSE
