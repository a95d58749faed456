SPECIFICATION OutboundSpec
CONSTANTS
  Copies = {h1, h2}
  Calls = {c1, c2}
  Passes = {p1}
  None = None
  Rungs = 2
PROPERTIES
  AnsweredIsOwn
CHECK_DEADLOCK FALSE
