SPECIFICATION OutboundSpec
CONSTANTS
  Copies = {h1, h2}
  Calls = {c1}
  Passes = {p1}
  None = None
  Rungs = 2
PROPERTIES
  ReaperSparesCalls
CHECK_DEADLOCK FALSE
