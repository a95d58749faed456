SPECIFICATION OutboxFairSpec
CONSTANTS
  r1 = r1
  r2 = r2
  r3 = r3
  k1 = k1
  k2 = k2
  s1 = s1
  Requests = {r1, r2, r3}
  HttpKeys = {k1, k2}
  SipKeys = {s1}
  Traffic <- MCTraffic
  Segments = 2
  MaxFaults = 1
  MaxStops = 1
INVARIANTS
  OutboxTypeOK
  NeverSubmittedTwice
  RowTellsTruth
  AnswerTellsTruth
  KeyHasWorker
  MessageHandedOver
PROPERTIES
  KeysAreOnce
  KeyAnswered
CHECK_DEADLOCK FALSE
