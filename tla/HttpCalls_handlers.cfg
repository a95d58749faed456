SPECIFICATION HttpFairSpec
CONSTANTS
  r1 = r1
  r2 = r2
  r3 = r3
  out = out
  in = in
  k1 = k1
  k2 = k2
  Requests = {r1, r2, r3}
  Calls = {out, in}
  NoCall = NoCall
  Keys = {k1, k2}
  Traffic <- MCTraffic
  MaxRings = 1
  MaxMedia = 1
  MaxFaults = 1
INVARIANTS
  HttpTypeOK
  NoGhostCall
  NothingOutlivesCall
  KeyHasWorker
PROPERTIES
  HangupKeepsEnd
  CallKeysAreOnce
  CallKeyAnswered
CHECK_DEADLOCK FALSE
