SPECIFICATION FairSpec
CONSTANTS
  Workers = {w1, w2}
  NoWorker = NoWorker
  MaxBacklog = 1
  MaxStray = 1
INVARIANTS
  TypeOK
  SubmitsInOwnMode
  SuccessIsOwnVerdict
  ErrorMeansNotSent
PROPERTIES
  PortReleased
CHECK_DEADLOCK FALSE
