SPECIFICATION MCTurnsSpec
CONSTANTS
  b1 = b1
  b2 = b2
  t1 = t1
  t2 = t2
  Backends = {b1, b2}
  Turns = {t1, t2}
  OwnerOf <- MCOwner
  MaxStalls = 0
  MaxClears = 0
  MaxFailures = 0
  NoBackend = NoBackend
PROPERTIES StoppedBeforeStart
CHECK_DEADLOCK FALSE
