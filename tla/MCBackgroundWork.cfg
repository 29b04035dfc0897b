SPECIFICATION MCSpec
CONSTANTS
  p1 = p1
  p2 = p2
  r1 = r1
  Replicas = {p1, p2}
  Runs = {r1}
  Capacity = 1
  MaxCrashes = 1
  Nobody = Nobody
  b1 = b1
  b2 = b2
  t1 = t1
  t2 = t2
  Backends = {b1, b2}
  Turns = {t1, t2}
  OwnerOf <- MCOwner
  MaxStalls = 1
  MaxClears = 1
  MaxFailures = 1
  NoBackend = NoBackend
INVARIANTS JobsTypeOK
PROPERTIES NoRecreation RecoverySparesLive ResultKept CancelIsEffective JobsEnd CancelledTurnsEnd
CHECK_DEADLOCK FALSE
