SPECIFICATION MCSpec
CONSTANTS
  f1 = f1
  f2 = f2
  v1 = v1
  v2 = v2
  u1 = u1
  a = a
  b = b
  Files = {f1, f2}
  Versions = {v1, v2}
  Contents = {a, b}
  Users = {u1}
  MaxGeneration = 2
  MaxRevision = 3
  b1 = b1
  b2 = b2
  t1 = t1
  t2 = t2
  Backends = {b1, b2}
  Turns = {t1, t2}
  OwnerOf <- MCOwner
  MaxStalls = 1
  MaxClears = 1
  MaxFailures = 1
  NoBackend = NoBackend
SYMMETRY MCSymmetry
CONSTRAINT MCBound
INVARIANTS VersionsTypeOK NamedFilesReadable TurnsTypeOK OneEditor RanOnce
PROPERTIES VersionsKept RestoredExactly ReceiptIsFinal RolledBack
CHECK_DEADLOCK FALSE
