SPECIFICATION MCSpec
CONSTANTS
  e1 = e1
  e2 = e2
  e3 = e3
  s1 = s1
  s2 = s2
  b1 = b1
  b2 = b2
  Servers = {s1, s2}
  Here = s1
  Executions = {e1, e2, e3}
  Requests = {e1, e2, e3}
  Bundles = {b1, b2}
  NoBundle = NoBundle
  PendingLimit = 3
  Acknowledged = FALSE
  Wants <- MCWants
  Host <- MCHost
  Floor <- MCFloor
  MaxActive = 2
INVARIANTS ReceiptsTypeOK NoReplay TypeOK NoOvercommit Accounted HeldByWork
PROPERTIES ReceiptsAreFinal NoOvertaking AllServed
CHECK_DEADLOCK FALSE
