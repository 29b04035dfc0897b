SPECIFICATION MCSpec
CONSTANTS
  p1 = p1
  p2 = p2
  r1 = r1
  r2 = r2
  s1 = s1
  Replicas = {p1, p2}
  Executions = {r1, r2}
  Keys = {"k"}
  KeyOf <- MCSharedKey
  Capacity = 2
  Activities = {"cancel", "clear", "scan"}
  MaxCrashes = 3
  Servers = {s1}
  Bundles = {"b"}
  PendingLimit = 2
  NoBundle = NoBundle
  Acknowledged = TRUE
  Nobody = Nobody
SYMMETRY MCSymmetry
CONSTRAINT MCBound
INVARIANTS OneRunPerKey ExecutionHoldsLease SuccessHasReceipt
PROPERTIES NoResurrection NoResubmission
CHECK_DEADLOCK FALSE
