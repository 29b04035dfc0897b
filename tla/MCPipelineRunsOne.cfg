SPECIFICATION Spec
CONSTANTS
  p1 = p1
  p2 = p2
  r1 = r1
  r2 = r2
  s1 = s1
  Replicas = {p1}
  Executions = {r1, r2}
  Keys = {r1, r2}
  KeyOf <- MCOwnKey
  Capacity = 2
  Activities = {"cancel", "clear"}
  MaxCrashes = 1
  Servers = {s1}
  Bundles = {"b"}
  PendingLimit = 1
  NoBundle = NoBundle
  Acknowledged = TRUE
  Nobody = Nobody
SYMMETRY MCSymmetry
INVARIANTS TypeOK SummaryAgrees
PROPERTIES ImplementsLifecycle
CHECK_DEADLOCK FALSE
