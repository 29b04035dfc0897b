SPECIFICATION MCSpec
CONSTANTS
  w1 = w1
  w2 = w2
  w3 = w3
  r1 = r1
  r2 = r2
  r3 = r3
  r4 = r4
  Workers = {w1, w2, w3}
  Runs = {r1, r2, r3, r4}
  Workspaces = {"alice", "bob", "carol"}
  WorkspaceOf <- MCWorkspaceOf
  TTL = 4
  Beat = 1
  Delay = 1
  Limit = 1
  GlobalLimit = 2
  Timely = TRUE
  MaxTime = 7
  Nobody = Nobody
SYMMETRY MCSymmetry
INVARIANTS TypeOK AdmissionBound ExclusiveExecution
PROPERTIES ImplementsHolders
CHECK_DEADLOCK FALSE
