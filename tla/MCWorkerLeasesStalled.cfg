SPECIFICATION MCStalledSpec
CONSTANTS
  w1 = w1
  w2 = w2
  w3 = w3
  r1 = r1
  r2 = r2
  r3 = r3
  r4 = r4
  Workers = {w1, w2}
  Runs = {r1, r2}
  Workspaces = {"alice"}
  WorkspaceOf <- MCWorkspaceOf
  TTL = 2
  Beat = 1
  Delay = 1
  Limit = 1
  GlobalLimit = 2
  Timely = FALSE
  MaxTime = 4
  Nobody = Nobody
SYMMETRY MCSymmetry
PROPERTIES NoSteal
CHECK_DEADLOCK FALSE
