SPECIFICATION MCJobsSpec
CONSTANTS
  p1 = p1
  p2 = p2
  r1 = r1
  Replicas = {p1, p2}
  Runs = {r1}
  Capacity = 1
  MaxCrashes = 1
  Nobody = Nobody

PROPERTIES CancelledStays
CHECK_DEADLOCK FALSE
