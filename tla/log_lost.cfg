SPECIFICATION MCSpec
CONSTANTS
  Requests = {r1, r2, r3}
  Aliased = {}
  MaxCrashes = 0
  MaxFailures = 0
  Absent = Absent
  Broken = Broken
INVARIANTS
  JsonIsComplete
CHECK_DEADLOCK FALSE
