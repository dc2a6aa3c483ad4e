SPECIFICATION MCSpec
CONSTANTS
  Requests = {r1, r2}
  Aliased = {r2}
  MaxCrashes = 1
  MaxFailures = 1
  Absent = Absent
  Broken = Broken
INVARIANTS
  TypeOK
  NothingInvented
  SpacedUpdatesKeepAll
PROPERTIES
  TextIsComplete
CHECK_DEADLOCK FALSE
