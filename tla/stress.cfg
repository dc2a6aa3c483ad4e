SPECIFICATION Spec
CONSTANTS
  TOTAL_REQUESTS = 3
  SIMULTANEOUS_REQUESTS = 2
  MaxLines = 2
  MaxTests = 3
  MaxUnlogged = 1
INVARIANTS
  TypeOK
  WindowIsKept
  GroupsAreWhole
  OneTestPerLine
PROPERTIES
  SessionEnds
CHECK_DEADLOCK FALSE
