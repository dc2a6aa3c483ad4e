SPECIFICATION MCSpec
CONSTANTS
  Accounts = {a1, a2}
  Dnis = {d1}
  OddDnis = {shortDni}
  NameLengths = {12}
  Roles = {0, 1}
  MaxRequests = 0
  None = None
  NoUser = NoUser
  NoRole = NoRole
  Budget = 0
INVARIANTS
  DistinctRolesPerDni
