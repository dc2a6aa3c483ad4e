SPECIFICATION MCSpec
CONSTANTS
  Accounts = {a1, a2, a3}
  Dnis = {d1, d2}
  OddDnis = {shortDni}
  NameLengths = {12, 13}
  Roles = {0, 1}
  MaxRequests = 1
  None = None
  NoUser = NoUser
  NoRole = NoRole
  Budget = 1
INVARIANTS
  TypeOK
  PermissionsMatchGrantees
  UsersIndexed
PROPERTIES
  BindingsArePermanent
  RolesClashOnlyByOverwriting
  ImplementsLedger
CHECK_DEADLOCK FALSE
SYMMETRY Symmetry
