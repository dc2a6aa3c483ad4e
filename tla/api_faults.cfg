SPECIFICATION Spec
CONSTANTS
  Requests = {r1, r2}
  Bodies <- Anything
  ForeignTxs = {w1}
  ForeignCalls <- Meddling
  MaxCrashes = 1
  Era = 1
  BlockCapacity = 1
  NamedAccounts = {m1}
  ZeroAccount = zero
  Dnis = {d1}
  OddDnis = {shortDni}
  Roles = {0, 1}
  d1 = d1
  shortDni = shortDni
  m1 = m1
  Slow = {}
  None = None
  NoUser = NoUser
  NoRole = NoRole
SYMMETRY Alike
INVARIANTS
  TypeOK
  FundedFirst
  SuccessIsFinal
  FileIsSound
  UsersWereAskedFor
  QueriesTellTheOutcome
CHECK_DEADLOCK FALSE
