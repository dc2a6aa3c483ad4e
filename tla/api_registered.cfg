SPECIFICATION Spec
CONSTANTS
  Requests = {r1, r2}
  Bodies <- WellFormed
  ForeignTxs = {}
  ForeignCalls = {}
  MaxCrashes = 0
  Era = 64
  BlockCapacity = 3
  NamedAccounts = {m1}
  ZeroAccount = zero
  Dnis = {d1}
  OddDnis = {shortDni}
  Roles = {0, 1}
  d1 = d1
  shortDni = shortDni
  m1 = m1
  Slow = {}
  None = None
  NoUser = NoUser
  NoRole = NoRole
INVARIANTS
  SuccessMeansRegistered
CHECK_DEADLOCK FALSE
