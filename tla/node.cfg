SPECIFICATION NodeSpec
CONSTANTS
  TxIds = {t1, t2, t3, t4}
  Calls = {call}
  MaxNonce = 3
  Era = 1
  BlockCapacity = 2
INVARIANTS
  NodeTypeOK
  NoncesAreConsecutive
  AcceptedIsHeld
PROPERTIES
  CoveredIsFinalized
CHECK_DEADLOCK FALSE
