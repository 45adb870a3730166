\* A 1-bit requestId: the third request reuses the first one's id.
CONSTANTS
  Reqs = {r1, r2, r3}
  NoReq = NoReq
  IdBits = 1
  QueueCap = 1
  MaxGen = 1
  Reconnect = 1
  UseAuth = FALSE
SYMMETRY ReqSymmetry
SPECIFICATION Spec
INVARIANT IdsUnique
CHECK_DEADLOCK FALSE
