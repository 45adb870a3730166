\* Writer and reader both see the same socket fail.
CONSTANTS
  Reqs = {r1, r2}
  NoReq = NoReq
  IdBits = 2
  QueueCap = 1
  MaxGen = 3
  Reconnect = 1
  UseAuth = FALSE
SYMMETRY ReqSymmetry
SPECIFICATION Spec
INVARIANT NoStaleFailure
CHECK_DEADLOCK FALSE
