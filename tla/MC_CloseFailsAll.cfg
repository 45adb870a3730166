\* Close while the connection is being redialled.
CONSTANTS
  Reqs = {r1, r2}
  NoReq = NoReq
  IdBits = 2
  QueueCap = 1
  MaxGen = 2
  Reconnect = 1
  UseAuth = FALSE
SYMMETRY ReqSymmetry
SPECIFICATION Spec
INVARIANT CloseFailsAll
CHECK_DEADLOCK FALSE
