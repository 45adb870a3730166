\* opts.Reconnect = 0: one failed dial ends a goroutine.
CONSTANTS
  Reqs = {r1, r2}
  NoReq = NoReq
  IdBits = 2
  QueueCap = 1
  MaxGen = 2
  Reconnect = 0
  UseAuth = FALSE
SYMMETRY ReqSymmetry
SPECIFICATION Spec
INVARIANT NoOrphan
CHECK_DEADLOCK FALSE
