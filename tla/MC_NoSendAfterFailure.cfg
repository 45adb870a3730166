\* A request failed by a disconnect while still in conn.packets.
CONSTANTS
  Reqs = {r1, r2}
  NoReq = NoReq
  IdBits = 2
  QueueCap = 1
  MaxGen = 2
  Reconnect = 1
  UseAuth = FALSE
SYMMETRY ReqSymmetry
SPECIFICATION Spec
PROPERTY NoSendAfterFailure
CHECK_DEADLOCK FALSE
