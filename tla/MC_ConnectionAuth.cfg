\* An authenticated connection with reconnect on: every rejected auth and
\* every successful one takes a request id, so with four ids the counter
\* wraps while requests are pending.  The registry must stay sound anyway.
CONSTANTS
  Reqs = {r1, r2}
  NoReq = NoReq
  IdBits = 2
  QueueCap = 1
  MaxGen = 2
  Reconnect = 1
  UseAuth = TRUE
SYMMETRY ReqSymmetry
SPECIFICATION Spec
INVARIANT RegistrySound
PROPERTY SingleCompletion
\* After Close every goroutine returns and the program stops.
CHECK_DEADLOCK FALSE
