\* A connection with reconnect on, guest session, two requests, a channel
\* of one slot and three sockets: enough for a socket to be swapped out
\* under the writer or the reader twice.
CONSTANTS
  Reqs = {r1, r2}
  NoReq = NoReq
  IdBits = 2
  QueueCap = 1
  MaxGen = 3
  Reconnect = 1
  UseAuth = FALSE
SYMMETRY ReqSymmetry
SPECIFICATION Spec
INVARIANT TypeOK
INVARIANT RegistrySound
 
PROPERTY SingleCompletion
\* The program really stops: after Close every goroutine returns, and a
\* reconnect loop that never gets a socket blocks everyone on conn.mutex.
CHECK_DEADLOCK FALSE
