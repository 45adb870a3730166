------------------------------ MODULE Connection ------------------------------
(***************************************************************************)
(* One tarantool.Connection (src/unnamed/part_000): the writer and reader  *)
(* goroutines started by Connect, createConnection / closeConnection that *)
(* swap the socket under conn.mutex, the request registry conn.requests,  *)
(* the buffered channel conn.packets, Close, and the callers that submit  *)
(* requests.  Request submission lives in request.go, which is not under  *)
(* src/: Submit and Enqueue are modelled from spec.md section 4.2/4.5.    *)
(*                                                                         *)
(* Data is abstracted: a packet is the request it encodes, a socket is    *)
(* its generation number (the n-th successful dial), an error is the      *)
(* socket whose I/O produced it (Client for "client closed connection").  *)
(* Every critical section under conn.mutex is one atomic step; the reads  *)
(* of conn.w / conn.r that the goroutines do without the mutex are steps  *)
(* of their own, so a goroutine can act on a socket that was swapped out. *)
(***************************************************************************)
EXTENDS Naturals, Sequences, FiniteSets

CONSTANTS
  Reqs,       \* the requests callers submit, each at most once
  NoReq,      \* no future: an absent map entry, or no packet held
  IdBits,     \* width of conn.requestId (uint32 in the code)
  QueueCap,   \* capacity of conn.packets (make(chan []byte, 64))
  MaxGen,     \* bound on successful dials: sockets are 1..MaxGen
  Reconnect,  \* opts.Reconnect; the code only tests Reconnect > 0
  UseAuth     \* opts.User # "": each dial that reads a greeting sends AUTH

IdSpace == 2^IdBits   \* the values a uint of IdBits bits takes

ASSUME ConstAssumption ==
  /\ NoReq \notin Reqs
  /\ IdBits \in Nat \ {0}
  /\ IdSpace \in Nat \ {0}
  /\ QueueCap \in Nat \ {0}
  /\ MaxGen \in Nat
  /\ Reconnect \in Nat
  /\ UseAuth \in BOOLEAN

Ids == 0..(IdSpace - 1)
Socks == 1..MaxGen
NoSock == 0         \* conn.connection == nil
Client == 0         \* the error of Close: "client closed connection"

FutStates == {"new", "pending", "ok", "err"}
Fut == [st : FutStates, by : 0..MaxGen]
WriterPcs == {"top", "flush", "fclose", "wait", "got", "cc", "write", "close", "exit"}
ReaderPcs == {"top", "cc", "read", "close", "deliver", "exit"}

VARIABLES
  connection, \* generation of conn.connection (and conn.r, conn.w); 0 = nil
  dials,      \* sockets dialled so far
  dead,       \* sockets closed by closeConnection or broken by the network
  wire,       \* [sock, req] received by the server on sock, not answered
  closed,     \* conn.closed
  control,    \* TRUE once Close ran close(conn.control)
  requestId,  \* conn.requestId, the last id handed out
  requests,   \* conn.requests: id -> future, NoReq where there is none
  packets,    \* conn.packets, the channel, as a sequence of requests
  reqId,      \* the id each request was given when it was registered
  fut,        \* each request's future: st, and by = source of its error
  sentOn,     \* socket a request was written to while pending (0: none)
  callerPc,   \* "idle" -> "enqueue" (blocked on the channel) -> "done"
  wpc, wpkt, wsock,   \* writer goroutine: pc, packet held, its copy of conn.w
  rpc, rsock, rresp,  \* reader goroutine: pc, its copy of conn.r, response read
  closePc     \* the caller of Close: "open" -> "flagged" -> "ctl" -> "done"

vars == <<connection, dials, dead, wire, closed, control, requestId, requests,
          packets, reqId, fut, sentOn, callerPc, wpc, wpkt, wsock, rpc, rsock,
          rresp, closePc>>

-----------------------------------------------------------------------------
(* Helpers                                                                 *)

\* atomic.AddUint32(&conn.requestId, 1): wraps at 2^IdBits.
nextRequestId(id) == (id + 1) % IdSpace

Pending(r) == fut[r].st = "pending"

\* The requests whose future is in conn.requests.
Registered == {requests[i] : i \in Ids} \ {NoReq}

closeConnection(err) ==
  \/ /\ connection = NoSock
     /\ UNCHANGED <<connection, dead, requests, fut>>
  \/ /\ connection # NoSock
     /\ dead' = dead \cup {connection}
     /\ connection' = NoSock
     /\ requests' = [i \in Ids |-> NoReq]
     /\ fut' = [r \in Reqs |-> IF r \in Registered
                                  THEN [st |-> "err", by |-> err]
                                  ELSE fut[r]]

\* What the read of conn.closed at line 162 may return.  Close writes it
\* without the mutex (line 63), a data race: until Close's closeConnection
\* has taken and released conn.mutex, the read may still see false.
closedSeen == IF closePc \in {"flagged", "ctl"} THEN BOOLEAN ELSE {closed}

\* The outcome of one call of createConnection, res being its result
\* (0 for nil).  The mutex is held for the whole loop; an iteration whose
\* dial fails while Reconnect > 0 sleeps and retries (DialRetry below).
\* dial only installs a socket once the greeting was read and auth passed.
createConnection(res) ==
  \/ /\ connection # NoSock
     /\ res = connection
     /\ UNCHANGED <<connection, dials, requestId>>
  \/ /\ connection = NoSock
     /\ TRUE \in closedSeen
     /\ res = NoSock
     /\ UNCHANGED <<connection, dials, requestId>>
  \/ /\ connection = NoSock
     /\ FALSE \in closedSeen
     /\ dials < MaxGen
     /\ dials' = dials + 1
     /\ connection' = dials + 1
     /\ res = dials + 1
     /\ requestId' = IF UseAuth THEN nextRequestId(requestId) ELSE requestId
  \/ /\ connection = NoSock
     /\ FALSE \in closedSeen
     /\ Reconnect = 0
     /\ res = NoSock
     /\ requestId' \in IF UseAuth THEN {requestId, nextRequestId(requestId)}
                                  ELSE {requestId}
     /\ UNCHANGED <<connection, dials>>

-----------------------------------------------------------------------------
Init ==
  /\ connection = NoSock
  /\ dials = 0
  /\ dead = {}
  /\ wire = {}
  /\ closed = FALSE
  /\ control = FALSE
  /\ requestId = 0
  /\ requests = [i \in Ids |-> NoReq]
  /\ packets = <<>>
  /\ reqId = [r \in Reqs |-> 0]
  /\ fut = [r \in Reqs |-> [st |-> "new", by |-> Client]]
  /\ sentOn = [r \in Reqs |-> NoSock]
  /\ callerPc = [r \in Reqs |-> "idle"]
  /\ wpc = "top" /\ wpkt = NoReq /\ wsock = NoSock
  /\ rpc = "top" /\ rsock = NoSock /\ rresp = NoReq
  /\ closePc = "open"

-----------------------------------------------------------------------------
(* Callers (request.go, from spec.md 4.2 and 4.5)                          *)

\* Submit on a closed connection: the future fails with ClientClosed.
SubmitClosed(r) ==
  /\ callerPc[r] = "idle"
  /\ closed
  /\ fut' = [fut EXCEPT ![r] = [st |-> "err", by |-> Client]]
  /\ callerPc' = [callerPc EXCEPT ![r] = "done"]
  /\ UNCHANGED <<connection, dials, dead, wire, closed, control, requestId,
                 requests, packets, reqId, sentOn, wpc, wpkt, wsock, rpc,
                 rsock, rresp, closePc>>

\* Submit: take the next id and store id -> future under the mutex.
Submit(r) ==
  /\ callerPc[r] = "idle"
  /\ ~closed
  /\ LET id == nextRequestId(requestId) IN
       /\ requestId' = id
       /\ reqId' = [reqId EXCEPT ![r] = id]
       /\ requests' = [requests EXCEPT ![id] = r]
  /\ fut' = [fut EXCEPT ![r] = [st |-> "pending", by |-> Client]]
  /\ callerPc' = [callerPc EXCEPT ![r] = "enqueue"]
  /\ UNCHANGED <<connection, dials, dead, wire, closed, control, packets,
                 sentOn, wpc, wpkt, wsock, rpc, rsock, rresp, closePc>>

\* conn.packets <- packet: blocks while the channel is full.
Enqueue(r) ==
  /\ callerPc[r] = "enqueue"
  /\ Len(packets) < QueueCap
  /\ packets' = Append(packets, r)
  /\ callerPc' = [callerPc EXCEPT ![r] = "done"]
  /\ UNCHANGED <<connection, dials, dead, wire, closed, control, requestId,
                 requests, reqId, fut, sentOn, wpc, wpkt, wsock, rpc, rsock,
                 rresp, closePc>>

-----------------------------------------------------------------------------
(* Close (lines 62-67): three steps, only the last one under the mutex.   *)

CloseFlag ==
  /\ closePc = "open"
  /\ closed' = TRUE
  /\ closePc' = "flagged"
  /\ UNCHANGED <<connection, dials, dead, wire, control, requestId, requests,
                 packets, reqId, fut, sentOn, callerPc, wpc, wpkt, wsock, rpc,
                 rsock, rresp>>

CloseControl ==
  /\ closePc = "flagged"
  /\ control' = TRUE
  /\ closePc' = "ctl"
  /\ UNCHANGED <<connection, dials, dead, wire, closed, requestId, requests,
                 packets, reqId, fut, sentOn, callerPc, wpc, wpkt, wsock, rpc,
                 rsock, rresp>>

CloseConnection ==
  /\ closePc = "ctl"
  /\ closeConnection(Client)
  /\ closePc' = "done"
  /\ UNCHANGED <<dials, wire, closed, control, requestId, packets, reqId,
                 sentOn, callerPc, wpc, wpkt, wsock, rpc, rsock, rresp>>

-----------------------------------------------------------------------------
(* The writer goroutine (lines 202-233).                                   *)

WUnchanged == UNCHANGED <<closed, control, reqId, callerPc, rpc, rsock, rresp,
                          closePc>>

\* select { case packet = <-conn.packets: }: a packet is ready.
WriterTake ==
  /\ wpc = "top"
  /\ packets # <<>>
  /\ wpkt' = Head(packets)
  /\ packets' = Tail(packets)
  /\ wpc' = "got"
  /\ UNCHANGED <<connection, dials, dead, wire, requestId, requests, fut,
                 sentOn, wsock>>
  /\ WUnchanged

\* default: w = conn.w, read without the mutex; flush it when not nil.
WriterFlushSnap ==
  /\ wpc = "top"
  /\ packets = <<>>
  /\ wsock' = connection
  /\ wpc' = IF connection = NoSock THEN "wait" ELSE "flush"
  /\ UNCHANGED <<connection, dials, dead, wire, requestId, requests, packets,
                 fut, sentOn, wpkt>>
  /\ WUnchanged

\* w.Flush() returns nil: nothing buffered, or the socket took the bytes.
WriterFlush ==
  /\ wpc = "flush"
  /\ wpc' = "wait"
  /\ UNCHANGED <<connection, dials, dead, wire, requestId, requests, packets,
                 fut, sentOn, wpkt, wsock>>
  /\ WUnchanged

\* w.Flush() fails on a closed or broken socket.
WriterFlushFail ==
  /\ wpc = "flush"
  /\ wsock \in dead
  /\ wpc' = "fclose"
  /\ UNCHANGED <<connection, dials, dead, wire, requestId, requests, packets,
                 fut, sentOn, wpkt, wsock>>
  /\ WUnchanged

\* conn.closeConnection(err) after a failed flush, then the inner select.
WriterFlushClose ==
  /\ wpc = "fclose"
  /\ closeConnection(wsock)
  /\ wpc' = "wait"
  /\ UNCHANGED <<dials, wire, requestId, packets, sentOn, wpkt, wsock>>
  /\ WUnchanged

\* The inner select: a packet arrives ...
WriterWait ==
  /\ wpc = "wait"
  /\ packets # <<>>
  /\ wpkt' = Head(packets)
  /\ packets' = Tail(packets)
  /\ wpc' = "got"
  /\ UNCHANGED <<connection, dials, dead, wire, requestId, requests, fut,
                 sentOn, wsock>>
  /\ WUnchanged

\* ... or conn.control is closed: the writer returns.
WriterStop ==
  /\ wpc = "wait"
  /\ control
  /\ wpc' = "exit"
  /\ UNCHANGED <<connection, dials, dead, wire, requestId, requests, packets,
                 fut, sentOn, wpkt, wsock>>
  /\ WUnchanged

\* Mutant: the writer uses conn.w without checking it for nil.
WriterGotNoNilCheck ==
  /\ wpc = "got"
  /\ wsock' = connection
  /\ wpc' = "write"
  /\ UNCHANGED <<connection, dials, dead, wire, requestId, requests, packets,
                 fut, sentOn, wpkt>>
  /\ WUnchanged

\* if w = conn.w; w == nil { createConnection }: conn.w read without mutex.
WriterGot ==
  /\ wpc = "got"
  /\ wsock' = connection
  /\ wpc' = IF connection = NoSock THEN "cc" ELSE "write"
  /\ UNCHANGED <<connection, dials, dead, wire, requestId, requests, packets,
                 fut, sentOn, wpkt>>
  /\ WUnchanged

\* _, w = conn.createConnection(); a nil w makes the writer return.
WriterConnect ==
  /\ wpc = "cc"
  /\ createConnection(wsock')
  /\ wpc' = IF wsock' = NoSock THEN "exit" ELSE "write"
  /\ UNCHANGED <<dead, wire, requests, packets, fut, sentOn, wpkt>>
  /\ WUnchanged

\* Record the socket a still-pending request was written to.
Written(r, s) ==
  sentOn' = IF Pending(r) THEN [sentOn EXCEPT ![r] = s] ELSE sentOn

\* write(w, packet) on a live socket: the server receives the request.
WriterWrite ==
  /\ wpc = "write"
  /\ wsock \notin dead
  /\ wire' = wire \cup {[sock |-> wsock, req |-> wpkt]}
  /\ Written(wpkt, wsock)
  /\ wpc' = "top"
  /\ UNCHANGED <<connection, dials, dead, requestId, requests, packets, fut,
                 wpkt, wsock>>
  /\ WUnchanged

\* write(w, packet) on a dead socket returns nil: bufio.Writer kept the
\* bytes in its buffer (or the kernel took them) and they are never sent.
WriterWriteLost ==
  /\ wpc = "write"
  /\ wsock \in dead
  /\ Written(wpkt, wsock)
  /\ wpc' = "top"
  /\ UNCHANGED <<connection, dials, dead, wire, requestId, requests, packets,
                 fut, wpkt, wsock>>
  /\ WUnchanged

\* write(w, packet) on a dead socket returns an error.
WriterWriteFail ==
  /\ wpc = "write"
  /\ wsock \in dead
  /\ wpc' = "close"
  /\ UNCHANGED <<connection, dials, dead, wire, requestId, requests, packets,
                 fut, sentOn, wpkt, wsock>>
  /\ WUnchanged

\* conn.closeConnection(err); continue.
WriterClose ==
  /\ wpc = "close"
  /\ closeConnection(wsock)
  /\ wpc' = "top"
  /\ UNCHANGED <<dials, wire, requestId, packets, sentOn, wpkt, wsock>>
  /\ WUnchanged

-----------------------------------------------------------------------------
(* The reader goroutine (lines 235-266) and read (lines 279-303).          *)

RUnchanged == UNCHANGED <<closed, control, packets, reqId, sentOn, callerPc,
                          wpc, wpkt, wsock, closePc>>

\* if r = conn.r; r == nil { createConnection }: conn.r read without mutex.
ReaderSnap ==
  /\ rpc = "top"
  /\ rsock' = connection
  /\ rpc' = IF connection = NoSock THEN "cc" ELSE "read"
  /\ UNCHANGED <<connection, dials, dead, wire, requestId, requests, fut,
                 rresp>>
  /\ RUnchanged

\* r, _ = conn.createConnection(); a nil r makes the reader return.
ReaderConnect ==
  /\ rpc = "cc"
  /\ createConnection(rsock')
  /\ rpc' = IF rsock' = NoSock THEN "exit" ELSE "read"
  /\ UNCHANGED <<dead, wire, requests, fut, rresp>>
  /\ RUnchanged

\* read(r) returns a response frame: the server answers, in any order.
ReaderRead ==
  /\ rpc = "read"
  /\ rsock \notin dead
  /\ \E m \in wire :
       /\ m.sock = rsock
       /\ wire' = wire \ {m}
       /\ rresp' = m.req
  /\ rpc' = "deliver"
  /\ UNCHANGED <<connection, dials, dead, requestId, requests, fut, rsock>>
  /\ RUnchanged

\* read(r) fails: the socket was closed under the reader or broke.
ReaderReadFail ==
  /\ rpc = "read"
  /\ rsock \in dead
  /\ rpc' = "close"
  /\ UNCHANGED <<connection, dials, dead, wire, requestId, requests, fut,
                 rsock, rresp>>
  /\ RUnchanged

\* conn.closeConnection(err); continue.
ReaderClose ==
  /\ rpc = "close"
  /\ closeConnection(rsock)
  /\ rpc' = "top"
  /\ UNCHANGED <<dials, wire, requestId, rsock, rresp>>
  /\ RUnchanged

\* Mutant: the future is completed but left in conn.requests.
ReaderDeliverNoDelete ==
  /\ rpc = "deliver"
  /\ LET id == reqId[rresp] IN
       \/ /\ requests[id] # NoReq
          /\ fut' = [fut EXCEPT ![requests[id]] = [st |-> "ok", by |-> Client]]
       \/ /\ requests[id] = NoReq
          /\ UNCHANGED fut
  /\ UNCHANGED requests
  /\ rpc' = "top"
  /\ UNCHANGED <<connection, dials, dead, wire, requestId, rsock, rresp>>
  /\ RUnchanged

\* Mutant: the response completes the future of the request it answers,
\* without looking it up in conn.requests.
ReaderDeliverNoLookup ==
  /\ rpc = "deliver"
  /\ requests' = [requests EXCEPT ![reqId[rresp]] = NoReq]
  /\ fut' = [fut EXCEPT ![rresp] = [st |-> "ok", by |-> Client]]
  /\ rpc' = "top"
  /\ UNCHANGED <<connection, dials, dead, wire, requestId, rsock, rresp>>
  /\ RUnchanged

\* Under the mutex: take the future of resp.RequestId out of the registry
\* and complete it; an unknown id is only logged.
ReaderDeliver ==
  /\ rpc = "deliver"
  /\ LET id == reqId[rresp] IN
       \/ /\ requests[id] # NoReq
          /\ requests' = [requests EXCEPT ![id] = NoReq]
          /\ fut' = [fut EXCEPT ![requests[id]] = [st |-> "ok", by |-> Client]]
       \/ /\ requests[id] = NoReq
          /\ UNCHANGED <<requests, fut>>
  /\ rpc' = "top"
  /\ UNCHANGED <<connection, dials, dead, wire, requestId, rsock, rresp>>
  /\ RUnchanged

-----------------------------------------------------------------------------
(* The environment.                                                        *)

\* The network or the server drops the current socket.
Break ==
  /\ connection # NoSock
  /\ connection \notin dead
  /\ dead' = dead \cup {connection}
  /\ UNCHANGED <<connection, dials, wire, closed, control, requestId,
                 requests, packets, reqId, fut, sentOn, callerPc, wpc, wpkt,
                 wsock, rpc, rsock, rresp, closePc>>

\* A createConnection loop iteration whose auth was rejected, Reconnect > 0:
\* writeAuthRequest took an id, the goroutine sleeps and dials again.
DialRetry ==
  /\ wpc = "cc" \/ rpc = "cc"
  /\ connection = NoSock
  /\ FALSE \in closedSeen
  /\ Reconnect > 0
  /\ UseAuth
  /\ requestId' = nextRequestId(requestId)
  /\ UNCHANGED <<connection, dials, dead, wire, closed, control, requests,
                 packets, reqId, fut, sentOn, callerPc, wpc, wpkt, wsock, rpc,
                 rsock, rresp, closePc>>

-----------------------------------------------------------------------------
Writer ==
  \/ WriterTake \/ WriterFlushSnap \/ WriterFlush \/ WriterFlushFail
  \/ WriterFlushClose \/ WriterWait \/ WriterStop \/ WriterGot
  \/ WriterConnect \/ WriterWrite \/ WriterWriteLost \/ WriterWriteFail
  \/ WriterClose

Reader ==
  \/ ReaderSnap \/ ReaderConnect \/ ReaderRead \/ ReaderReadFail
  \/ ReaderClose \/ ReaderDeliver

Next ==
  \/ \E r \in Reqs : SubmitClosed(r) \/ Submit(r) \/ Enqueue(r)
  \/ CloseFlag \/ CloseControl \/ CloseConnection
  \/ Writer
  \/ Reader
  \/ Break \/ DialRetry

Spec == Init /\ [][Next]_vars

-----------------------------------------------------------------------------
(* Properties                                                              *)

TypeOK ==
  /\ connection \in 0..MaxGen
  /\ dials \in 0..MaxGen
  /\ dead \subseteq Socks
  /\ wire \subseteq [sock : Socks, req : Reqs]
  /\ closed \in BOOLEAN
  /\ control \in BOOLEAN
  /\ requestId \in Ids
  /\ requests \in [Ids -> Reqs \cup {NoReq}]
  /\ packets \in Seq(Reqs)
  /\ Len(packets) <= QueueCap
  /\ reqId \in [Reqs -> Ids]
  /\ fut \in [Reqs -> Fut]
  /\ sentOn \in [Reqs -> 0..MaxGen]
  /\ callerPc \in [Reqs -> {"idle", "enqueue", "done"}]
  /\ wpc \in WriterPcs /\ wpkt \in Reqs \cup {NoReq} /\ wsock \in 0..MaxGen
  /\ rpc \in ReaderPcs /\ rresp \in Reqs \cup {NoReq} /\ rsock \in 0..MaxGen
  /\ wpc \in {"got", "cc", "write", "close"} => wpkt \in Reqs
  /\ wpc = "write" => wsock \in Socks
  /\ rpc = "deliver" => rresp \in Reqs
  /\ closePc \in {"open", "flagged", "ctl", "done"}

(* The registry holds only pending futures, each under the id it was       *)
(* given: reader and closeConnection complete only what they take out of  *)
(* conn.requests, so no future's channel is closed twice (a panic).       *)
RegistrySound ==
  \A i \in Ids : requests[i] # NoReq =>
                   /\ Pending(requests[i])
                   /\ reqId[requests[i]] = i

\* A pending request's packet is somewhere it can still get an answer or
\* an error from: with its caller, in conn.packets, with the writer, or
\* written to the socket that is current now, or read back by the reader.
InFlight(r) ==
  \/ callerPc[r] = "enqueue"
  \/ \E i \in 1..Len(packets) : packets[i] = r
  \/ wpkt = r /\ wpc \in {"got", "cc", "write", "close"}
  \/ sentOn[r] # NoSock /\ sentOn[r] = connection
  \/ rpc = "deliver" /\ rresp = r

(* While the connection is open, no request is orphaned: every pending     *)
(* future is in conn.requests under its id, and its packet is still on a  *)
(* path that ends in a response or in closeConnection failing it.  The    *)
(* writer and reader read conn.w / conn.r without the mutex, so this is   *)
(* about a packet written to a socket that was swapped out meanwhile.     *)
NoOrphan ==
  ~closed => \A r \in Reqs : Pending(r) => /\ requests[reqId[r]] = r
                                          /\ InFlight(r)

(* A future is completed at most once: once ok or failed it never changes *)
(* (close(fut.c) twice panics).                                           *)
SingleCompletion ==
  [][\A r \in Reqs : fut[r].st \in {"ok", "err"} => fut'[r] = fut[r]]_vars

-----------------------------------------------------------------------------
(* What spec.md promises and the code is checked against.                  *)

(* spec.md 4.5: Close "fails all pending futures with ClientClosed".  Once *)
(* Close has returned, no future is pending.  closeConnection returns     *)
(* early when conn.connection is nil, i.e. while a reconnect is going on. *)
CloseFailsAll ==
  closePc = "done" => \A r \in Reqs : ~Pending(r)

(* spec.md 5: "any request observed as failed with a network error has    *)
(* not been retried; a caller may safely resubmit".  No request reaches   *)
(* the server after its future failed.  closeConnection fails the futures *)
(* of packets still in conn.packets; the writer sends them after redial.  *)
NoSendAfterFailure ==
  [][\A r \in Reqs : fut[r].st = "err" =>
                       \A m \in wire' \ wire : m.req # r]_vars

(* spec.md 4.5: a read or write error closes the connection it happened   *)
(* on.  A request written to socket s and failed by a network error was   *)
(* failed by an error of s, not by an error of an older socket read from  *)
(* a stale conn.r / conn.w after the other goroutine had redialled.       *)
NoStaleFailure ==
  \A r \in Reqs : fut[r].st = "err" /\ fut[r].by # Client /\ sentOn[r] # NoSock
                    => fut[r].by = sentOn[r]

(* spec.md 8: "request_ids are strictly unique while alive": two pending   *)
(* futures never share an id (atomic.AddUint32 wraps at 2^32).            *)
IdsUnique ==
  \A r1, r2 \in Reqs : r1 # r2 /\ Pending(r1) /\ Pending(r2)
                         => reqId[r1] # reqId[r2]

=============================================================================
