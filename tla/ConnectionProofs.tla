--------------------------- MODULE ConnectionProofs ---------------------------
(***************************************************************************)
(* Proofs about the Connection model, for every value of its constants    *)
(* that satisfies ConstAssumption.                                         *)
(***************************************************************************)
EXTENDS Connection, TLAPS

\* The requestId counter stays within its width.
LEMMA NextIdType ==
  ASSUME NEW id \in Ids
  PROVE  nextRequestId(id) \in Ids
BY ConstAssumption DEF nextRequestId, Ids

\* What closeConnection leaves behind is well typed.
LEMMA CloseConnectionType ==
  ASSUME TypeOK, NEW err \in 0..MaxGen, closeConnection(err)
  PROVE  /\ connection' \in 0..MaxGen
         /\ dead' \subseteq Socks
         /\ requests' \in [Ids -> Reqs \cup {NoReq}]
         /\ fut' \in [Reqs -> Fut]
<1>1. CASE connection = NoSock
  BY <1>1 DEF closeConnection, TypeOK
<1>2. CASE connection # NoSock
  <2>1. connection \in Socks
    BY <1>2 DEF TypeOK, Socks, NoSock
  <2>2. /\ dead' = dead \cup {connection}
        /\ connection' = NoSock
        /\ requests' = [i \in Ids |-> NoReq]
        /\ fut' = [r \in Reqs |-> IF r \in Registered
                                     THEN [st |-> "err", by |-> err]
                                     ELSE fut[r]]
    BY <1>2 DEF closeConnection
  <2>3. [st |-> "err", by |-> err] \in Fut
    BY DEF Fut, FutStates
  <2>4. dead' \subseteq Socks
    BY <2>1, <2>2 DEF TypeOK
  <2>5. fut' \in [Reqs -> Fut]
    BY <2>2, <2>3 DEF TypeOK
  <2>6. QED
    BY <2>2, <2>4, <2>5, ConstAssumption DEF NoSock
<1>3. QED
  BY <1>1, <1>2

\* What createConnection leaves behind for the writer is well typed.
LEMMA WriterConnectType ==
  ASSUME TypeOK, WriterConnect
  PROVE  /\ connection' \in 0..MaxGen /\ dials' \in 0..MaxGen
         /\ requestId' \in Ids /\ wsock' \in 0..MaxGen
         /\ wpc' \in WriterPcs /\ (wpc' = "write" => wsock' \in Socks)
<1> USE ConstAssumption DEF TypeOK, NoSock, Socks, WriterPcs
<1>1. createConnection(wsock') /\ wpc' = IF wsock' = NoSock THEN "exit" ELSE "write"
  BY DEF WriterConnect
<1>2. requestId' \in Ids
  BY <1>1, NextIdType DEF createConnection
<1>3. /\ connection' \in 0..MaxGen /\ dials' \in 0..MaxGen /\ wsock' \in 0..MaxGen
  <2>1. CASE connection # NoSock /\ wsock' = connection
              /\ UNCHANGED <<connection, dials>>
    BY <2>1
  <2>2. CASE wsock' = NoSock /\ UNCHANGED <<connection, dials>>
    BY <2>2
  <2>3. CASE dials < MaxGen /\ dials' = dials + 1 /\ connection' = dials + 1
              /\ wsock' = dials + 1
    BY <2>3
  <2>4. QED
    BY <1>1, <2>1, <2>2, <2>3 DEF createConnection
<1>4. QED
  BY <1>1, <1>2, <1>3

\* What createConnection leaves behind for the reader is well typed.
LEMMA ReaderConnectType ==
  ASSUME TypeOK, ReaderConnect
  PROVE  /\ connection' \in 0..MaxGen /\ dials' \in 0..MaxGen
         /\ requestId' \in Ids /\ rsock' \in 0..MaxGen /\ rpc' \in ReaderPcs
<1> USE ConstAssumption DEF TypeOK, NoSock, Socks, ReaderPcs
<1>1. createConnection(rsock') /\ rpc' = IF rsock' = NoSock THEN "exit" ELSE "read"
  BY DEF ReaderConnect
<1>2. requestId' \in Ids
  BY <1>1, NextIdType DEF createConnection
<1>3. /\ connection' \in 0..MaxGen /\ dials' \in 0..MaxGen /\ rsock' \in 0..MaxGen
  <2>1. CASE connection # NoSock /\ rsock' = connection
              /\ UNCHANGED <<connection, dials>>
    BY <2>1
  <2>2. CASE rsock' = NoSock /\ UNCHANGED <<connection, dials>>
    BY <2>2
  <2>3. CASE dials < MaxGen /\ dials' = dials + 1 /\ connection' = dials + 1
              /\ rsock' = dials + 1
    BY <2>3
  <2>4. QED
    BY <1>1, <2>1, <2>2, <2>3 DEF createConnection
<1>4. QED
  BY <1>1, <1>2, <1>3

-----------------------------------------------------------------------------
(* Type correctness: every reachable state satisfies TypeOK.  TypeOK is   *)
(* inductive on its own because it records, per program counter, that    *)
(* the writer holds a packet and a live socket and the reader a response. *)
LEMMA TypeOKStep == TypeOK /\ [Next]_vars => TypeOK'
  <2> SUFFICES ASSUME TypeOK, [Next]_vars PROVE TypeOK'
    OBVIOUS
  <2> USE ConstAssumption DEF TypeOK, Fut, FutStates, WriterPcs, ReaderPcs,
                             NoSock, Client, Socks
  <2>1. ASSUME NEW r \in Reqs, SubmitClosed(r) PROVE TypeOK'
    BY <2>1 DEF SubmitClosed
  <2>2. ASSUME NEW r \in Reqs, Submit(r) PROVE TypeOK'
    BY <2>2, NextIdType DEF Submit
  <2>3. ASSUME NEW r \in Reqs, Enqueue(r) PROVE TypeOK'
    BY <2>3 DEF Enqueue
  <2>4. CASE CloseFlag
    BY <2>4 DEF CloseFlag
  <2>5. CASE CloseControl
    BY <2>5 DEF CloseControl
  <2>6. CASE CloseConnection
    BY <2>6, CloseConnectionType DEF CloseConnection
  <2>7. CASE Writer
    <3>1. CASE WriterTake \/ WriterWait
      <4>1. /\ packets # <<>>
            /\ wpkt' = Head(packets)
            /\ packets' = Tail(packets)
            /\ wpc' = "got"
            /\ UNCHANGED <<connection, dials, dead, wire, requestId, requests,
                           fut, sentOn, wsock>>
            /\ WUnchanged
        BY <3>1 DEF WriterTake, WriterWait
      <4>2. /\ Head(packets) \in Reqs
            /\ Tail(packets) \in Seq(Reqs)
            /\ Len(Tail(packets)) <= QueueCap
        BY <4>1
      <4>3. QED
        BY <4>1, <4>2 DEF WUnchanged
    <3>2. CASE WriterFlushSnap \/ WriterFlush \/ WriterFlushFail \/ WriterStop
      BY <3>2 DEF WriterFlushSnap, WriterFlush, WriterFlushFail, WriterStop,
                  WUnchanged
    <3>3. CASE WriterFlushClose \/ WriterClose
      BY <3>3, CloseConnectionType DEF WriterFlushClose, WriterClose, WUnchanged
    <3>4. CASE WriterGot
      BY <3>4 DEF WriterGot, WUnchanged
    <3>5. CASE WriterConnect
      BY <3>5, WriterConnectType DEF WriterConnect, WUnchanged
    <3>6. CASE WriterWrite
      <4>1. [sock |-> wsock, req |-> wpkt] \in [sock : Socks, req : Reqs]
        BY <3>6 DEF WriterWrite
      <4>2. QED
        BY <3>6, <4>1 DEF WriterWrite, Written, WUnchanged
    <3>8. CASE WriterWriteLost
      <4>1. sentOn' \in [Reqs -> 0..MaxGen]
        BY <3>8 DEF WriterWriteLost, Written
      <4>2. QED
        BY <3>8, <4>1 DEF WriterWriteLost, WUnchanged
    <3>9. CASE WriterWriteFail
      BY <3>9 DEF WriterWriteFail, WUnchanged
    <3>7. QED
      BY <2>7, <3>1, <3>2, <3>3, <3>4, <3>5, <3>6, <3>8, <3>9 DEF Writer
  <2>8. CASE Reader
    <3>1. CASE ReaderSnap
      BY <3>1 DEF ReaderSnap, RUnchanged
    <3>2. CASE ReaderConnect
      BY <3>2, ReaderConnectType DEF ReaderConnect, RUnchanged
    <3>3. CASE ReaderRead
      <4>1. PICK m \in wire : /\ m.sock = rsock
                              /\ wire' = wire \ {m}
                              /\ rresp' = m.req
        BY <3>3 DEF ReaderRead
      <4>2. rresp' \in Reqs
        BY <4>1
      <4>3. QED
        BY <3>3, <4>1, <4>2 DEF ReaderRead, RUnchanged
    <3>7. CASE ReaderReadFail
      BY <3>7 DEF ReaderReadFail, RUnchanged
    <3>4. CASE ReaderClose
      BY <3>4, CloseConnectionType DEF ReaderClose, RUnchanged
    <3>5. CASE ReaderDeliver
      <4> DEFINE id == reqId[rresp]
      <4>1. id \in Ids
        BY <3>5 DEF ReaderDeliver
      <4>2. CASE requests[id] # NoReq
        <5>1. /\ requests' = [requests EXCEPT ![id] = NoReq]
              /\ fut' = [fut EXCEPT ![requests[id]] = [st |-> "ok", by |-> Client]]
          BY <3>5, <4>2 DEF ReaderDeliver
        <5>2. requests[id] \in Reqs
          BY <4>1, <4>2
        <5>3. QED
          BY <3>5, <4>1, <5>1, <5>2 DEF ReaderDeliver, RUnchanged
      <4>3. CASE requests[id] = NoReq
        BY <3>5, <4>3 DEF ReaderDeliver, RUnchanged
      <4>4. QED
        BY <4>2, <4>3
    <3>6. QED
      BY <2>8, <3>1, <3>2, <3>3, <3>4, <3>5, <3>7 DEF Reader
  <2>9. CASE Break
    BY <2>9 DEF Break, Socks
  <2>10. CASE DialRetry
    BY <2>10, NextIdType DEF DialRetry
  <2>11. CASE UNCHANGED vars
    BY <2>11 DEF vars
  <2>12. QED
    BY <2>1, <2>2, <2>3, <2>4, <2>5, <2>6, <2>7, <2>8, <2>9, <2>10, <2>11
    DEF Next

\* The initial state is well typed.
LEMMA InitType == Init => TypeOK
BY ConstAssumption DEF Init, TypeOK, Ids, Fut, FutStates, NoSock, Client, WriterPcs,
                       ReaderPcs

\* Type correctness: every state the connection reaches satisfies TypeOK.
THEOREM TypeCorrect == Spec => []TypeOK
BY InitType, TypeOKStep, PTL DEF Spec

-----------------------------------------------------------------------------
(* The registry invariant.  RegistrySound is not inductive by itself:     *)
(* Submit stores a future under a fresh id, and must know that the future *)
(* it registers is not already in the registry.  A caller that has not    *)
(* submitted yet holds a "new" future, which RegistrySound keeps out of   *)
(* the registry.                                                          *)
IdleFresh == \A r \in Reqs : callerPc[r] = "idle" => fut[r].st = "new"

IInv == TypeOK /\ RegistrySound /\ IdleFresh

\* A step that leaves the registry, the futures, the ids and the callers
\* alone preserves the registry invariant.
LEMMA QuietStep ==
  ASSUME RegistrySound, IdleFresh,
         UNCHANGED <<requests, fut, reqId, callerPc>>
  PROVE  RegistrySound' /\ IdleFresh'
BY DEF RegistrySound, IdleFresh, Pending

\* closeConnection fails exactly the registered futures, which are pending
\* and hence not held by an idle caller, and empties the registry.
LEMMA CloseConnectionRegistry ==
  ASSUME TypeOK, RegistrySound, IdleFresh, NEW err \in 0..MaxGen,
         closeConnection(err), UNCHANGED <<reqId, callerPc>>
  PROVE  RegistrySound' /\ IdleFresh'
<1>1. CASE connection = NoSock
  BY <1>1, QuietStep DEF closeConnection
<1>2. CASE connection # NoSock
  <2>1. requests' = [i \in Ids |-> NoReq]
    BY <1>2 DEF closeConnection
  <2>2. RegistrySound'
    BY <2>1 DEF RegistrySound
  <2>3. ASSUME NEW r \in Reqs, callerPc'[r] = "idle" PROVE fut'[r].st = "new"
    <3>1. fut[r].st = "new"
      BY <2>3 DEF IdleFresh
    <3>2. r \notin Registered
      BY <3>1 DEF Registered, RegistrySound, Pending
    <3>3. fut'[r] = fut[r]
      BY <1>2, <3>2 DEF closeConnection
    <3>4. QED
      BY <3>1, <3>3
  <2>4. QED
    BY <2>2, <2>3 DEF IdleFresh
<1>3. QED
  BY <1>1, <1>2

\* Submit registers a future that no entry of the registry holds yet.
LEMMA SubmitRegistry ==
  ASSUME TypeOK, RegistrySound, IdleFresh, NEW r \in Reqs, Submit(r)
  PROVE  RegistrySound' /\ IdleFresh'
<1> DEFINE id == nextRequestId(requestId)
<1>1. id \in Ids
  BY NextIdType DEF TypeOK
<1>2. /\ requests' = [requests EXCEPT ![id] = r]
      /\ reqId' = [reqId EXCEPT ![r] = id]
      /\ fut' = [fut EXCEPT ![r] = [st |-> "pending", by |-> Client]]
      /\ callerPc' = [callerPc EXCEPT ![r] = "enqueue"]
      /\ callerPc[r] = "idle"
  BY DEF Submit
<1>2a. fut[r].st = "new"
  BY <1>2 DEF IdleFresh
<1>3. ASSUME NEW i \in Ids, requests'[i] # NoReq
      PROVE  fut'[requests'[i]].st = "pending" /\ reqId'[requests'[i]] = i
  <2>1. CASE i = id
    BY <1>1, <1>2, <2>1 DEF Pending, TypeOK
  <2>2. CASE i # id
    <3>1. requests'[i] = requests[i] /\ requests[i] # NoReq
      BY <1>2, <2>2, <1>3 DEF TypeOK
    <3>2. Pending(requests[i]) /\ reqId[requests[i]] = i
      BY <3>1 DEF RegistrySound
    <3>3. requests[i] # r
      BY <3>2, <1>2a DEF Pending
    <3>4. requests[i] \in Reqs
      BY <3>1 DEF TypeOK
    <3>5. QED
      BY <1>2, <3>1, <3>2, <3>3, <3>4 DEF Pending, TypeOK
  <2>3. QED
    BY <2>1, <2>2
<1>4. IdleFresh'
  BY <1>2 DEF IdleFresh, TypeOK
<1>5. QED
  BY <1>3, <1>4 DEF RegistrySound, Pending

\* A response completes the future its id names and unregisters it; the
\* other entries hold other futures, since their ids differ.
LEMMA DeliverRegistry ==
  ASSUME TypeOK, RegistrySound, IdleFresh, ReaderDeliver
  PROVE  RegistrySound' /\ IdleFresh'
<1> DEFINE id == reqId[rresp]
<1>1. id \in Ids /\ rresp \in Reqs
  BY DEF ReaderDeliver, TypeOK
<1>2. UNCHANGED <<reqId, callerPc>>
  BY DEF ReaderDeliver, RUnchanged
<1>3. CASE requests[id] = NoReq
  BY <1>2, <1>3, QuietStep DEF ReaderDeliver
<1>4. CASE requests[id] # NoReq
  <2> DEFINE s == requests[id]
  <2>1. /\ requests' = [requests EXCEPT ![id] = NoReq]
        /\ fut' = [fut EXCEPT ![s] = [st |-> "ok", by |-> Client]]
    BY <1>4 DEF ReaderDeliver
  <2>2. s \in Reqs /\ Pending(s) /\ reqId[s] = id
    BY <1>1, <1>4 DEF RegistrySound, TypeOK
  <2>3. ASSUME NEW i \in Ids, requests'[i] # NoReq
        PROVE  fut'[requests'[i]].st = "pending" /\ reqId'[requests'[i]] = i
    <3>1. i # id /\ requests'[i] = requests[i] /\ requests[i] # NoReq
      BY <2>1, <2>3, <1>1 DEF TypeOK
    <3>2. Pending(requests[i]) /\ reqId[requests[i]] = i /\ requests[i] \in Reqs
      BY <3>1 DEF RegistrySound, TypeOK
    <3>3. requests[i] # s
      BY <3>1, <3>2, <2>2
    <3>4. QED
      BY <1>2, <2>1, <2>2, <3>1, <3>2, <3>3 DEF Pending, TypeOK
  <2>4. IdleFresh'
    <3>1. callerPc[s] # "idle"
      BY <2>2 DEF IdleFresh, Pending
    <3>2. QED
      BY <1>2, <2>1, <2>2, <3>1 DEF IdleFresh, TypeOK
  <2>5. QED
    BY <2>3, <2>4 DEF RegistrySound, Pending
<1>5. QED
  BY <1>3, <1>4

\* Submit on a closed connection fails a future that is not registered.
LEMMA SubmitClosedRegistry ==
  ASSUME TypeOK, RegistrySound, IdleFresh, NEW r \in Reqs, SubmitClosed(r)
  PROVE  RegistrySound' /\ IdleFresh'
<1>1. /\ fut' = [fut EXCEPT ![r] = [st |-> "err", by |-> Client]]
      /\ callerPc' = [callerPc EXCEPT ![r] = "done"]
      /\ fut[r].st = "new"
      /\ UNCHANGED <<requests, reqId>>
  BY DEF SubmitClosed, IdleFresh
<1>2. ASSUME NEW i \in Ids, requests'[i] # NoReq
      PROVE  fut'[requests'[i]].st = "pending" /\ reqId'[requests'[i]] = i
  <2>1. Pending(requests[i]) /\ reqId[requests[i]] = i /\ requests[i] \in Reqs
    BY <1>1, <1>2 DEF RegistrySound, TypeOK
  <2>2. requests[i] # r
    BY <1>1, <2>1 DEF Pending
  <2>3. QED
    BY <1>1, <2>1, <2>2 DEF Pending, TypeOK
<1>3. IdleFresh'
  BY <1>1 DEF IdleFresh, TypeOK
<1>4. QED
  BY <1>2, <1>3 DEF RegistrySound, Pending

(* The registry is sound: every future in conn.requests is still pending  *)
(* and is stored under the id its request was sent with, across Submit,   *)
(* responses and closeConnection from the writer, the reader and Close,   *)
(* even after requestId wraps.  So the reader's lookup by resp.RequestId  *)
(* completes a pending future at most once; after a wrap it may be the    *)
(* newer request holding the id, which this theorem does not exclude.     *)
THEOREM RegistryCorrect == Spec => []RegistrySound
<1>1. Init => IInv
  <2> SUFFICES ASSUME Init PROVE IInv
    OBVIOUS
  <2>1. TypeOK
    BY InitType
  <2>2. RegistrySound
    BY DEF Init, RegistrySound
  <2>3. IdleFresh
    BY DEF Init, IdleFresh
  <2>4. QED
    BY <2>1, <2>2, <2>3 DEF IInv
<1>2. IInv /\ [Next]_vars => IInv'
  <2> SUFFICES ASSUME IInv, [Next]_vars PROVE IInv'
    OBVIOUS
  <2>0. TypeOK /\ RegistrySound /\ IdleFresh /\ TypeOK'
    BY TypeOKStep DEF IInv
  <2> SUFFICES RegistrySound' /\ IdleFresh'
    BY <2>0 DEF IInv
  <2>1. ASSUME NEW r \in Reqs, SubmitClosed(r) PROVE RegistrySound' /\ IdleFresh'
    BY <2>0, <2>1, SubmitClosedRegistry
  <2>2. ASSUME NEW r \in Reqs, Submit(r) PROVE RegistrySound' /\ IdleFresh'
    BY <2>0, <2>2, SubmitRegistry
  <2>3. ASSUME NEW r \in Reqs, Enqueue(r) PROVE RegistrySound' /\ IdleFresh'
    <3>1. /\ callerPc' = [callerPc EXCEPT ![r] = "done"]
          /\ UNCHANGED <<requests, fut, reqId>>
      BY <2>3 DEF Enqueue
    <3>2. QED
      BY <2>0, <3>1 DEF RegistrySound, IdleFresh, Pending, TypeOK
  <2>4. CASE CloseFlag \/ CloseControl
    BY <2>0, <2>4, QuietStep DEF CloseFlag, CloseControl
  <2>5. CASE CloseConnection
    <3>1. Client \in 0..MaxGen
      BY ConstAssumption DEF Client
    <3>2. QED
      BY <2>0, <2>5, <3>1, CloseConnectionRegistry DEF CloseConnection
  <2>6. CASE Writer
    <3>1. CASE WriterFlushClose \/ WriterClose
      <4>1. PICK err \in 0..MaxGen : closeConnection(err)
        BY <3>1, <2>0 DEF WriterFlushClose, WriterClose, TypeOK
      <4>2. UNCHANGED <<reqId, callerPc>>
        BY <3>1 DEF WriterFlushClose, WriterClose, WUnchanged
      <4>3. QED
        BY <2>0, <4>1, <4>2, CloseConnectionRegistry
    <3>2. CASE ~(WriterFlushClose \/ WriterClose)
      <4>1. UNCHANGED <<requests, fut, reqId, callerPc>>
        BY <2>6, <3>2 DEF Writer, WriterTake, WriterWait, WriterFlushSnap,
                          WriterFlush, WriterFlushFail, WriterStop, WriterGot,
                          WriterConnect, WriterWrite, WriterWriteLost,
                          WriterWriteFail, WUnchanged
      <4>2. QED
        BY <2>0, <4>1, QuietStep
    <3>3. QED
      BY <3>1, <3>2
  <2>7. CASE Reader
    <3>1. CASE ReaderClose
      <4>1. rsock \in 0..MaxGen /\ closeConnection(rsock)
        BY <3>1, <2>0 DEF ReaderClose, TypeOK
      <4>2. UNCHANGED <<reqId, callerPc>>
        BY <3>1 DEF ReaderClose, RUnchanged
      <4>3. QED
        BY <2>0, <4>1, <4>2, CloseConnectionRegistry
    <3>2. CASE ReaderDeliver
      BY <2>0, <3>2, DeliverRegistry
    <3>3. CASE ReaderSnap \/ ReaderConnect \/ ReaderRead \/ ReaderReadFail
      <4>1. UNCHANGED <<requests, fut, reqId, callerPc>>
        BY <3>3 DEF ReaderSnap, ReaderConnect, ReaderRead, ReaderReadFail,
                    RUnchanged
      <4>2. QED
        BY <2>0, <4>1, QuietStep
    <3>4. QED
      BY <2>7, <3>1, <3>2, <3>3 DEF Reader
  <2>8. CASE Break \/ DialRetry
    BY <2>0, <2>8, QuietStep DEF Break, DialRetry
  <2>9. CASE UNCHANGED vars
    BY <2>0, <2>9, QuietStep DEF vars
  <2>10. QED
    BY <2>1, <2>2, <2>3, <2>4, <2>5, <2>6, <2>7, <2>8, <2>9 DEF Next
<1>3. IInv => RegistrySound
  BY DEF IInv
<1>4. QED
  BY <1>1, <1>2, <1>3, PTL DEF Spec

=============================================================================
