# Formal models of go-tarantool-1.6

TLA+ models of the Tarantool 1.6 Go connector in `src/`, with TLC
configurations that check them on small instances and TLAPS proofs that hold
for every value of the constants.

## The system

The connector (`src/unnamed/part_000`, the connection file) has these parts:

* **Connection engine (spec.md C5).** `Connect` builds a `Connection` and
  starts two goroutines: `writer` (lines 202-233) and `reader` (lines 235-266).
  The socket and its buffered reader and writer (`conn.connection`, `conn.r`,
  `conn.w`) are swapped only under `conn.mutex`, by `createConnection`
  (lines 158-175: dial, greeting, auth, in a loop that sleeps `Reconnect`
  between attempts) and by `closeConnection` (lines 184-200: close the socket,
  nil it, fail every registered future). `Close` (lines 62-67) sets
  `conn.closed`, closes `conn.control` and calls `closeConnection`.
* **Request registry and ids (C2).** `conn.requests` maps a request id to its
  future. `nextRequestId` (lines 305-307) is `atomic.AddUint32`.
* **Futures (C3) and Submit.** These live in `request.go`, which is not under
  `src/`. Their behaviour is modelled from spec.md 4.2-4.5 and marked
  `spec_modelled` in the map: take an id, store id → future under the mutex,
  then send the packet on the 64-slot channel `conn.packets`.
* **Authenticator (C4).** `auth`, `writeAuthRequest` and `readAuthResponse`
  (lines 101-156) run inside `dial`. The auth request takes a request id.
* **Frame codec (C1).** `read` and `write` (lines 268-303) handle the 5-byte
  length header.
* **Decimal** (`src/decimal/decimal.go`). `MarshalMsgpack` range-checks a
  decimal before its BCD encoding.
* **Box wrappers** (`src/unnamed/part_001`, `src/box/schema_user.go`). Request
  builders and response decoders for `box.info` and `box.schema.user`.
* **CRUD builders** (`src/crud/insert.go`).
* **Pool (C6).** Only its tests are present.

How the parts interact:

1. A caller registers a future and queues a packet.
2. The writer takes packets from the channel, redials through
   `createConnection` when `conn.w` is nil, and writes them.
3. The reader reads responses from `conn.r` and completes the future
   registered under the response's id.
4. Any read, write or flush error calls `closeConnection`.
5. The next goroutine that finds the socket nil redials.

Both goroutines read `conn.r` / `conn.w` **without** the mutex. Most of the
hazards below come from that.

## Modules

| Module | Models | Kind |
|---|---|---|
| `Connection.tla` | connection engine, registry, futures, auth outcome, frame read/write outcome | state machine |
| `MC_Connection.tla` | symmetry set for TLC | MC |
| `ConnectionProofs.tla` | TLAPS proofs about `Connection` | proofs |
| `Decimal.tla` | `MarshalMsgpack` range check, with a digit-count reference definition | algorithm |
| `MC_Decimal.tla` | TLC instance of `Decimal` | MC |

### Connection.tla

**Constants:**

* `Reqs`: the requests, each submitted at most once.
* `NoReq`: a model value for "no future" or "no packet".
* `IdBits`: the id width. The code has 32; `IdSpace == 2^IdBits`.
* `QueueCap`: capacity of `conn.packets`. The code has 64.
* `MaxGen`: the number of sockets that may ever be dialled, the bound on
  reconnects.
* `Reconnect`: 0 or positive, as `opts.Reconnect`.
* `UseAuth`: `opts.User != ""`.

**State.** The correspondence with the code:

* **Sockets.** A socket is a generation number `1..MaxGen`.
  * `connection` is the current one (`conn.connection`, `conn.r` and
    `conn.w` together), or 0 for nil.
  * `dials` counts the dials.
  * `dead` holds the sockets closed, or broken by the network.
* **Network.** `wire` is the set of `[sock, req]` the server received and has
  not yet answered. The server answers in any order.
* **Close state.** `closed`, `control` and `closePc` follow `Close`'s three
  steps.
* **Ids and registry.**
  * `requestId` is `conn.requestId`.
  * `requests` is `conn.requests`, `Ids -> Reqs ∪ {NoReq}`.
  * `reqId[r]` is the id `r` was registered with.
* **Channel.** `packets` is the channel, as a sequence bounded by `QueueCap`.
* **Futures.**
  * `fut[r]` is `r`'s future: `new`, `pending`, `ok`, or `err` with the
    socket whose error failed it (0 = `Close`).
  * `sentOn[r]` is the socket `r` was last written to while pending.
* **Goroutines.**
  * `callerPc` is the caller's progress.
  * `wpc`, `wpkt` and `wsock` are the writer's program counter, packet and
    socket snapshot.
  * `rpc`, `rsock` and `rresp` are the reader's.

**Actions.** One action per goroutine step between two points where
another goroutine can interleave. A section under `conn.mutex` is one step.

* `closeConnection(err)` and `createConnection(res)` are the bodies of the two
  mutex-holding functions, used inside the writer, reader and `Close` actions.
* `createConnection`'s disjuncts are its outcomes:
  * a socket exists;
  * closed;
  * a dial succeeds, and the auth request takes an id;
  * fail-fast with `Reconnect = 0`.
* `DialRetry` is one iteration of its loop whose auth was rejected with
  `Reconnect > 0`. It takes an id and the loop goes on.
* The read of `conn.closed` at line 162 races with the write at line 63.
  `closedSeen` lets it return either value until `Close` has passed the
  mutex.
* Writer steps:
  * `WriterTake` / `WriterWait` take a packet;
  * `WriterFlushSnap`, `WriterFlush`, `WriterFlushFail` and
    `WriterFlushClose` are the idle flush;
  * `WriterStop` stops on `conn.control`;
  * `WriterGot` is the unlocked `conn.w` snapshot;
  * `WriterConnect` redials;
  * `WriterWrite`, `WriterWriteLost` and `WriterWriteFail` are the three
    outcomes of `write`: sent; buffered into a dead socket and lost; or an
    error;
  * `WriterClose` closes after a write error.
* Reader steps:
  * `ReaderSnap` is the unlocked `conn.r` snapshot;
  * `ReaderConnect` redials;
  * `ReaderRead` reads a response;
  * `ReaderReadFail` is a read error;
  * `ReaderClose` closes;
  * `ReaderDeliver` is the locked lookup and completion.

  A malformed frame on a live socket (lines 248-254, 286-298) has the same
  effect as `Break` followed by a read error, so it is not a separate action.
* Environment: `Break` is the network or the server dropping the current
  socket.
* Callers (spec-modelled): `Submit`, `SubmitClosed`, `Enqueue`.

`ReaderDeliverNoDelete`, `ReaderDeliverNoLookup`, `closeConnectionNoFail` and
`WriterGotNoNilCheck` are mutants: plausible bugs, used to show that the
properties can fail.

### Decimal.tla

A decimal is abstracted to an integer, which is all the range check compares.
`DecimalPrecision` is a constant; the code has 38, and TLC runs it at 2.
`MarshalMsgpack(n)` makes the two comparisons in the code's order.

`NumDigits` is a recursive function used as the reference definition of
"fits the precision".

## Properties and runs

"Pass" runs must finish with no error; "violation" runs are expected to fail,
and each failure is a finding.

| Run | cfg | Checks | Result |
|---|---|---|---|
| connection | MC_Connection.cfg | `TypeOK`, `RegistrySound`, `NoOrphan`, `SingleCompletion` | pass |
| connection_auth | MC_ConnectionAuth.cfg | `RegistrySound`, `SingleCompletion` | pass |
| close_fails_all | MC_CloseFailsAll.cfg | `CloseFailsAll` | violation |
| no_send_after_failure | MC_NoSendAfterFailure.cfg | `NoSendAfterFailure` | violation |
| no_stale_failure | MC_NoStaleFailure.cfg | `NoStaleFailure` | violation |
| no_orphan_no_reconnect | MC_NoOrphanNoReconnect.cfg | `NoOrphan` with `Reconnect = 0` | violation |
| id_wrap | MC_IdWrap.cfg | `IdsUnique` | violation |
| decimal | MC_Decimal.cfg | `AcceptsRepresentable` | pass |
| decimal_precision | MC_DecimalPrecision.cfg | `FitsPrecision` | violation |

What each property says:

* **`RegistrySound`.** Every future in `conn.requests` is pending and sits
  under its own id. If it fails, a response or a `closeConnection` completes
  a future twice (`close` of a closed channel panics) or completes the wrong
  one.
* **`NoOrphan`.** While the connection is open, every pending request is
  registered and its packet is on a path that ends in an answer or in
  `closeConnection`. It is the safety half of spec.md 8's "every returned
  future eventually completes (barring Close)".
* **`SingleCompletion`** (action property). A completed future never changes.

What the violation runs show, with their findings in PROJECT.json:

1. **`NoSendAfterFailure`.** `closeConnection` fails futures whose packets
   are still queued. The writer then sends them on the next socket, so a
   caller that saw a network error may see its request executed. This is
   against spec.md 5.
2. **`CloseFailsAll`.** `Close` while `conn.connection` is nil fails nothing
   (the early return at line 187). This is against spec.md 4.5.
3. **`NoOrphan` with `Reconnect = 0`.** A failed dial ends the goroutine, and
   registered futures hang forever.
4. **`NoStaleFailure`.** A read error on a stale `conn.r` closes the freshly
   dialled socket and fails its requests with the old error.
5. **`IdsUnique`.** Ids wrap and overwrite a pending entry (spec.md 8).
6. **`FitsPrecision`.** The lower bound `-10^38` has 39 digits.

**Bounds.**

* Two requests, a one-slot channel and three sockets (`connection`) are
  enough for every interleaving of interest:
  * a request queued while its socket is swapped;
  * the writer and the reader each holding a stale socket;
  * two reconnects;
  * `Close` at each point of the writer's and reader's loops.
* Four ids with two requests never wrap in the guest run, so `NoOrphan` is
  checked without the id-wrap finding masking it.
* The auth run wraps on purpose, since every dial takes an id. It checks the
  properties that must survive wrapping.
* The symmetry on `Reqs` is sound: no definition tells two requests apart.

**Deadlock** is not checked (`CHECK_DEADLOCK FALSE`). The program really
stops: after `Close` both goroutines return, and with `Reconnect = 0` or with
the socket budget spent, nothing is left to do.

**Fairness.** No liveness property is checked yet, so `Spec` has no fairness.
Liveness is planned for the next sitting (see the plan below). The writer and
reader are goroutines the Go scheduler runs, which justifies weak fairness on
their steps. Dial success cannot be assumed fair: the server may never come
back.

## Proofs (ConnectionProofs.tla)

TLAPS checks the following under `ConstAssumption` (`NoReq ∉ Reqs`; the
numeric constants are naturals; `IdSpace` is a positive natural). They hold
for every queue capacity, id width, socket budget, reconnect setting and auth
setting.

* **`TypeCorrect`: `Spec => []TypeOK`.** `TypeOK` is inductive as written
  because it carries the pc-dependent facts the writer and reader need:
  * a writer in `got..close` holds a packet;
  * a writer about to write holds a real socket;
  * a delivering reader holds a response.

  The step lemma `TypeOKStep` has one case per action. `closeConnection` and
  the two `createConnection` uses have lemmas of their own.
* **`RegistryCorrect`: `Spec => []RegistrySound`.** `RegistrySound` alone is
  not inductive: `Submit` stores a future under a fresh id, and if that future
  were already registered elsewhere, the other entry would hold a non-pending
  future after completion. The inductive invariant is
  `IInv == TypeOK /\ RegistrySound /\ IdleFresh`, where `IdleFresh` says that
  a caller that has not submitted holds a `new` future, which therefore is in
  no entry.
  * `Submit` may overwrite the entry of a pending request when ids wrap. That
    leaves the other entries sound, so the theorem holds with wrapping.
  * `ReaderDeliver` removes the entry its id names. The other entries hold
    other futures, because their recorded ids differ.
  * `closeConnection` empties the registry.

  `IInv` was checked with TLC as an invariant before it was proved.

**Only model-checked:**

* `NoOrphan`, `SingleCompletion` and the `Decimal` property.
* Everything about liveness and `ENABLED`, which is out of TLAPS's reach.
* What `NumDigits` computes: it is recursive, and induction over data cannot
  be instantiated by the installed provers.

## Not modelled

* `request.go` (futures, `Send`, timeouts) is not in the sources. Its
  behaviour is taken from spec.md.
* The CHAP-SHA1 scramble and greeting parsing are pure computation. A dial
  either yields an authenticated socket or fails.
* The length-header parser of `read` is not modelled yet.
* The Pool (C6): only tests exist in `src/`.
* CRUD and `box` builders and decoders: stateless.
* A second `Close` (a panic on `close(conn.control)`) is not modelled.

## Plan

1. **Liveness.** Under weak fairness of the writer and reader and with the
   server eventually staying up, every submitted request eventually completes
   while the connection is open. `Close` eventually returns, given the mutex
   held across the sleep at line 169.
2. **Double `Close`.** An idempotence property for `Close`, as a violation
   run.
3. **Abstract future/registry spec.** A specification of what the registry
   promises (register, complete once, fail all), and `Connection` shown to
   refine it with `INSTANCE ... WITH`, proved in TLAPS as step simulation.
4. **`Frame` module.** `read`'s header parsing against a reference decoder.
5. **`Pool` module.** Modelled from spec.md 4.6 (round robin per mode, role
   probe through `InfoResponse.DecodeMsgpack` of `part_001`), with a
   refinement to an abstract router.
6. **Proofs.** `NoOrphan` by TLAPS, via an inductive strengthening over the
   writer and reader program counters.
