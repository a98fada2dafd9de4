# TLA+ models of rtvbp-go

rtvbp-go is a library for a real-time voice protocol: two peers exchange audio and JSON
messages (requests, responses, events) over one websocket connection. Its difficulties are
concurrent ones. A session is torn down by four parties at once, every incoming message gets a
goroutine, locks are held across sends and across requests to the peer, and channels are
bounded. This directory models these parts in TLA+, checks them with TLC, and proves the main
safety properties with TLAPS for all values of the constants.

## 1. Inventory of the system

| Component | State | Operations | What is hard |
|---|---|---|---|
| **Session** (`session.go`, `session_state.go`) | `state`, `closeOnce`, `triggerCloseChan`, `finalizedChan`, `onCloseHandlers`, channel `done` | `Run` (starts watcher, reader, init goroutine), `Close`/`doClose`, `finalize`, `OnClose` | closed by applications, handlers, the transport and the context concurrently; `OnBegin` may return after the end |
| **Requests** (`session_request.go`, `request.go`, `request_middleware.go`) | `pendingRequests` under `muPending`, one channel per request | `Request`, `newPendingRequest`, `resolvePendingRequest`, `Handle`, `OnAfterReply`, error replies | late, lost, repeated answers; a send under a lock; a second answer when the hook fails |
| **Websocket transport** (`transport/ws/transport.go`, `control.go`) | `msgOutChan`, `msgInChan`, the control channel's `input`, its lock, `closeChan`, `doneChan` | `Write`, `Close` with its drain, `process` and its four goroutines | bounded channels, a lock held while a send waits, teardown racing `Close` |
| **Client handler** (`proto/protov1/handler.go`, `app.go`, `call.go`, `ping.go`, `audio_info_event.go`) | `mu`, `initialized`, `shc`, `dtmfSeq` | `OnBegin`/`sessionInitialize`, `check`, request handlers, `Terminate`, closing hooks, DTMF and hangup events, pinger, audio.info | `mu` is held across requests to the peer while requests of the peer wait for it |
| **Websocket server** (`transport/ws/server.go`) | `sessions` under `mu`, the listener | upgrade handler, `addSession`, `removeSession`, `Shutdown` | `Shutdown` waits for sessions while it holds `mu` |
| Websocket client dial (`transport/ws/client.go`) | none | `Connect` | sequential |
| **Direct transport** (`transport/direct`) | two channels of capacity 1, one closer | `Write`, `Close`, `ReadChan` | both sides write while they handle; `ReadChan` is never closed |
| **Wire messages** (`proto/*.go`, `message.go`) | none | build, validate, encode, parse, convert errors | three names in one object, in a fixed priority; answers that cannot be sent |
| **Events and default handler** (`event.go`, `handler.go`, `request_middleware.go`) | the maps of handlers | `EventDispatch`, `OnRequest`, `OnEvent`, `Middleware` | each refusal has its code; handlers that call back |
| **Audio channel** (`audio.go`, `audio_observe.go`, `audio/loopback.go`, `audio/stream.go`) | two ring buffers, the loopback's buffer and condition variable, counters | `Read`, `Write`, `Close`, `ClearReadBuffer`, `DuplexCopy`, the observer | wake-ups, length and reset are two steps, `Reset` interrupts others, counters are taken while they grow |
| Data types (`proto/protov1`), telephony adapter, options, IDs, debug output, test helper, examples | configuration, devices | | see section 6 |

How they interact: the transport's `input` is the session's `ReadChan`; its end makes the reader
call `doClose`. `finalize` runs the close handlers: the audio buffers first, the transport's
`Close` last. A handler closes its own session from a message goroutine (`OnAfterReply`), with a
callback that sends `session.terminate` through the session that is closing. The server's upgrade
handler owns a session: it receives one result of `Run`, removes the session from the map and
cancels its context. A handler may send a request of its own over the session that called it and
wait for the answer. The transport's goroutines are one end of both ring buffers, the application's
copiers the other; the protocol's handler of audio.buffer.clear empties one of them, and its
audio.info counts both.

## 2. Modules

| Module | Models | Modules about it |
|---|---|---|
| `SessionPromise` | what a session promises its owner and the callers of `Close`, without goroutines or channels | |
| `Session` | one session's life cycle; implements `SessionPromise` | `SessionProofs`, `MCSession` |
| `RpcPromise` | what `Request` promises, without table, channels or lock | |
| `Rpc` | requests between two sessions; implements `RpcPromise` | `RpcProofs`, `MCRpc` |
| `TransportPromise` | what a transport promises those who write, without goroutines, channels or lock | |
| `WsTransport` | one websocket transport; implements `TransportPromise` | `WsTransportProofs`, `WsOrderProofs`, `MCWsTransport`, `MCWsClose` (which remembers what was queued when `Close` was called) |
| `ClosingSession` | a session as those see it that close it: the `Once`, the phase of finalize, transport and context | used by `ClientHandler`; implemented by `Session` |
| `ClientHandler` | the telephony side's protocol handler on top of a session | `ClientHandlerProofs`, `MCClientHandler` |
| `ServedSession` | a session as the server sees it: run, cancelled, closed, finalized, one result | used by `Server`; implemented by `Session` |
| `Server` | the server's handlers, the session map and `Shutdown` | `ServerProofs`, `MCServer` |
| `Messages` | the wire format, as operators | used by `Dialogue` |
| `DirectTransport` | the in-process transport, as actions | used by `Dialogue` |
| `Dialogue` | two sessions over a direct transport that exchange messages; implements `RpcPromise` | `DialogueProofs`, `MCDialogue` |
| `Audio` | the audio of a session, from the transport's processor to the loopback and back to `msgOutChan` | `AudioProofs`, `MCAudio` |

Each `*Proofs` module extends its component and TLAPS; each `MC*` module gives the sets for TLC.
Operators whose comment calls them *mutants* are bugged versions of the action below them, used
to see that each property can fail; no `Next` contains them.

**Session.** `pc` has one entry per goroutine: watcher, reader, init, each application that calls
`Close`, each message goroutine. An action is the code between two synchronisation points: reading
the state in `doClose` (`DoCloseCheck`), entering the `Once` (`DoCloseEnter`; others wait until
`closeOnce` is done, `DoCloseSkip`), the callback, the close of the trigger. `finalize` is several
steps, because `State` is read while it runs and close handlers may be registered: the range loop
iterates over the handlers there were at its start (`limit`). A second `close` of a channel sets it
to `"panic"`. `done` is a channel of capacity 1 with two senders. `BeginOk` and `BeginFail` write
the state whatever it is. `SessionPromise` sees of all this a phase, what has been torn down, the
outcome of each `Close` and what the owner was told; `KeepsPromise` is the mapping.

**Rpc.** A request stands for its random ID. `resolver` is the goroutine that holds `muPending`
inside `resolvePendingRequest`; `Register` and `GiveUp` are the two short sections of the same
lock. Messages in flight are sets, because every message is handled by its own goroutine; they can
be lost. The callee may refuse, fail after it has performed (invalid result, closed transport), or
fail in `OnAfterReply` after its positive answer; then `handleRequest` answers a second time. A side in
`stuck` has a transport whose `Write` waits forever (`GetStuck`, at any time): `sendMessage` comes before
the select on the request's context, so no timeout ends such a `Request`.

**WsTransport.** The goroutines of `process` are `main`, `reader`, `sender` (audio), `processor`
and `outgoing`; the session adds writers and `closer`, the goroutine in `finalize`. `mu` is the
control channel's lock, taken in one step and given back after the send it protects. A text is
named by its writer, so that order and loss can be told. `TransportPromise` sees only the accepted texts,
the sent ones and whether the transport is open, disturbed or over (`Phase`). The socket appears as in the results of
gorilla/websocket: a close frame is answered by the library and forbids later writes, and the first
error of a write stays (`writeErr`). A write may fail at any time (the network, or the write deadline
with a peer that does not read) while the reader goes on, a read may fail at any time, and so may
`audio.Write`, because of an `audio.buffer.clear`: the transport can be left half working.

**ClientHandler.** The lock `mu` names its holder. `OnBegin` is a sequence of steps from
`InitializeLock` to `WireHangup`; each of them can fail. A checked request is `Arrive`, `Check`,
`Perform`, `Reply`, and for call.hangup and application.move the hook that closes the session.
The hangup callback is `Hangup` (the event), `HangupSends` (its own session.terminate) and
`HangupReturns`; `goodbyes` keeps who has asked the server to terminate.
Its session is that of `ClosingSession`: its `Once`, the phase of finalize, the transport and its
context. A goroutine may enter the `Once` in any phase, because `doClose` looks at the state before.

**Server.** One upgrade handler per connection, one `Shutdown`. Its sessions are those of
`ServedSession`: a phase, the buffer of `done` and a context. `Server` extends that module and takes its
actions as they are, each together with what the server does in the same step. `RemoveSession` precedes `Cancel`: deferred calls run in
reverse order. Finalizing may take forever.

**Messages.** A message is a record with a type, a version, an ID, a name, a payload and an error.
`Encode` is what `json.Marshal` makes of the Go types (an event's name in `event`, an answer's ID in
`response`), `Parse` is `parseMessage` with its priority event, request, response, `Accepted` is
`ParseValidMessage`, `Validate` the checks both sides make. A payload is fine, refused by its own
`Validate`, or not decodable.

**Dialogue.** The opposite cut to `Rpc`: the table of pending requests is one step (`Resolve`), but
messages are really encoded, travel through bounded channels, are parsed and validated and go to the
default handler. `Dispatch` is `OnRequest` with its refusals: unknown method (501), middleware,
undecodable parameters, invalid parameters (400). A request of `Nested` is sent by the handler of
another one, which waits for it and may pass its error on (`PassesOn`). Either side may close at any
time; the shared closer makes the writes of both fail.

**Audio.** A byte is its number in the stream, so that order and loss can be told. `pc` and `hand`
follow four goroutines: `feed` (the processor of the transport), `in` and `out` (the two copiers of
`DuplexCopy`), `send` (the transport's audio goroutine). The stream begins when the processor has a
frame from `msgInChan` (`TakeFrame`) and ends when the audio goroutine has put one into `msgOutChan`
(`QueueFrame`). Those queues and what is behind them are in `WsTransport`: at the end frames in them can
be dropped, or overtaken by the drain, and `Audio` says nothing of that. The application may close its
device at any time (`LoopbackClose`; nothing in the repository does). A write to a ring buffer puts in what fits
and waits for the rest. The ring buffer is a library outside the repository: what its `Reset` and
its `Close` do to a read or a write that is under way is left open. `ClearLength` and `ClearReset`
are the two steps of `ClearReadBuffer`; `TickWrite`, `TickRead`, `TickNotify` those of the tracker.

## 3. Runs

Passing runs:

| Run | Instance | What it shows |
|---|---|---|
| `session` | an application that closes without deadline or callback, a message goroutine with both, one hook | no double close, complete and ordered cleanup, callback before teardown, and `SessionPromise`: nobody is told of an end that has not come; every trigger, cancellation and end of the transport leads to a finalized session, every `Close` returns, no goroutine is left blocked on `done` |
| `rpc` | two requests | a resolver never blocks with the lock, entries are removed, answers are delivered at most once, `Rpc` implements `RpcPromise`, and `Request` returns: always once its request was sent, before that unless the transport's `Write` waits forever |
| `ws_transport` | two writers, capacities 1, three other frames | no panic, order and no loss until the transport closes, no duplicates ever; `WsTransport` implements `TransportPromise`: nothing is accepted or sent after the end; `RestIsExplained`: wherever the goroutines come to rest, whoever is not done stands behind a send that waits for room, and a closing transport is torn down but for that |
| `client_handler` | call.hangup and audio.buffer.clear, one `Terminate`, one digit | requests only after the initialization, session.updated first; of all who close the session at most one says good-bye, over its whole life (the hangup callback's own session.terminate aside); the lock goes round: requests that wait for it are answered or refused, a `Terminate` that has it returns |
| `dialogue` | a request, one its handler sends back, an event that competes for the channel, capacity 1 | what is in a channel is understood as it was meant, answers tell what happened and are missing only when none can be sent, `Dialogue` implements `RpcPromise`, and no write, request or handler blocks forever, even when one side has gone |
| `audio` | three bytes, buffers, frames and reads of two, one clear | between the transport's two queues nothing is lost, repeated or reordered but what a clear removed or a failed write lost; the totals of audio.info are exact; audio flows until the end, the goroutines end (with exceptions that the properties name) |
| `server` | two connections, one `Shutdown` | the map is stable under the loop, all its sessions are closed within the deadline, ended sessions leave, failed ones are torn down, `Shutdown` ends |

Runs that show a disagreement between the repository's words and its code:

| Run | Violated | In words |
|---|---|---|
| `session_failed_begin` | `FailedMustTerminate` | a failed initialization does not terminate the session (`handler_test.go:319`); the server makes up for it (`FailedIsTornDown` in `Server`), a client has to |
| `ws_close_loses` | `CloseSendsBuffered` | `Close` triggers the teardown before it has sent "all currently buffered outgoing messages" (`transport.go:46`) |
| `ws_close_hangs` | `CloseReturns` | `Close` can block on its close frame, out of reach of its context (`transport.go:47`, `:62`) |
| `client_dtmf_order` | `DtmfInOrder` | digits can be handled out of order (`handler_test.go:307`) |
| `audio_clear_count` | `ClearExact` | the length that answers audio.buffer.clear is not "the number of bytes that were removed from the buffer" (`proto/protov1/audio.go:15`) |

**Bounds.** Capacities of 1 instead of 16 make each send meet a full channel within a few steps;
the code never looks at a length, only at full and empty, and the proofs are for any capacity.
`MaxFrames` bounds audio chunks, pings and peer frames together. With three of them and two writers
every kind of wait occurs in `ws_transport`: the reader at a full `msgInChan`, behind a processor that has
ended; the processor at the lock, behind a writer at a full `msgOutChan`, and at a full `input`; `process` at
the lock behind either of them; a ping and a close frame at a full queue, and two close frames at
once. What takes a fourth frame, and is left to the proofs, is a reader that waits behind a processor
that waits itself. `RestIsExplained` is an invariant and not a liveness property: a transport makes only
finitely many steps after its last call, frame and tick (the actions without fairness), so every
fair behaviour comes to rest, and the invariant is about all states at rest. Two requests suffice for one to hold
`muPending` while the other one registers, expires or is answered. Two closers with different
contexts and the reader are all kinds of callers `doClose` has. One `Shutdown` with two sessions
has one before, one after, and one in its current position of the loop. A nested request
shows a handler that waits while its session goes on; with one event there are three messages for
channels of one. With two bytes of room and frames of two, a write of `Audio` fits, fits in part or
waits; three bytes fill every buffer on the way. Runs have `CHECK_DEADLOCK FALSE`: a session that
has ended stops.

**Fairness.** Every goroutine that can run does (weak fairness per goroutine). Waiting for a
`sync.Mutex` is strongly fair where several goroutines contend again and again (`Check`,
`AddSession`, `RemoveSession`), as Go's mutex hands over to a waiter that starves. Contexts with a
deadline expire (`Request` has five seconds by default, `sessionTerminateAndClose` five,
the demo server's `Shutdown` five; `examples/loadtest` calls `Shutdown` without a deadline, which
`ShutdownEnds` does not cover). `Session` and `ClientHandler` assume that `OnBegin`, callbacks and close handlers
return. The transport's `Close` is a close handler, and `ws_close_hangs` shows a case in which it does
not return: the liveness of `Session` is relative to that, and `Server` does not assume it. In `Dialogue`
and `Audio` one condition covers all goroutines (`WF` of `Progress`): only finitely many messages
or bytes exist, so none can keep another waiting for ever. `Audio` also assumes that
the end of the transport and the close of the audio bring each other about. `RequestReturns` is about `Rpc`, where a write ends unless its side is stuck;
`ClientHandler` assumes that requests and writes end. With the websocket transport that is an assumption:
`Write` waits for the control channel's lock and then, with the lock, for room in `msgOutChan`, and looks at no
context (`control.go:31`, `:37`). A `Write` that waits forever while `sessionInitialize` or `Terminate` runs
keeps the handler's lock too, and `LockGoesRound` does not cover that. `Flows` takes for granted that
`msgOutChan` moves, which a ping tick on a full queue can end. Never
assumed: that a peer answers, a message arrives, the application reads its audio or its result,
a client connects or leaves.

## 4. Proofs

All proofs are for arbitrary constants under each module's named assumptions, which say that the
names of goroutines differ and that bounds are natural numbers (in `Session` also that message
goroutines have a deadline, as `sessionTerminateAndClose` sets it; in `Dialogue` that requests and
events have a side and an ID). The inductive invariants were first checked by TLC.

- **SessionProofs.** `IInv` ties `closeOnce` to the one goroutine inside the `Once` and to
  `triggerCloseChan`, and the watcher's position to `finalizedChan`, the state and the prefix of close
  handlers that has run. `NoDoubleClose` alone is not inductive: it needs that the goroutine
  about to trigger is the only one. Proved: `TypeOK`, `NoDoubleClose`, `CleanupComplete`,
  `CallbackBeforeTeardown`, the action property `ClosedIsFinalAfterBegin`, and `Implements`: every
  step of `Session` is a step of `SessionPromise` or a stutter. That nobody is told too early rests
  on `done` and `finalizedChan` being written by the watcher after the last close handler.
  `NobodyWaitsInVain` is the safe half of its liveness: a `Close` that waits was preceded by a trigger or
  a cancellation, a busy `Once` has somebody inside, and once the owner took a value from `done` the
  other sender finds room (`WaitsOK` counts values against senders). From it and from `ReaderOK` (the
  reader ends only after somebody asked) follows `KeepsMoving`: a session comes to rest only finalized, if it
  was told to end or lost its transport, with nobody inside `Close`. `OnlyForward`: no goroutine comes
  back to a place, so the steps of a session are bounded and it does come to rest. `ImplementsServed` and
  `ImplementsClosing`: each step of `Session` is a step of `ServedSession`, and of `ClosingSession`, or a stutter,
  so what `Server` and `ClientHandler` assume of a session leaves out nothing a session does.
- **RpcProofs.** `IInv` relates each request's entry, channel and resolver: while an entry exists
  its channel is empty, except between send and delete of the resolver that holds the lock.
  Proved: `TypeOK`, `ResolverNeverBlocks`, `NoStaleEntry`, `LeftOver`, and that `Rpc` implements
  `RpcPromise` (`Implements`: initial states map to initial states, each step to a step or a
  stutter). `KeepsMoving`: as the holder of `muPending` always finds room (`ResolverNeverBlocks`), when
  nobody has a step the only `Request`s left are inside a write to a stuck transport, and they hold no lock. `OnlyForward`: each request is called, served and
  resolved going forward, each message is taken or lost once.
- **WsTransportProofs.** `IInv` relates the lock's holder to the goroutine about to send, and the
  shared flags to the position of `process`. Proved: `TypeOK`, `NoPanic`, `DoneMeansTornDown`,
  and that no `Write` is accepted after `doneChan` is closed (`DoneRefusesWrites`).
- **ClientHandlerProofs.** The core is `WritersOK`: whoever may write has passed the lock after
  session.updated was sent. Proved: `TypeOK`, `InitHandledFirst`, `UpdatedFirst`, `GoodbyeOnce` (whose
  good-bye is in `goodbyes` has been through the `Once`, and nobody passes it twice: `GoodbyeOK`),
  and `NobodyWaitsInVain`: who holds `mu` waits for the server's answer or in `Close`, never for `mu`; who is
  inside the `Once` waits for the server only; so there is no circle; hence `KeepsMoving`: at rest `mu` is free and no request or
  `Terminate` is half-way. `ClosesSession`: the handler's steps on its session
  are steps of `ClosingSession`. `OnlyForward`: only the audio tracker and the pinger go round, until the
  context is cancelled; nobody else comes back to a place, and session.initialize is sent once.
- **ServerProofs.** `LoopOK` and `ClosedOK`: while `Shutdown` has the lock the map is what it found,
  and what the loop has been through is down for good. `HandlersOK` says of each connection what the
  position of its handler means for its session. Proved: `TypeOK`, `IterationSafe`,
  `ShutdownClosesAll`; `NoOrphans` (`HandlersCleanUp`): a session is in the map exactly while it is served, and none is up
  when its handler has returned; `NobodyWaitsInVain`: each wait of a handler, of `Close` and of `Shutdown`
  is for something on its way; hence `KeepsMoving`: at rest `Shutdown` has returned and a session that
  reported has left the map; `ServesSessions`: the server's steps on its sessions are steps of `ServedSession`.
  `OnlyForward`: each handler, each session and `Shutdown` goes through its places once.
- **WsOrderProofs.** `OnceOK`: a text is in one place at a time (accepted by the queue, in one hand,
  on the wire), also while the drain and the outgoing goroutine take turns; hence `SentOnce`.
  `FlagsOK`: nobody but the outgoing goroutine takes from the queue, and its writes succeed, before
  `closeChan` is closed or the context cancelled; with it `InOrderUntilClose` is inductive.
  `EndsOK`: why each goroutine has left its loop; hence `WhoLeavesEarly`: before the transport closes only
  the outgoing goroutine (a write failed), the processor (`audio.Write` failed) and the audio sender (the audio
  has ended) can be gone. `KeepsMoving` is `RestIsExplained` for any writers and capacities, a case for each place where a
  goroutine can stand. `Implements`: every step is a step of `TransportPromise`
  or a stutter. That a text is sent in turn before the disturbance is `InOrderUntilClose`; that nothing is
  sent after `doneChan` is closed rests on the connection being closed before, which makes the writes of
  those who still have a text in hand fail.
- **DialogueProofs.** The invariant follows a message from its encoding to its handling. `FlightOK`:
  what is queued or waits for its goroutine is accepted and meant for its receiver; `OnceOK`: each
  request is in one place, so it is dispatched once; `ServeOK` and `CallOK`: how far the handler has
  come determines the answers that exist, and a caller has only what such an answer says.
  Proved: `TypeOK`, `Understood`, `AnswersTell`, and that `Dialogue` implements `RpcPromise`
  (`Implements`), for any requests, nesting, events and capacity. `NobodyBlocks`: a full channel is
  read from or closed, since a reader leaves only when its session is about to close the transport.
  `OnlyForward`: callers, handlers, notifiers and sessions go forward only, and each message is taken once.
- **AudioProofs.** Each buffer keeps its capacity and holds bytes the peer has sent, whatever is
  cleared or cut off (`TypeOK`); `TotalsAddUp` by following the counter `dispatch` has just taken.
  `OnWay` is about the order: the stream is eight pieces one behind the other (`Way`), from what is in
  `msgOutChan` back to what the processor has just taken. Each piece increases and lies below the next, and
  every step but three moves the first bytes of a piece to the end of the one before it (`Moved`),
  which changes neither order nor content; a new frame comes in at the far end (`Arrived`), a clear
  or a failed write throws a piece away (`Removed`). It needs that a goroutine that reads holds nothing
  (`HandsOK`) and that a write fails only after a clear, the end or the close of the device (`GoneOK`). Hence
  `NothingLost`. `KeepsMoving` follows from
  `WorkOK` (a sleeping reader of the loopback is signalled when there is something to read; whoever
  waits for room holds bytes; what each end means) and the order: with no copier able to step, the
  stream is what has come to `msgOutChan`.

Every safety property of the passing runs is proved. Only model-checked is what is about liveness:
fairness and `ENABLED` are beyond the prover. What of it is safety is proved in three forms. The theorems
called `NobodyWaitsInVain` say that in every reachable state what a goroutine waits for is there, or
somebody is left who will do it. `KeepsMoving` and `NobodyBlocks` say that a state in which no goroutine
has a step (`Stalled`, which spells out the guards; on the instances TLC finds it to be the negation of
`ENABLED` of the fair actions) is one the liveness property wants the system to come to. That a system
does not run in circles is proved for `Session`, `Rpc`, `Dialogue`, `Server` and, tickers aside, `ClientHandler`:
`OnlyForward` says that each step takes somebody to a later place or uses up something there is a fixed
number of, so only finitely many steps are left. (That a decreasing measure ends is then a fact about
numbers, not stated in TLA+.) `WsTransport` and `Audio` have goroutines whose loops are what they are for,
bounded in the models by `MaxFrames` and the length of the stream; there, and for fairness everywhere,
that the system gets to its rest is TLC's part.

## 5. Observations

What the models show about the code and no run is about:

- The init goroutine writes `active` or `failed` when `OnBegin` returns (`session.go:248`, `:251`),
  also over `closing` or `closed`. `Close` then enters `doClose` again, where the `Once` stops it, so
  nothing is torn down twice; but `State` says `active` of a session that is over. Nothing else brings a
  closed session back (`ClosedStaysClosed`).
- A request that reaches the client before the initialization is over waits for the handler's lock
  (`handler.go:97`) and is then carried out if the initialization succeeded. It fails only when it
  arrives before `OnBegin` has the lock, or when the initialization fails. `handler_test.go:320` asks for more:
  "what if requests are send before session.initialize request is handled -> requests must fail".
  Ping is answered at any time.
- A `Write` of the websocket transport can wait forever, and `Request` with it: its timeout is looked
  at only after the write (`session_request.go:54`).
- A websocket transport can work by half. A write that fails, by the write deadline for one, ends the
  outgoing goroutine without closing anything (`transport.go:225`): the reader and the session go on, `Write`
  still accepts until `msgOutChan` is full. A failed `audio.Write` ends the processor (`transport.go:192`): the
  session still writes and hears nothing more.
- The hangup callback sends a session.terminate of its own (`handler.go:139`), beside or after that of a
  `Terminate` or a closing hook: the server can be asked twice (`GoodbyeOnce`).
- A `Reset` that interrupts a write of the transport can make it fail,
  and the processor then handles no further message of the peer: `Flows` makes this exception. A clear that comes after the end can
  open the buffer again, and its users wait (`CopiersEnd`).
- An error answer without a text or without a code does not validate and is never sent; the caller
  runs into its timeout (`AnswersTell`).
- When the hook of a request fails, the caller's request has been answered with `Ok` already; the
  second answer finds nobody waiting.
- After `Shutdown` of a server a session that was started but not yet in the map goes on:
  `ShutdownClosesAll` is about the sessions of the map.
- The ring buffers, the socket and HTTP's server are seen through what the code does with their
  results.

## 6. Not modelled

- *The two queues of a transport under its audio* at the end: see `Audio` in section 2.
- *Websocket client dial* (`client.go`): one dial with a deadline and no retry. `Connect` waits until
  the goroutine of `process` runs, so `WsTransport` begins with all goroutines there; a failure is
  `RunFails` of `Session`.
- *Telephony adapter and dummy phone*: an interface, a test double and an example device. To
  `ClientHandler` each call succeeds or fails. (The dummy phone's `closed` is never set, so its
  "already shutdown" cannot occur; it panics on session variables and recordings; it keeps its lock
  while it calls the hangup callback, which sends a request to the peer.)
- *Protocol data types*: records with a `Validate`; `Messages` has what matters of it, whether a
  payload is refused at the sender, at the receiver, or cannot be decoded.
- *Ping*: round trip time and one-way delay are arithmetic on two clocks; the request and its
  answer are requests like others.
- *Options, IDs, debug output, test helper*: configuration, random IDs (taken to be unique), logging.
- *Examples*: command lines, sound devices and a load generator around the library. Their `DuplexCopy`
  with the loopback is in `Audio`, the demo server's handler for session.initialize in
  `ClientHandler`, its `Shutdown` in `Server`.
- *The server's* `Listen` (one goroutine that serves until the listener is closed) and configuration.

The sessions of `Server` and `ClientHandler` are proved to be reductions of `Session`, for its safety
(section 4). That of `Dialogue` is stated in its header only.

## 7. Plan

Done: all the modules of section 2, their runs, and their proofs. Worth doing next:

1. A composition of `Session` with the transport's `Close`, for what `ws_close_hangs` does to
   `Session.Close`.
2. The session of `Dialogue` as a reduction of `Session`.
