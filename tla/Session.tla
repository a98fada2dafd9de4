------------------------------- MODULE Session -------------------------------
(***************************************************************************)
(* The life cycle of one rtvbp.Session (session.go, session_state.go): the *)
(* three goroutines Run starts (watcher, reader, init), the goroutines the *)
(* reader spawns per message, and the application goroutines that call     *)
(* Session.Close.  One action is one step between two synchronisation      *)
(* points: a mutex section, a channel operation, a sync.Once.              *)
(*                                                                         *)
(* The transport is seen through its contract only: it exists after Run,   *)
(* its ReadChan may be closed at any time ("ended").  What a message       *)
(* handler does besides calling Close is module Rpc's subject.             *)
(***************************************************************************)
EXTENDS Naturals, Sequences, FiniteSets

CONSTANTS
  Apps,          \* application goroutines that may call Session.Close
  Handlers,      \* goroutines the reader may spawn, one per incoming message
  Bounded,       \* callers of Close whose context has a deadline
  WithCallback,  \* callers of Close that pass a callback
  Hooks          \* CloseHandlers the application may register with OnClose

Closers == Apps \cup Handlers

\* The goroutines that run doClose, and all goroutines of the model.
DoClosers == Closers \cup {"reader"}
Threads == DoClosers \cup {"watcher", "init"}

\* Handler goroutines run under a request context that has a deadline
\* (sessionTerminateAndClose); the reader passes no callback to doClose.
ASSUME ConstantsAssumption ==
  /\ {"reader", "watcher", "init"} \cap Closers = {}
  /\ Handlers \subseteq Bounded
  /\ WithCallback \subseteq Closers
  /\ {"audio", "transport"} \cap Hooks = {}

VARIABLES
  state,             \* Session.state
  transport,         \* "none" before Run, "open", "ended": ReadChan is closed
  ctxDone,           \* the context given to Run is cancelled
  closeOnce,         \* sync.Once of doClose: "free", "busy" or "done"
  triggerCloseChan,  \* "open", "closed"; "panic" after a second close
  finalizedChan,     \* the same
  onCloseHandlers,   \* registered CloseHandlers, in order
  limit,             \* how many of them finalize's range loop iterates over
  ran,               \* the CloseHandlers finalize has called, in order
  done,              \* buffer of the channel Run returns (capacity 1)
  received,          \* what the owner of the session received from it
  pc                 \* where each goroutine is

vars == <<state, transport, ctxDone, closeOnce, triggerCloseChan, finalizedChan,
          onCloseHandlers, limit, ran, done, received, pc>>

chans == <<triggerCloseChan, finalizedChan>>
hooks == <<onCloseHandlers, limit, ran>>
result == <<done, received>>

States == {"inactive", "active", "closing", "closed", "failed"}
PCs == {"off", "run", "check", "once", "callback", "trigger", "wait", "ok", "timeout",
        "select", "finalize", "handlers", "signal", "report", "begin", "end"}
HookNames == Hooks \cup {"audio", "transport"}
RangeOf(s) == {s[i] : i \in 1..Len(s)}

TypeOK ==
  /\ state \in States
  /\ transport \in {"none", "open", "ended"}
  /\ ctxDone \in BOOLEAN
  /\ closeOnce \in {"free", "busy", "done"}
  /\ triggerCloseChan \in {"open", "closed", "panic"}
  /\ finalizedChan \in {"open", "closed", "panic"}
  /\ onCloseHandlers \in Seq(HookNames)
  /\ limit \in Nat
  /\ ran \in Seq(HookNames)
  /\ done \in Seq({"nil", "err"}) /\ Len(done) <= 1
  /\ received \in {"none", "nil", "err"}
  /\ pc \in [Threads -> PCs]

Goto(t, label) == pc' = [pc EXCEPT ![t] = label]
Started == pc["watcher"] # "off"

\* close(ch) of Go: closing a closed channel panics.
CloseChan(ch) == IF ch = "open" THEN "closed" ELSE "panic"

\* Mutants of SendDone: no capacity check; an unbuffered channel that is read
\* once.
SendDoneAlways(v) == done' = Append(done, v)
SendDoneUnbuffered(v) == received = "none" /\ done = <<>> /\ done' = Append(done, v)

\* A send to done, which has room for one value.
SendDone(v) == Len(done) < 1 /\ done' = Append(done, v)
-----------------------------------------------------------------------------
\* NewSession: inactive, with the handler that closes both audio sides.
Init ==
  /\ state = "inactive"
  /\ transport = "none"
  /\ ctxDone = FALSE
  /\ closeOnce = "free"
  /\ triggerCloseChan = "open"
  /\ finalizedChan = "open"
  /\ onCloseHandlers = <<"audio">>
  /\ limit = 0
  /\ ran = <<>>
  /\ done = <<>>
  /\ received = "none"
  /\ pc = [t \in Threads |-> IF t \in Apps THEN "run" ELSE "off"]

(***************************************************************************)
(* Run, called once: it fails early (no handler set, or the transport      *)
(* factory failed) and reports the error, or it creates the transport,     *)
(* registers its Close and starts the three goroutines.                    *)
(***************************************************************************)
RunFails ==
  /\ ~Started /\ done = <<>> /\ received = "none"
  /\ done' = <<"err">>
  /\ UNCHANGED <<state, transport, ctxDone, closeOnce, chans, hooks, received, pc>>

RunStarts ==
  /\ ~Started /\ done = <<>> /\ received = "none"
  /\ transport' = "open"
  /\ onCloseHandlers' = Append(onCloseHandlers, "transport")
  /\ pc' = [pc EXCEPT !["watcher"] = "select", !["reader"] = "select", !["init"] = "begin"]
  /\ UNCHANGED <<state, ctxDone, closeOnce, chans, limit, ran, result>>

\* OnClose by the application; registering twice is not modelled.
OnClose(h) ==
  /\ h \notin RangeOf(onCloseHandlers)
  /\ onCloseHandlers' = Append(onCloseHandlers, h)
  /\ UNCHANGED <<state, transport, ctxDone, closeOnce, chans, limit, ran, result, pc>>

\* The owner takes one value from the channel Run returned, as the server's
\* upgrade handler and the demo client do.
ReceiveDone ==
  /\ received = "none" /\ done # <<>>
  /\ received' = Head(done)
  /\ done' = Tail(done)
  /\ UNCHANGED <<state, transport, ctxDone, closeOnce, chans, hooks, pc>>

\* The environment: the context of Run is cancelled; the transport fails or
\* the peer goes away, and ReadChan is closed.
CtxCancel ==
  /\ ~ctxDone
  /\ ctxDone' = TRUE
  /\ UNCHANGED <<state, transport, closeOnce, chans, hooks, result, pc>>

TransportEnds ==
  /\ transport = "open"
  /\ transport' = "ended"
  /\ UNCHANGED <<state, ctxDone, closeOnce, chans, hooks, result, pc>>
-----------------------------------------------------------------------------
(* The watcher: waits for the trigger or the context, then finalizes and   *)
(* reports nil.                                                            *)

\* Mutant of WatcherWakes: the context is not watched.
WatcherWakesOnTrigger ==
  /\ pc["watcher"] = "select"
  /\ triggerCloseChan = "closed"
  /\ Goto("watcher", "finalize")
  /\ UNCHANGED <<state, transport, ctxDone, closeOnce, chans, hooks, result>>

WatcherWakes ==
  /\ pc["watcher"] = "select"
  /\ triggerCloseChan = "closed" \/ ctxDone
  /\ Goto("watcher", "finalize")
  /\ UNCHANGED <<state, transport, ctxDone, closeOnce, chans, hooks, result>>

\* range evaluates the slice once: handlers registered later are not run.
FinalizeStart ==
  /\ pc["watcher"] = "finalize"
  /\ state' = "closing"
  /\ limit' = Len(onCloseHandlers)
  /\ Goto("watcher", "handlers")
  /\ UNCHANGED <<transport, ctxDone, closeOnce, chans, onCloseHandlers, ran, result>>

\* The next CloseHandler runs and returns, with or without an error, which is
\* only logged.  Closing the transport ends its ReadChan, now or later.
RunCloseHandler ==
  /\ pc["watcher"] = "handlers"
  /\ Len(ran) < limit
  /\ ran' = Append(ran, onCloseHandlers[Len(ran) + 1])
  /\ UNCHANGED <<state, transport, ctxDone, closeOnce, chans, onCloseHandlers, limit, result, pc>>

\* Mutant of FinalizeEnd: the loop stops one handler early.
FinalizeEndEarly ==
  /\ pc["watcher"] = "handlers"
  /\ Len(ran) + 1 >= limit
  /\ state' = "closed"
  /\ Goto("watcher", "signal")
  /\ UNCHANGED <<transport, ctxDone, closeOnce, chans, hooks, result>>

FinalizeEnd ==
  /\ pc["watcher"] = "handlers"
  /\ Len(ran) >= limit
  /\ state' = "closed"
  /\ Goto("watcher", "signal")
  /\ UNCHANGED <<transport, ctxDone, closeOnce, chans, hooks, result>>

FinalizeSignal ==
  /\ pc["watcher"] = "signal"
  /\ finalizedChan' = CloseChan(finalizedChan)
  /\ Goto("watcher", "report")
  /\ UNCHANGED <<state, transport, ctxDone, closeOnce, triggerCloseChan, hooks, result>>

WatcherReport ==
  /\ pc["watcher"] = "report"
  /\ SendDone("nil")
  /\ Goto("watcher", "end")
  /\ UNCHANGED <<state, transport, ctxDone, closeOnce, chans, hooks, received>>
-----------------------------------------------------------------------------
(* The init goroutine: OnBegin returns at some point; its outcome is       *)
(* written to the state whatever the state has become meanwhile.           *)

BeginOk ==
  /\ pc["init"] = "begin"
  /\ state' = "active"
  /\ Goto("init", "end")
  /\ UNCHANGED <<transport, ctxDone, closeOnce, chans, hooks, result>>

BeginFail ==
  /\ pc["init"] = "begin"
  /\ state' = "failed"
  /\ Goto("init", "report")
  /\ UNCHANGED <<transport, ctxDone, closeOnce, chans, hooks, result>>

InitReport ==
  /\ pc["init"] = "report"
  /\ SendDone("err")
  /\ Goto("init", "end")
  /\ UNCHANGED <<state, transport, ctxDone, closeOnce, chans, hooks, received>>
-----------------------------------------------------------------------------
(* The reader.  Its select takes any ready case, also a message while      *)
(* finalizedChan is closed already.                                        *)

\* A message arrives and gets a goroutine of its own.
ReaderReceives(h) ==
  /\ pc["reader"] = "select"
  /\ transport = "open" /\ pc[h] = "off"
  /\ Goto(h, "run")
  /\ UNCHANGED <<state, transport, ctxDone, closeOnce, chans, hooks, result>>

ReaderStops ==
  /\ pc["reader"] = "select"
  /\ finalizedChan = "closed" \/ ctxDone
  /\ Goto("reader", "end")
  /\ UNCHANGED <<state, transport, ctxDone, closeOnce, chans, hooks, result>>

ReaderSeesEnd ==
  /\ pc["reader"] = "select"
  /\ transport = "ended"
  /\ Goto("reader", "check")
  /\ UNCHANGED <<state, transport, ctxDone, closeOnce, chans, hooks, result>>
-----------------------------------------------------------------------------
(* doClose and Close.  doClose reads the state, then enters the Once; the  *)
(* first goroutine in runs its callback and closes triggerCloseChan while  *)
(* the others block in Do.  Close then waits for finalizedChan.            *)

\* Where doClose returns to.
Return(t) == Goto(t, IF t = "reader" THEN "end" ELSE "wait")

CloseCall(c) ==
  /\ pc[c] = "run"
  /\ Goto(c, "check")
  /\ UNCHANGED <<state, transport, ctxDone, closeOnce, chans, hooks, result>>

DoCloseCheck(t) ==
  /\ pc[t] = "check"
  /\ IF state \in {"closed", "closing"} THEN Return(t) ELSE Goto(t, "once")
  /\ UNCHANGED <<state, transport, ctxDone, closeOnce, chans, hooks, result>>

\* Mutants of DoCloseEnter: no Once; the trigger closed before the callback.
DoCloseEnterNoOnce(t) ==
  /\ pc[t] = "once"
  /\ closeOnce' = "busy"
  /\ Goto(t, IF t \in WithCallback THEN "callback" ELSE "trigger")
  /\ UNCHANGED <<state, transport, ctxDone, chans, hooks, result>>

DoCloseEnterTriggerFirst(t) ==
  /\ pc[t] = "once" /\ closeOnce = "free"
  /\ closeOnce' = "busy"
  /\ triggerCloseChan' = CloseChan(triggerCloseChan)
  /\ Goto(t, IF t \in WithCallback THEN "callback" ELSE "trigger")
  /\ UNCHANGED <<state, transport, ctxDone, finalizedChan, hooks, result>>

DoCloseEnter(t) ==
  /\ pc[t] = "once" /\ closeOnce = "free"
  /\ closeOnce' = "busy"
  /\ Goto(t, IF t \in WithCallback THEN "callback" ELSE "trigger")
  /\ UNCHANGED <<state, transport, ctxDone, chans, hooks, result>>

DoCloseSkip(t) ==
  /\ pc[t] = "once" /\ closeOnce = "done"
  /\ Return(t)
  /\ UNCHANGED <<state, transport, ctxDone, closeOnce, chans, hooks, result>>

\* Mutant of CallbackReturns: an error of the callback skips the trigger.
CallbackErrorReturns(c) ==
  /\ pc[c] = "callback"
  /\ closeOnce' = "done"
  /\ Return(c)
  /\ UNCHANGED <<state, transport, ctxDone, chans, hooks, result>>

CallbackReturns(c) ==
  /\ pc[c] = "callback"
  /\ Goto(c, "trigger")
  /\ UNCHANGED <<state, transport, ctxDone, closeOnce, chans, hooks, result>>

Trigger(t) ==
  /\ pc[t] = "trigger"
  /\ triggerCloseChan' = CloseChan(triggerCloseChan)
  /\ closeOnce' = "done"
  /\ Return(t)
  /\ UNCHANGED <<state, transport, ctxDone, finalizedChan, hooks, result>>

\* Mutant of CloseOk: waits for the wrong channel.
CloseOkOnTrigger(c) ==
  /\ pc[c] = "wait" /\ triggerCloseChan = "closed"
  /\ Goto(c, "ok")
  /\ UNCHANGED <<state, transport, ctxDone, closeOnce, chans, hooks, result>>

CloseOk(c) ==
  /\ pc[c] = "wait" /\ finalizedChan = "closed"
  /\ Goto(c, "ok")
  /\ UNCHANGED <<state, transport, ctxDone, closeOnce, chans, hooks, result>>

CloseTimeout(c) ==
  /\ pc[c] = "wait" /\ c \in Bounded
  /\ Goto(c, "timeout")
  /\ UNCHANGED <<state, transport, ctxDone, closeOnce, chans, hooks, result>>
-----------------------------------------------------------------------------
Run == RunFails \/ RunStarts
Environment == CtxCancel \/ TransportEnds
Watcher == \/ WatcherWakes \/ FinalizeStart \/ RunCloseHandler
           \/ FinalizeEnd \/ FinalizeSignal \/ WatcherReport
Begin == BeginOk \/ BeginFail \/ InitReport
Reader == ReaderStops \/ ReaderSeesEnd
DoClose(t) == \/ DoCloseCheck(t) \/ DoCloseEnter(t) \/ DoCloseSkip(t)
              \/ CallbackReturns(t) \/ Trigger(t)
CloseWait(c) == CloseOk(c) \/ CloseTimeout(c)

Next ==
  \/ Run \/ ReceiveDone \/ Environment
  \/ \E h \in Hooks : OnClose(h)
  \/ Watcher \/ Begin \/ Reader
  \/ \E h \in Handlers : ReaderReceives(h)
  \/ \E t \in DoClosers : DoClose(t)
  \/ \E c \in Closers : CloseCall(c) \/ CloseWait(c)

Spec == Init /\ [][Next]_vars

(***************************************************************************)
(* The Go scheduler runs every goroutine that can run.  OnBegin, callbacks *)
(* and CloseHandlers are assumed to return (they get contexts with a       *)
(* deadline).  Nothing forces Run, Close, OnClose, a cancellation or a     *)
(* message to happen, and nobody has to read the channel Run returns.      *)
(***************************************************************************)
Fairness ==
  /\ WF_vars(Watcher) /\ WF_vars(Begin) /\ WF_vars(Reader)
  /\ \A t \in DoClosers : WF_vars(DoClose(t))
  /\ \A c \in Closers : WF_vars(CloseWait(c))

FairSpec == Spec /\ Fairness
-----------------------------------------------------------------------------
(***************************************************************************)
(* Safety.                                                                 *)
(***************************************************************************)

\* Whoever calls Close how often, next to the reader's doClose and to a
\* cancelled context: no channel is closed twice (session.go:89, :121).
NoDoubleClose == triggerCloseChan # "panic" /\ finalizedChan # "panic"

\* When finalizedChan is closed every CloseHandler registered before finalize
\* began has run, once and in order, the audio and transport ones included.
CleanupComplete ==
  finalizedChan = "closed" =>
    /\ limit <= Len(onCloseHandlers)
    /\ ran = SubSeq(onCloseHandlers, 1, limit)
    /\ {"audio", "transport"} \subseteq RangeOf(ran)

\* A callback of Close (it sends session.terminate) still finds the transport
\* and the audio open: no CloseHandler has run, unless the context is gone.
CallbackBeforeTeardown ==
  (\E c \in Closers : pc[c] = "callback") /\ ~ctxDone => ran = <<>>

\* What SessionPromise sees of a session.
Phase == IF ~Started THEN "new" ELSE IF finalizedChan = "closed" THEN "over" ELSE "up"
Outcome(c) ==
  IF pc[c] \in {"off", "run"} THEN "idle"
  ELSE IF pc[c] \in {"ok", "timeout"} THEN pc[c] ELSE "open"

Promise == INSTANCE SessionPromise WITH
  Callers <- Closers,
  phase <- Phase,
  asked <- triggerCloseChan # "open" \/ ctxDone,
  torn <- RangeOf(ran) \cap {"audio", "transport"},
  outcome <- [c \in Closers |-> Outcome(c)],
  told <- received

\* Whoever is told that the session ended, by Close or by the channel of Run,
\* is told so after the audio and the transport were closed, and these are
\* closed only when somebody asked: a session implements SessionPromise.
KeepsPromise == Promise!PSpec

\* Once OnBegin has returned, a closed session stays closed.  (Before, the
\* init goroutine may still overwrite the state.)
ClosedIsFinalAfterBegin ==
  [][state = "closed" /\ pc["init"] # "begin" => state' = "closed"]_vars

(***************************************************************************)
(* Liveness.                                                               *)
(***************************************************************************)

\* A running session whose close was triggered, whose context is cancelled or
\* whose transport has ended, is finalized, also while one goroutine is inside
\* the Once and others wait for it.
ShutdownCompletes ==
  (Started /\ (triggerCloseChan = "closed" \/ ctxDone \/ transport = "ended"))
    ~> finalizedChan = "closed"

\* Every Close returns, if its context has a deadline or the session runs.
CloseReturns ==
  \A c \in Closers :
    (pc[c] = "check" /\ (c \in Bounded \/ Started)) ~> pc[c] \in {"ok", "timeout"}

\* Once the session is finalized and its owner took one value from done, all
\* goroutines of the session end: done needs no more than that one reader.
GoroutinesEnd ==
  (finalizedChan = "closed" /\ received # "none")
    ~> (\A t \in {"watcher", "init", "reader"} : pc[t] = "end")

(***************************************************************************)
(* What the repository says and the code does not do.                      *)
(***************************************************************************)

\* proto/protov1/handler_test.go:319: a failed initialization "MUST fail and
\* terminate session".
FailedMustTerminate == state = "failed" ~> finalizedChan = "closed"
=============================================================================
