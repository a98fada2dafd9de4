--------------------------- MODULE ClientHandler ---------------------------
(***************************************************************************)
(* The protocol handler on the telephony side (proto/protov1: handler.go,  *)
(* app.go, call.go, ping.go, audio_info_event.go): OnBegin with            *)
(* session.initialize, the checked requests of the server, two of which    *)
(* close the session after their reply, Terminate, and the events for      *)
(* DTMF, hangup and audio.  ClientHandler.mu is held across requests to    *)
(* the peer, so the model follows who holds it.                            *)
(*                                                                         *)
(* The session is that of ClosingSession, which module Session implements. *)
(* A request to the peer returns ok after the peer has handled it, or      *)
(* fails, at the latest by its timeout; this takes for granted that the    *)
(* transport's Write returns (see RequestReturns in module Rpc).           *)
(* Requests without the check (ping, and session.terminate, which is       *)
(* always refused) neither read nor change the handler's state.            *)
(***************************************************************************)
EXTENDS ClosingSession, Naturals, Sequences, FiniteSets

CONSTANTS
  Reqs,      \* checked requests the server may send
  Closing,   \* those with a closing OnAfterReply: call.hangup, application.move
  Apps,      \* application goroutines that call Terminate
  MaxDigits  \* bound: DTMF digits the caller presses

ASSUME ConstantsAssumption ==
  /\ Closing \subseteq Reqs
  /\ Reqs \cap Apps = {}
  /\ {"begin", "tracker", "hangup", "free"} \cap (Reqs \cup Apps) = {}
  /\ MaxDigits \in Nat

VARIABLES
  mu,           \* holder of ClientHandler.mu, or "free"
  initialized,  \* ClientHandler.initialized; shc is set with it
  peerInit,     \* session.initialize on the way: "none", "sent", "handled"
  wired,        \* the telephony callbacks OnBegin has registered
  first,        \* the first message of the client's own written, or "none"
  flight,       \* DTMF events (by Seq) written, not yet handled by the server
  delivered,    \* DTMF events the server's handler has seen, in order
  dtmfSeq,      \* ClientHandler.dtmfSeq
  goodbyes,     \* goroutines that have asked the server to terminate the session
  pc            \* where each goroutine is

init == <<initialized, peerInit, wired>>
dtmf == <<flight, delivered, dtmfSeq>>
said == <<first, goodbyes>>
vars == <<mu, init, said, dtmf, pc, sess>>

Closers == Closing \cup Apps  \* goroutines that run sessionTerminateAndClose
Threads == Reqs \cup Apps \cup {"begin", "tracker", "hangup"}
Kinds == {"updated", "reply", "terminate", "dtmf", "hangup", "info", "ping"}
PCs == {"off", "lock", "request", "notify", "audio", "ondtmf", "onhangup", "end",
        "failed", "check", "perform", "reply", "close", "callback", "goodbye", "wait", "ok", "err",
        "idle"}

TypeOK ==
  /\ mu \in Threads \cup {"free"}
  /\ initialized \in BOOLEAN
  /\ peerInit \in {"none", "sent", "handled"}
  /\ wired \subseteq {"dtmf", "hangup"}
  /\ first \in Kinds \cup {"none"}
  /\ goodbyes \subseteq Threads
  /\ flight \subseteq Nat
  /\ delivered \in Seq(Nat)
  /\ dtmfSeq \in 0..MaxDigits
  /\ once \in {"free", "busy", "done"}
  /\ phase \in {"open", "closing", "closed"}
  /\ transport \in BOOLEAN
  /\ ctxDone \in BOOLEAN
  /\ pc \in [Threads -> PCs]

Init ==
  /\ mu = "free" /\ initialized = FALSE /\ peerInit = "none" /\ wired = {}
  /\ first = "none" /\ goodbyes = {}
  /\ flight = {} /\ delivered = <<>> /\ dtmfSeq = 0
  /\ SessInit
  /\ pc = [t \in Threads |-> CASE t \in Reqs -> "off" [] t = "begin" -> "lock" [] OTHER -> "idle"]

Goto(t, label) == pc' = [pc EXCEPT ![t] = label]

\* A message is written while the transport is open, else the write fails.
Write(kind) == first' = IF transport /\ first = "none" THEN kind ELSE first
-----------------------------------------------------------------------------
(* OnBegin: sessionInitialize keeps mu from its first step to its last.    *)

\* Mutant: the flag is set before the server has answered.
InitializeLockSetsFlag ==
  /\ pc["begin"] = "lock" /\ mu = "free"
  /\ mu' = "begin" /\ initialized' = TRUE
  /\ Goto("begin", "request")
  /\ peerInit' = IF transport THEN "sent" ELSE peerInit
  /\ UNCHANGED <<wired, said, dtmf, sess>>

InitializeLock ==
  /\ pc["begin"] = "lock" /\ mu = "free"
  /\ mu' = "begin"
  /\ Goto("begin", "request")
  /\ peerInit' = IF transport THEN "sent" ELSE peerInit
  /\ UNCHANGED <<initialized, wired, said, dtmf, sess>>

\* The server runs its handler for session.initialize.
ServerHandlesInit ==
  /\ peerInit = "sent"
  /\ peerInit' = "handled"
  /\ UNCHANGED <<mu, initialized, wired, said, dtmf, sess, pc>>

\* Mutant: the lock is released before session.updated is sent.
InitializeOkUnlocks ==
  /\ pc["begin"] = "request" /\ peerInit = "handled"
  /\ initialized' = TRUE /\ mu' = "free"
  /\ Goto("begin", "notify")
  /\ UNCHANGED <<peerInit, wired, said, dtmf, sess>>

InitializeOk ==
  /\ pc["begin"] = "request" /\ peerInit = "handled"
  /\ initialized' = TRUE
  /\ Goto("begin", "notify")
  /\ UNCHANGED <<mu, peerInit, wired, said, dtmf, sess>>

\* Mutant: the error path returns without the unlock.
InitializeFailsLocked ==
  /\ pc["begin"] = "request"
  /\ Goto("begin", "failed")
  /\ UNCHANGED <<mu, init, said, dtmf, sess>>

\* An error reply, an unusable one, a failed write or the timeout.
InitializeFails ==
  /\ pc["begin"] = "request"
  /\ mu' = "free"
  /\ Goto("begin", "failed")
  /\ UNCHANGED <<init, said, dtmf, sess>>

\* Notify(session.updated), its error ignored, and the unlock.
NotifyUpdated ==
  /\ pc["begin"] = "notify"
  /\ Write("updated")
  /\ mu' = "free"
  /\ Goto("begin", "audio")
  /\ UNCHANGED <<init, dtmf, sess, goodbyes>>

\* onAudio, OnDTMF, OnHangup in turn; each may fail.  Last, the pinger starts.
StartAudio ==
  /\ pc["begin"] = "audio"
  /\ \E label \in {"ondtmf", "failed"} : Goto("begin", label)
  /\ UNCHANGED <<mu, init, said, dtmf, sess>>

WireDTMF ==
  /\ pc["begin"] = "ondtmf"
  /\ \/ wired' = wired \cup {"dtmf"} /\ Goto("begin", "onhangup")
     \/ wired' = wired /\ Goto("begin", "failed")
  /\ UNCHANGED <<mu, initialized, peerInit, said, dtmf, sess>>

WireHangup ==
  /\ pc["begin"] = "onhangup"
  /\ \/ wired' = wired \cup {"hangup"}
        /\ Goto("begin", "end")
     \/ wired' = wired /\ Goto("begin", "failed")
  /\ UNCHANGED <<mu, initialized, peerInit, said, dtmf, sess>>
-----------------------------------------------------------------------------
(* A checked request: the goroutine of the session's reader, the check     *)
(* middleware, the adapter, the reply, the hook.                           *)

Arrive(r) ==
  /\ pc[r] = "off" /\ transport /\ phase # "closed"
  /\ Goto(r, "check")
  /\ UNCHANGED <<mu, init, said, dtmf, sess>>

\* check waits for mu, looks at initialized and lets go of it.
Check(r) ==
  /\ pc[r] = "check" /\ mu = "free"
  /\ Goto(r, IF initialized THEN "perform" ELSE "failed")
  /\ UNCHANGED <<mu, init, said, dtmf, sess>>

Perform(r) ==
  /\ pc[r] = "perform"
  /\ \E label \in {"reply", "failed"} : Goto(r, label)
  /\ UNCHANGED <<mu, init, said, dtmf, sess>>

\* Respond(Ok); when that fails there is no hook.
Reply(r) ==
  /\ pc[r] = "reply"
  /\ Write("reply")
  /\ Goto(r, CASE ~transport -> "failed" [] r \in Closing -> "close" [] OTHER -> "end")
  /\ UNCHANGED <<mu, init, dtmf, sess, goodbyes>>
-----------------------------------------------------------------------------
(* Terminate: holds mu until sessionTerminateAndClose returns.             *)

TerminateLock(a) ==
  /\ pc[a] = "idle" /\ mu = "free"
  /\ IF initialized THEN mu' = a /\ Goto(a, "close") ELSE mu' = mu /\ Goto(a, "err")
  /\ UNCHANGED <<init, said, dtmf, sess>>

(* sessionTerminateAndClose: Session.Close with the callback that asks the *)
(* server to terminate.                                                    *)

\* Mutant: doClose without its Once.
CloseEnterNoOnce(t) ==
  /\ pc[t] = "close"
  /\ \/ phase # "open" /\ Goto(t, "wait") /\ UNCHANGED sess
     \/ once' = "busy" /\ UNCHANGED <<phase, transport, ctxDone>> /\ Goto(t, "callback")
  /\ UNCHANGED <<mu, init, said, dtmf>>

\* doClose skips a session that is closing, waits for a busy Once.
CloseEnter(t) ==
  /\ pc[t] = "close"
  /\ \/ (phase # "open" \/ once = "done") /\ Goto(t, "wait") /\ UNCHANGED sess
     \/ OnceEnter /\ Goto(t, "callback")
  /\ UNCHANGED <<mu, init, said, dtmf>>

CallbackSends(t) ==
  /\ pc[t] = "callback"
  /\ Write("terminate")
  /\ goodbyes' = goodbyes \cup {t}
  /\ Goto(t, "goodbye")
  /\ UNCHANGED <<mu, init, dtmf, sess>>

\* The answer to session.terminate, an error or the timeout: trigger.
CallbackReturns(t) ==
  /\ pc[t] = "goodbye"
  /\ OnceLeave
  /\ Goto(t, "wait")
  /\ UNCHANGED <<mu, init, said, dtmf>>

\* Close returns: finalized, or the five seconds are over.  Terminate unlocks.
CloseReturns(t) ==
  /\ pc[t] = "wait"
  /\ \/ phase = "closed" /\ Goto(t, "ok")
     \/ Goto(t, "err")
  /\ mu' = IF mu = t THEN "free" ELSE mu
  /\ UNCHANGED <<init, said, dtmf, sess>>
-----------------------------------------------------------------------------
(* Events and the pinger.                                                  *)

\* Mutant: the counter is advanced twice per digit.
PressKeyCountsTwice ==
  /\ "dtmf" \in wired /\ dtmfSeq < MaxDigits
  /\ dtmfSeq' = dtmfSeq + 2
  /\ Write("dtmf")
  /\ flight' = IF transport THEN flight \cup {dtmfSeq} ELSE flight
  /\ UNCHANGED <<mu, init, delivered, sess, pc, goodbyes>>

\* A digit: the adapter calls the callback for one digit after the other,
\* and the callback notifies the server.
PressKey ==
  /\ "dtmf" \in wired /\ dtmfSeq < MaxDigits
  /\ dtmfSeq' = dtmfSeq + 1
  /\ Write("dtmf")
  /\ flight' = IF transport THEN flight \cup {dtmfSeq} ELSE flight
  /\ UNCHANGED <<mu, init, delivered, sess, pc, goodbyes>>

\* The server's session runs a goroutine per message (session.go:237), and
\* the goroutines run in any order.
DeliverDTMF(n) ==
  /\ n \in flight
  /\ flight' = flight \ {n}
  /\ delivered' = Append(delivered, n)
  /\ UNCHANGED <<mu, init, said, dtmfSeq, sess, pc>>

\* The hangup callback: the event, then a session.terminate request of its
\* own, outside mu and the Once, whose answer or failure is only logged.
Hangup ==
  /\ pc["hangup"] = "idle" /\ "hangup" \in wired
  /\ Write("hangup")
  /\ Goto("hangup", "callback")
  /\ UNCHANGED <<mu, init, dtmf, sess, goodbyes>>

HangupSends ==
  /\ pc["hangup"] = "callback"
  /\ Write("terminate")
  /\ goodbyes' = goodbyes \cup {"hangup"}
  /\ Goto("hangup", "goodbye")
  /\ UNCHANGED <<mu, init, dtmf, sess>>

HangupReturns ==
  /\ pc["hangup"] = "goodbye"
  /\ Goto("hangup", "end")
  /\ UNCHANGED <<mu, init, said, dtmf, sess>>

\* audioInfoTracker.dispatch: under mu, nothing before shc is set.
TrackerLock ==
  /\ pc["tracker"] = "idle" /\ mu = "free" /\ ~ctxDone
  /\ IF initialized THEN mu' = "tracker" /\ Goto("tracker", "notify") ELSE UNCHANGED <<mu, pc>>
  /\ UNCHANGED <<init, said, dtmf, sess>>

TrackerNotify ==
  /\ pc["tracker"] = "notify"
  /\ Write("info")
  /\ mu' = "free"
  /\ Goto("tracker", "idle")
  /\ UNCHANGED <<init, dtmf, sess, goodbyes>>

\* StartPinger: a ping request per tick, until the context is cancelled.
PingTick ==
  /\ pc["begin"] = "end" /\ ~ctxDone
  /\ Write("ping")
  /\ UNCHANGED <<mu, init, dtmf, sess, pc, goodbyes>>
-----------------------------------------------------------------------------
(* The session underneath: what it does by itself.                         *)

SessionEnv ==
  /\ CtxCancel \/ TransportCloses
  /\ UNCHANGED <<mu, init, said, dtmf, pc>>

SessionReads ==
  /\ ReaderCloses
  /\ UNCHANGED <<mu, init, said, dtmf, pc>>

SessionEnds ==
  /\ FinalizeStart \/ FinalizeEnd
  /\ UNCHANGED <<mu, init, said, dtmf, pc>>
-----------------------------------------------------------------------------
Begin == \/ InitializeLock \/ InitializeOk \/ InitializeFails \/ NotifyUpdated
         \/ StartAudio \/ WireDTMF \/ WireHangup
Serve(r) == Check(r) \/ Perform(r) \/ Reply(r)
Close(t) == CloseEnter(t) \/ CallbackSends(t) \/ CallbackReturns(t) \/ CloseReturns(t)
Events == \/ PressKey \/ Hangup \/ HangupSends \/ HangupReturns
          \/ TrackerLock \/ TrackerNotify \/ PingTick

Next ==
  \/ Begin \/ ServerHandlesInit
  \/ \E r \in Reqs : Arrive(r) \/ Serve(r)
  \/ \E a \in Apps : TerminateLock(a)
  \/ \E t \in Closers : Close(t)
  \/ Events
  \/ \E n \in flight : DeliverDTMF(n)
  \/ SessionEnv \/ SessionReads \/ SessionEnds

Spec == Init /\ [][Next]_vars

(***************************************************************************)
(* Every goroutine that can run does (the reader only while nothing else   *)
(* has closed the session); requests and Close return by their timeouts.   *)
(* A goroutine that waits for mu gets it if mu is free again and again     *)
(* (sync.Mutex hands over to a waiter that starves).                       *)
(***************************************************************************)
Fairness ==
  /\ WF_vars(Begin) /\ WF_vars(TrackerNotify) /\ WF_vars(HangupSends \/ HangupReturns)
  /\ WF_vars(phase = "open" /\ ~transport /\ SessionReads) /\ WF_vars(SessionEnds)
  /\ \A r \in Reqs : SF_vars(Check(r)) /\ WF_vars(Serve(r))
  /\ \A t \in Closers : WF_vars(Close(t))

FairSpec == Spec /\ Fairness
-----------------------------------------------------------------------------
\* The adapter carries out the request, or has done so.
Acting(r) == pc[r] \in {"perform", "reply", "close", "callback", "goodbye", "wait", "ok", "err", "end"}

\* The telephony adapter acts on a request only after the server has handled
\* session.initialize, although client and server act concurrently.
InitHandledFirst == \A r \in Reqs : Acting(r) => initialized /\ peerInit = "handled"

\* Of what the client sends on its own and of its successful replies to
\* checked requests (that is, not ping), session.updated comes first: the
\* server never hears of a digit, a hangup, audio or a result in a session it
\* does not yet know the codec of.
UpdatedFirst == first \in {"none", "updated"}

\* Terminate, and the hooks of call.hangup and application.move: over the whole
\* life of the session at most one of them asks the server to terminate, however
\* many close it at the same time or one after the other, and a Close that
\* returned nil has left no session. The hangup callback, which does not close,
\* may ask once more, before, beside or after them.
GoodbyeOnce ==
  /\ \A t, u \in goodbyes \ {"hangup"} : t = u
  /\ \A t \in Closers : pc[t] = "ok" => phase = "closed" /\ ~transport

\* mu is held across requests to the server that may itself be waiting for
\* an answer; still every request that arrives is answered or refused, and
\* every Terminate that got the lock returns and gives it back.
LockGoesRound ==
  /\ \A r \in Reqs : pc[r] = "check" ~> pc[r] \in {"end", "failed", "ok", "err"}
  /\ \A a \in Apps : mu = a ~> pc[a] \in {"ok", "err"}

(***************************************************************************)
(* What the tests say and the code does not do.                            *)
(***************************************************************************)

\* handler_test.go:307 expects the digits in the order they were pressed.
DtmfInOrder == \A i, j \in 1..Len(delivered) : i < j => delivered[i] < delivered[j]
=============================================================================
