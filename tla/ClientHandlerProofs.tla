------------------------- MODULE ClientHandlerProofs -------------------------
(***************************************************************************)
(* For any set of requests and of goroutines that call Terminate: requests *)
(* are carried out only after session.initialize, session.updated is the   *)
(* first thing the client says, and those that close say good-bye once.    *)
(* The inductive invariant says what the lock of the handler protects:     *)
(* nobody gets past it between the answer to session.initialize and        *)
(* session.updated.                                                        *)
(***************************************************************************)
EXTENDS ClientHandler, TLAPS

\* session.initialize was successful and session.updated is sent.
Updated == initialized /\ pc["begin"] # "notify"

\* OnBegin holds mu from session.initialize to session.updated, and the
\* callbacks are registered after that.
BeginOK ==
  /\ mu = "begin" <=> pc["begin"] \in {"request", "notify"}
  /\ pc["begin"] \in {"lock", "request"} => ~initialized
  /\ pc["begin"] \in {"notify", "audio", "ondtmf", "onhangup", "end"} => initialized
  /\ initialized => peerInit = "handled"
  /\ wired # {} => Updated

\* Whoever may write has passed the lock after session.updated.
WritersOK ==
  /\ \A r \in Reqs : Acting(r) => Updated
  /\ \A a \in Apps : pc[a] \in {"close", "callback", "goodbye", "wait"} => Updated
  /\ pc["tracker"] = "notify" => Updated
  /\ pc["hangup"] # "idle" => Updated

\* What was written first, unless the transport was closed all the time.
FirstOK ==
  /\ first \in {"none", "updated"}
  /\ Updated /\ transport => first = "updated"

\* The goroutine runs the callback of Close, which says good-bye.
InOnce(t) == pc[t] \in {"callback", "goodbye"}

\* The goroutine that says good-bye is inside the Once, alone; a finished session
\* has no transport.
CloseOK ==
  /\ \A t \in Closers : pc[t] = "ok" => phase = "closed"
  /\ \A t \in Closers : InOnce(t) => once = "busy"
  /\ \A t, u \in Closers : InOnce(t) /\ InOnce(u) => t = u
  /\ phase = "closed" => ~transport

IInv == TypeOK /\ BeginOK /\ WritersOK /\ FirstOK /\ CloseOK
-----------------------------------------------------------------------------
LEMMA InitIInv == Init => IInv
<1> SUFFICES ASSUME Init PROVE IInv
  OBVIOUS
<1> USE ConstantsAssumption DEF Init, SessInit, Threads, Closers, Kinds, PCs
<1>1. TypeOK
  <2>1. pc \in [Threads -> PCs]
    OBVIOUS
  <2>2. /\ initialized \in BOOLEAN /\ transport \in BOOLEAN /\ ctxDone \in BOOLEAN
        /\ mu \in Threads \cup {"free"} /\ peerInit \in {"none", "sent", "handled"}
        /\ once \in {"free", "busy", "done"} /\ phase \in {"open", "closing", "closed"}
    OBVIOUS
  <2>3. /\ wired \subseteq {"dtmf", "hangup"}
        /\ first \in Kinds \cup {"none"} /\ goodbyes \subseteq Threads /\ flight \subseteq Nat
        /\ delivered \in Seq(Nat) /\ dtmfSeq \in 0..MaxDigits
    OBVIOUS
  <2> QED
    BY <2>1, <2>2, <2>3 DEF TypeOK
<1>2. BeginOK /\ WritersOK /\ FirstOK
  BY DEF BeginOK, WritersOK, FirstOK, Updated, Acting
<1>3. CloseOK
  BY DEF CloseOK, InOnce
<1> QED
  BY <1>1, <1>2, <1>3 DEF IInv

(* Steps whose case in StepIInv would be too large for one leaf: what they *)
(* change first, then one conjunct of the invariant after the other.       *)

\* A step that changes nothing but the session underneath, and leaves it
\* without transport, keeps the invariant.
LEMMA TransportGone ==
  ASSUME IInv, transport' = FALSE, phase' \in {phase, "closed"}, once' = once,
         ctxDone' = ctxDone, mu' = mu, initialized' = initialized, peerInit' = peerInit,
         wired' = wired, first' = first, goodbyes' = goodbyes, flight' = flight,
         delivered' = delivered, dtmfSeq' = dtmfSeq, pc' = pc
  PROVE  IInv'
<1>1. TypeOK'
  <2>1. /\ phase' \in {"open", "closing", "closed"}
        /\ transport' \in BOOLEAN
    BY DEF IInv, TypeOK
  <2>2. /\ mu' \in Threads \cup {"free"} /\ pc' \in [Threads -> PCs]
        /\ initialized' \in BOOLEAN /\ ctxDone' \in BOOLEAN
    BY DEF IInv, TypeOK, Threads
  <2> QED
    BY <2>1, <2>2 DEF IInv, TypeOK
<1>2. BeginOK'
  BY DEF IInv, BeginOK, Updated
<1>3. WritersOK'
  BY DEF IInv, WritersOK, Acting, Updated
<1>4. FirstOK'
  BY DEF IInv, FirstOK, Updated
<1>5. CloseOK'
  BY DEF IInv, CloseOK, InOnce
<1> QED
  BY <1>1, <1>2, <1>3, <1>4, <1>5 DEF IInv

\* OnBegin registers a callback, or fails.
LEMMA WireStep ==
  ASSUME IInv, NEW label \in {"onhangup", "end", "failed"}, pc["begin"] \in {"ondtmf", "onhangup"},
         pc' = [pc EXCEPT !["begin"] = label], NEW name \in {"dtmf", "hangup"},
         \/ wired' = wired \cup {name} /\ label # "failed"
         \/ wired' = wired,
         mu' = mu, initialized' = initialized, peerInit' = peerInit,
         first' = first, goodbyes' = goodbyes, flight' = flight, delivered' = delivered, dtmfSeq' = dtmfSeq,
         once' = once, phase' = phase, transport' = transport, ctxDone' = ctxDone
  PROVE  IInv'
<1> USE ConstantsAssumption
<1>1. pc \in [Threads -> PCs] /\ label \in PCs
  BY DEF IInv, TypeOK, PCs
<1>2. \A t \in Threads : pc'[t] = IF t = "begin" THEN label ELSE pc[t]
  BY <1>1
<1>3. pc'["begin"] = label /\ \A t \in Threads : t # "begin" => pc'[t] = pc[t]
  BY <1>2 DEF Threads
<1>4. "begin" \notin Reqs \cup Apps \cup Closers /\ Reqs \cup Apps \cup Closers \cup {"tracker"} \subseteq Threads
  BY DEF Closers, Threads
<1>5. TypeOK'
  <2>1. pc' \in [Threads -> PCs]
    BY <1>1
  <2>2. wired' \subseteq {"dtmf", "hangup"}
    BY DEF IInv, TypeOK
  <2> QED
    BY <2>1, <2>2 DEF IInv, TypeOK
<1>6. initialized /\ mu # "begin"
  BY DEF IInv, BeginOK
<1>7. BeginOK'
  BY <1>3, <1>6 DEF IInv, BeginOK, Updated
<1>8. WritersOK'
  BY <1>3, <1>4, <1>6 DEF IInv, WritersOK, Acting, Updated
<1>9. FirstOK'
  BY <1>3, <1>6 DEF IInv, FirstOK, Updated
<1>10. CloseOK'
  BY <1>3, <1>4 DEF IInv, CloseOK, InOnce
<1> QED
  BY <1>5, <1>7, <1>8, <1>9, <1>10 DEF IInv

\* Terminate and the tracker take the lock and find the handler initialized.
LEMMA LockStep ==
  ASSUME IInv, NEW t \in Apps \cup {"tracker"}, pc[t] = "idle", mu = "free", initialized,
         NEW label \in PCs, pc' = [pc EXCEPT ![t] = label], mu' = t,
         t \in Apps => label = "close", t = "tracker" => label = "notify",
         initialized' = initialized, peerInit' = peerInit, wired' = wired,
         first' = first, goodbyes' = goodbyes, flight' = flight, delivered' = delivered, dtmfSeq' = dtmfSeq,
         once' = once, phase' = phase, transport' = transport, ctxDone' = ctxDone
  PROVE  IInv'
<1> USE ConstantsAssumption
<1>1. pc \in [Threads -> PCs] /\ t \in Threads /\ t # "begin" /\ t \notin Reqs
  BY DEF IInv, TypeOK, Threads
<1>2. pc'[t] = label /\ \A u \in Threads : u # t => pc'[u] = pc[u]
  BY <1>1
<1>3. pc'["begin"] = pc["begin"] /\ Reqs \cup Apps \cup Closers \cup {"tracker"} \subseteq Threads
  BY <1>1, <1>2 DEF Closers, Threads
<1>4. TypeOK'
  BY <1>1 DEF IInv, TypeOK
<1>5. Updated /\ pc["begin"] \notin {"request", "notify"} /\ mu' # "begin"
  BY <1>1 DEF IInv, BeginOK, Updated
<1>6. BeginOK'
  BY <1>3, <1>5 DEF IInv, BeginOK, Updated
<1>7. WritersOK'
  BY <1>3, <1>5 DEF WritersOK, Updated
<1>8. FirstOK'
  BY <1>3 DEF IInv, FirstOK, Updated
<1>9. CloseOK'
  <2>1. \A u \in Closers : pc'[u] \in {"callback", "goodbye", "ok"} => pc'[u] = pc[u]
    BY <1>1, <1>2, <1>3
  <2> QED
    BY <2>1 DEF IInv, CloseOK, InOnce
<1> QED
  BY <1>4, <1>6, <1>7, <1>8, <1>9 DEF IInv

LEMMA TerminateLockStep == ASSUME IInv, NEW a \in Apps, TerminateLock(a) PROVE IInv'
<1>1. CASE initialized
  <2>1. /\ pc[a] = "idle" /\ mu = "free" /\ mu' = a /\ pc' = [pc EXCEPT ![a] = "close"]
        /\ UNCHANGED <<init, said, dtmf, sess>>
    BY <1>1 DEF TerminateLock, Goto
  <2>2. a # "tracker" /\ "close" \in PCs
    BY ConstantsAssumption DEF PCs
  <2> QED
    BY <1>1, <2>1, <2>2, LockStep DEF init, said, dtmf, sess
<1>2. CASE ~initialized
  <2>1. /\ pc[a] = "idle" /\ mu' = mu /\ pc' = [pc EXCEPT ![a] = "err"]
        /\ UNCHANGED <<init, said, dtmf, sess>>
    BY <1>2 DEF TerminateLock, Goto
  <2>2. /\ initialized' = initialized /\ peerInit' = peerInit /\ wired' = wired
        /\ first' = first /\ goodbyes' = goodbyes /\ flight' = flight /\ delivered' = delivered
        /\ dtmfSeq' = dtmfSeq /\ once' = once /\ phase' = phase /\ transport' = transport
        /\ ctxDone' = ctxDone
    BY <2>1 DEF init, said, dtmf, sess
  <2>3. pc \in [Threads -> PCs] /\ a \in Threads /\ "err" \in PCs
    BY DEF IInv, TypeOK, Threads, PCs
  <2>4. pc'[a] = "err" /\ \A u \in Threads : u # a => pc'[u] = pc[u]
    BY <2>1, <2>3
  <2>5. /\ pc'["begin"] = pc["begin"] /\ pc'["tracker"] = pc["tracker"]
        /\ pc'["hangup"] = pc["hangup"]
        /\ \A r \in Reqs : pc'[r] = pc[r]
        /\ Apps \cup Closers \subseteq Threads
    BY <2>4, ConstantsAssumption DEF Threads, Closers
  <2>6. TypeOK'
    BY <2>1, <2>2, <2>3 DEF IInv, TypeOK
  <2>7. BeginOK'
    BY <2>1, <2>2, <2>5 DEF IInv, BeginOK, Updated
  <2>8. WritersOK'
    BY <2>2, <2>4, <2>5 DEF IInv, WritersOK, Acting, Updated
  <2>9. FirstOK'
    BY <2>2, <2>5 DEF IInv, FirstOK, Updated
  <2>10. CloseOK'
    BY <2>2, <2>4, <2>5 DEF IInv, CloseOK, InOnce
  <2> QED
    BY <2>6, <2>7, <2>8, <2>9, <2>10 DEF IInv
<1> QED
  BY <1>1, <1>2

\* The hangup callback moves on: the event, its own session.terminate, its end.
LEMMA HangupSteps == ASSUME IInv, Hangup \/ HangupSends \/ HangupReturns PROVE IInv'
<1> USE ConstantsAssumption
<1>1. PICK label \in {"callback", "goodbye", "end"} : Goto("hangup", label)
  BY DEF Hangup, HangupSends, HangupReturns
<1>2. /\ mu' = mu /\ initialized' = initialized /\ peerInit' = peerInit /\ wired' = wired
      /\ flight' = flight /\ delivered' = delivered /\ dtmfSeq' = dtmfSeq
      /\ once' = once /\ phase' = phase /\ transport' = transport /\ ctxDone' = ctxDone
  BY DEF Hangup, HangupSends, HangupReturns, init, dtmf, sess
<1>3. pc \in [Threads -> PCs] /\ label \in PCs /\ "hangup" \in Threads
  BY DEF IInv, TypeOK, PCs, Threads
<1>4. pc'["hangup"] = label /\ \A t \in Threads : t # "hangup" => pc'[t] = pc[t]
  BY <1>1, <1>3 DEF Goto
<1>5. /\ Reqs \cup Apps \cup Closers \cup {"tracker", "begin"} \subseteq Threads \ {"hangup"}
  BY DEF Closers, Threads
<1>6. /\ \A t \in Reqs \cup Apps \cup Closers : pc'[t] = pc[t]
      /\ pc'["tracker"] = pc["tracker"] /\ pc'["begin"] = pc["begin"]
  BY <1>4, <1>5
<1>7. Updated
  BY DEF Hangup, HangupSends, HangupReturns, IInv, BeginOK, WritersOK
<1>8. first' = first
  BY <1>7 DEF Hangup, HangupSends, HangupReturns, said, Write, IInv, FirstOK
<1>9. TypeOK'
  <2>1. pc' \in [Threads -> PCs]
    BY <1>1, <1>3 DEF Goto
  <2>2. goodbyes' \subseteq Threads
    BY <1>3 DEF Hangup, HangupSends, HangupReturns, said, IInv, TypeOK
  <2> QED
    BY <1>2, <1>8, <2>1, <2>2 DEF IInv, TypeOK
<1>10. BeginOK'
  BY <1>2, <1>6 DEF IInv, BeginOK, Updated
<1>11. WritersOK'
  BY <1>2, <1>6, <1>7 DEF IInv, WritersOK, Acting, Updated
<1>12. FirstOK'
  BY <1>2, <1>6, <1>8 DEF IInv, FirstOK, Updated
<1>13. CloseOK'
  BY <1>2, <1>6 DEF IInv, CloseOK, InOnce
<1> QED
  BY <1>9, <1>10, <1>11, <1>12, <1>13 DEF IInv

LEMMA StepIInv == IInv /\ [Next]_vars => IInv'
<1> SUFFICES ASSUME IInv, [Next]_vars PROVE IInv'
  OBVIOUS
<1> USE ConstantsAssumption
    DEF IInv, TypeOK, BeginOK, WritersOK, FirstOK, CloseOK, InOnce, Updated, Acting,
        Threads, Closers, Kinds, PCs, Goto, init, said, dtmf, sess
<1>1. ASSUME NEW r \in Reqs, Arrive(r) PROVE IInv'
  BY <1>1 DEF Arrive
<1>2. ASSUME NEW r \in Reqs, Check(r) PROVE IInv'
  BY <1>2 DEF Check
<1>3. ASSUME NEW r \in Reqs, Perform(r) PROVE IInv'
  BY <1>3 DEF Perform
<1>4. ASSUME NEW r \in Reqs, Reply(r) PROVE IInv'
  BY <1>4 DEF Reply, Write
<1>5. ASSUME NEW a \in Apps, TerminateLock(a) PROVE IInv'
  BY <1>5, TerminateLockStep
<1>6. ASSUME NEW t \in Closers, CloseEnter(t) PROVE IInv'
  BY <1>6 DEF CloseEnter, OnceEnter
<1>7. ASSUME NEW t \in Closers, CallbackSends(t) PROVE IInv'
  BY <1>7 DEF CallbackSends, Write
<1>8. ASSUME NEW t \in Closers, CallbackReturns(t) PROVE IInv'
  BY <1>8 DEF CallbackReturns, OnceLeave
<1>9. ASSUME NEW t \in Closers, CloseReturns(t) PROVE IInv'
  BY <1>9 DEF CloseReturns
<1>10. ASSUME NEW n \in flight, DeliverDTMF(n) PROVE IInv'
  BY <1>10 DEF DeliverDTMF
<1>11. CASE InitializeLock
  BY <1>11 DEF InitializeLock
<1>12. CASE InitializeOk
  BY <1>12 DEF InitializeOk
<1>13. CASE InitializeFails
  BY <1>13 DEF InitializeFails
<1>14. CASE NotifyUpdated
  BY <1>14 DEF NotifyUpdated, Write
<1>15. CASE StartAudio
  BY <1>15 DEF StartAudio
<1>16. CASE WireDTMF
  BY <1>16, WireStep DEF WireDTMF
<1>17. CASE WireHangup
  BY <1>17, WireStep DEF WireHangup
<1>18. CASE ServerHandlesInit
  BY <1>18 DEF ServerHandlesInit
<1>19. CASE PressKey
  BY <1>19 DEF PressKey, Write
<1>20. CASE Hangup \/ HangupSends \/ HangupReturns
  BY <1>20, HangupSteps
<1>21. CASE TrackerLock
  <2>1. CASE initialized
    BY <1>21, <2>1, LockStep DEF TrackerLock
  <2>2. CASE ~initialized
    BY <1>21, <2>2 DEF TrackerLock
  <2> QED
    BY <2>1, <2>2
<1>22. CASE TrackerNotify
  BY <1>22 DEF TrackerNotify, Write
<1>23. CASE PingTick
  BY <1>23 DEF PingTick, Write
<1>24. CASE SessionEnv
  <2>1. CASE CtxCancel
    BY <1>24, <2>1 DEF SessionEnv, CtxCancel
  <2>2. CASE TransportCloses
    BY <1>24, <2>2, TransportGone DEF SessionEnv, TransportCloses
  <2> QED
    BY <1>24, <2>1, <2>2 DEF SessionEnv
<1>25. CASE SessionReads
  BY <1>25 DEF SessionReads, ReaderCloses
<1>26. CASE SessionEnds
  <2>1. CASE FinalizeStart
    BY <1>26, <2>1 DEF SessionEnds, FinalizeStart
  <2>2. CASE FinalizeEnd
    BY <1>26, <2>2, TransportGone DEF SessionEnds, FinalizeEnd
  <2> QED
    BY <1>26, <2>1, <2>2 DEF SessionEnds
<1>27. CASE UNCHANGED vars
  BY <1>27 DEF vars
<1> QED
  BY <1>1, <1>2, <1>3, <1>4, <1>5, <1>6, <1>7, <1>8, <1>9, <1>10, <1>11, <1>12,
     <1>13, <1>14, <1>15, <1>16, <1>17, <1>18, <1>19, <1>20, <1>21, <1>22, <1>23, <1>24,
     <1>25, <1>26, <1>27
     DEF Next, Begin, Serve, Close, Events
-----------------------------------------------------------------------------
\* The inductive invariant holds in every reachable state.
THEOREM Invariance == Spec => []IInv
  BY InitIInv, StepIInv, PTL DEF Spec

\* Every variable keeps its type.
THEOREM TypeCorrect == Spec => []TypeOK
<1>1. IInv => TypeOK
  BY DEF IInv
<1> QED
  BY Invariance, <1>1, PTL

\* The check middleware (handler.go:96) lets no request pass before the server
\* has handled session.initialize.
THEOREM CheckedRequests == Spec => []InitHandledFirst
<1>1. IInv => InitHandledFirst
  BY DEF IInv, BeginOK, WritersOK, Updated, InitHandledFirst
<1> QED
  BY Invariance, <1>1, PTL

\* sessionInitialize (handler.go:34) sends session.updated before any other
\* goroutine of the client gets to write.
THEOREM UpdatedIsFirst == Spec => []UpdatedFirst
<1>1. IInv => UpdatedFirst
  BY DEF IInv, FirstOK, UpdatedFirst
<1> QED
  BY Invariance, <1>1, PTL

(* Who has said good-bye.                                                  *)

\* Of those that close, nobody has said good-bye before the Once is entered and
\* while its holder is still about to; later it was one of them.
GoodbyeOK ==
  /\ \A t, u \in goodbyes \ {"hangup"} : t = u
  /\ once = "free" => goodbyes \subseteq {"hangup"}
  /\ \A t \in Closers : pc[t] = "callback" => goodbyes \subseteq {"hangup"}

\* Nobody comes to the callback, and of those that close nobody says good-bye.
LEMMA GoodbyesKept ==
  ASSUME IInv, GoodbyeOK, goodbyes' \subseteq goodbyes \cup {"hangup"},
         once' = "free" => once = "free",
         \A t \in Closers : pc'[t] = "callback" => pc[t] = "callback"
  PROVE  GoodbyeOK'
<1>1. \A t \in goodbyes' \ {"hangup"} : t \in goodbyes \ {"hangup"}
  OBVIOUS
<1> QED
  BY <1>1 DEF GoodbyeOK

LEMMA StepGoodbye == IInv /\ GoodbyeOK /\ [Next]_vars => GoodbyeOK'
<1> SUFFICES ASSUME IInv, GoodbyeOK, [Next]_vars PROVE GoodbyeOK'
  OBVIOUS
<1> USE ConstantsAssumption
<1>1. /\ pc \in [Threads -> PCs]
      /\ Reqs \cup Apps \cup Closers \cup {"begin", "tracker", "hangup"} \subseteq Threads
      /\ \A t \in Closers : t \notin {"begin", "tracker", "hangup"}
  BY DEF IInv, TypeOK, Threads, Closers
<1>2. ASSUME NEW t \in Threads, NEW label, Goto(t, label),
             label # "callback" \/ t \notin Closers, UNCHANGED <<sess, goodbyes>>
      PROVE  GoodbyeOK'
  <2>1. pc'[t] = label /\ \A u \in Threads : u # t => pc'[u] = pc[u]
    BY <1>1, <1>2 DEF Goto
  <2>2. \A u \in Closers : pc'[u] = "callback" => pc[u] = "callback"
    BY <1>1, <1>2, <2>1
  <2> QED
    BY <1>2, <2>2, GoodbyesKept DEF sess
<1>3. ASSUME UNCHANGED <<once, pc, goodbyes>> PROVE GoodbyeOK'
  BY <1>3, GoodbyesKept
<1>4. ASSUME NEW r \in Reqs, Arrive(r) \/ Serve(r) PROVE GoodbyeOK'
  <2>1. PICK label \in {"check", "perform", "failed", "reply", "close", "end"} : Goto(r, label)
    BY <1>4 DEF Arrive, Serve, Check, Perform, Reply
  <2>2. UNCHANGED <<sess, goodbyes>>
    BY <1>4 DEF Arrive, Serve, Check, Perform, Reply, said
  <2> QED
    BY <1>1, <1>2, <2>1, <2>2
<1>5. ASSUME NEW a \in Apps, TerminateLock(a) PROVE GoodbyeOK'
  <2>1. PICK label \in {"close", "err"} : Goto(a, label)
    BY <1>5 DEF TerminateLock
  <2>2. UNCHANGED <<sess, goodbyes>>
    BY <1>5 DEF TerminateLock, said
  <2> QED
    BY <1>1, <1>2, <2>1, <2>2
<1>6. ASSUME NEW t \in Closers, CloseEnter(t) PROVE GoodbyeOK'
  <2>1. goodbyes' = goodbyes
    BY <1>6 DEF CloseEnter, said
  <2>2. CASE UNCHANGED sess /\ Goto(t, "wait")
    BY <1>1, <1>2, <2>1, <2>2
  <2>3. CASE OnceEnter
    BY <2>1, <2>3 DEF OnceEnter, GoodbyeOK
  <2> QED
    BY <1>6, <2>2, <2>3 DEF CloseEnter
<1>7. ASSUME NEW t \in Closers, CallbackSends(t) PROVE GoodbyeOK'
  <2>1. /\ pc[t] = "callback" /\ Goto(t, "goodbye") /\ goodbyes' = goodbyes \cup {t}
        /\ UNCHANGED sess
    BY <1>7 DEF CallbackSends
  <2>2. pc'[t] = "goodbye" /\ \A u \in Closers : u # t => pc'[u] = pc[u]
    BY <1>1, <2>1 DEF Goto
  <2>3. goodbyes \subseteq {"hangup"}
    BY <2>1 DEF GoodbyeOK
  <2>4. \A u \in Closers : pc'[u] # "callback"
    BY <2>1, <2>2 DEF IInv, CloseOK, InOnce
  <2>5. once' # "free"
    BY <2>1 DEF IInv, CloseOK, InOnce, sess
  <2> QED
    BY <2>1, <2>3, <2>4, <2>5 DEF GoodbyeOK
<1>8. ASSUME NEW t \in Closers, CallbackReturns(t) PROVE GoodbyeOK'
  <2>1. goodbyes' = goodbyes /\ once' = "done" /\ Goto(t, "wait")
    BY <1>8 DEF CallbackReturns, OnceLeave, said
  <2>2. \A u \in Closers : pc'[u] = "callback" => pc[u] = "callback"
    BY <1>1, <2>1 DEF Goto
  <2> QED
    BY <2>1, <2>2, GoodbyesKept
<1>9. ASSUME NEW t \in Closers, CloseReturns(t) PROVE GoodbyeOK'
  <2>1. PICK label \in {"ok", "err"} : Goto(t, label)
    BY <1>9 DEF CloseReturns
  <2>2. UNCHANGED <<sess, goodbyes>>
    BY <1>9 DEF CloseReturns, said
  <2> QED
    BY <1>1, <1>2, <2>1, <2>2
<1>10. CASE Begin
  <2>1. PICK label : Goto("begin", label)
    BY <1>10 DEF Begin, InitializeLock, InitializeOk, InitializeFails, NotifyUpdated, StartAudio,
                 WireDTMF, WireHangup
  <2>2. UNCHANGED <<sess, goodbyes>>
    BY <1>10 DEF Begin, InitializeLock, InitializeOk, InitializeFails, NotifyUpdated, StartAudio,
                 WireDTMF, WireHangup, said
  <2> QED
    BY <1>1, <1>2, <2>1, <2>2
<1>11. CASE TrackerLock \/ TrackerNotify
  <2>1. pc' = pc \/ \E label : Goto("tracker", label)
    BY <1>11 DEF TrackerLock, TrackerNotify
  <2>2. UNCHANGED <<sess, goodbyes>>
    BY <1>11 DEF TrackerLock, TrackerNotify, said
  <2> QED
    BY <1>1, <1>2, <1>3, <2>1, <2>2 DEF sess
<1>12. CASE Hangup \/ HangupSends \/ HangupReturns
  <2>1. PICK label : Goto("hangup", label)
    BY <1>12 DEF Hangup, HangupSends, HangupReturns
  <2>2. UNCHANGED once /\ goodbyes' \subseteq goodbyes \cup {"hangup"}
    BY <1>12 DEF Hangup, HangupSends, HangupReturns, said, sess
  <2>3. \A u \in Closers : pc'[u] = pc[u]
    BY <1>1, <2>1 DEF Goto
  <2> QED
    BY <2>2, <2>3, GoodbyesKept
<1>13. CASE PressKey \/ PingTick \/ ServerHandlesInit \/ \E n \in flight : DeliverDTMF(n)
  BY <1>3, <1>13 DEF PressKey, PingTick, ServerHandlesInit, DeliverDTMF, said, sess
<1>14. CASE SessionEnv \/ SessionReads \/ SessionEnds
  <2>1. pc' = pc /\ goodbyes' = goodbyes
    BY <1>14 DEF SessionEnv, SessionReads, SessionEnds, said
  <2>2. once' = "free" => once = "free"
    BY <1>14 DEF SessionEnv, SessionReads, SessionEnds, CtxCancel, TransportCloses, ReaderCloses,
                 FinalizeStart, FinalizeEnd
  <2> QED
    BY <2>1, <2>2, GoodbyesKept
<1>15. CASE UNCHANGED vars
  BY <1>3, <1>15 DEF vars, said, sess
<1> QED
  BY <1>4, <1>5, <1>6, <1>7, <1>8, <1>9, <1>10, <1>11, <1>12, <1>13, <1>14, <1>15
  DEF Next, Close, Events

\* sessionTerminateAndClose (handler.go:217) asks the server to terminate at
\* most once, in whatever goroutines and however often the session is closed;
\* only the hangup callback (handler.go:139) asks beside it.
THEOREM OneGoodbye == Spec => []GoodbyeOnce
<1>1. Init => GoodbyeOK
  BY ConstantsAssumption DEF Init, GoodbyeOK
<1>2. IInv /\ GoodbyeOK => GoodbyeOnce
  BY DEF IInv, CloseOK, GoodbyeOK, GoodbyeOnce
<1> QED
  BY <1>1, <1>2, StepGoodbye, Invariance, PTL DEF Spec
-----------------------------------------------------------------------------
(* Who waits for the lock, for the Once or for the end of the session.     *)

\* mu is held over requests to the server, and its holder is known by where
\* it is.
LockOK ==
  /\ mu \in {"free", "begin", "tracker"} \cup Apps
  /\ mu = "begin" <=> pc["begin"] \in {"request", "notify"}
  /\ mu = "tracker" <=> pc["tracker"] = "notify"
  /\ \A a \in Apps : mu = a <=> pc[a] \in {"close", "callback", "goodbye", "wait"}

AskedOK ==
  /\ once = "busy" => \E t \in Closers : pc[t] \in {"callback", "goodbye"}
  /\ phase # "open" => once = "done" \/ ctxDone
  /\ \A t \in Closers : pc[t] = "wait" => once = "done" \/ ctxDone

\* No circle of waiting: who holds mu does not wait for mu; it waits for an
\* answer of the server or in Close.  There it may wait for the Once, which is
\* then in the hands of a goroutine that waits for the server only, or for the
\* end of the session, which was asked for.
WaitsServed ==
  /\ mu # "free" =>
       \/ mu = "begin" /\ pc[mu] \in {"request", "notify"}
       \/ mu = "tracker" /\ pc[mu] = "notify"
       \/ mu \in Apps /\ pc[mu] \in {"close", "callback", "goodbye", "wait"}
  /\ once = "busy" => \E t \in Closers : pc[t] \in {"callback", "goodbye"}
  /\ \A t \in Closers : pc[t] = "wait" => once = "done" \/ ctxDone

LEMMA InitWaits == Init => LockOK /\ AskedOK
  BY ConstantsAssumption DEF Init, SessInit, LockOK, AskedOK, Threads, Closers

\* A goroutine moves and leaves the lock as it was.
LEMMA LockKept ==
  ASSUME IInv, LockOK, NEW t \in Threads, NEW label, Goto(t, label), mu' = mu,
         t = "begin" => (label \in {"request", "notify"} <=> pc[t] \in {"request", "notify"}),
         t = "tracker" => (label = "notify" <=> pc[t] = "notify"),
         t \in Apps => (label \in {"close", "callback", "goodbye", "wait"}
                          <=> pc[t] \in {"close", "callback", "goodbye", "wait"})
  PROVE  LockOK'
<1>1. \A u \in Threads : pc'[u] = IF u = t THEN label ELSE pc[u]
  BY DEF IInv, TypeOK, Goto
<1>2. {"begin", "tracker"} \cup Apps \subseteq Threads
  BY DEF Threads
<1>3. \A a \in Apps : a # "begin" /\ a # "tracker"
  BY ConstantsAssumption
<1> QED
  BY <1>1, <1>2, <1>3 DEF LockOK

\* A goroutine takes the free lock, or gives it back.
LEMMA LockPassed ==
  ASSUME IInv, LockOK, NEW t \in {"begin", "tracker"} \cup Apps, NEW label, Goto(t, label),
         \/ /\ mu = "free" /\ mu' = t
            /\ t = "begin" => label \in {"request", "notify"}
            /\ t = "tracker" => label = "notify"
            /\ t \in Apps => label \in {"close", "callback", "goodbye", "wait"}
         \/ /\ mu = t /\ mu' = "free"
            /\ label \notin {"request", "notify", "close", "callback", "goodbye", "wait"}
  PROVE  LockOK'
<1>1. t \in Threads /\ {"begin", "tracker"} \cup Apps \subseteq Threads
  BY DEF Threads
<1>2. \A u \in Threads : pc'[u] = IF u = t THEN label ELSE pc[u]
  BY DEF IInv, TypeOK, Goto
<1>3. \A a \in Apps : a # "begin" /\ a # "tracker" /\ a # "free"
  BY ConstantsAssumption
<1> QED
  BY <1>1, <1>2, <1>3 DEF LockOK

\* Where the goroutines are that close the session has not changed.
LEMMA ClosersKept ==
  ASSUME AskedOK, UNCHANGED <<once, phase, ctxDone>>,
         \A t \in Closers : \/ pc'[t] = pc[t]
                            \/ /\ pc'[t] \in {"callback", "goodbye"} <=> pc[t] \in {"callback", "goodbye"}
                               /\ pc'[t] # "wait"
  PROVE  AskedOK'
  BY DEF AskedOK

LEMMA StepWaits == IInv /\ LockOK /\ AskedOK /\ [Next]_vars => LockOK' /\ AskedOK'
<1> SUFFICES ASSUME IInv, LockOK, AskedOK, [Next]_vars PROVE LockOK' /\ AskedOK'
  OBVIOUS
<1> USE ConstantsAssumption
<1>1. /\ pc \in [Threads -> PCs]
      /\ Reqs \cup Apps \cup Closers \cup {"begin", "tracker", "hangup"} \subseteq Threads
      /\ \A t \in Reqs \cup Apps \cup Closers : t \notin {"begin", "tracker", "hangup", "free"}
      /\ \A r \in Reqs : r \notin Apps
      /\ Closers = Closing \cup Apps /\ Closing \subseteq Reqs
  BY DEF IInv, TypeOK, Threads, Closers
<1>2. ASSUME NEW t \in Threads, NEW label, Goto(t, label)
      PROVE  pc'[t] = label /\ \A u \in Threads : u # t => pc'[u] = pc[u]
  BY <1>1, <1>2 DEF Goto
<1>3. ASSUME UNCHANGED <<mu, pc, sess>> PROVE LockOK' /\ AskedOK'
  BY <1>3 DEF LockOK, AskedOK, sess
<1>4. ASSUME NEW r \in Reqs, Arrive(r) \/ Check(r) \/ Perform(r) \/ Reply(r)
      PROVE  LockOK' /\ AskedOK'
  <2>1. PICK label \in {"check", "perform", "failed", "reply", "close", "end"} : Goto(r, label)
    BY <1>4 DEF Arrive, Check, Perform, Reply
  <2>2. /\ mu' = mu /\ UNCHANGED sess
        /\ pc[r] \in {"off", "check", "perform", "reply"}
    BY <1>4 DEF Arrive, Check, Perform, Reply
  <2>3. LockOK'
    BY <1>1, <2>1, <2>2, LockKept
  <2>4. AskedOK'
    BY <1>1, <1>2, <2>1, <2>2, ClosersKept DEF sess
  <2> QED
    BY <2>3, <2>4
<1>5. ASSUME NEW a \in Apps, TerminateLock(a) PROVE LockOK' /\ AskedOK'
  <2>1. PICK label \in {"close", "err"} :
          Goto(a, label) /\ (IF label = "close" THEN mu' = a ELSE mu' = mu)
    BY <1>5 DEF TerminateLock
  <2>2. pc[a] = "idle" /\ mu = "free" /\ UNCHANGED sess
    BY <1>5 DEF TerminateLock
  <2>3. LockOK'
    BY <1>1, <2>1, <2>2, LockKept, LockPassed
  <2>4. AskedOK'
    BY <1>1, <1>2, <2>1, <2>2, ClosersKept DEF sess
  <2> QED
    BY <2>3, <2>4
<1>6. ASSUME NEW t \in Closers, CloseEnter(t) \/ CallbackSends(t) \/ CallbackReturns(t)
      PROVE  LockOK' /\ AskedOK'
  <2>1. PICK label \in {"wait", "callback", "goodbye"} : Goto(t, label)
    BY <1>6 DEF CloseEnter, CallbackSends, CallbackReturns
  <2>2. mu' = mu /\ pc[t] \in {"close", "callback", "goodbye"}
    BY <1>6 DEF CloseEnter, CallbackSends, CallbackReturns
  <2>3. LockOK'
    BY <1>1, <2>1, <2>2, LockKept
  <2>4. pc'[t] = label /\ \A u \in Closers : u # t => pc'[u] = pc[u]
    BY <1>1, <1>2, <2>1
  <2>5. CASE CloseEnter(t) /\ UNCHANGED sess
    <3>1. /\ pc[t] = "close" /\ pc'[t] = "wait" /\ once \in {"free", "busy", "done"}
          /\ once = "done" \/ ctxDone
      BY <1>1, <1>2, <2>5 DEF CloseEnter, OnceEnter, AskedOK, sess, IInv, TypeOK
    <3> QED
      BY <2>3, <2>4, <2>5, <3>1 DEF AskedOK, sess
  <2>6. CASE CloseEnter(t) /\ OnceEnter
    <3>1. pc[t] = "close" /\ label = "callback"
      BY <1>1, <1>2, <2>4, <2>6 DEF CloseEnter, OnceEnter, sess
    <3> QED
      BY <2>3, <2>4, <2>6, <3>1 DEF AskedOK, OnceEnter
  <2>7. CASE CallbackSends(t)
    <3>1. pc[t] = "callback" /\ pc'[t] = "goodbye" /\ UNCHANGED sess
      BY <1>1, <1>2, <2>7 DEF CallbackSends
    <3> QED
      BY <2>3, <2>4, <3>1, ClosersKept DEF sess
  <2>8. CASE CallbackReturns(t)
    <3>1. pc'[t] = "wait" /\ OnceLeave
      BY <1>1, <1>2, <2>8 DEF CallbackReturns
    <3> QED
      BY <2>3, <2>4, <3>1 DEF AskedOK, OnceLeave
  <2> QED
    BY <1>6, <2>5, <2>6, <2>7, <2>8 DEF CloseEnter
<1>7. ASSUME NEW t \in Closers, CloseReturns(t) PROVE LockOK' /\ AskedOK'
  <2>1. PICK label \in {"ok", "err"} : Goto(t, label)
    BY <1>7 DEF CloseReturns
  <2>2. pc[t] = "wait" /\ mu' = (IF mu = t THEN "free" ELSE mu) /\ UNCHANGED sess
    BY <1>7 DEF CloseReturns
  <2>3. LockOK'
    <3>1. CASE t \in Apps
      BY <1>1, <2>1, <2>2, <3>1, LockPassed DEF LockOK
    <3>2. CASE t \notin Apps
      BY <1>1, <2>1, <2>2, <3>2, LockKept DEF LockOK
    <3> QED
      BY <3>1, <3>2
  <2>4. AskedOK'
    BY <1>1, <1>2, <2>1, <2>2, ClosersKept DEF sess
  <2> QED
    BY <2>3, <2>4
<1>8. CASE Begin
  <2>1. PICK label \in {"request", "failed", "notify", "audio", "ondtmf", "onhangup", "end"} :
          Goto("begin", label)
    BY <1>8 DEF Begin, InitializeLock, InitializeOk, InitializeFails, NotifyUpdated, StartAudio,
                WireDTMF, WireHangup
  <2>2. LockOK'
    <3>1. CASE InitializeLock
      BY <1>1, <3>1, LockPassed DEF InitializeLock
    <3>2. CASE InitializeFails
      BY <1>1, <3>2, LockPassed DEF InitializeFails, LockOK
    <3>3. CASE NotifyUpdated
      BY <1>1, <3>3, LockPassed DEF NotifyUpdated, LockOK
    <3>4. CASE InitializeOk \/ StartAudio \/ WireDTMF \/ WireHangup
      BY <1>1, <3>4, LockKept DEF InitializeOk, StartAudio, WireDTMF, WireHangup
    <3> QED
      BY <1>8, <3>1, <3>2, <3>3, <3>4 DEF Begin
  <2>3. UNCHANGED sess
    BY <1>8 DEF Begin, InitializeLock, InitializeOk, InitializeFails, NotifyUpdated, StartAudio,
                WireDTMF, WireHangup
  <2>4. AskedOK'
    BY <1>1, <1>2, <2>1, <2>3, ClosersKept DEF sess
  <2> QED
    BY <2>2, <2>4
<1>9. CASE TrackerLock
  <2>1. CASE initialized
    <3>1. /\ mu = "free" /\ mu' = "tracker" /\ Goto("tracker", "notify") /\ UNCHANGED sess
      BY <1>9, <2>1 DEF TrackerLock
    <3>2. LockOK'
      BY <1>1, <3>1, LockPassed
    <3>3. AskedOK'
      BY <1>1, <1>2, <3>1, ClosersKept DEF sess
    <3> QED
      BY <3>2, <3>3
  <2>2. CASE ~initialized
    BY <1>3, <1>9, <2>2 DEF TrackerLock
  <2> QED
    BY <2>1, <2>2
<1>10. CASE TrackerNotify
  <2>1. /\ pc["tracker"] = "notify" /\ mu' = "free" /\ Goto("tracker", "idle") /\ UNCHANGED sess
    BY <1>10 DEF TrackerNotify
  <2>2. LockOK'
    BY <1>1, <2>1, LockPassed DEF LockOK
  <2>3. AskedOK'
    BY <1>1, <1>2, <2>1, ClosersKept DEF sess
  <2> QED
    BY <2>2, <2>3
<1>11. CASE Hangup \/ HangupSends \/ HangupReturns
  <2>1. PICK label : Goto("hangup", label) /\ mu' = mu /\ UNCHANGED sess
    BY <1>11 DEF Hangup, HangupSends, HangupReturns
  <2>2. LockOK'
    BY <1>1, <2>1, LockKept
  <2>3. AskedOK'
    BY <1>1, <1>2, <2>1, ClosersKept DEF sess
  <2> QED
    BY <2>2, <2>3
<1>12. ASSUME NEW n \in flight, DeliverDTMF(n) PROVE LockOK' /\ AskedOK'
  BY <1>3, <1>12 DEF DeliverDTMF
<1>13. CASE ServerHandlesInit \/ PressKey \/ PingTick
  BY <1>3, <1>13 DEF ServerHandlesInit, PressKey, PingTick
<1>14. CASE SessionEnv \/ SessionReads \/ SessionEnds
  <2>1. mu' = mu /\ pc' = pc
    BY <1>14 DEF SessionEnv, SessionReads, SessionEnds
  <2>2. LockOK'
    BY <2>1 DEF LockOK
  <2>3. AskedOK'
    BY <1>14, <2>1
    DEF SessionEnv, SessionReads, SessionEnds, CtxCancel, TransportCloses, ReaderCloses,
        FinalizeStart, FinalizeEnd, AskedOK
  <2> QED
    BY <2>2, <2>3
<1>15. CASE UNCHANGED vars
  BY <1>3, <1>15 DEF vars
<1> QED
  BY <1>4, <1>5, <1>6, <1>7, <1>8, <1>9, <1>10, <1>11, <1>12, <1>13, <1>14, <1>15
  DEF Next, Serve, Close, Events

\* The lock of ClientHandler.sessionInitialize, Terminate and dispatch
\* (handler.go:35, :75, audio_info_event.go:41) is never part of a deadlock.
\* This is the safe half of LockGoesRound.
THEOREM NobodyWaitsInVain == Spec => []WaitsServed
<1>1. Init => LockOK /\ AskedOK
  BY InitWaits
<1>2. IInv /\ LockOK /\ AskedOK /\ [Next]_vars => LockOK' /\ AskedOK'
  BY StepWaits
<1>3. LockOK /\ AskedOK => WaitsServed
  BY DEF LockOK, AskedOK, WaitsServed
<1> QED
  BY <1>1, <1>2, <1>3, Invariance, PTL DEF Spec
-----------------------------------------------------------------------------
(* The handler does not stop half-way: where no fair action can be taken,  *)
(* the lock is free and nobody waits for it.                               *)

\* No goroutine of the handler and no step of its session is left.
Stalled ==
  /\ pc["begin"] \notin {"request", "notify", "audio", "ondtmf", "onhangup"}
  /\ pc["begin"] = "lock" => mu # "free"
  /\ pc["tracker"] # "notify"
  /\ phase = "open" => ~ctxDone /\ once # "done" /\ (~transport => once # "free")
  /\ phase # "closing"
  /\ \A r \in Reqs : pc[r] \notin {"perform", "reply"} /\ (pc[r] = "check" => mu # "free")
  /\ \A t \in Closers : pc[t] \notin {"callback", "goodbye", "wait"}
  /\ \A t \in Closers : pc[t] = "close" => phase = "open" /\ once = "busy"

ComesToRest ==
  Stalled =>
    /\ mu = "free" /\ pc["begin"] # "lock"
    /\ \A r \in Reqs : pc[r] \notin {"check", "perform", "reply"}
    /\ \A t \in Closers : pc[t] \notin {"close", "callback", "goodbye", "wait"}
    /\ ~transport \/ ctxDone \/ once = "done" => phase = "closed"

\* Requests, OnBegin and any number of calls of Terminate (handler.go:75) all
\* come to an end, and so does a session that was told to: the safe half of
\* LockGoesRound.
THEOREM KeepsMoving == Spec => []ComesToRest
<1>1. IInv /\ LockOK /\ AskedOK => ComesToRest
  <2> SUFFICES ASSUME IInv, LockOK, AskedOK, Stalled
               PROVE  /\ mu = "free" /\ pc["begin"] # "lock"
                      /\ \A r \in Reqs : pc[r] \notin {"check", "perform", "reply"}
                      /\ \A t \in Closers : pc[t] \notin {"close", "callback", "goodbye", "wait"}
                      /\ ~transport \/ ctxDone \/ once = "done" => phase = "closed"
    BY DEF ComesToRest
  <2>1. once # "busy"
    BY DEF Stalled, AskedOK
  <2>2. \A t \in Closers : pc[t] \notin {"close", "callback", "goodbye", "wait"}
    BY <2>1 DEF Stalled
  <2>3. mu = "free"
    BY <2>2 DEF Stalled, LockOK, Closers
  <2>4. once \in {"free", "busy", "done"} /\ phase \in {"open", "closing", "closed"}
    BY DEF IInv, TypeOK
  <2> QED
    BY <2>1, <2>2, <2>3, <2>4 DEF Stalled
<1>2. Spec => [](LockOK /\ AskedOK)
  BY InitWaits, StepWaits, Invariance, PTL DEF Spec
<1> QED
  BY <1>1, <1>2, Invariance, PTL
-----------------------------------------------------------------------------
\* What a step of the handler does to the session is a step of ClosingSession.
LEMMA SessionStep == Next => SessNext \/ UNCHANGED sess
<1>1. CASE Begin
  BY <1>1 DEF Begin, InitializeLock, InitializeOk, InitializeFails, NotifyUpdated, StartAudio,
              WireDTMF, WireHangup
<1>2. ASSUME NEW r \in Reqs, Arrive(r) \/ Serve(r) PROVE UNCHANGED sess
  BY <1>2 DEF Arrive, Serve, Check, Perform, Reply
<1>3. ASSUME NEW a \in Apps, TerminateLock(a) PROVE UNCHANGED sess
  BY <1>3 DEF TerminateLock
<1>4. ASSUME NEW t \in Closers, Close(t) PROVE SessNext \/ UNCHANGED sess
  BY <1>4 DEF Close, CloseEnter, CallbackSends, CallbackReturns, CloseReturns, SessNext
<1>5. CASE Events \/ ServerHandlesInit
  BY <1>5 DEF Events, PressKey, Hangup, HangupSends, HangupReturns, TrackerLock,
              TrackerNotify, PingTick, ServerHandlesInit
<1>6. ASSUME NEW n \in flight, DeliverDTMF(n) PROVE UNCHANGED sess
  BY <1>6 DEF DeliverDTMF
<1>7. CASE SessionEnv \/ SessionReads \/ SessionEnds
  BY <1>7 DEF SessionEnv, SessionReads, SessionEnds, SessNext
<1> QED
  BY <1>1, <1>2, <1>3, <1>4, <1>5, <1>6, <1>7 DEF Next

\* Whatever the handler does to its session, and it does by itself, is a step
\* of ClosingSession, which is what module Session implements.
THEOREM ClosesSession == Spec => SessSpec
<1>1. Init => SessInit
  BY DEF Init
<1>2. [Next]_vars => [SessNext]_sess
  BY SessionStep DEF vars
<1> QED
  BY <1>1, <1>2, PTL DEF Spec, SessSpec
-----------------------------------------------------------------------------
(* No way back                                                             *)

\* The places of OnBegin, of a checked request, of Terminate and of the hangup
\* callback, in their order, and those of what they share.
Place == [off |-> 0, idle |-> 0, lock |-> 0, request |-> 1, check |-> 1, notify |-> 2,
          perform |-> 2, audio |-> 3, reply |-> 3, ondtmf |-> 4, close |-> 4, onhangup |-> 5,
          callback |-> 5, goodbye |-> 6, wait |-> 7, end |-> 8, failed |-> 8, ok |-> 8, err |-> 8]
InitPlace == [none |-> 0, sent |-> 1, handled |-> 2]
OncePlace == [free |-> 0, busy |-> 1, done |-> 2]
PhasePlace == [open |-> 0, closing |-> 1, closed |-> 2]

\* What everybody but the goroutines themselves can see goes forward.
SharedOnward ==
  /\ peerInit' # peerInit => InitPlace[peerInit] < InitPlace[peerInit']
  /\ once' # once => OncePlace[once] < OncePlace[once']
  /\ phase' # phase => PhasePlace[phase] < PhasePlace[phase']
  /\ (initialized => initialized') /\ (transport' => transport) /\ (ctxDone => ctxDone')
  /\ dtmfSeq <= dtmfSeq'

Onward ==
  /\ SharedOnward
  /\ \A t \in Threads \ {"tracker"} : pc'[t] # pc[t] => Place[pc[t]] < Place[pc'[t]]

\* Somebody gets further.
Moved ==
  \/ \E t \in Threads \ {"tracker"} : pc'[t] # pc[t]
  \/ <<peerInit, sess, dtmfSeq>>' # <<peerInit, sess, dtmfSeq>>

\* A tick of the audio tracker or the pinger, which go round until the context
\* is cancelled, and then at most let go of mu.
Tick ==
  /\ UNCHANGED <<init, dtmf, sess>>
  /\ ctxDone => pc["tracker"] = "notify" /\ pc'["tracker"] = "idle" /\ mu' = "free"

\* Nobody but the tickers comes back to a place, and a digit on its way arrives
\* once.
Advance ==
  /\ Onward
  /\ Moved \/ Tick \/ \E n \in flight : flight' = flight \ {n}

LEMMA PlaceIs ==
  /\ Place["off"] = 0 /\ Place["idle"] = 0 /\ Place["lock"] = 0 /\ Place["request"] = 1
  /\ Place["check"] = 1 /\ Place["notify"] = 2 /\ Place["perform"] = 2 /\ Place["audio"] = 3
  /\ Place["reply"] = 3 /\ Place["ondtmf"] = 4 /\ Place["close"] = 4 /\ Place["onhangup"] = 5
  /\ Place["callback"] = 5 /\ Place["goodbye"] = 6 /\ Place["wait"] = 7 /\ Place["end"] = 8
  /\ Place["failed"] = 8 /\ Place["ok"] = 8 /\ Place["err"] = 8
  /\ InitPlace["none"] = 0 /\ InitPlace["sent"] = 1 /\ InitPlace["handled"] = 2
  /\ OncePlace["free"] = 0 /\ OncePlace["busy"] = 1 /\ OncePlace["done"] = 2
  /\ PhasePlace["open"] = 0 /\ PhasePlace["closing"] = 1 /\ PhasePlace["closed"] = 2
  BY DEF Place, InitPlace, OncePlace, PhasePlace

\* session.initialize is sent once.
AskedOnce == pc["begin"] = "lock" => peerInit = "none"

LEMMA SessOnward ==
  ASSUME IInv, SessNext \/ UNCHANGED sess
  PROVE  /\ once' # once => OncePlace[once] < OncePlace[once']
         /\ phase' # phase => PhasePlace[phase] < PhasePlace[phase']
         /\ (transport' => transport) /\ (ctxDone => ctxDone')
<1>1. once \in {"free", "busy", "done"} /\ phase \in {"open", "closing", "closed"}
  BY DEF IInv, TypeOK
<1> QED
  BY <1>1, PlaceIs DEF SessNext, sess, OnceEnter, OnceLeave, ReaderCloses, CtxCancel,
                       TransportCloses, FinalizeStart, FinalizeEnd

\* A goroutine moves on.
LEMMA GoesOn ==
  ASSUME IInv, SharedOnward, NEW t \in Threads \ {"tracker"}, NEW label, Goto(t, label),
         Place[pc[t]] < Place[label], label # pc[t]
  PROVE  Advance
<1>1. pc \in [Threads -> PCs]
  BY DEF IInv, TypeOK
<1>2. pc'[t] = label /\ \A u \in Threads : u # t => pc'[u] = pc[u]
  BY <1>1 DEF Goto
<1> QED
  BY <1>2 DEF Advance, Onward, Moved

\* No goroutine of the handler but perhaps the tracker moves.
LEMMA OthersMove ==
  ASSUME IInv, SharedOnward,
         \/ pc' = pc
         \/ \E label : Goto("tracker", label),
         Moved \/ Tick \/ \E n \in flight : flight' = flight \ {n}
  PROVE  Advance
<1>1. pc \in [Threads -> PCs]
  BY DEF IInv, TypeOK
<1>2. \A t \in Threads \ {"tracker"} : pc'[t] = pc[t]
  BY <1>1 DEF Goto
<1> QED
  BY <1>2 DEF Advance, Onward

LEMMA StepAdvance == IInv /\ AskedOnce /\ Next => Advance
<1> SUFFICES ASSUME IInv, AskedOnce, Next PROVE Advance
  OBVIOUS
<1>1. /\ dtmfSeq \in Nat /\ pc \in [Threads -> PCs]
      /\ "begin" \in Threads \ {"tracker"} /\ "hangup" \in Threads \ {"tracker"}
      /\ "tracker" \in Threads
      /\ Reqs \cup Apps \subseteq Threads \ {"tracker"} /\ Closers \subseteq Reqs \cup Apps
  BY ConstantsAssumption DEF IInv, TypeOK, Threads, Closers
<1>2. /\ once' # once => OncePlace[once] < OncePlace[once']
      /\ phase' # phase => PhasePlace[phase] < PhasePlace[phase']
      /\ (transport' => transport) /\ (ctxDone => ctxDone')
  BY SessOnward, SessionStep
<1>3. (UNCHANGED <<initialized, peerInit>> /\ dtmfSeq' \in {dtmfSeq, dtmfSeq + 1}) => SharedOnward
  BY <1>1, <1>2 DEF SharedOnward
<1>4. CASE Begin
  <2>1. SharedOnward
    <3>1. CASE InitializeLock
      BY <1>1, <1>2, <3>1, PlaceIs DEF InitializeLock, AskedOnce, SharedOnward, dtmf
    <3>2. CASE InitializeOk
      BY <1>1, <1>2, <3>2 DEF InitializeOk, SharedOnward, dtmf
    <3>3. CASE InitializeFails \/ NotifyUpdated \/ StartAudio \/ WireDTMF \/ WireHangup
      BY <1>3, <3>3 DEF InitializeFails, NotifyUpdated, StartAudio, WireDTMF, WireHangup, init, dtmf
    <3> QED
      BY <1>4, <3>1, <3>2, <3>3 DEF Begin
  <2>2. PICK label : Goto("begin", label) /\ Place[pc["begin"]] < Place[label]
                     /\ label # pc["begin"]
    BY <1>4, PlaceIs DEF Begin, InitializeLock, InitializeOk, InitializeFails, NotifyUpdated,
                         StartAudio, WireDTMF, WireHangup
  <2> QED
    BY <1>1, <2>1, <2>2, GoesOn
<1>5. ASSUME NEW r \in Reqs, Arrive(r) \/ Serve(r) PROVE Advance
  <2>1. SharedOnward
    BY <1>3, <1>5 DEF Arrive, Serve, Check, Perform, Reply, init, dtmf
  <2>2. PICK label : Goto(r, label) /\ Place[pc[r]] < Place[label] /\ label # pc[r]
    BY <1>5, PlaceIs DEF Arrive, Serve, Check, Perform, Reply
  <2> QED
    BY <1>1, <2>1, <2>2, GoesOn
<1>6. ASSUME NEW a \in Apps, TerminateLock(a) PROVE Advance
  <2>1. SharedOnward
    BY <1>3, <1>6 DEF TerminateLock, init, dtmf
  <2>2. PICK label : Goto(a, label) /\ Place[pc[a]] < Place[label] /\ label # pc[a]
    BY <1>6, PlaceIs DEF TerminateLock
  <2> QED
    BY <1>1, <2>1, <2>2, GoesOn
<1>7. ASSUME NEW t \in Closers, Close(t) PROVE Advance
  <2>1. SharedOnward
    BY <1>3, <1>7 DEF Close, CloseEnter, CallbackSends, CallbackReturns, CloseReturns, init, dtmf
  <2>2. PICK label : Goto(t, label) /\ Place[pc[t]] < Place[label] /\ label # pc[t]
    BY <1>7, PlaceIs DEF Close, CloseEnter, CallbackSends, CallbackReturns, CloseReturns
  <2> QED
    BY <1>1, <2>1, <2>2, GoesOn
<1>8. CASE Hangup \/ HangupSends \/ HangupReturns
  <2>1. SharedOnward
    BY <1>3, <1>8 DEF Hangup, HangupSends, HangupReturns, init, dtmf
  <2>2. PICK label : Goto("hangup", label) /\ Place[pc["hangup"]] < Place[label]
                     /\ label # pc["hangup"]
    BY <1>8, PlaceIs DEF Hangup, HangupSends, HangupReturns
  <2> QED
    BY <1>1, <2>1, <2>2, GoesOn
<1>9. CASE PressKey
  <2>1. dtmfSeq' = dtmfSeq + 1 /\ pc' = pc /\ UNCHANGED <<initialized, peerInit>>
    BY <1>9 DEF PressKey, init
  <2>2. SharedOnward
    BY <1>3, <2>1
  <2>3. Moved
    BY <1>1, <2>1 DEF Moved
  <2> QED
    BY <2>1, <2>2, <2>3, OthersMove
<1>10. CASE TrackerLock \/ TrackerNotify \/ PingTick
  <2>1. SharedOnward
    BY <1>3, <1>10 DEF TrackerLock, TrackerNotify, PingTick, init, dtmf
  <2>2. pc' = pc \/ \E label : Goto("tracker", label)
    BY <1>10 DEF TrackerLock, TrackerNotify, PingTick
  <2>3. Tick
    BY <1>1, <1>10 DEF TrackerLock, TrackerNotify, PingTick, Tick, Goto
  <2> QED
    BY <2>1, <2>2, <2>3, OthersMove
<1>11. ASSUME NEW n \in flight, DeliverDTMF(n) PROVE Advance
  <2>1. SharedOnward
    BY <1>3, <1>11 DEF DeliverDTMF, init
  <2> QED
    BY <1>11, <2>1, OthersMove DEF DeliverDTMF
<1>12. CASE ServerHandlesInit
  <2>1. SharedOnward /\ Moved /\ pc' = pc
    BY <1>1, <1>2, <1>12, PlaceIs DEF ServerHandlesInit, SharedOnward, Moved, dtmf
  <2> QED
    BY <2>1, OthersMove
<1>13. CASE SessionEnv \/ SessionReads \/ SessionEnds
  <2>1. SharedOnward /\ pc' = pc
    BY <1>3, <1>13 DEF SessionEnv, SessionReads, SessionEnds, init, dtmf
  <2>2. once' # once \/ phase' # phase \/ transport' # transport \/ ctxDone' # ctxDone
    BY <1>13 DEF SessionEnv, SessionReads, SessionEnds, CtxCancel, TransportCloses, ReaderCloses,
                 FinalizeStart, FinalizeEnd
  <2>3. Moved
    BY <2>2 DEF Moved, sess
  <2> QED
    BY <2>1, <2>3, OthersMove
<1> QED
  BY <1>4, <1>5, <1>6, <1>7, <1>8, <1>9, <1>10, <1>11, <1>12, <1>13 DEF Next, Events

\* The goroutines that share mu do not keep each other busy: each goes once
\* through OnBegin, a checked request, Terminate or the hangup callback, and
\* the two tickers, which nothing but the lock and the order of messages
\* depends on, stop with the context. With KeepsMoving the handler comes to
\* rest, its tickers aside.
THEOREM OnlyForward == Spec => [][Advance]_vars
<1>1. Init => AskedOnce
  BY DEF Init, AskedOnce
<1>2. IInv /\ AskedOnce /\ [Next]_vars => AskedOnce'
  <2> SUFFICES ASSUME IInv, AskedOnce, Next PROVE AskedOnce'
    BY DEF AskedOnce, vars, init
  <2>1. Advance
    BY StepAdvance
  <2>2. /\ pc["begin"] \in PCs /\ "begin" \in Threads \ {"tracker"}
        /\ \A p \in PCs : ~(Place[p] < 0)
    BY ConstantsAssumption, PlaceIs DEF IInv, TypeOK, PCs, Threads
  <2>3. pc'["begin"] = "lock" => pc["begin"] = "lock"
    BY <2>1, <2>2, PlaceIs DEF Advance, Onward
  <2>4. \/ Goto("begin", "request") \/ UNCHANGED peerInit \/ peerInit = "sent"
    BY DEF Next, Begin, Serve, Close, Events, init,
           InitializeLock, InitializeOk, InitializeFails, NotifyUpdated, StartAudio, WireDTMF,
           WireHangup, ServerHandlesInit, Arrive, Check, Perform, Reply, TerminateLock, CloseEnter,
           CallbackSends, CallbackReturns, CloseReturns, PressKey, Hangup, HangupSends,
           HangupReturns, TrackerLock, TrackerNotify, PingTick, DeliverDTMF, SessionEnv, SessionReads, SessionEnds
  <2>5. Goto("begin", "request") => pc'["begin"] = "request"
    BY <2>2 DEF Goto, IInv, TypeOK
  <2> QED
    BY <2>3, <2>4, <2>5 DEF AskedOnce
<1>3. IInv /\ AskedOnce /\ [Next]_vars => [Advance]_vars
  BY StepAdvance
<1> QED
  BY <1>1, <1>2, <1>3, Invariance, PTL DEF Spec
=============================================================================
