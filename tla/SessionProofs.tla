---------------------------- MODULE SessionProofs ----------------------------
(***************************************************************************)
(* The safety properties of module Session, proved for any sets of         *)
(* application goroutines, message handlers and CloseHandlers.             *)
(*                                                                         *)
(* The inductive invariant says who is inside the Once, what the watcher's *)
(* position implies for the channels and the handlers run so far, and who  *)
(* may have written to done.                                               *)
(***************************************************************************)
EXTENDS Session, SequenceTheorems, TLAPS

InOnce(t) == pc[t] \in {"callback", "trigger"}

\* The program points a goroutine can be at: the part of the type invariant
\* that depends on the goroutine.
PCOK ==
  /\ pc["watcher"] \in {"off", "select", "finalize", "handlers", "signal", "report", "end"}
  /\ pc["init"] \in {"off", "begin", "report", "end"}
  /\ pc["reader"] \in {"off", "select", "check", "once", "trigger", "end"}
  /\ \A c \in Closers : pc[c] \in {"off", "run", "check", "once", "callback", "trigger",
                                   "wait", "ok", "timeout"}

\* sync.Once: at most one goroutine is inside, and the channel is closed when
\* the first one has left.
OnceOK ==
  /\ triggerCloseChan # "panic"
  /\ closeOnce = "done" <=> triggerCloseChan = "closed"
  /\ \A t \in DoClosers : InOnce(t) => closeOnce = "busy"
  /\ \A t, u \in DoClosers : InOnce(t) /\ InOnce(u) => t = u

\* Past its select, the watcher has been told to stop.
Woken == pc["watcher"] \in {"finalize", "handlers", "signal", "report", "end"}
Finalizing == pc["watcher"] \in {"handlers", "signal", "report", "end"}
HandlersDone == pc["watcher"] \in {"signal", "report", "end"}

FinalizeOK ==
  /\ Woken => triggerCloseChan = "closed" \/ ctxDone
  /\ finalizedChan = IF pc["watcher"] \in {"report", "end"} THEN "closed" ELSE "open"
  /\ state = "closed" => HandlersDone
  /\ ~Finalizing => ran = <<>>
  /\ Finalizing => Len(ran) <= limit /\ limit <= Len(onCloseHandlers)
  /\ HandlersDone => Len(ran) = limit

\* What has run is an initial part of what was registered; the audio handler
\* comes first, and Run registers the transport's.
HandlersOK ==
  /\ Len(ran) <= Len(onCloseHandlers)
  /\ \A i \in 1..Len(ran) : ran[i] = onCloseHandlers[i]
  /\ Len(onCloseHandlers) >= 1 /\ onCloseHandlers[1] = "audio"
  /\ Started => \E i \in 1..Len(onCloseHandlers) : onCloseHandlers[i] = "transport"
  /\ Finalizing => \E i \in 1..limit : onCloseHandlers[i] = "transport"

\* Only the watcher reports nil, last; only a finalized session lets a Close
\* return nil.
ResultOK ==
  /\ \A i \in 1..Len(done) : done[i] = "nil" => pc["watcher"] = "end"
  /\ received = "nil" => pc["watcher"] = "end"
  /\ \A c \in Closers : pc[c] = "ok" => finalizedChan = "closed"

IInv == TypeOK /\ PCOK /\ OnceOK /\ FinalizeOK /\ HandlersOK /\ ResultOK
-----------------------------------------------------------------------------
LEMMA InitIInv == Init => IInv
<1> SUFFICES ASSUME Init PROVE IInv
  OBVIOUS
<1> USE ConstantsAssumption DEF Init, Threads, DoClosers, Closers
<1>1. TypeOK
  <2>1. onCloseHandlers \in Seq(HookNames) /\ ran \in Seq(HookNames) /\ done \in Seq({"nil", "err"})
    BY DEF HookNames
  <2>2. pc \in [Threads -> PCs]
    BY DEF PCs
  <2>3. Len(done) <= 1
    OBVIOUS
  <2> QED
    BY <2>1, <2>2, <2>3 DEF TypeOK, States
<1>2. PCOK
  BY DEF PCOK
<1>3. OnceOK
  BY DEF OnceOK, InOnce
<1>4. FinalizeOK
  BY DEF FinalizeOK, Woken, Finalizing, HandlersDone
<1>5. HandlersOK
  BY DEF HandlersOK, Started, Finalizing
<1>6. ResultOK
  BY DEF ResultOK
<1> QED
  BY <1>1, <1>2, <1>3, <1>4, <1>5, <1>6 DEF IInv

\* A goroutine in doClose goes on, outside the Once before and after.
LEMMA MoveStep ==
  ASSUME IInv, NEW t \in DoClosers, ~InOnce(t), NEW label,
         label \in {"once"} \cup (IF t = "reader" THEN {"end"} ELSE {"wait"}),
         pc' = [pc EXCEPT ![t] = label], state' = state, transport' = transport,
         ctxDone' = ctxDone, closeOnce' = closeOnce, triggerCloseChan' = triggerCloseChan,
         finalizedChan' = finalizedChan, onCloseHandlers' = onCloseHandlers, limit' = limit,
         ran' = ran, done' = done, received' = received
  PROVE  IInv'
<1> USE ConstantsAssumption
<1>1. pc \in [Threads -> PCs] /\ t \in Threads /\ label \in PCs
  BY DEF IInv, TypeOK, Threads, PCs
<1>2. pc'[t] = label /\ \A u \in Threads : u # t => pc'[u] = pc[u]
  BY <1>1
<1>3. /\ DoClosers \subseteq Threads /\ Closers \subseteq DoClosers
      /\ "reader" \in DoClosers \ Closers
      /\ pc'["watcher"] = pc["watcher"] /\ pc'["init"] = pc["init"]
  BY <1>1, <1>2 DEF Threads, DoClosers
<1>4. TypeOK'
  BY <1>1 DEF IInv, TypeOK
<1>5. PCOK'
  <2>1. t \in Closers => pc'[t] \in {"once", "wait"}
    BY <1>2, <1>3
  <2>2. t = "reader" => pc'[t] \in {"once", "end"}
    BY <1>2
  <2> QED
    BY <1>2, <1>3, <2>1, <2>2 DEF IInv, PCOK
<1>6. OnceOK'
  <2>1. ~InOnce(t)'
    BY <1>2 DEF InOnce
  <2>2. \A u \in DoClosers : InOnce(u)' => InOnce(u)
    BY <1>2, <1>3, <2>1 DEF InOnce
  <2> QED
    BY <2>2 DEF IInv, OnceOK
<1>7. FinalizeOK'
  BY <1>3 DEF IInv, FinalizeOK, Woken, Finalizing, HandlersDone
<1>8. HandlersOK'
  BY <1>3 DEF IInv, HandlersOK, Started, Finalizing
<1>9. ResultOK'
  BY <1>2, <1>3 DEF IInv, ResultOK
<1> QED
  BY <1>4, <1>5, <1>6, <1>7, <1>8, <1>9 DEF IInv

\* Run registers the transport's Close before the watcher exists.
LEMMA RunStartsStep == ASSUME IInv, RunStarts PROVE IInv'
<1> USE ConstantsAssumption
<1>1. /\ pc["watcher"] = "off" /\ transport' = "open"
      /\ onCloseHandlers' = Append(onCloseHandlers, "transport")
      /\ pc' = [pc EXCEPT !["watcher"] = "select", !["reader"] = "select", !["init"] = "begin"]
      /\ state' = state /\ ctxDone' = ctxDone /\ closeOnce' = closeOnce
      /\ triggerCloseChan' = triggerCloseChan /\ finalizedChan' = finalizedChan
      /\ limit' = limit /\ ran' = ran /\ done' = done /\ received' = received
  BY DEF RunStarts, Started, chans, result
<1>2. /\ pc \in [Threads -> PCs] /\ {"watcher", "reader", "init"} \subseteq Threads
      /\ onCloseHandlers \in Seq(HookNames) /\ "transport" \in HookNames
  BY DEF IInv, TypeOK, Threads, DoClosers, HookNames
<1>3. /\ pc'["watcher"] = "select" /\ pc'["reader"] = "select" /\ pc'["init"] = "begin"
      /\ \A c \in Closers : pc'[c] = pc[c]
  BY <1>1, <1>2 DEF Threads, DoClosers
<1>4. /\ onCloseHandlers' \in Seq(HookNames)
      /\ Len(onCloseHandlers') = Len(onCloseHandlers) + 1
      /\ onCloseHandlers'[Len(onCloseHandlers) + 1] = "transport"
      /\ \A i \in 1..Len(onCloseHandlers) : onCloseHandlers'[i] = onCloseHandlers[i]
      /\ Len(onCloseHandlers) \in Nat
  BY <1>1, <1>2
<1>5. TypeOK'
  <2>1. pc' \in [Threads -> PCs]
    BY <1>1, <1>2 DEF PCs
  <2> QED
    BY <1>1, <1>4, <2>1 DEF IInv, TypeOK
<1>6. PCOK'
  BY <1>3 DEF IInv, PCOK
<1>7. OnceOK'
  <2>1. \A t \in DoClosers : InOnce(t)' => InOnce(t)
    BY <1>3 DEF InOnce, DoClosers
  <2> QED
    BY <1>1, <2>1 DEF IInv, OnceOK
<1>8. FinalizeOK'
  BY <1>1, <1>3 DEF IInv, FinalizeOK, Woken, Finalizing, HandlersDone
<1>9. HandlersOK'
  <2>1. Len(ran) \in Nat
    BY DEF IInv, TypeOK
  <2> QED
    BY <1>1, <1>3, <1>4, <2>1 DEF IInv, HandlersOK, Started, Finalizing
<1>10. ResultOK'
  BY <1>1, <1>3 DEF IInv, ResultOK
<1> QED
  BY <1>5, <1>6, <1>7, <1>8, <1>9, <1>10 DEF IInv

LEMMA DoCloseCheckStep == ASSUME IInv, NEW t \in DoClosers, DoCloseCheck(t) PROVE IInv'
<1>1. ~InOnce(t)
  BY DEF DoCloseCheck, InOnce
<1>2. CASE state \in {"closed", "closing"}
  BY <1>1, <1>2, MoveStep DEF DoCloseCheck, Return, Goto, chans, hooks, result
<1>3. CASE state \notin {"closed", "closing"}
  BY <1>1, <1>3, MoveStep DEF DoCloseCheck, Goto, chans, hooks, result
<1> QED
  BY <1>2, <1>3

LEMMA StepIInv == IInv /\ [Next]_vars => IInv'
<1> SUFFICES ASSUME IInv, [Next]_vars PROVE IInv'
  OBVIOUS
<1> USE ConstantsAssumption
    DEF IInv, TypeOK, PCOK, OnceOK, FinalizeOK, HandlersOK, ResultOK, InOnce, Woken,
        Finalizing, HandlersDone, Started, States, PCs, HookNames, Threads, DoClosers,
        Closers, Goto, Return, chans, hooks, result
<1>1. CASE RunFails
  BY <1>1 DEF RunFails
<1>2. CASE RunStarts
  BY <1>2, RunStartsStep
<1>3. CASE ReceiveDone
  BY <1>3 DEF ReceiveDone
<1>4. CASE Environment
  <2>1. CASE CtxCancel
    BY <2>1 DEF CtxCancel
  <2>2. CASE TransportEnds
    BY <2>2 DEF TransportEnds
  <2> QED
    BY <1>4, <2>1, <2>2 DEF Environment
<1>5. ASSUME NEW h \in Hooks, OnClose(h) PROVE IInv'
  BY <1>5 DEF OnClose
<1>6. CASE WatcherWakes
  BY <1>6 DEF WatcherWakes
<1>7. CASE FinalizeStart
  BY <1>7 DEF FinalizeStart
<1>8. CASE RunCloseHandler
  BY <1>8 DEF RunCloseHandler
<1>9. CASE FinalizeEnd
  BY <1>9 DEF FinalizeEnd
<1>10. CASE FinalizeSignal
  BY <1>10 DEF FinalizeSignal, CloseChan
<1>11. CASE WatcherReport
  BY <1>11 DEF WatcherReport, SendDone
<1>12. CASE BeginOk
  BY <1>12 DEF BeginOk
<1>13. CASE BeginFail
  BY <1>13 DEF BeginFail
<1>14. CASE InitReport
  BY <1>14 DEF InitReport, SendDone
<1>15. CASE ReaderStops
  BY <1>15 DEF ReaderStops
<1>16. CASE ReaderSeesEnd
  BY <1>16 DEF ReaderSeesEnd
<1>17. ASSUME NEW h \in Handlers, ReaderReceives(h) PROVE IInv'
  BY <1>17 DEF ReaderReceives
<1>18. ASSUME NEW t \in DoClosers, DoCloseCheck(t) PROVE IInv'
  BY <1>18, DoCloseCheckStep
<1>19. ASSUME NEW t \in DoClosers, DoCloseEnter(t) PROVE IInv'
  BY <1>19 DEF DoCloseEnter
<1>20. ASSUME NEW t \in DoClosers, DoCloseSkip(t) PROVE IInv'
  BY <1>20 DEF DoCloseSkip
<1>21. ASSUME NEW t \in DoClosers, CallbackReturns(t) PROVE IInv'
  BY <1>21 DEF CallbackReturns
<1>22. ASSUME NEW t \in DoClosers, Trigger(t) PROVE IInv'
  BY <1>22 DEF Trigger, CloseChan
<1>23. ASSUME NEW c \in Closers, CloseCall(c) PROVE IInv'
  BY <1>23 DEF CloseCall
<1>24. ASSUME NEW c \in Closers, CloseWait(c) PROVE IInv'
  <2>1. CASE CloseOk(c)
    BY <2>1 DEF CloseOk
  <2>2. CASE CloseTimeout(c)
    BY <2>2 DEF CloseTimeout
  <2> QED
    BY <1>24, <2>1, <2>2 DEF CloseWait
<1>25. CASE UNCHANGED vars
  BY <1>25 DEF vars
<1> QED
  BY <1>1, <1>2, <1>3, <1>4, <1>5, <1>6, <1>7, <1>8, <1>9, <1>10, <1>11, <1>12, <1>13,
     <1>14, <1>15, <1>16, <1>17, <1>18, <1>19, <1>20, <1>21, <1>22, <1>23, <1>24, <1>25
  DEF Next, Run, Watcher, Begin, Reader, DoClose

\* The inductive invariant holds throughout.
THEOREM Invariance == Spec => []IInv
<1>1. Init => IInv
  BY InitIInv
<1>2. IInv /\ [Next]_vars => IInv'
  BY StepIInv
<1> QED
  BY <1>1, <1>2, PTL DEF Spec

\* When the watcher has run the CloseHandlers, it has run them all.
LEMMA FinalizedClean ==
  ASSUME IInv, HandlersDone
  PROVE  /\ limit <= Len(onCloseHandlers)
         /\ ran = SubSeq(onCloseHandlers, 1, limit)
         /\ {"audio", "transport"} \subseteq RangeOf(ran)
<1> USE DEF IInv, TypeOK
<1>1. pc["watcher"] \in {"signal", "report", "end"}
  BY DEF HandlersDone
<1>2. /\ limit \in Nat /\ limit <= Len(onCloseHandlers)
      /\ Len(ran) = limit
  BY <1>1 DEF FinalizeOK, Finalizing, HandlersDone
<1>3. \A i \in 1..limit : ran[i] = onCloseHandlers[i]
  BY <1>2 DEF HandlersOK
<1>4. ran = SubSeq(onCloseHandlers, 1, limit)
  <2> DEFINE prefix == SubSeq(onCloseHandlers, 1, limit)
  <2>1. /\ prefix \in Seq(HookNames) /\ Len(prefix) = limit
        /\ \A i \in 1..limit : prefix[i] = onCloseHandlers[i]
    BY <1>2
  <2> QED
    BY <1>2, <1>3, <2>1, SeqEqual
<1>5. PICK i \in 1..limit : onCloseHandlers[i] = "transport"
  BY <1>1 DEF HandlersOK, Finalizing
<1>6. ran[i] = "transport" /\ i \in 1..Len(ran)
  BY <1>2, <1>3, <1>5
<1>7. ran[1] = "audio" /\ 1 \in 1..Len(ran)
  BY <1>2, <1>3, <1>5 DEF HandlersOK
<1> QED
  BY <1>2, <1>4, <1>6, <1>7 DEF RangeOf

\* Every variable keeps its type: no goroutine is lost, done holds at most one
\* value.
THEOREM TypeCorrect == Spec => []TypeOK
<1>1. IInv => TypeOK
  BY DEF IInv
<1> QED
  BY <1>1, Invariance, PTL

\* No interleaving of any number of closers closes a channel twice.
THEOREM NoPanic == Spec => []NoDoubleClose
<1>1. IInv => NoDoubleClose
  BY DEF IInv, OnceOK, FinalizeOK, NoDoubleClose
<1> QED
  BY <1>1, Invariance, PTL

\* finalizedChan is closed only after all CloseHandlers ran, once, in order.
THEOREM Cleanup == Spec => []CleanupComplete
<1>1. IInv => CleanupComplete
  <2>1. IInv /\ finalizedChan = "closed" => HandlersDone
    BY DEF IInv, FinalizeOK, HandlersDone
  <2> QED
    BY <2>1, FinalizedClean DEF CleanupComplete
<1> QED
  BY <1>1, Invariance, PTL

\* The callback of Close runs before any CloseHandler does.
THEOREM CallbackFirst == Spec => []CallbackBeforeTeardown
<1>1. IInv => CallbackBeforeTeardown
  <2> SUFFICES ASSUME IInv, NEW c \in Closers, pc[c] = "callback", ~ctxDone PROVE ran = <<>>
    BY DEF CallbackBeforeTeardown
  <2>1. triggerCloseChan # "closed"
    BY DEF IInv, OnceOK, InOnce, DoClosers
  <2> QED
    BY <2>1 DEF IInv, FinalizeOK, Woken, Finalizing
<1> QED
  BY <1>1, Invariance, PTL

\* Only the init goroutine can bring a closed session back.
THEOREM ClosedStaysClosed == Spec => ClosedIsFinalAfterBegin
<1>1. IInv /\ [Next]_vars => (state = "closed" /\ pc["init"] # "begin" => state' = "closed")
  <2> SUFFICES ASSUME IInv, [Next]_vars, state = "closed", pc["init"] # "begin"
               PROVE  state' = "closed"
    OBVIOUS
  <2>1. pc["watcher"] # "finalize"
    BY DEF IInv, FinalizeOK, HandlersDone
  <2> QED
    BY <2>1
    DEF Next, vars, Run, Watcher, Begin, Reader, Environment, DoClose, CloseWait, RunFails,
        RunStarts, ReceiveDone, CtxCancel, TransportEnds, OnClose, WatcherWakes,
        FinalizeStart, RunCloseHandler, FinalizeEnd, FinalizeSignal, WatcherReport, BeginOk,
        BeginFail, InitReport, ReaderStops, ReaderSeesEnd, ReaderReceives, DoCloseCheck,
        DoCloseEnter, DoCloseSkip, CallbackReturns, Trigger, CloseCall, CloseOk, CloseTimeout
<1> QED
  BY <1>1, Invariance, PTL DEF Spec, ClosedIsFinalAfterBegin
-----------------------------------------------------------------------------
LEMMA InitPromise == Init => Promise!PInit
<1> SUFFICES ASSUME Init PROVE Promise!PInit
  OBVIOUS
<1> USE ConstantsAssumption DEF Init, Threads, DoClosers, Closers
<1>1. Phase = "new" /\ triggerCloseChan = "open" /\ ~ctxDone /\ received = "none"
  BY DEF Phase, Started
<1>2. RangeOf(ran) = {}
  BY DEF RangeOf
<1>3. \A c \in Closers : Outcome(c) = "idle"
  BY DEF Outcome
<1> QED
  BY <1>1, <1>2, <1>3 DEF Promise!PInit

\* A step the promise does not see.
LEMMA Unseen ==
  ASSUME Started' <=> Started, \A c \in Closers : Outcome(c)' = Outcome(c),
         finalizedChan' = finalizedChan, triggerCloseChan' = triggerCloseChan,
         ctxDone' = ctxDone, ran' = ran, received' = received
  PROVE  UNCHANGED Promise!pvars
<1>1. Phase' = Phase
  BY DEF Phase
<1>2. [c \in Closers |-> Outcome(c)]' = [c \in Closers |-> Outcome(c)]
  OBVIOUS
<1> QED
  BY <1>1, <1>2 DEF RangeOf, Promise!pvars

\* What the goroutine t does on its way changes the view of t only.
LEMMA OutcomeOfOthers ==
  ASSUME IInv, NEW t \in Threads, NEW label, Goto(t, label)
  PROVE  /\ pc'[t] = label
         /\ \A c \in Closers : c # t => Outcome(c)' = Outcome(c)
         /\ t # "watcher" => (Started' <=> Started)
<1>1. pc' = [pc EXCEPT ![t] = label] /\ pc \in [Threads -> PCs]
  BY DEF Goto, IInv, TypeOK
<1>2. pc'[t] = label /\ \A u \in Threads : u # t => pc'[u] = pc[u]
  BY <1>1
<1> QED
  BY <1>2 DEF Outcome, Started, Threads, DoClosers

\* The watcher runs one CloseHandler: the promise sees the audio's and the
\* transport's.
LEMMA HandlerView ==
  ASSUME IInv, RunCloseHandler
  PROVE  (\E r \in Promise!Resources : Promise!TearDown(r)) \/ UNCHANGED Promise!pvars
<1> DEFINE h == onCloseHandlers[Len(ran) + 1]
<1>1. /\ pc["watcher"] = "handlers" /\ ran' = Append(ran, h) /\ ran \in Seq(HookNames)
      /\ onCloseHandlers \in Seq(HookNames) /\ Len(ran) < Len(onCloseHandlers)
      /\ pc' = pc /\ finalizedChan' = finalizedChan /\ triggerCloseChan' = triggerCloseChan
      /\ ctxDone' = ctxDone /\ received' = received
  BY DEF RunCloseHandler, IInv, TypeOK, FinalizeOK, Finalizing, chans, result
<1>2. h \in HookNames
  BY <1>1
<1>3. RangeOf(ran') = RangeOf(ran) \cup {h}
  <2>1. Len(ran') = Len(ran) + 1 /\ ran'[Len(ran) + 1] = h
    BY <1>1, <1>2
  <2>2. \A i \in 1..Len(ran) : ran'[i] = ran[i]
    BY <1>1, <1>2
  <2>3. Len(ran) \in Nat
    BY <1>1
  <2> QED
    BY <2>1, <2>2, <2>3 DEF RangeOf
<1>4. Phase' = Phase /\ [c \in Closers |-> Outcome(c)]' = [c \in Closers |-> Outcome(c)]
  BY <1>1 DEF Phase, Started, Outcome
<1>5. Phase = "up" /\ (triggerCloseChan # "open" \/ ctxDone)
  BY <1>1 DEF IInv, FinalizeOK, Woken, Phase, Started
<1>6. CASE h \in {"audio", "transport"} \ RangeOf(ran)
  <2>1. Promise!TearDown(h)
    BY <1>1, <1>3, <1>4, <1>5, <1>6 DEF Promise!TearDown
  <2> QED
    BY <1>6, <2>1 DEF Promise!Resources
<1>7. CASE h \notin {"audio", "transport"} \ RangeOf(ran)
  BY <1>1, <1>3, <1>4, <1>7 DEF Promise!pvars
<1> QED
  BY <1>6, <1>7

\* The step of a goroutine that triggers, finalizes or returns, or of the
\* environment, is a step of the promise.
LEMMA StepPromise == ASSUME IInv, [Next]_vars PROVE [Promise!PNext]_(Promise!pvars)
<1> USE ConstantsAssumption
<1> USE DEF chans, hooks, result
<1>1. CASE RunFails
  BY <1>1, Unseen DEF RunFails, Started, Outcome
<1>2. CASE RunStarts
  <2>1. pc["watcher"] = "off" /\ pc'["watcher"] = "select" /\ \A c \in Closers : pc'[c] = pc[c]
    BY <1>2 DEF RunStarts, Started, IInv, TypeOK, Threads, DoClosers
  <2>2. Phase = "new" /\ Phase' = "up"
    BY <1>2, <2>1 DEF RunStarts, IInv, FinalizeOK, Phase, Started
  <2>3. \A c \in Closers : Outcome(c)' = Outcome(c)
    BY <2>1 DEF Outcome
  <2>4. Promise!Start
    BY <1>2, <2>2, <2>3 DEF RunStarts, Promise!Start, RangeOf
  <2> QED
    BY <2>4 DEF Promise!PNext
<1>3. CASE ReceiveDone
  <2>1. Head(done) \in {"nil", "err"} /\ Head(done) = done[1] /\ 1 \in 1..Len(done)
    BY <1>3 DEF ReceiveDone, IInv, TypeOK
  <2>2. Head(done) = "nil" => Phase = "over"
    BY <2>1 DEF IInv, ResultOK, FinalizeOK, Phase, Started
  <2>3. Phase' = Phase /\ [c \in Closers |-> Outcome(c)]' = [c \in Closers |-> Outcome(c)]
    BY <1>3 DEF ReceiveDone, Phase, Started, Outcome
  <2>4. Promise!Tell(Head(done))
    BY <1>3, <2>2, <2>3 DEF ReceiveDone, Promise!Tell, RangeOf
  <2> QED
    BY <2>1, <2>4 DEF Promise!PNext
<1>4. CASE Environment
  <2>1. CASE CtxCancel
    <3>1. Phase' = Phase /\ [c \in Closers |-> Outcome(c)]' = [c \in Closers |-> Outcome(c)]
      BY <2>1 DEF CtxCancel, Phase, Started, Outcome
    <3>2. CASE triggerCloseChan = "open"
      BY <2>1, <3>1, <3>2 DEF CtxCancel, Promise!PNext, Promise!Ask, RangeOf
    <3>3. CASE triggerCloseChan # "open"
      BY <2>1, <3>1, <3>3 DEF CtxCancel, Promise!pvars, RangeOf
    <3> QED
      BY <3>2, <3>3
  <2>2. CASE TransportEnds
    BY <2>2, Unseen DEF TransportEnds, Started, Outcome
  <2> QED
    BY <1>4, <2>1, <2>2 DEF Environment
<1>5. ASSUME NEW h \in Hooks, OnClose(h) PROVE UNCHANGED Promise!pvars
  BY <1>5, Unseen DEF OnClose, Started, Outcome
<1>6. ASSUME WatcherWakes \/ FinalizeStart \/ FinalizeEnd \/ WatcherReport
      PROVE  UNCHANGED Promise!pvars
  <2>1. PICK label \in PCs \ {"off"} : Goto("watcher", label)
    BY <1>6 DEF WatcherWakes, FinalizeStart, FinalizeEnd, WatcherReport, PCs
  <2>2. "watcher" \in Threads /\ "watcher" \notin Closers /\ Started
    BY <1>6 DEF WatcherWakes, FinalizeStart, FinalizeEnd, WatcherReport, Threads, Started
  <2>3. pc'["watcher"] = label /\ \A c \in Closers : Outcome(c)' = Outcome(c)
    BY <2>1, <2>2, OutcomeOfOthers
  <2> QED
    BY <1>6, <2>2, <2>3, Unseen
    DEF WatcherWakes, FinalizeStart, FinalizeEnd, WatcherReport, Started
<1>7. CASE RunCloseHandler
  BY <1>7, HandlerView DEF Promise!PNext
<1>8. CASE FinalizeSignal
  <2>1. "watcher" \in Threads /\ "watcher" \notin Closers
    BY DEF Threads
  <2>2. pc["watcher"] = "signal" /\ Goto("watcher", "report")
        /\ finalizedChan' = CloseChan(finalizedChan)
    BY <1>8 DEF FinalizeSignal
  <2>3. pc'["watcher"] = "report" /\ \A c \in Closers : Outcome(c)' = Outcome(c)
    BY <2>1, <2>2, OutcomeOfOthers
  <2>4. finalizedChan = "open" /\ finalizedChan' = "closed"
    BY <2>2 DEF IInv, FinalizeOK, CloseChan
  <2>5. Phase = "up" /\ Phase' = "over"
    BY <2>2, <2>3, <2>4 DEF Phase, Started
  <2>6. {"audio", "transport"} \subseteq RangeOf(ran)
    BY <2>2, FinalizedClean DEF HandlersDone
  <2>7. Promise!Finish
    BY <1>8, <2>3, <2>5, <2>6 DEF FinalizeSignal, Promise!Finish, Promise!Resources, RangeOf
  <2> QED
    BY <2>7 DEF Promise!PNext
<1>9. ASSUME Begin \/ Reader PROVE UNCHANGED Promise!pvars
  <2>1. PICK t \in {"init", "reader"} : \E label \in PCs : Goto(t, label)
    BY <1>9 DEF Begin, Reader, BeginOk, BeginFail, InitReport, ReaderStops, ReaderSeesEnd, PCs
  <2>2. t \in Threads /\ t \notin Closers /\ t # "watcher"
    BY <2>1 DEF Threads, DoClosers
  <2>3. (Started' <=> Started) /\ \A c \in Closers : Outcome(c)' = Outcome(c)
    BY <2>1, <2>2, OutcomeOfOthers
  <2> QED
    BY <1>9, <2>3, Unseen
    DEF Begin, Reader, BeginOk, BeginFail, InitReport, ReaderStops, ReaderSeesEnd
<1>10. ASSUME NEW h \in Handlers, ReaderReceives(h) PROVE UNCHANGED Promise!pvars
  <2>1. h \in Closers /\ h \in Threads /\ h # "watcher" /\ pc[h] = "off" /\ Goto(h, "run")
    BY <1>10 DEF ReaderReceives, Closers, Threads, DoClosers
  <2>2. /\ (Started' <=> Started) /\ pc'[h] = "run"
        /\ \A c \in Closers : c # h => Outcome(c)' = Outcome(c)
    BY <2>1, OutcomeOfOthers
  <2>3. Outcome(h)' = Outcome(h)
    BY <2>1, <2>2 DEF Outcome
  <2> QED
    BY <1>10, <2>2, <2>3, Unseen DEF ReaderReceives
<1>11. ASSUME NEW t \in DoClosers, DoCloseCheck(t) \/ DoCloseEnter(t) \/ DoCloseSkip(t)
                                   \/ CallbackReturns(t)
       PROVE  UNCHANGED Promise!pvars
  <2>1. PICK label \in {"once", "wait", "end", "callback", "trigger"} :
          Goto(t, label) /\ (t \in Closers => label # "end")
    BY <1>11 DEF DoCloseCheck, DoCloseEnter, DoCloseSkip, CallbackReturns, Return
  <2>2. t \in Threads /\ t # "watcher" /\ pc[t] \in {"check", "once", "callback"}
    BY <1>11 DEF DoCloseCheck, DoCloseEnter, DoCloseSkip, CallbackReturns, Threads, DoClosers
  <2>3. /\ (Started' <=> Started) /\ pc'[t] = label
        /\ \A c \in Closers : c # t => Outcome(c)' = Outcome(c)
    BY <2>1, <2>2, OutcomeOfOthers
  <2>4. t \in Closers => Outcome(t)' = Outcome(t)
    BY <2>1, <2>2, <2>3 DEF Outcome
  <2> QED
    BY <1>11, <2>3, <2>4, Unseen
    DEF DoCloseCheck, DoCloseEnter, DoCloseSkip, CallbackReturns
<1>12. ASSUME NEW t \in DoClosers, Trigger(t)
       PROVE  Promise!Ask \/ UNCHANGED Promise!pvars
  <2>1. PICK label \in {"wait", "end"} : Goto(t, label) /\ (t \in Closers => label # "end")
    BY <1>12 DEF Trigger, Return
  <2>2. t \in Threads /\ t # "watcher" /\ pc[t] = "trigger"
    BY <1>12 DEF Trigger, Threads, DoClosers
  <2>3. /\ (Started' <=> Started) /\ pc'[t] = label
        /\ \A c \in Closers : c # t => Outcome(c)' = Outcome(c)
    BY <2>1, <2>2, OutcomeOfOthers
  <2>4. \A c \in Closers : Outcome(c)' = Outcome(c)
    BY <2>1, <2>2, <2>3 DEF Outcome
  <2>5. triggerCloseChan = "open" /\ triggerCloseChan' = "closed"
    BY <1>12, <2>2 DEF Trigger, IInv, TypeOK, OnceOK, InOnce, CloseChan
  <2>6. /\ Phase' = Phase /\ [c \in Closers |-> Outcome(c)]' = [c \in Closers |-> Outcome(c)]
        /\ ran' = ran /\ received' = received /\ ctxDone' = ctxDone
    BY <1>12, <2>3, <2>4 DEF Trigger, Phase
  <2>7. CASE ctxDone
    BY <2>5, <2>6, <2>7 DEF Promise!pvars, RangeOf
  <2>8. CASE ~ctxDone
    BY <2>5, <2>6, <2>8 DEF Promise!Ask, RangeOf
  <2> QED
    BY <2>7, <2>8
<1>13. ASSUME NEW c \in Closers, CloseCall(c) PROVE Promise!Call(c)
  <2>1. c \in Threads /\ c # "watcher" /\ pc[c] = "run" /\ Goto(c, "check")
    BY <1>13 DEF CloseCall, Threads, DoClosers, Closers
  <2>2. /\ (Started' <=> Started) /\ pc'[c] = "check"
        /\ \A d \in Closers : d # c => Outcome(d)' = Outcome(d)
    BY <2>1, OutcomeOfOthers
  <2>3. Outcome(c) = "idle" /\ Outcome(c)' = "open"
    BY <2>1, <2>2 DEF Outcome
  <2> QED
    BY <1>13, <2>2, <2>3 DEF CloseCall, Promise!Call, Phase, RangeOf
<1>14. ASSUME NEW c \in Closers, CloseOk(c) PROVE Promise!Return(c, "ok")
  <2>1. c \in Threads /\ c # "watcher" /\ pc[c] = "wait" /\ Goto(c, "ok")
    BY <1>14 DEF CloseOk, Threads, DoClosers, Closers
  <2>2. /\ (Started' <=> Started) /\ pc'[c] = "ok"
        /\ \A d \in Closers : d # c => Outcome(d)' = Outcome(d)
    BY <2>1, OutcomeOfOthers
  <2>3. Outcome(c) = "open" /\ Outcome(c)' = "ok"
    BY <2>1, <2>2 DEF Outcome
  <2>4. Phase = "over"
    BY <1>14 DEF CloseOk, IInv, FinalizeOK, Phase, Started
  <2> QED
    BY <1>14, <2>2, <2>3, <2>4 DEF CloseOk, Promise!Return, Phase, RangeOf
<1>15. ASSUME NEW c \in Closers, CloseTimeout(c) PROVE Promise!Return(c, "timeout")
  <2>1. c \in Threads /\ c # "watcher" /\ pc[c] = "wait" /\ Goto(c, "timeout")
    BY <1>15 DEF CloseTimeout, Threads, DoClosers, Closers
  <2>2. /\ (Started' <=> Started) /\ pc'[c] = "timeout"
        /\ \A d \in Closers : d # c => Outcome(d)' = Outcome(d)
    BY <2>1, OutcomeOfOthers
  <2>3. Outcome(c) = "open" /\ Outcome(c)' = "timeout"
    BY <2>1, <2>2 DEF Outcome
  <2> QED
    BY <1>15, <2>2, <2>3 DEF CloseTimeout, Promise!Return, Phase, RangeOf
<1>16. CASE UNCHANGED vars
  BY <1>16, Unseen DEF vars, Started, Outcome
<1> QED
  BY <1>1, <1>2, <1>3, <1>4, <1>5, <1>6, <1>7, <1>8, <1>9, <1>10, <1>11, <1>12, <1>13,
     <1>14, <1>15, <1>16
  DEF Next, Run, Watcher, DoClose, CloseWait, Promise!PNext

\* A session implements SessionPromise: whoever learns that it is over learns
\* the truth, whatever the goroutines that ask it to end do meanwhile.
THEOREM Implements == Spec => KeepsPromise
<1>1. Init => Promise!PInit
  BY InitPromise
<1>2. IInv /\ [Next]_vars => [Promise!PNext]_(Promise!pvars)
  BY StepPromise
<1> QED
  BY <1>1, <1>2, Invariance, PTL DEF Spec, KeepsPromise, Promise!PSpec
-----------------------------------------------------------------------------
(* Whoever waits is waited for: the safe half of ShutdownCompletes,        *)
(* CloseReturns and GoroutinesEnd.                                         *)

Asked == triggerCloseChan = "closed" \/ ctxDone
Sent(t) == IF pc[t] = "end" THEN 1 ELSE 0
Taken == IF received = "none" THEN 0 ELSE 1

\* A goroutine that Close has left waiting waits for an end that was asked for;
\* the Once that others wait for has somebody inside; and once the owner has
\* taken a value from done, who still has to report finds room there.
WaitsServed ==
  /\ \A c \in Closers : pc[c] = "wait" => Asked
  /\ closeOnce = "busy" => \E t \in DoClosers : InOnce(t)
  /\ \A t \in {"watcher", "init"} : pc[t] = "report" /\ received # "none" => done = <<>>

\* done gets at most one value of the watcher and one of the init goroutine.
WaitsOK ==
  /\ \A c \in Closers : pc[c] = "wait" => Asked
  /\ closeOnce = "busy" => \E t \in DoClosers : InOnce(t)
  /\ state = "closing" => Finalizing
  /\ ~Started => pc["init"] = "off" /\ pc["reader"] = "off"
  /\ Started => Len(done) + Taken <= Sent("watcher") + Sent("init")

LEMMA InitWaitsOK == Init => WaitsOK
BY ConstantsAssumption
   DEF Init, WaitsOK, Threads, DoClosers, Closers, Started

LEMMA StepWaitsOK == IInv /\ WaitsOK /\ [Next]_vars => WaitsOK'
<1> SUFFICES ASSUME IInv, WaitsOK, [Next]_vars PROVE WaitsOK'
  OBVIOUS
<1> USE ConstantsAssumption
    DEF IInv, TypeOK, PCOK, OnceOK, FinalizeOK, WaitsOK, InOnce, Woken, Finalizing, HandlersDone,
        Started, Asked, Sent, Taken, States, PCs, Threads, DoClosers, Closers, Goto, Return,
        chans, hooks, result
<1>1. CASE RunFails
  BY <1>1 DEF RunFails
<1>2. CASE RunStarts
  <2>1. /\ pc'["watcher"] = "select" /\ pc'["init"] = "begin" /\ pc["watcher"] = "off"
        /\ \A c \in Closers : pc'[c] = pc[c]
    BY <1>2 DEF RunStarts
  <2>2. \A t \in DoClosers : InOnce(t) => InOnce(t)'
    BY <1>2 DEF RunStarts
  <2>3. Len(done') + Taken' <= Sent("watcher")' + Sent("init")'
    BY <1>2, <2>1 DEF RunStarts
  <2>4. state' # "closing" /\ Asked' = Asked /\ closeOnce' = closeOnce
    BY <1>2, <2>1 DEF RunStarts
  <2> HIDE DEF InOnce, Asked, Sent, Taken, IInv
  <2> QED
    BY <2>1, <2>2, <2>3, <2>4
<1>3. CASE ReceiveDone
  BY <1>3 DEF ReceiveDone
<1>4. CASE Environment
  BY <1>4 DEF Environment, CtxCancel, TransportEnds
<1>5. ASSUME NEW h \in Hooks, OnClose(h) PROVE WaitsOK'
  BY <1>5 DEF OnClose
<1>6. CASE WatcherWakes \/ FinalizeStart \/ RunCloseHandler \/ FinalizeEnd \/ FinalizeSignal
  BY <1>6 DEF WatcherWakes, FinalizeStart, RunCloseHandler, FinalizeEnd, FinalizeSignal
<1>7. CASE WatcherReport
  BY <1>7 DEF WatcherReport, SendDone
<1>8. CASE BeginOk \/ BeginFail
  BY <1>8 DEF BeginOk, BeginFail
<1>9. CASE InitReport
  BY <1>9 DEF InitReport, SendDone
<1>10. CASE Reader
  BY <1>10 DEF Reader, ReaderStops, ReaderSeesEnd
<1>11. ASSUME NEW h \in Handlers, ReaderReceives(h) PROVE WaitsOK'
  BY <1>11 DEF ReaderReceives
<1>12. ASSUME NEW t \in DoClosers, DoCloseCheck(t) PROVE WaitsOK'
  BY <1>12 DEF DoCloseCheck
<1>13. ASSUME NEW t \in DoClosers, DoCloseEnter(t) PROVE WaitsOK'
  BY <1>13 DEF DoCloseEnter
<1>14. ASSUME NEW t \in DoClosers, DoCloseSkip(t) PROVE WaitsOK'
  BY <1>14 DEF DoCloseSkip
<1>15. ASSUME NEW t \in DoClosers, CallbackReturns(t) PROVE WaitsOK'
  BY <1>15 DEF CallbackReturns
<1>16. ASSUME NEW t \in DoClosers, Trigger(t) PROVE WaitsOK'
  BY <1>16 DEF Trigger, CloseChan
<1>17. ASSUME NEW c \in Closers, CloseCall(c) PROVE WaitsOK'
  BY <1>17 DEF CloseCall
<1>18. ASSUME NEW c \in Closers, CloseWait(c) PROVE WaitsOK'
  BY <1>18 DEF CloseWait, CloseOk, CloseTimeout
<1>19. CASE UNCHANGED vars
  BY <1>19 DEF vars
<1> QED
  BY <1>1, <1>2, <1>3, <1>4, <1>5, <1>6, <1>7, <1>8, <1>9, <1>10, <1>11, <1>12, <1>13,
     <1>14, <1>15, <1>16, <1>17, <1>18, <1>19
  DEF Next, Run, Watcher, Begin, DoClose

\* Close never waits for an end nobody has asked for (session.go:66), the Once
\* never waits for a goroutine that has left it, and the single place in done
\* (session.go:136) is enough for an owner that reads one value.
THEOREM NobodyWaitsInVain == Spec => []WaitsServed
<1>1. IInv /\ WaitsOK => WaitsServed
  <2> SUFFICES ASSUME IInv, WaitsOK, NEW t \in {"watcher", "init"}, pc[t] = "report",
                      received # "none"
               PROVE  done = <<>>
    BY DEF WaitsOK, WaitsServed
  <2>1. Started
    BY DEF WaitsOK, Started
  <2> QED
    BY <2>1 DEF IInv, TypeOK, WaitsOK, Sent, Taken
<1> QED
  BY <1>1, Invariance, InitWaitsOK, StepWaitsOK, PTL DEF Spec
-----------------------------------------------------------------------------
(* The session does not stop half-way: where no goroutine can take a step, *)
(* what ShutdownCompletes, CloseReturns and GoroutinesEnd promise has      *)
(* happened.                                                               *)

\* What no fair action can move: each goroutine has ended or has not been
\* started, or it waits for what has not happened.
Stalled ==
  /\ pc["watcher"] \notin {"finalize", "handlers", "signal"}
  /\ pc["watcher"] = "select" => triggerCloseChan # "closed" /\ ~ctxDone
  /\ pc["init"] # "begin"
  /\ \A t \in {"watcher", "init"} : pc[t] = "report" => Len(done) >= 1
  /\ pc["reader"] = "select" => finalizedChan # "closed" /\ ~ctxDone /\ transport # "ended"
  /\ \A t \in DoClosers : pc[t] \notin {"check", "callback", "trigger"}
  /\ \A t \in DoClosers : pc[t] = "once" => closeOnce = "busy"
  /\ \A c \in Closers : pc[c] = "wait" => finalizedChan # "closed" /\ c \notin Bounded

InClose(c) == pc[c] \in {"check", "once", "callback", "trigger", "wait"}

\* A session at rest that was told to end, or whose transport has ended, is
\* finalized; of a running session, and with a deadline, nobody is in Close; and
\* whose owner took a value from done, has no goroutine left.
ComesToRest ==
  Stalled =>
    /\ Started /\ (Asked \/ transport = "ended") => finalizedChan = "closed"
    /\ \A c \in Closers : Started \/ c \in Bounded => ~InClose(c)
    /\ finalizedChan = "closed" /\ received # "none" =>
         \A t \in {"watcher", "init", "reader"} : pc[t] = "end"

\* The reader ends only when somebody has asked for the end: when its transport
\* ended it asks itself, unless it finds the session closing.
ReaderOK ==
  /\ pc["reader"] = "end" => Asked
  /\ Started => pc["init"] # "off" /\ pc["reader"] # "off"

LEMMA StepReaderOK == IInv /\ WaitsOK /\ ReaderOK /\ [Next]_vars => ReaderOK'
<1> SUFFICES ASSUME IInv, WaitsOK, ReaderOK, [Next]_vars PROVE ReaderOK'
  OBVIOUS
<1> USE ConstantsAssumption
    DEF IInv, TypeOK, PCOK, OnceOK, FinalizeOK, WaitsOK, ReaderOK, Woken, Finalizing, HandlersDone,
        Started, Asked, Threads, DoClosers, Closers, Goto, Return, chans, hooks, result
<1>1. CASE Run
  BY <1>1 DEF Run, RunFails, RunStarts
<1>2. CASE ReceiveDone \/ Environment \/ UNCHANGED vars \/ \E h \in Hooks : OnClose(h)
  BY <1>2 DEF ReceiveDone, Environment, CtxCancel, TransportEnds, OnClose, vars
<1>3. CASE Watcher
  BY <1>3 DEF Watcher, WatcherWakes, FinalizeStart, RunCloseHandler, FinalizeEnd,
              FinalizeSignal, WatcherReport
<1>4. CASE Begin
  BY <1>4 DEF Begin, BeginOk, BeginFail, InitReport
<1>5. CASE Reader
  BY <1>5 DEF Reader, ReaderStops, ReaderSeesEnd
<1>6. ASSUME NEW h \in Handlers, ReaderReceives(h) PROVE ReaderOK'
  BY <1>6 DEF ReaderReceives
<1>7. ASSUME NEW t \in DoClosers, DoCloseCheck(t) PROVE ReaderOK'
  BY <1>7 DEF DoCloseCheck
<1>8. ASSUME NEW t \in DoClosers, DoCloseEnter(t) \/ DoCloseSkip(t) PROVE ReaderOK'
  BY <1>8 DEF DoCloseEnter, DoCloseSkip
<1>9. ASSUME NEW t \in DoClosers, CallbackReturns(t) \/ Trigger(t) PROVE ReaderOK'
  <2>1. CASE CallbackReturns(t)
    <3>1. pc' = [pc EXCEPT ![t] = "trigger"] /\ Asked' = Asked
      BY <2>1 DEF CallbackReturns
    <3> HIDE DEF Asked
    <3> QED
      BY <3>1
  <2>2. CASE Trigger(t)
    <3>1. Asked'
      BY <2>2 DEF Trigger, CloseChan, InOnce
    <3>2. \A u \in {"watcher", "init", "reader"} : (pc'[u] = "off") = (pc[u] = "off")
      BY <2>2 DEF Trigger
    <3> HIDE DEF Asked, IInv
    <3> QED
      BY <3>1, <3>2
  <2> QED
    BY <1>9, <2>1, <2>2
<1>10. ASSUME NEW c \in Closers, CloseCall(c) \/ CloseWait(c) PROVE ReaderOK'
  BY <1>10 DEF CloseCall, CloseWait, CloseOk, CloseTimeout
<1> QED
  BY <1>1, <1>2, <1>3, <1>4, <1>5, <1>6, <1>7, <1>8, <1>9, <1>10 DEF Next, DoClose

\* Where nothing can move, the Once is free: whoever is inside could go on.
LEMMA OnceAtRest ==
  ASSUME IInv, WaitsOK, Stalled
  PROVE  \A t \in DoClosers : pc[t] \notin {"check", "once", "callback", "trigger"}
<1>1. \A t \in DoClosers : ~InOnce(t)
  BY DEF Stalled, InOnce
<1>2. closeOnce # "busy"
  BY <1>1 DEF WaitsOK
<1> QED
  BY <1>2 DEF Stalled

\* The safe half of ShutdownCompletes, CloseReturns and GoroutinesEnd.
THEOREM KeepsMoving == Spec => []ComesToRest
<1>1. Init => ReaderOK
  BY ConstantsAssumption DEF Init, ReaderOK, Started, Threads, DoClosers, Closers
<1>2. IInv /\ WaitsOK /\ WaitsServed /\ ReaderOK => ComesToRest
  <2> SUFFICES ASSUME IInv, WaitsOK, WaitsServed, ReaderOK, Stalled
               PROVE  /\ Started /\ (Asked \/ transport = "ended") => finalizedChan = "closed"
                      /\ \A c \in Closers : Started \/ c \in Bounded => ~InClose(c)
                      /\ finalizedChan = "closed" /\ received # "none" =>
                           \A t \in {"watcher", "init", "reader"} : pc[t] = "end"
    BY DEF ComesToRest
  <2>1. \A t \in DoClosers : pc[t] \notin {"check", "once", "callback", "trigger"}
    BY OnceAtRest
  <2>2. pc["reader"] \in {"off", "select", "end"}
    BY <2>1 DEF IInv, PCOK, DoClosers
  <2>3. ASSUME Started, Asked PROVE finalizedChan = "closed"
    BY <2>3 DEF Started, Asked, Stalled, IInv, PCOK, FinalizeOK
  <2>4. ASSUME Started, transport = "ended" PROVE Asked
    BY <2>2, <2>4 DEF Stalled, ReaderOK
  <2>5. ASSUME NEW c \in Closers, Started \/ c \in Bounded PROVE ~InClose(c)
    <3>1. pc[c] # "wait"
      BY <2>3, <2>5 DEF Stalled, WaitsOK
    <3> QED
      BY <2>1, <3>1 DEF InClose, DoClosers
  <2>6. ASSUME finalizedChan = "closed", received # "none"
        PROVE  \A t \in {"watcher", "init", "reader"} : pc[t] = "end"
    <3>1. \A t \in {"watcher", "init"} : pc[t] # "report"
      <4>1. Len(<<>>) < 1
        OBVIOUS
      <4> QED
        BY <2>6, <4>1 DEF WaitsServed, Stalled
    <3>2. pc["watcher"] = "end"
      BY <2>6, <3>1 DEF IInv, FinalizeOK
    <3>3. pc["init"] = "end" /\ pc["reader"] = "end"
      BY <2>2, <2>6, <3>1, <3>2 DEF Started, ReaderOK, Stalled, IInv, PCOK
    <3> QED
      BY <3>2, <3>3
  <2> QED
    BY <2>3, <2>4, <2>5, <2>6
<1>3. Spec => []WaitsOK
  BY InitWaitsOK, StepWaitsOK, Invariance, PTL DEF Spec
<1> QED
  BY <1>1, <1>2, <1>3, StepReaderOK, NobodyWaitsInVain, Invariance, PTL DEF Spec

\* The places of a goroutine, in the order in which it comes to them.
Place == [off |-> 0, run |-> 1, select |-> 2, begin |-> 2, check |-> 3, once |-> 4, callback |-> 5,
          trigger |-> 6, wait |-> 7, finalize |-> 7, handlers |-> 8, signal |-> 9, report |-> 10,
          ok |-> 11, timeout |-> 11, end |-> 11]

\* The steps the scheduler is trusted with.
Work == \/ Watcher \/ Begin \/ Reader
        \/ \E t \in DoClosers : DoClose(t)
        \/ \E c \in Closers : CloseWait(c)

\* No goroutine comes back to a place; a step of one of them takes it further,
\* or runs one more of the CloseHandlers, whose number is fixed by then.
Advance ==
  /\ \A t \in Threads : pc'[t] # pc[t] => Place[pc[t]] < Place[pc'[t]]
  /\ Finalizing => limit' = limit /\ Len(ran) <= Len(ran') /\ Len(ran') <= limit
  /\ Work => pc' # pc \/ Len(ran) < Len(ran')

LEMMA PlaceIs ==
  /\ Place["off"] = 0 /\ Place["run"] = 1 /\ Place["select"] = 2 /\ Place["begin"] = 2
  /\ Place["check"] = 3 /\ Place["once"] = 4 /\ Place["callback"] = 5 /\ Place["trigger"] = 6
  /\ Place["wait"] = 7 /\ Place["finalize"] = 7 /\ Place["handlers"] = 8 /\ Place["signal"] = 9
  /\ Place["report"] = 10 /\ Place["ok"] = 11 /\ Place["timeout"] = 11 /\ Place["end"] = 11
  BY DEF Place

\* A goroutine moves on; the CloseHandlers are left alone, or not begun.
LEMMA MoveOn ==
  ASSUME IInv, NEW t \in Threads, NEW label \in PCs, Goto(t, label),
         Place[pc[t]] < Place[label], ran' = ran, limit' = limit \/ ~Finalizing
  PROVE  Advance
<1>1. pc' = [pc EXCEPT ![t] = label] /\ pc \in [Threads -> PCs]
  BY DEF Goto, IInv, TypeOK
<1>2. Place[label] \in Nat
  BY PlaceIs DEF PCs
<1>3. pc'[t] = label /\ label # pc[t] /\ \A u \in Threads : u # t => pc'[u] = pc[u]
  BY <1>1, <1>2
<1>4. Finalizing => Len(ran) \in Nat /\ Len(ran) <= limit
  BY DEF IInv, TypeOK, FinalizeOK
<1> QED
  BY <1>3, <1>4 DEF Advance, Finalizing

LEMMA WorkAdvances == IInv /\ Work => Advance
<1> SUFFICES ASSUME IInv, Work PROVE Advance
  OBVIOUS
<1> USE PlaceIs DEF PCs
<1>1. /\ "watcher" \in Threads /\ "init" \in Threads /\ "reader" \in Threads
      /\ DoClosers \subseteq Threads /\ Closers \subseteq Threads
  BY DEF Threads, DoClosers
<1> USE DEF chans, hooks, result
<1>2. CASE WatcherWakes
  BY <1>1, <1>2, MoveOn DEF WatcherWakes
<1>3. CASE FinalizeStart
  BY <1>1, <1>3, MoveOn DEF FinalizeStart, Finalizing
<1>4. CASE RunCloseHandler
  <2>1. /\ pc' = pc /\ limit' = limit /\ Len(ran) < limit
        /\ ran' = Append(ran, onCloseHandlers[Len(ran) + 1])
    BY <1>4 DEF RunCloseHandler
  <2>2. Len(ran') = Len(ran) + 1 /\ Len(ran) \in Nat /\ limit \in Nat
    BY <2>1 DEF IInv, TypeOK
  <2> QED
    BY ONLY <2>1, <2>2 DEF Advance
<1>5. CASE FinalizeEnd
  BY <1>1, <1>5, MoveOn DEF FinalizeEnd
<1>6. CASE FinalizeSignal
  BY <1>1, <1>6, MoveOn DEF FinalizeSignal
<1>7. CASE WatcherReport
  BY <1>1, <1>7, MoveOn DEF WatcherReport
<1>8. CASE BeginOk
  BY <1>1, <1>8, MoveOn DEF BeginOk
<1>9. CASE BeginFail
  BY <1>1, <1>9, MoveOn DEF BeginFail
<1>10. CASE InitReport
  BY <1>1, <1>10, MoveOn DEF InitReport
<1>11. CASE ReaderStops
  BY <1>1, <1>11, MoveOn DEF ReaderStops
<1>12. CASE ReaderSeesEnd
  BY <1>1, <1>12, MoveOn DEF ReaderSeesEnd
<1>13. ASSUME NEW t \in DoClosers, DoClose(t) PROVE Advance
  <2>1. /\ ran' = ran /\ limit' = limit
        /\ \E label \in {"end", "wait", "once", "callback", "trigger"} :
             Goto(t, label) /\ Place[pc[t]] < Place[label]
    BY <1>13 DEF DoClose, DoCloseCheck, DoCloseEnter, DoCloseSkip, CallbackReturns, Trigger, Return
  <2> QED
    BY <1>1, <2>1, MoveOn
<1>14. ASSUME NEW c \in Closers, CloseWait(c) PROVE Advance
  <2>1. /\ ran' = ran /\ limit' = limit
        /\ \E label \in {"ok", "timeout"} : Goto(c, label) /\ Place[pc[c]] < Place[label]
    BY <1>14 DEF CloseWait, CloseOk, CloseTimeout
  <2> QED
    BY <1>1, <2>1, MoveOn
<1> QED
  BY <1>2, <1>3, <1>4, <1>5, <1>6, <1>7, <1>8, <1>9, <1>10, <1>11, <1>12, <1>13, <1>14
  DEF Work, Watcher, Begin, Reader

\* What starts a goroutine is no way back either, and the rest leaves them be.
LEMMA OthersAdvance ==
  ASSUME IInv, WaitsOK, Next, ~Work
  PROVE  Advance
<1> USE PlaceIs DEF PCs
<1>1. DoClosers \subseteq Threads /\ Closers \subseteq Threads /\ Handlers \subseteq Threads
  BY DEF Threads, DoClosers, Closers
<1> USE DEF chans, hooks, result
<1>2. CASE RunStarts
  <2>1. /\ pc' = [pc EXCEPT !["watcher"] = "select", !["reader"] = "select", !["init"] = "begin"]
        /\ pc \in [Threads -> PCs]
        /\ pc["watcher"] = "off" /\ pc["init"] = "off" /\ pc["reader"] = "off"
    BY <1>2 DEF RunStarts, Started, IInv, TypeOK, WaitsOK
  <2>2. \A t \in Threads : \/ pc'[t] = pc[t]
                           \/ pc[t] = "off" /\ pc'[t] \in {"select", "begin"}
    BY ONLY <2>1
  <2>3. \A t \in Threads : pc'[t] # pc[t] => Place[pc[t]] = 0 /\ Place[pc'[t]] = 2
    BY <2>2
  <2>4. ~Finalizing
    BY <2>1 DEF Finalizing
  <2> QED
    BY ONLY <1>2, <2>3, <2>4, ~Work DEF Advance
<1>3. CASE RunFails \/ ReceiveDone \/ Environment \/ \E h \in Hooks : OnClose(h)
  <2>1. pc' = pc /\ limit' = limit /\ ran' = ran
    BY <1>3 DEF RunFails, ReceiveDone, Environment, CtxCancel, TransportEnds, OnClose
  <2>2. Finalizing => Len(ran) \in Nat /\ Len(ran) <= limit
    BY DEF IInv, TypeOK, FinalizeOK
  <2> QED
    BY <2>1, <2>2 DEF Advance
<1>4. ASSUME NEW h \in Handlers, ReaderReceives(h) PROVE Advance
  BY <1>1, <1>4, MoveOn DEF ReaderReceives
<1>5. ASSUME NEW c \in Closers, CloseCall(c) PROVE Advance
  BY <1>1, <1>5, MoveOn DEF CloseCall
<1> QED
  BY <1>2, <1>3, <1>4, <1>5 DEF Next, Run, Work

\* Whatever the environment does to it, a session takes a bounded number of
\* steps: doClose (session.go:79) and Close (session.go:66) go through their
\* places once, and finalize through its CloseHandlers.  With KeepsMoving, it
\* does come to rest if its goroutines are scheduled.
THEOREM OnlyForward == Spec => [][Advance]_vars
<1>1. IInv /\ WaitsOK /\ [Next]_vars => [Advance]_vars
  BY WorkAdvances, OthersAdvance
<1>2. Spec => []WaitsOK
  BY InitWaitsOK, StepWaitsOK, Invariance, PTL DEF Spec
<1> QED
  BY <1>1, <1>2, Invariance, PTL DEF Spec
-----------------------------------------------------------------------------
(* The session as the server sees it (ServedSession).                      *)

ServedPhase ==
  IF ~Started THEN "none"
  ELSE IF pc["watcher"] = "end" THEN "reported"
  ELSE IF finalizedChan = "closed" THEN "finalized"
  ELSE IF Asked THEN "closing" ELSE "up"

\* OnBegin has not returned yet, or its error is not reported yet.
Beginning == pc["init"] \in {"begin", "report"}

Served == INSTANCE ServedSession WITH
  Conns <- {"session"},
  ctx <- [c \in {"session"} |-> ctxDone],
  phase <- [c \in {"session"} |-> ServedPhase],
  begin <- [c \in {"session"} |-> Beginning],
  done <- [c \in {"session"} |-> done]

LEMMA InitServed == Init => Served!SessInit
<1> SUFFICES ASSUME Init PROVE Served!SessInit
  OBVIOUS
<1>1. pc["watcher"] = "off" /\ pc["init"] = "off"
  BY ConstantsAssumption DEF Init, Threads, DoClosers, Closers
<1>2. ServedPhase = "none" /\ Beginning = FALSE
  BY <1>1 DEF ServedPhase, Started, Beginning
<1> QED
  BY <1>2 DEF Init, Served!SessInit

\* A step that changes nothing of what the server sees.
LEMMA ServedUnseen ==
  ASSUME UNCHANGED <<ctxDone, finalizedChan, triggerCloseChan, done>>,
         pc'["watcher"] = "off" <=> pc["watcher"] = "off",
         pc'["watcher"] = "end" <=> pc["watcher"] = "end",
         Beginning' <=> Beginning
  PROVE  UNCHANGED Served!sess
<1>1. ServedPhase' = ServedPhase
  BY DEF ServedPhase, Started, Asked
<1> QED
  BY <1>1 DEF Served!sess

\* Only the watcher moves between the places that ServedPhase tells apart,
\* and only the init goroutine between those that Beginning does.
LEMMA ServedOthers ==
  ASSUME IInv, NEW t \in Threads \ {"watcher", "init"}, NEW label, Goto(t, label)
  PROVE  pc'["watcher"] = pc["watcher"] /\ pc'["init"] = pc["init"]
  BY DEF IInv, TypeOK, Goto, Threads

LEMMA StepServed == ASSUME IInv, [Next]_vars PROVE [Served!SessNext]_(Served!sess)
<1> USE ConstantsAssumption
<1>0. /\ "watcher" \in Threads /\ "init" \in Threads /\ "watcher" # "init"
      /\ \A t \in DoClosers : t \in Threads \ {"watcher", "init"}
      /\ \A t \in Closers : t \in DoClosers
      /\ pc \in [Threads -> PCs]
  BY DEF Threads, DoClosers, Closers, IInv, TypeOK
<1>1. ASSUME Served!SessStep("session") PROVE Served!SessNext
  BY <1>1 DEF Served!SessNext
<1>2. CASE RunFails
  <2>1. UNCHANGED <<ctxDone, ServedPhase, Beginning>> /\ ServedPhase = "none"
    BY <1>2 DEF RunFails, ServedPhase, Started, Asked, Beginning, chans
  <2>2. Served!RunFails("session")
    BY <1>2, <2>1 DEF RunFails, Served!RunFails
  <2> QED
    BY <1>1, <2>2 DEF Served!SessStep
<1>3. CASE RunStarts
  <2>1. /\ pc'["watcher"] = "select" /\ pc'["init"] = "begin"
        /\ UNCHANGED <<ctxDone, triggerCloseChan, finalizedChan, done>>
        /\ ServedPhase = "none"
    BY <1>0, <1>3 DEF RunStarts, ServedPhase, Started, chans, result
  <2>2. finalizedChan = "open"
    BY <1>3 DEF RunStarts, Started, IInv, FinalizeOK
  <2>3. ServedPhase' = (IF Asked THEN "closing" ELSE "up") /\ Beginning' = TRUE
    BY <2>1, <2>2 DEF ServedPhase, Started, Asked, Beginning
  <2>4. Served!Run("session")
    BY <2>1, <2>3 DEF Served!Run, Asked
  <2> QED
    BY <1>1, <2>4 DEF Served!SessStep
<1>4. CASE ReceiveDone
  <2>1. UNCHANGED <<ctxDone, ServedPhase, Beginning>>
    BY <1>4 DEF ReceiveDone, ServedPhase, Started, Asked, Beginning, chans
  <2>2. done # <<>> /\ done' = <<>>
    BY <1>4 DEF ReceiveDone, IInv, TypeOK
  <2>3. Served!Receive("session")
    BY <2>1, <2>2 DEF Served!Receive
  <2> QED
    BY <1>1, <2>3 DEF Served!SessStep
<1>5. CASE CtxCancel
  <2>1. /\ ServedPhase' = IF ServedPhase = "up" THEN "closing" ELSE ServedPhase
        /\ ctxDone' = TRUE /\ done' = done /\ Beginning' = Beginning
    BY <1>5 DEF CtxCancel, ServedPhase, Started, Asked, Beginning, chans, result
  <2>2. Served!CtxCancelled("session")
    BY <2>1 DEF Served!CtxCancelled, Served!Trigger
  <2> QED
    BY <1>1, <2>2 DEF Served!SessStep
<1>6. CASE TransportEnds
  BY <1>6, ServedUnseen DEF TransportEnds, chans, result, Beginning
<1>7. ASSUME NEW h \in Hooks, OnClose(h) PROVE UNCHANGED Served!sess
  BY <1>7, ServedUnseen DEF OnClose, chans, result, Beginning
<1>8. ASSUME WatcherWakes \/ FinalizeStart \/ RunCloseHandler \/ FinalizeEnd
      PROVE  UNCHANGED Served!sess
  <2>1. /\ pc["watcher"] \in {"select", "finalize", "handlers"}
        /\ pc'["watcher"] \in {"finalize", "handlers", "signal"} /\ pc'["init"] = pc["init"]
        /\ UNCHANGED <<ctxDone, finalizedChan, triggerCloseChan, done>>
    BY <1>0, <1>8 DEF WatcherWakes, FinalizeStart, RunCloseHandler, FinalizeEnd, Goto, chans, result
  <2> QED
    BY <2>1, ServedUnseen DEF Beginning
<1>9. CASE FinalizeSignal
  <2>1. /\ pc["watcher"] = "signal" /\ pc'["watcher"] = "report" /\ pc'["init"] = pc["init"]
        /\ finalizedChan = "open" /\ finalizedChan' = "closed"
        /\ UNCHANGED <<ctxDone, triggerCloseChan, done>>
    BY <1>0, <1>9 DEF FinalizeSignal, Goto, CloseChan, result, IInv, FinalizeOK
  <2>2. Asked
    BY <2>1 DEF IInv, FinalizeOK, Woken, Asked
  <2>3. ServedPhase = "closing" /\ ServedPhase' = "finalized" /\ Beginning' = Beginning
    BY <2>1, <2>2 DEF ServedPhase, Started, Beginning
  <2>4. Served!Finalize("session")
    BY <2>1, <2>3 DEF Served!Finalize
  <2> QED
    BY <1>1, <2>4 DEF Served!SessStep
<1>10. CASE WatcherReport
  <2>1. /\ pc["watcher"] = "report" /\ pc'["watcher"] = "end" /\ pc'["init"] = pc["init"]
        /\ finalizedChan = "closed" /\ UNCHANGED ctxDone
    BY <1>0, <1>10 DEF WatcherReport, Goto, IInv, FinalizeOK
  <2>2. done = <<>> /\ done' = <<"nil">>
    <3>1. done' = Append(done, "nil") /\ Len(done) < 1
      BY <1>10 DEF WatcherReport, SendDone
    <3>2. done \in Seq({"nil", "err"}) /\ Len(done) \in Nat
      BY DEF IInv, TypeOK
    <3>3. done = <<>>
      BY <3>1, <3>2
    <3> QED
      BY <3>1, <3>3
  <2>3. ServedPhase = "finalized" /\ ServedPhase' = "reported" /\ Beginning' = Beginning
    BY <2>1 DEF ServedPhase, Started, Beginning
  <2>4. Served!ReportNil("session")
    BY <2>1, <2>2, <2>3 DEF Served!ReportNil
  <2> QED
    BY <1>1, <2>4 DEF Served!SessStep
<1>11. CASE BeginOk
  <2>1. /\ pc["init"] = "begin" /\ pc'["init"] = "end" /\ pc'["watcher"] = pc["watcher"]
        /\ UNCHANGED <<ctxDone, finalizedChan, triggerCloseChan, done>>
    BY <1>0, <1>11 DEF BeginOk, Goto, chans, result
  <2>2. ServedPhase' = ServedPhase /\ Beginning = TRUE /\ Beginning' = FALSE
    BY <2>1 DEF ServedPhase, Started, Asked, Beginning
  <2>3. Served!BeginOk("session")
    BY <2>1, <2>2 DEF Served!BeginOk
  <2> QED
    BY <1>1, <2>3 DEF Served!SessStep
<1>12. CASE BeginFail
  <2>1. /\ pc["init"] = "begin" /\ pc'["init"] = "report" /\ pc'["watcher"] = pc["watcher"]
        /\ UNCHANGED <<ctxDone, finalizedChan, triggerCloseChan, done>>
    BY <1>0, <1>12 DEF BeginFail, Goto, chans, result
  <2> QED
    BY <2>1, ServedUnseen DEF Beginning
<1>13. CASE InitReport
  <2>1. /\ pc["init"] = "report" /\ pc'["init"] = "end" /\ pc'["watcher"] = pc["watcher"]
        /\ UNCHANGED <<ctxDone, finalizedChan, triggerCloseChan>>
    BY <1>0, <1>13 DEF InitReport, Goto, chans
  <2>2. done = <<>> /\ done' = <<"err">>
    <3>1. done' = Append(done, "err") /\ Len(done) < 1
      BY <1>13 DEF InitReport, SendDone
    <3>2. done \in Seq({"nil", "err"}) /\ Len(done) \in Nat
      BY DEF IInv, TypeOK
    <3>3. done = <<>>
      BY <3>1, <3>2
    <3> QED
      BY <3>1, <3>3
  <2>3. ServedPhase' = ServedPhase /\ Beginning = TRUE /\ Beginning' = FALSE
    BY <2>1 DEF ServedPhase, Started, Asked, Beginning
  <2>4. Served!BeginFails("session")
    BY <2>1, <2>2, <2>3 DEF Served!BeginFails
  <2> QED
    BY <1>1, <2>4 DEF Served!SessStep
<1>14. CASE Reader
  <2>1. PICK label : Goto("reader", label)
    BY <1>14 DEF Reader, ReaderStops, ReaderSeesEnd
  <2>2. pc'["watcher"] = pc["watcher"] /\ pc'["init"] = pc["init"]
    BY <1>0, <2>1, ServedOthers DEF DoClosers
  <2> QED
    BY <1>14, <2>2, ServedUnseen DEF Reader, ReaderStops, ReaderSeesEnd, chans, result, Beginning
<1>15. ASSUME NEW h \in Handlers, ReaderReceives(h) PROVE UNCHANGED Served!sess
  <2>1. pc'["watcher"] = pc["watcher"] /\ pc'["init"] = pc["init"]
    BY <1>0, <1>15, ServedOthers DEF ReaderReceives, Closers
  <2> QED
    BY <1>15, <2>1, ServedUnseen DEF ReaderReceives, chans, result, Beginning
<1>16. ASSUME NEW t \in DoClosers,
              DoCloseCheck(t) \/ DoCloseEnter(t) \/ DoCloseSkip(t) \/ CallbackReturns(t)
       PROVE  UNCHANGED Served!sess
  <2>1. PICK label : Goto(t, label)
    BY <1>16 DEF DoCloseCheck, DoCloseEnter, DoCloseSkip, CallbackReturns, Return
  <2>2. pc'["watcher"] = pc["watcher"] /\ pc'["init"] = pc["init"]
    BY <1>0, <2>1, ServedOthers
  <2> QED
    BY <1>16, <2>2, ServedUnseen
    DEF DoCloseCheck, DoCloseEnter, DoCloseSkip, CallbackReturns, chans, result, Beginning
<1>17. ASSUME NEW t \in DoClosers, Trigger(t) PROVE Served!SessNext
  <2>1. PICK label : Goto(t, label)
    BY <1>17 DEF Trigger, Return
  <2>2. pc'["watcher"] = pc["watcher"] /\ pc'["init"] = pc["init"]
    BY <1>0, <2>1, ServedOthers
  <2>3. triggerCloseChan = "open" /\ triggerCloseChan' = "closed"
    BY <1>17 DEF Trigger, IInv, TypeOK, OnceOK, InOnce, CloseChan
  <2>4. UNCHANGED <<ctxDone, finalizedChan, done>>
    BY <1>17 DEF Trigger, result
  <2>5. /\ ServedPhase' = IF ServedPhase = "up" THEN "closing" ELSE ServedPhase
        /\ Beginning' = Beginning
    BY <2>2, <2>3, <2>4 DEF ServedPhase, Started, Asked, Beginning
  <2>6. Served!DoClose("session")
    BY <2>4, <2>5 DEF Served!DoClose, Served!Trigger
  <2> QED
    BY <1>1, <2>6 DEF Served!SessStep
<1>18. ASSUME NEW c \in Closers, CloseCall(c) \/ CloseWait(c) PROVE UNCHANGED Served!sess
  <2>1. PICK label : Goto(c, label)
    BY <1>18 DEF CloseCall, CloseWait, CloseOk, CloseTimeout
  <2>2. pc'["watcher"] = pc["watcher"] /\ pc'["init"] = pc["init"]
    BY <1>0, <2>1, ServedOthers
  <2> QED
    BY <1>18, <2>2, ServedUnseen
    DEF CloseCall, CloseWait, CloseOk, CloseTimeout, chans, result, Beginning
<1>19. CASE UNCHANGED vars
  BY <1>19, ServedUnseen DEF vars, chans, result, Beginning
<1> QED
  BY <1>2, <1>3, <1>4, <1>5, <1>6, <1>7, <1>8, <1>9, <1>10, <1>11, <1>12, <1>13, <1>14, <1>15,
     <1>16, <1>17, <1>18, <1>19
  DEF Next, Run, Environment, Watcher, Begin, DoClose

\* What module Server assumes of a session, Session provides, with all its
\* goroutines: that reduction loses no behaviour.
THEOREM ImplementsServed == Spec => Served!SessSpec
<1>1. Init => Served!SessInit
  BY InitServed
<1>2. IInv /\ [Next]_vars => [Served!SessNext]_(Served!sess)
  BY StepServed
<1> QED
  BY <1>1, <1>2, Invariance, PTL DEF Spec, Served!SessSpec
-----------------------------------------------------------------------------
(* The session as those see it that close it (ClosingSession).             *)

ClosingPhase ==
  IF pc["watcher"] \in {"report", "end"} THEN "closed"
  ELSE IF pc["watcher"] \in {"handlers", "signal"} THEN "closing" ELSE "open"

\* Writes are accepted until finalize closes the transport; what else may end
\* that is not the session's.
Writable == "transport" \notin RangeOf(ran)

Closing == INSTANCE ClosingSession WITH
  once <- closeOnce, phase <- ClosingPhase, transport <- Writable

LEMMA ClosingUnseen ==
  ASSUME UNCHANGED <<closeOnce, ran, ctxDone>>, ClosingPhase' = ClosingPhase
  PROVE  UNCHANGED Closing!sess
  BY DEF Closing!sess, Writable, RangeOf

LEMMA StepClosing == ASSUME IInv, [Next]_vars PROVE [Closing!SessNext]_(Closing!sess)
<1> USE ConstantsAssumption
<1>0. /\ "watcher" \in Threads /\ "init" \in Threads /\ "watcher" # "init"
      /\ \A t \in DoClosers : t \in Threads \ {"watcher", "init"}
      /\ \A t \in Closers : t \in DoClosers
      /\ pc \in [Threads -> PCs]
  BY DEF Threads, DoClosers, Closers, IInv, TypeOK
<1>1. CASE Run
  <2>1. ClosingPhase' = ClosingPhase
    BY <1>0, <1>1 DEF Run, RunFails, RunStarts, Started, ClosingPhase
  <2> QED
    BY <1>1, <2>1, ClosingUnseen DEF Run, RunFails, RunStarts, hooks
<1>2. CASE ReceiveDone \/ TransportEnds
  BY <1>2, ClosingUnseen DEF ReceiveDone, TransportEnds, ClosingPhase, hooks
<1>3. CASE CtxCancel
  <2>1. UNCHANGED <<closeOnce, ClosingPhase, Writable>>
    BY <1>3 DEF CtxCancel, ClosingPhase, Writable, RangeOf, hooks
  <2> QED
    BY <1>3, <2>1 DEF CtxCancel, Closing!CtxCancel, Closing!SessNext
<1>4. ASSUME NEW h \in Hooks, OnClose(h) PROVE UNCHANGED Closing!sess
  BY <1>4, ClosingUnseen DEF OnClose, ClosingPhase
<1>5. CASE WatcherWakes \/ FinalizeEnd \/ WatcherReport
  <2>1. ClosingPhase' = ClosingPhase
    BY <1>0, <1>5 DEF WatcherWakes, FinalizeEnd, WatcherReport, Goto, ClosingPhase
  <2> QED
    BY <1>5, <2>1, ClosingUnseen DEF WatcherWakes, FinalizeEnd, WatcherReport, hooks
<1>6. CASE FinalizeStart
  <2>1. ClosingPhase = "open" /\ ClosingPhase' = "closing"
    BY <1>0, <1>6 DEF FinalizeStart, Goto, ClosingPhase
  <2>2. closeOnce = "done" \/ ctxDone
    BY <1>6 DEF FinalizeStart, IInv, FinalizeOK, Woken, OnceOK
  <2>3. UNCHANGED <<closeOnce, ctxDone, Writable>>
    BY <1>6 DEF FinalizeStart, Writable, RangeOf
  <2> QED
    BY <2>1, <2>2, <2>3 DEF Closing!FinalizeStart, Closing!SessNext
<1>7. CASE RunCloseHandler
  <2>1. UNCHANGED <<closeOnce, ctxDone, ClosingPhase>>
    BY <1>7 DEF RunCloseHandler, ClosingPhase
  <2>2. /\ ran \in Seq(HookNames) /\ onCloseHandlers[Len(ran) + 1] \in HookNames
        /\ ran' = Append(ran, onCloseHandlers[Len(ran) + 1])
    BY <1>7 DEF RunCloseHandler, IInv, TypeOK, FinalizeOK, Finalizing
  <2>3. Len(ran) \in Nat /\ Len(ran') = Len(ran) + 1 /\ \A i \in 1..Len(ran) : ran'[i] = ran[i]
    BY <2>2
  <2>4. Writable' => Writable
    BY <2>3 DEF Writable, RangeOf
  <2>5. Writable \in BOOLEAN /\ Writable' \in BOOLEAN
    BY DEF Writable
  <2>6. CASE Writable' = Writable
    BY <2>1, <2>6 DEF Closing!sess
  <2>7. CASE Writable /\ Writable' = FALSE
    BY <2>1, <2>7 DEF Closing!TransportCloses, Closing!SessNext
  <2> QED
    BY <2>4, <2>5, <2>6, <2>7
<1>8. CASE FinalizeSignal
  <2>1. ClosingPhase = "closing" /\ ClosingPhase' = "closed"
    BY <1>0, <1>8 DEF FinalizeSignal, Goto, ClosingPhase
  <2>2. Writable' = FALSE
    BY <1>8, FinalizedClean DEF FinalizeSignal, HandlersDone, Writable, hooks, RangeOf
  <2>3. UNCHANGED <<closeOnce, ctxDone>>
    BY <1>8 DEF FinalizeSignal
  <2> QED
    BY <2>1, <2>2, <2>3 DEF Closing!FinalizeEnd, Closing!SessNext
<1>9. CASE Begin \/ Reader
  <2>1. PICK t \in {"init", "reader"} : \E label : Goto(t, label)
    BY <1>9 DEF Begin, Reader, BeginOk, BeginFail, InitReport, ReaderStops, ReaderSeesEnd
  <2>2. pc'["watcher"] = pc["watcher"]
    BY <1>0, <2>1 DEF Goto
  <2> QED
    BY <1>9, <2>2, ClosingUnseen
    DEF Begin, Reader, BeginOk, BeginFail, InitReport, ReaderStops, ReaderSeesEnd, ClosingPhase, hooks
<1>10. ASSUME NEW h \in Handlers, ReaderReceives(h) PROVE UNCHANGED Closing!sess
  <2>1. pc'["watcher"] = pc["watcher"]
    BY <1>0, <1>10, ServedOthers DEF ReaderReceives, Closers
  <2> QED
    BY <1>10, <2>1, ClosingUnseen DEF ReaderReceives, ClosingPhase, hooks
<1>11. ASSUME NEW t \in DoClosers, DoCloseCheck(t) \/ DoCloseSkip(t) \/ CallbackReturns(t)
       PROVE  UNCHANGED Closing!sess
  <2>1. PICK label : Goto(t, label)
    BY <1>11 DEF DoCloseCheck, DoCloseSkip, CallbackReturns, Return
  <2>2. pc'["watcher"] = pc["watcher"]
    BY <1>0, <2>1, ServedOthers
  <2> QED
    BY <1>11, <2>2, ClosingUnseen DEF DoCloseCheck, DoCloseSkip, CallbackReturns, ClosingPhase, hooks
<1>12. ASSUME NEW t \in DoClosers, DoCloseEnter(t) \/ Trigger(t) PROVE Closing!SessNext
  <2>1. PICK label : Goto(t, label)
    BY <1>12 DEF DoCloseEnter, Trigger, Return
  <2>2. pc'["watcher"] = pc["watcher"]
    BY <1>0, <2>1, ServedOthers
  <2>3. UNCHANGED <<ClosingPhase, Writable, ctxDone>>
    BY <1>12, <2>2 DEF DoCloseEnter, Trigger, ClosingPhase, Writable, RangeOf, hooks
  <2>4. CASE DoCloseEnter(t)
    BY <2>3, <2>4 DEF DoCloseEnter, Closing!OnceEnter, Closing!SessNext
  <2>5. CASE Trigger(t)
    <3>1. closeOnce = "busy" /\ closeOnce' = "done"
      BY <2>5 DEF Trigger, IInv, OnceOK, InOnce
    <3> QED
      BY <2>3, <3>1 DEF Closing!OnceLeave, Closing!SessNext
  <2> QED
    BY <1>12, <2>4, <2>5
<1>13. ASSUME NEW c \in Closers, CloseCall(c) \/ CloseWait(c) PROVE UNCHANGED Closing!sess
  <2>1. PICK label : Goto(c, label)
    BY <1>13 DEF CloseCall, CloseWait, CloseOk, CloseTimeout
  <2>2. pc'["watcher"] = pc["watcher"]
    BY <1>0, <2>1, ServedOthers
  <2> QED
    BY <1>13, <2>2, ClosingUnseen DEF CloseCall, CloseWait, CloseOk, CloseTimeout, ClosingPhase, hooks
<1>14. CASE UNCHANGED vars
  BY <1>14, ClosingUnseen DEF vars, ClosingPhase, hooks
<1> QED
  BY <1>1, <1>2, <1>3, <1>4, <1>5, <1>6, <1>7, <1>8, <1>9, <1>10, <1>11, <1>12, <1>13, <1>14
  DEF Next, Environment, Watcher, DoClose

\* What module ClientHandler assumes of the session it closes, Session
\* provides: finalize begins after a trigger or a cancellation only, and the
\* transport is closed when it ends.
THEOREM ImplementsClosing == Spec => Closing!SessSpec
<1>1. Init => Closing!SessInit
  <2> SUFFICES ASSUME Init PROVE Closing!SessInit
    OBVIOUS
  <2>1. pc["watcher"] = "off" /\ Writable = TRUE
    BY ConstantsAssumption DEF Init, Threads, DoClosers, Closers, Writable, RangeOf
  <2> QED
    BY <2>1 DEF Init, Closing!SessInit, ClosingPhase
<1>2. IInv /\ [Next]_vars => [Closing!SessNext]_(Closing!sess)
  BY StepClosing
<1> QED
  BY <1>1, <1>2, Invariance, PTL DEF Spec, Closing!SessSpec
=============================================================================
