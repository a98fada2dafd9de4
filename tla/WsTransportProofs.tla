-------------------------- MODULE WsTransportProofs --------------------------
(***************************************************************************)
(* For any number of writers and any capacities: the control channel is    *)
(* never written after it was closed, doneChan tells the truth, and no     *)
(* Write is accepted after it.  The inductive invariant ties the holder of *)
(* the mutex to the program counters and the shared channels to the        *)
(* position of the goroutine that tears everything down.                   *)
(***************************************************************************)
EXTENDS WsTransport, TLAPS

\* Each goroutine that sends under the lock holds it, and nobody else does.
LockOK ==
  /\ \A w \in Writers : pc[w] = "send" <=> mu = w
  /\ pc["processor"] = "insend" <=> mu = "processor"

\* The teardown closes things in its order.
MainOK ==
  /\ pc["main"] \in {"run", "connclose", "ccclose", "signal", "end"}
  /\ connOpen <=> pc["main"] \in {"run", "connclose"}
  /\ inputState = IF pc["main"] \in {"signal", "end"} THEN "closed" ELSE "open"
  /\ doneChan <=> pc["main"] = "end"
  /\ inputState = "closed" => mu = "free"

\* The reader holds a frame exactly while it wants to queue it.
HandOK ==
  /\ pc["reader"] \in {"read", "push", "end"}
  /\ pc["reader"] = "push" => hand["reader"] \in {"text", "binary"}
  /\ \A t \in Senders : hand[t] \notin {"text", "binary"}

IInv == TypeOK /\ LockOK /\ MainOK /\ HandOK
-----------------------------------------------------------------------------
LEMMA InitIInv == Init => IInv
<1> SUFFICES ASSUME Init PROVE IInv
  OBVIOUS
<1> USE ConstantsAssumption DEF Init, Threads, Senders
<1>1. pc \in [Threads -> PCs]
  BY DEF PCs
<1>2. TypeOK
  <2>1. /\ msgOutChan \in Seq(Writers \cup {"audio", "ping", "close"}) /\ Len(msgOutChan) <= OutCap
        /\ msgInChan \in Seq({"text", "binary"}) /\ Len(msgInChan) <= InCap
        /\ accepted \in Seq(Writers) /\ wire \in Seq(Writers)
    OBVIOUS
  <2>2. hand \in [Senders \cup {"reader"} ->
                    Writers \cup {"audio", "ping", "close", "text", "binary", "none"}]
    OBVIOUS
  <2>3. /\ ctxDone \in BOOLEAN /\ audioOpen \in BOOLEAN
        /\ connOpen \in BOOLEAN /\ writeErr \in {"none", "closed", "broken"}
        /\ closeChan \in BOOLEAN /\ doneChan \in BOOLEAN
    OBVIOUS
  <2>4. /\ input \in 0..InputCap /\ left \in 0..MaxFrames
        /\ inputState \in {"open", "closed", "panic"}
        /\ mu \in Writers \cup {"processor", "free"}
    OBVIOUS
  <2> QED
    BY <1>1, <2>1, <2>2, <2>3, <2>4 DEF TypeOK
<1>3. LockOK /\ MainOK /\ HandOK
  BY DEF LockOK, MainOK, HandOK
<1> QED
  BY <1>2, <1>3 DEF IInv

\* The environment disturbs no other part of the state than its own.
LEMMA EnvStep ==
  ASSUME IInv, ctxDone' \in BOOLEAN, audioOpen' \in BOOLEAN,
         connOpen' = connOpen, writeErr' = writeErr, closeChan' = closeChan,
         doneChan' = doneChan, input' = input, inputState' = inputState, mu' = mu,
         msgOutChan' = msgOutChan, msgInChan' = msgInChan, hand' = hand, left' = left,
         accepted' = accepted, wire' = wire, pc' = pc
  PROVE  IInv'
<1>1. TypeOK'
  <2>1. /\ connOpen' \in BOOLEAN /\ writeErr' \in {"none", "closed", "broken"}
        /\ closeChan' \in BOOLEAN /\ doneChan' \in BOOLEAN
        /\ pc' \in [Threads -> PCs]
    BY DEF IInv, TypeOK, Threads
  <2> QED
    BY <2>1 DEF IInv, TypeOK
<1>2. LockOK'
  BY DEF IInv, LockOK
<1>3. MainOK'
  BY DEF IInv, MainOK
<1>4. HandOK'
  BY DEF IInv, HandOK
<1> QED
  BY <1>1, <1>2, <1>3, <1>4 DEF IInv

\* Closing the connection moves only the goroutine that tears down.
LEMMA ConnStep ==
  ASSUME IInv, pc["main"] = "connclose", connOpen' = FALSE,
         pc' = [pc EXCEPT !["main"] = "ccclose"], ctxDone' = ctxDone, audioOpen' = audioOpen,
         writeErr' \in {"none", "closed", "broken"}, closeChan' = closeChan,
         doneChan' = doneChan, input' = input, inputState' = inputState, mu' = mu,
         msgOutChan' = msgOutChan, msgInChan' = msgInChan, hand' = hand, left' = left,
         accepted' = accepted, wire' = wire
  PROVE  IInv'
<1>1. pc \in [Threads -> PCs] /\ "ccclose" \in PCs /\ "main" \in Threads
  BY DEF IInv, TypeOK, Threads, PCs
<1>2. pc'["main"] = "ccclose" /\ \A t \in Threads : t # "main" => pc'[t] = pc[t]
  BY <1>1
<1>3. "main" \notin Writers \cup {"processor", "reader"}
      /\ Writers \cup {"processor", "reader"} \subseteq Threads
  BY ConstantsAssumption DEF Threads
<1>4. TypeOK'
  <2>1. pc' \in [Threads -> PCs] /\ connOpen' \in BOOLEAN
    BY <1>1
  <2> QED
    BY <2>1 DEF IInv, TypeOK
<1>5. LockOK'
  BY <1>2, <1>3 DEF IInv, LockOK
<1>6. MainOK'
  BY <1>2 DEF IInv, MainOK
<1>7. HandOK'
  BY <1>2, <1>3 DEF IInv, HandOK
<1> QED
  BY <1>4, <1>5, <1>6, <1>7 DEF IInv

LEMMA StepIInv == IInv /\ [Next]_vars => IInv'
<1> SUFFICES ASSUME IInv, [Next]_vars PROVE IInv'
  OBVIOUS
<1> USE ConstantsAssumption
    DEF IInv, TypeOK, LockOK, MainOK, HandOK, Threads, Senders, PCs, Goto, env, conn,
        signals, control, texts
<1>1. CASE CtxCancel
  BY <1>1, EnvStep DEF CtxCancel
<1>2. CASE AudioClose
  BY <1>2, EnvStep DEF AudioClose
<1>3. CASE SessionTakes
  BY <1>3 DEF SessionTakes
<1>4. ASSUME NEW w \in Writers, WriteLock(w) PROVE IInv'
  <2>1. CASE inputState = "open"
    <3>1. /\ mu = "free" /\ mu' = w /\ pc' = [pc EXCEPT ![w] = "send"]
          /\ \A v \in Writers : pc[v] # "send"
          /\ inputState' = inputState
      BY <1>4, <2>1 DEF WriteLock
    <3>2. LockOK'
      BY <3>1
    <3>3. MainOK'
      BY <1>4, <2>1, <3>1 DEF WriteLock
    <3>4. TypeOK'
      BY <1>4, <2>1, <3>1 DEF WriteLock
    <3>5. HandOK'
      BY <1>4, <2>1, <3>1 DEF WriteLock
    <3> QED
      BY <3>2, <3>3, <3>4, <3>5
  <2>2. CASE inputState # "open"
    BY <1>4, <2>2 DEF WriteLock
  <2> QED
    BY <2>1, <2>2
<1>5. ASSUME NEW w \in Writers, WriteSend(w) PROVE IInv'
  BY <1>5 DEF WriteSend, PutOut, OutFull
<1>6. CASE MainWakes
  BY <1>6 DEF MainWakes
<1>7. CASE MainClosesConn
  <2>1. writeErr' \in {"none", "closed", "broken"}
    BY <1>7 DEF MainClosesConn
  <2> QED
    BY <1>7, <2>1, ConnStep DEF MainClosesConn
<1>8. CASE MainClosesControl
  BY <1>8 DEF MainClosesControl
<1>9. CASE MainSignals
  BY <1>9 DEF MainSignals
<1>10. ASSUME NEW mt \in {"text", "binary"}, ReadFrame(mt) PROVE IInv'
  BY <1>10 DEF ReadFrame
<1>11. CASE PushFrame
  BY <1>11 DEF PushFrame, InFull
<1>12. CASE ReadClose
  BY <1>12 DEF ReadClose
<1>13. CASE ReadError
  BY <1>13 DEF ReadError
<1>14. CASE AudioRead
  BY <1>14 DEF AudioRead
<1>15. CASE AudioSend
  BY <1>15 DEF AudioSend, PutOut, OutFull
<1>16. CASE AudioEnds
  BY <1>16 DEF AudioEnds
<1>17. CASE ProcessFrame
  BY <1>17 DEF ProcessFrame
<1>18. CASE ProcessorStops
  BY <1>18 DEF ProcessorStops
<1>19. CASE WriteInLock
  BY <1>19 DEF WriteInLock
<1>20. CASE WriteInSend
  BY <1>20 DEF WriteInSend, InputFull
<1>21. CASE AudioWritten
  BY <1>21 DEF AudioWritten
<1>22. CASE AudioWriteFails
  BY <1>22 DEF AudioWriteFails
<1>23. CASE OutTake
  BY <1>23 DEF OutTake
<1>24. CASE OutSend
  <2>1. CASE WriteOk(hand["outgoing"]) /\ Goto("outgoing", "select")
    BY <1>24, <2>1 DEF OutSend, WriteOk
  <2>2. CASE (WriteClosed \/ WriteBroken) /\ Goto("outgoing", "end")
    BY <1>24, <2>2 DEF OutSend, WriteClosed, WriteBroken
  <2> QED
    BY <1>24, <2>1, <2>2 DEF OutSend
<1>25. CASE PingTick
  BY <1>25 DEF PingTick
<1>26. CASE PingSend
  BY <1>26 DEF PingSend, PutOut, OutFull
<1>27. CASE OutDone
  BY <1>27 DEF OutDone
<1>28. ASSUME NEW t \in Senders, CloseStart(t) PROVE IInv'
  <2>1. CASE doneChan
    BY <1>28, <2>1 DEF CloseStart
  <2>2. CASE ~doneChan
    BY <1>28, <2>2 DEF CloseStart
  <2> QED
    BY <2>1, <2>2
<1>29. ASSUME NEW t \in Senders, DrainTake(t) PROVE IInv'
  BY <1>29 DEF DrainTake
<1>30. ASSUME NEW t \in Senders, DrainSend(t) PROVE IInv'
  <2>1. CASE WriteOk(hand[t])
    BY <1>30, <2>1 DEF DrainSend, WriteOk, WriteClosed, WriteBroken
  <2>2. CASE WriteBroken /\ UNCHANGED pc
    BY <1>30, <2>2 DEF DrainSend, WriteBroken
  <2>3. CASE WriteClosed /\ Goto(t, "closeframe")
    BY <1>30, <2>3 DEF DrainSend, WriteClosed
  <2> QED
    BY <1>30, <2>1, <2>2, <2>3 DEF DrainSend
<1>31. ASSUME NEW t \in Senders, DrainEnds(t) PROVE IInv'
  BY <1>31 DEF DrainEnds
<1>32. ASSUME NEW t \in Senders, CloseFrame(t) PROVE IInv'
  BY <1>32 DEF CloseFrame, PutOut, OutFull
<1>33. ASSUME NEW t \in Senders, CloseOk(t) PROVE IInv'
  BY <1>33 DEF CloseOk
<1>34. ASSUME NEW t \in Senders, CloseTimeout(t) PROVE IInv'
  BY <1>34 DEF CloseTimeout
<1>35. CASE UNCHANGED vars
  BY <1>35 DEF vars
<1> QED
  BY <1>1, <1>2, <1>3, <1>4, <1>5, <1>6, <1>7, <1>8, <1>9, <1>10, <1>11, <1>12,
     <1>13, <1>14, <1>15, <1>16, <1>17, <1>18, <1>19, <1>20, <1>21, <1>22, <1>23, <1>24,
     <1>25, <1>26, <1>27, <1>28, <1>29, <1>30, <1>31, <1>32, <1>33, <1>34, <1>35
  DEF Next, Environment, Write, Main, Reader, ReaderSteps, SenderSteps, ProcessorSteps,
      Outgoing, Close

\* The inductive invariant holds throughout.
THEOREM Invariance == Spec => []IInv
<1>1. Init => IInv
  BY InitIInv
<1>2. IInv /\ [Next]_vars => IInv'
  BY StepIInv
<1> QED
  BY <1>1, <1>2, PTL DEF Spec

\* Every variable keeps its type: no channel exceeds its capacity.
THEOREM TypeCorrect == Spec => []TypeOK
<1>1. IInv => TypeOK
  BY DEF IInv
<1> QED
  BY <1>1, Invariance, PTL

\* The input channel is never written or closed after it was closed.
THEOREM InputNeverPanics == Spec => []NoPanic
<1>1. IInv => NoPanic
  BY DEF IInv, MainOK, NoPanic
<1> QED
  BY <1>1, Invariance, PTL

\* doneChan is closed last.
THEOREM DoneIsLast == Spec => []DoneMeansTornDown
<1>1. IInv => DoneMeansTornDown
  BY DEF IInv, MainOK, DoneMeansTornDown
<1> QED
  BY <1>1, Invariance, PTL

\* After the end no Write is accepted any more (control.go:33).
NoWriteAfterDone == [][doneChan => accepted' = accepted]_vars

\* No goroutine is inside writeOut when doneChan is closed, and none gets in.
THEOREM DoneRefusesWrites == Spec => NoWriteAfterDone
<1>1. IInv /\ [Next]_vars => (doneChan => accepted' = accepted)
  <2> SUFFICES ASSUME IInv, [Next]_vars, doneChan PROVE accepted' = accepted
    OBVIOUS
  <2>1. \A w \in Writers : ~WriteSend(w)
    BY ConstantsAssumption DEF IInv, LockOK, MainOK, WriteSend
  <2> QED
    BY <2>1
    DEF Next, vars, env, conn, signals, control, texts, Environment, CtxCancel, AudioClose,
        SessionTakes, Write, WriteLock, Main, MainWakes, MainClosesConn,
        MainClosesControl, MainSignals, Reader, ReaderSteps, ReadFrame, PushFrame, ReadClose,
        ReadError, AudioRead, SenderSteps, AudioSend, AudioEnds, ProcessorSteps, ProcessFrame,
        ProcessorStops, WriteInLock, WriteInSend, AudioWritten, AudioWriteFails, Outgoing,
        OutTake, OutSend, PingTick, PingSend, OutDone, CloseStart, Close, DrainTake, DrainSend,
        DrainEnds, CloseFrame, CloseOk, CloseTimeout
<1> QED
  BY <1>1, Invariance, PTL DEF Spec, NoWriteAfterDone
=============================================================================
