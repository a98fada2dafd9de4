---------------------------- MODULE WsOrderProofs ----------------------------
(***************************************************************************)
(* What happens to the texts that Write has accepted, for any number of    *)
(* writers and any capacities: none is written twice, and until the        *)
(* transport closes none is lost or overtaken.  A text is in one place at  *)
(* a time (OnceOK), even when the session's Close and the outgoing         *)
(* goroutine send side by side.  Until then it is the outgoing goroutine   *)
(* alone that takes from the queue and the connection is there (FlagsOK),  *)
(* so each of its steps moves the text that is first in line by one place. *)
(* At the end: who leaves early, and who waits for whom (EndsOK).           *)
(***************************************************************************)
EXTENDS WsTransportProofs

\* A sequence holds no text twice.
Once(s) == \A i, j \in 1..Len(s) : s[i] = s[j] /\ s[i] \in Writers => i = j

\* A text is in one place: on the wire, queued or in one sender's hand.
OnePlace ==
  /\ RangeOf(wire) \cap RangeOf(msgOutChan) = {}
  /\ \A t \in Senders : hand[t] \in Writers => hand[t] \notin RangeOf(wire) \cup RangeOf(msgOutChan)
  /\ hand["outgoing"] \in Writers => hand["outgoing"] # hand["closer"]
  /\ RangeOf(wire) \subseteq RangeOf(accepted)
  /\ RangeOf(msgOutChan) \cap Writers \subseteq RangeOf(accepted)
  /\ \A t \in Senders : hand[t] \in Writers => hand[t] \in RangeOf(accepted)
  /\ \A w \in RangeOf(accepted) : pc[w] = "ok"

OnceOK == Once(wire) /\ Once(msgOutChan) /\ OnePlace

\* Close and the teardown leave their mark before they take or break anything.
FlagsOK ==
  /\ pc["main"] # "run" => closeChan \/ ctxDone
  /\ writeErr = "closed" => closeChan \/ ctxDone
  /\ ~connOpen => writeErr # "none"
  /\ "close" \in RangeOf(msgOutChan) \cup {hand["outgoing"], hand["closer"]} => closeChan
  /\ \A t \in Senders : pc[t] \in {"drain", "closeframe", "wait"} => closeChan
  /\ pc["outgoing"] \in {"select", "ping"} => hand["outgoing"] = "none"
-----------------------------------------------------------------------------
(* Queues: what Append and Tail do to the elements and their order.        *)

LEMMA AppendRange ==
  ASSUME NEW S, NEW s \in Seq(S), NEW x \in S
  PROVE  RangeOf(Append(s, x)) = RangeOf(s) \cup {x}
<1> DEFINE q == Append(s, x)
<1>1. Len(q) = Len(s) + 1 /\ Len(s) \in Nat
  OBVIOUS
<1>2. q[Len(q)] = x /\ \A i \in 1..Len(s) : q[i] = s[i]
  OBVIOUS
<1>3. \A i \in 1..Len(q) : i = Len(q) \/ i \in 1..Len(s)
  BY <1>1
<1>4. Len(q) \in 1..Len(q) /\ 1..Len(s) \subseteq 1..Len(q)
  BY <1>1
<1> HIDE DEF q
<1>5. RangeOf(q) \subseteq RangeOf(s) \cup {x}
  BY <1>2, <1>3 DEF RangeOf
<1>6. RangeOf(s) \cup {x} \subseteq RangeOf(q)
  BY <1>2, <1>4 DEF RangeOf
<1> QED
  BY <1>5, <1>6 DEF q

LEMMA AppendOnce ==
  ASSUME NEW S, NEW s \in Seq(S), NEW x \in S, Once(s), x \in Writers => x \notin RangeOf(s)
  PROVE  Once(Append(s, x))
<1> DEFINE q == Append(s, x)
<1>1. Len(q) = Len(s) + 1 /\ Len(s) \in Nat
  OBVIOUS
<1>2. q[Len(q)] = x /\ \A i \in 1..Len(s) : q[i] = s[i]
  OBVIOUS
<1>3. \A i \in 1..Len(q) : i = Len(q) \/ i \in 1..Len(s)
  BY <1>1
<1> HIDE DEF q
<1> SUFFICES ASSUME NEW i \in 1..Len(q), NEW j \in 1..Len(q), q[i] = q[j], q[i] \in Writers
             PROVE  i = j
  BY DEF Once, q
<1>4. CASE i \in 1..Len(s) /\ j \in 1..Len(s)
  BY <1>2, <1>4 DEF Once
<1>5. CASE i = Len(q) /\ j \in 1..Len(s)
  BY <1>2, <1>5 DEF RangeOf
<1>6. CASE i \in 1..Len(s) /\ j = Len(q)
  BY <1>2, <1>6 DEF RangeOf
<1> QED
  BY <1>3, <1>4, <1>5, <1>6

LEMMA AppendBefore ==
  ASSUME NEW S, NEW s \in Seq(S), NEW x \in S, NEW v, NEW w
  PROVE  Before(Append(s, x), v, w) <=> Before(s, v, w) \/ (w = x /\ v \in RangeOf(s))
<1> DEFINE q == Append(s, x)
<1>1. Len(q) = Len(s) + 1 /\ Len(s) \in Nat
  OBVIOUS
<1>2. q[Len(q)] = x /\ \A i \in 1..Len(s) : q[i] = s[i]
  OBVIOUS
<1>3. \A i \in 1..Len(q) : i = Len(q) \/ i \in 1..Len(s)
  BY <1>1
<1>4. Len(q) \in 1..Len(q) /\ 1..Len(s) \subseteq 1..Len(q) /\ \A i \in 1..Len(s) : i < Len(q)
  BY <1>1
<1>5. \A i, j \in 1..Len(q) : i < j => i \in 1..Len(s)
  BY <1>1
<1> HIDE DEF q
<1>6. Before(q, v, w) => Before(s, v, w) \/ (w = x /\ v \in RangeOf(s))
  <2> SUFFICES ASSUME NEW i \in 1..Len(q), NEW j \in 1..Len(q), i < j, q[i] = v, q[j] = w
               PROVE  Before(s, v, w) \/ (w = x /\ v \in RangeOf(s))
    BY DEF Before
  <2>1. i \in 1..Len(s) /\ s[i] = v
    BY <1>2, <1>5
  <2>2. CASE j = Len(q)
    BY <1>2, <2>1, <2>2 DEF RangeOf
  <2>3. CASE j \in 1..Len(s)
    BY <1>2, <2>1, <2>3 DEF Before
  <2> QED
    BY <1>3, <2>2, <2>3
<1>7. Before(s, v, w) => Before(q, v, w)
  BY <1>2, <1>4 DEF Before
<1>8. w = x /\ v \in RangeOf(s) => Before(q, v, w)
  BY <1>2, <1>4 DEF Before, RangeOf
<1> QED
  BY <1>6, <1>7, <1>8 DEF q

\* A queue is its head and its tail.
LEMMA TailShift ==
  ASSUME NEW S, NEW s \in Seq(S), s # <<>>
  PROVE  /\ Tail(s) \in Seq(S) /\ Len(Tail(s)) = Len(s) - 1 /\ Len(s) \in Nat \ {0}
         /\ Head(s) = s[1] /\ Head(s) \in S
         /\ \A i \in 1..Len(Tail(s)) : Tail(s)[i] = s[i + 1] /\ i + 1 \in 2..Len(s)
         /\ \A i \in 2..Len(s) : s[i] = Tail(s)[i - 1] /\ i - 1 \in 1..Len(Tail(s))
  OBVIOUS

LEMMA TailRange ==
  ASSUME NEW S, NEW s \in Seq(S), s # <<>>
  PROVE  RangeOf(s) = {Head(s)} \cup RangeOf(Tail(s))
<1>1. \A i \in 1..Len(s) : i = 1 \/ i \in 2..Len(s)
  BY TailShift
<1>2. 1 \in 1..Len(s) /\ 2..Len(s) \subseteq 1..Len(s)
  BY TailShift
<1>3. RangeOf(s) \subseteq {Head(s)} \cup RangeOf(Tail(s))
  <2> SUFFICES ASSUME NEW i \in 1..Len(s), s[i] # Head(s) PROVE s[i] \in RangeOf(Tail(s))
    BY DEF RangeOf
  <2>1. i \in 2..Len(s)
    BY <1>1, TailShift
  <2>2. s[i] = Tail(s)[i - 1] /\ i - 1 \in 1..Len(Tail(s))
    BY <2>1, TailShift
  <2> QED
    BY ONLY <2>2 DEF RangeOf
<1>4. {Head(s)} \cup RangeOf(Tail(s)) \subseteq RangeOf(s)
  <2>1. Head(s) \in RangeOf(s)
    BY <1>2, TailShift DEF RangeOf
  <2>2. ASSUME NEW i \in 1..Len(Tail(s)) PROVE Tail(s)[i] \in RangeOf(s)
    <3>1. Tail(s)[i] = s[i + 1] /\ i + 1 \in 1..Len(s)
      BY <1>2, TailShift
    <3> QED
      BY ONLY <3>1 DEF RangeOf
  <2> QED
    BY <2>1, <2>2 DEF RangeOf
<1> QED
  BY <1>3, <1>4

LEMMA TailOnce ==
  ASSUME NEW S, NEW s \in Seq(S), s # <<>>, Once(s)
  PROVE  Once(Tail(s)) /\ (Head(s) \in Writers => Head(s) \notin RangeOf(Tail(s)))
<1>1. 1 \in 1..Len(s) /\ 2..Len(s) \subseteq 1..Len(s) /\ Len(s) \in Nat
  BY TailShift
<1>2. ASSUME NEW i \in 1..Len(Tail(s)), NEW j \in 1..Len(Tail(s)),
             Tail(s)[i] = Tail(s)[j], Tail(s)[i] \in Writers
      PROVE  i = j
  <2>1. /\ i + 1 \in 1..Len(s) /\ j + 1 \in 1..Len(s)
        /\ s[i + 1] = s[j + 1] /\ s[i + 1] \in Writers
    BY <1>1, <1>2, TailShift
  <2>2. i + 1 = j + 1
    BY <2>1 DEF Once
  <2>3. i \in Nat /\ j \in Nat
    BY TailShift
  <2> QED
    BY <2>2, <2>3
<1>3. ASSUME Head(s) \in Writers, NEW i \in 1..Len(Tail(s)), Tail(s)[i] = Head(s) PROVE FALSE
  <2>1. i + 1 \in 1..Len(s) /\ s[i + 1] = s[1] /\ s[1] \in Writers
    BY <1>1, <1>3, TailShift
  <2>2. i + 1 = 1
    BY <1>1, <2>1 DEF Once
  <2> QED
    BY <2>2
<1> QED
  BY <1>2, <1>3 DEF Once, RangeOf

LEMMA TailBefore ==
  ASSUME NEW S, NEW s \in Seq(S), s # <<>>, NEW v, NEW w
  PROVE  Before(s, v, w) <=> Before(Tail(s), v, w) \/ (v = Head(s) /\ w \in RangeOf(Tail(s)))
<1> DEFINE q == Tail(s)
<1>1. /\ 1 \in 1..Len(s) /\ 2..Len(s) \subseteq 1..Len(s) /\ Len(s) \in Nat /\ Len(q) \in Nat
      /\ \A i \in 2..Len(s) : s[i] = q[i - 1] /\ i - 1 \in 1..Len(q)
      /\ \A i \in 1..Len(q) : q[i] = s[i + 1] /\ i + 1 \in 2..Len(s)
      /\ Head(s) = s[1]
  BY TailShift
<1> HIDE DEF q
<1>2. ASSUME NEW i \in 1..Len(s), NEW j \in 1..Len(s), i < j, s[i] = v, s[j] = w
      PROVE  Before(q, v, w) \/ (v = Head(s) /\ w \in RangeOf(q))
  <2>1. j \in 2..Len(s) /\ q[j - 1] = w /\ j - 1 \in 1..Len(q)
    BY <1>1, <1>2
  <2>2. CASE i = 1
    BY <1>1, <1>2, <2>1, <2>2 DEF RangeOf
  <2>3. CASE i # 1
    <3>1. i \in 2..Len(s)
      BY <1>1, <2>3
    <3>2. q[i - 1] = v /\ i - 1 \in 1..Len(q) /\ i - 1 < j - 1
      BY <1>1, <1>2, <3>1
    <3> QED
      BY <2>1, <3>2 DEF Before
  <2> QED
    BY <2>2, <2>3
<1>3. ASSUME NEW i \in 1..Len(q), NEW j \in 1..Len(q), i < j, q[i] = v, q[j] = w
      PROVE  Before(s, v, w)
  <2>1. /\ i + 1 \in 1..Len(s) /\ j + 1 \in 1..Len(s) /\ i + 1 < j + 1
        /\ s[i + 1] = v /\ s[j + 1] = w
    BY <1>1, <1>3
  <2> QED
    BY <2>1 DEF Before
<1>4. ASSUME v = Head(s), NEW j \in 1..Len(q), q[j] = w PROVE Before(s, v, w)
  <2>1. j + 1 \in 1..Len(s) /\ 1 < j + 1 /\ s[j + 1] = w /\ s[1] = v
    BY <1>1, <1>4
  <2> QED
    BY <1>1, <2>1 DEF Before
<1> QED
  BY <1>2, <1>3, <1>4 DEF Before, RangeOf, q
-----------------------------------------------------------------------------
(* Which steps matter to the texts                                         *)

\* The queues' elements, for the lemmas above.
Frames == Writers \cup {"audio", "ping", "close"}

LEMMA Typing ==
  ASSUME IInv
  PROVE  /\ wire \in Seq(Writers) /\ accepted \in Seq(Writers) /\ msgOutChan \in Seq(Frames)
         /\ RangeOf(wire) \subseteq Writers /\ RangeOf(accepted) \subseteq Writers
         /\ RangeOf(msgOutChan) \subseteq Frames
         /\ hand \in [Senders \cup {"reader"} ->
                        Writers \cup {"audio", "ping", "close", "text", "binary", "none"}]
         /\ pc \in [Threads -> PCs]
<1>1. /\ wire \in Seq(Writers) /\ accepted \in Seq(Writers) /\ msgOutChan \in Seq(Frames)
      /\ hand \in [Senders \cup {"reader"} ->
                     Writers \cup {"audio", "ping", "close", "text", "binary", "none"}]
      /\ pc \in [Threads -> PCs]
  BY DEF IInv, TypeOK, Frames
<1>2. /\ \A i \in 1..Len(wire) : wire[i] \in Writers
      /\ \A i \in 1..Len(accepted) : accepted[i] \in Writers
      /\ \A i \in 1..Len(msgOutChan) : msgOutChan[i] \in Frames
  BY <1>1
<1> QED
  BY <1>1, <1>2 DEF RangeOf

\* A step that leaves the texts where they are.
Stays ==
  /\ wire' = wire /\ msgOutChan' = msgOutChan /\ accepted' = accepted
  /\ \A t \in Senders : hand'[t] = hand[t]
  /\ \A w \in Writers : pc[w] = "ok" => pc'[w] = "ok"

\* A step that queues something else.
Queues(x) ==
  /\ ~OutFull /\ msgOutChan' = Append(msgOutChan, x)
  /\ wire' = wire /\ accepted' = accepted /\ hand' = hand
  /\ \A w \in Writers : pc'[w] = pc[w]
  /\ x = "close" => closeChan

\* Every step is one of these.
TextSteps ==
  \/ Stays
  \/ \E x \in {"audio", "ping", "close"} : Queues(x)
  \/ \E w \in Writers : WriteSend(w)
  \/ OutTake \/ OutSend
  \/ \E t \in Senders : DrainTake(t) \/ DrainSend(t)

LEMMA StepKinds == IInv /\ FlagsOK /\ [Next]_vars => TextSteps
<1> SUFFICES ASSUME IInv, FlagsOK, [Next]_vars PROVE TextSteps
  OBVIOUS
<1>1. /\ pc \in [Threads -> PCs]
      /\ hand \in [Senders \cup {"reader"} ->
                     Writers \cup {"audio", "ping", "close", "text", "binary", "none"}]
  BY Typing
<1>2. /\ Writers \subseteq Threads /\ Senders \subseteq Threads
      /\ {"main", "reader", "sender", "processor", "outgoing", "closer"} \subseteq Threads
      /\ \A t \in {"main", "reader", "sender", "processor", "outgoing", "closer"} : t \notin Writers
      /\ \A t \in Senders : t \notin Writers /\ t # "reader"
  BY ConstantsAssumption DEF Threads, Senders
<1> USE <1>1, <1>2 DEF Stays, Goto, env, conn, signals, control, texts
<1>3. CASE Environment \/ SessionTakes
  BY <1>3 DEF Environment, CtxCancel, AudioClose, SessionTakes, TextSteps
<1>4. ASSUME NEW w \in Writers, Write(w) PROVE TextSteps
  <2>1. CASE WriteLock(w)
    BY <2>1 DEF WriteLock, TextSteps
  <2> QED
    BY <1>4, <2>1 DEF Write, TextSteps
<1>5. CASE Main
  BY <1>5 DEF Main, MainWakes, MainClosesConn, MainClosesControl, MainSignals, TextSteps
<1>6. CASE Reader \/ ReaderSteps
  BY <1>6 DEF Reader, ReadFrame, ReadClose, ReaderSteps, PushFrame, ReadError, TextSteps
<1>7. CASE AudioRead \/ SenderSteps
  <2>1. CASE AudioSend
    <3>1. Queues("audio")
      BY <2>1 DEF AudioSend, PutOut, Queues
    <3> QED
      BY <3>1 DEF TextSteps
  <2> QED
    BY <1>7, <2>1 DEF AudioRead, SenderSteps, AudioEnds, TextSteps
<1>8. CASE ProcessorSteps \/ AudioWritten \/ AudioWriteFails
  BY <1>8 DEF ProcessorSteps, ProcessFrame, ProcessorStops, WriteInLock, WriteInSend,
              AudioWriteFails, AudioWritten, TextSteps
<1>9. CASE Outgoing \/ PingTick
  <2>1. CASE PingSend
    <3>1. Queues("ping")
      BY <2>1 DEF PingSend, PutOut, Queues
    <3> QED
      BY <3>1 DEF TextSteps
  <2> QED
    BY <1>9, <2>1 DEF Outgoing, PingTick, OutDone, TextSteps
<1>10. ASSUME NEW t \in Senders, CloseStart(t) \/ Close(t) PROVE TextSteps
  <2>1. CASE CloseFrame(t)
    <3>1. Queues("close")
      BY <2>1 DEF CloseFrame, PutOut, Queues, FlagsOK
    <3> QED
      BY <3>1 DEF TextSteps
  <2>2. CASE CloseStart(t)
    BY <2>2 DEF CloseStart, TextSteps
  <2> QED
    BY <1>10, <2>1, <2>2 DEF Close, DrainEnds, CloseOk, CloseTimeout, TextSteps
<1>11. CASE UNCHANGED vars
  BY <1>11 DEF vars, TextSteps
<1> QED
  BY <1>3, <1>4, <1>5, <1>6, <1>7, <1>8, <1>9, <1>10, <1>11 DEF Next
-----------------------------------------------------------------------------
(* The flags                                                               *)

LEMMA StepFlags == IInv /\ FlagsOK /\ [Next]_vars => FlagsOK'
<1> SUFFICES ASSUME IInv, FlagsOK, [Next]_vars PROVE FlagsOK'
  OBVIOUS
<1>1. /\ pc \in [Threads -> PCs]
      /\ hand \in [Senders \cup {"reader"} ->
                     Writers \cup {"audio", "ping", "close", "text", "binary", "none"}]
      /\ msgOutChan \in Seq(Frames)
  BY Typing
<1>2. /\ Writers \subseteq Threads
      /\ {"main", "reader", "sender", "processor", "outgoing", "closer"} \subseteq Threads
      /\ \A t \in {"main", "reader", "sender", "processor", "outgoing", "closer"} : t \notin Writers
      /\ "close" \notin Writers /\ "none" \notin Writers
      /\ Senders = {"outgoing", "closer"}
  BY ConstantsAssumption DEF Threads, Senders
<1>3. \A x \in Frames : RangeOf(Append(msgOutChan, x)) = RangeOf(msgOutChan) \cup {x}
  BY <1>1, AppendRange
<1>4. msgOutChan # <<>> => RangeOf(msgOutChan) = {Head(msgOutChan)} \cup RangeOf(Tail(msgOutChan))
  BY <1>1, TailRange
<1> USE <1>1, <1>2 DEF FlagsOK, Goto, env, conn, signals, control, texts
<1>5. CASE Environment \/ SessionTakes
  BY <1>5 DEF Environment, CtxCancel, AudioClose, SessionTakes
<1>6. ASSUME NEW w \in Writers, Write(w) PROVE FlagsOK'
  <2>1. CASE WriteLock(w)
    BY <2>1 DEF WriteLock
  <2>2. CASE WriteSend(w)
    BY <1>3, <2>2 DEF WriteSend, PutOut, Frames
  <2> QED
    BY <1>6, <2>1, <2>2 DEF Write
<1>7. CASE Main
  BY <1>7 DEF Main, MainWakes, MainClosesConn, MainClosesControl, MainSignals
<1>8. CASE Reader \/ ReaderSteps
  BY <1>8 DEF Reader, ReadFrame, ReadClose, ReaderSteps, PushFrame, ReadError
<1>9. CASE AudioRead \/ SenderSteps
  <2>1. CASE AudioSend
    <3>1. RangeOf(msgOutChan') = RangeOf(msgOutChan) \cup {"audio"}
      BY <1>3, <2>1 DEF AudioSend, PutOut, Frames
    <3> QED
      BY <2>1, <3>1 DEF AudioSend
  <2> QED
    BY <1>9, <2>1 DEF AudioRead, SenderSteps, AudioEnds
<1>10. CASE ProcessorSteps \/ AudioWritten \/ AudioWriteFails
  BY <1>10 DEF ProcessorSteps, ProcessFrame, ProcessorStops, WriteInLock, WriteInSend,
               AudioWriteFails, AudioWritten, HandOK, IInv
<1>11. CASE OutTake
  BY <1>4, <1>11 DEF OutTake
<1>12. CASE OutSend
  <2>1. /\ pc["outgoing"] = "frame" /\ pc'["outgoing"] \in {"select", "end"}
        /\ \A t \in Threads \ {"outgoing"} : pc'[t] = pc[t]
        /\ hand'["outgoing"] = "none" /\ hand'["closer"] = hand["closer"]
        /\ msgOutChan' = msgOutChan /\ closeChan' = closeChan /\ ctxDone' = ctxDone
    BY <1>12 DEF OutSend
  <2>2. /\ connOpen' = connOpen
        /\ writeErr' \in {writeErr, "broken"} \/ (hand["outgoing"] = "close" /\ writeErr' = "closed")
    BY <1>12 DEF OutSend, WriteOk, WriteClosed, WriteBroken
  <2> QED
    BY <2>1, <2>2
<1>13. CASE PingSend
  <2>1. RangeOf(msgOutChan') = RangeOf(msgOutChan) \cup {"ping"}
    BY <1>3, <1>13 DEF PingSend, PutOut, Frames
  <2>2. /\ pc["outgoing"] = "ping" /\ pc'["outgoing"] = "select"
        /\ \A t \in Threads \ {"outgoing"} : pc'[t] = pc[t]
        /\ hand' = hand /\ closeChan' = closeChan /\ conn' = conn /\ ctxDone' = ctxDone
    BY <1>13 DEF PingSend
  <2> QED
    BY <2>1, <2>2
<1>14. CASE OutDone \/ PingTick
  BY <1>14 DEF OutDone, PingTick
<1>15. ASSUME NEW t \in Senders, CloseStart(t) PROVE FlagsOK'
  BY <1>15 DEF CloseStart
<1>16. ASSUME NEW t \in Senders, DrainTake(t) PROVE FlagsOK'
  BY <1>4, <1>16 DEF DrainTake
<1>17. ASSUME NEW t \in Senders, DrainSend(t) PROVE FlagsOK'
  BY <1>17 DEF DrainSend, WriteOk, WriteClosed, WriteBroken
<1>18. ASSUME NEW t \in Senders, CloseFrame(t) PROVE FlagsOK'
  BY <1>3, <1>18 DEF CloseFrame, PutOut, Frames
<1>19. ASSUME NEW t \in Senders, DrainEnds(t) \/ CloseOk(t) \/ CloseTimeout(t) PROVE FlagsOK'
  BY <1>19 DEF DrainEnds, CloseOk, CloseTimeout
<1>20. CASE UNCHANGED vars
  BY <1>20 DEF vars
<1> QED
  BY <1>5, <1>6, <1>7, <1>8, <1>9, <1>10, <1>11, <1>12, <1>13, <1>14, <1>15, <1>16, <1>17,
     <1>18, <1>19, <1>20
  DEF Next, Outgoing, Close
-----------------------------------------------------------------------------
(* No text is in two places                                                *)

LEMMA StepOnce == IInv /\ FlagsOK /\ OnceOK /\ [Next]_vars => OnceOK'
<1> SUFFICES ASSUME IInv, FlagsOK, OnceOK, [Next]_vars PROVE OnceOK'
  OBVIOUS
<1>1. /\ wire \in Seq(Writers) /\ accepted \in Seq(Writers) /\ msgOutChan \in Seq(Frames)
      /\ RangeOf(wire) \subseteq Writers /\ RangeOf(accepted) \subseteq Writers
      /\ hand \in [Senders \cup {"reader"} ->
                     Writers \cup {"audio", "ping", "close", "text", "binary", "none"}]
      /\ pc \in [Threads -> PCs]
  BY Typing
<1>2. /\ {"audio", "ping", "close", "none"} \cap Writers = {}
      /\ Writers \subseteq Threads /\ Writers \subseteq Frames
      /\ {"audio", "ping", "close"} \subseteq Frames
      /\ Senders = {"outgoing", "closer"} /\ Senders \cap Writers = {} /\ Senders \subseteq Threads
  BY ConstantsAssumption DEF Threads, Senders, Frames
<1>3. TextSteps
  BY StepKinds
<1>4. CASE Stays
  <2>1. OnePlace'
    BY <1>1, <1>2, <1>4 DEF Stays, OnceOK, OnePlace
  <2> QED
    BY ONLY OnceOK, <1>4, <2>1 DEF Stays, OnceOK
<1>5. ASSUME NEW x \in {"audio", "ping", "close"}, Queues(x) PROVE OnceOK'
  <2>1. RangeOf(msgOutChan') = RangeOf(msgOutChan) \cup {x}
    BY <1>1, <1>2, <1>5, AppendRange DEF Queues
  <2>2. Once(msgOutChan)'
    <3>1. msgOutChan' = Append(msgOutChan, x) /\ x \in Frames /\ x \notin Writers
      BY <1>2, <1>5 DEF Queues
    <3>2. Once(Append(msgOutChan, x))
      BY <1>1, <3>1, AppendOnce DEF OnceOK
    <3> QED
      BY ONLY <3>1, <3>2
  <2>3. /\ wire' = wire /\ accepted' = accepted /\ hand' = hand /\ x \notin Writers
        /\ \A w \in Writers : pc'[w] = pc[w]
    BY <1>2, <1>5 DEF Queues
  <2>4. Once(wire)'
    BY <2>3 DEF OnceOK
  <2>5. OnePlace
    BY DEF OnceOK
  <2>6. \A w \in Writers : w \in RangeOf(msgOutChan') <=> w \in RangeOf(msgOutChan)
    BY ONLY <2>1, <2>3
  <2>7. RangeOf(wire') \cap RangeOf(msgOutChan') = {}
    BY ONLY <1>1, <2>3, <2>5, <2>6 DEF OnePlace
  <2>8. \A t \in Senders : hand'[t] \in Writers => hand'[t] \notin RangeOf(wire') \cup RangeOf(msgOutChan')
    BY ONLY <2>3, <2>5, <2>6 DEF OnePlace
  <2>9. RangeOf(msgOutChan') \cap Writers \subseteq RangeOf(accepted')
    BY ONLY <2>3, <2>5, <2>6 DEF OnePlace
  <2>10. \A w \in RangeOf(accepted') : pc'[w] = "ok"
    BY ONLY <1>1, <2>3, <2>5 DEF OnePlace
  <2>11. OnePlace'
    BY ONLY <2>3, <2>5, <2>7, <2>8, <2>9, <2>10 DEF OnePlace
  <2> QED
    BY ONLY <2>2, <2>4, <2>11 DEF OnceOK
<1>6. ASSUME NEW w \in Writers, WriteSend(w) PROVE OnceOK'
  <2>1. /\ msgOutChan' = Append(msgOutChan, w) /\ accepted' = Append(accepted, w)
        /\ hand' = hand /\ wire' = wire /\ pc[w] = "send"
        /\ pc'[w] = "ok" /\ \A v \in Writers : pc[v] = "ok" => pc'[v] = "ok"
    BY <1>1, <1>2, <1>6 DEF WriteSend, PutOut, Goto
  <2>2. w \notin RangeOf(accepted)
    BY <2>1 DEF OnceOK, OnePlace
  <2>3. w \notin RangeOf(wire) /\ w \notin RangeOf(msgOutChan) /\ \A t \in Senders : hand[t] # w
    BY <2>2 DEF OnceOK, OnePlace
  <2>4. /\ RangeOf(msgOutChan') = RangeOf(msgOutChan) \cup {w}
        /\ RangeOf(accepted') = RangeOf(accepted) \cup {w}
    BY <1>1, <1>2, <2>1, AppendRange
  <2>5. Once(msgOutChan)'
    <3>1. Once(Append(msgOutChan, w))
      BY <1>1, <1>2, <2>3, AppendOnce DEF OnceOK
    <3> QED
      BY ONLY <2>1, <3>1
  <2>6. Once(wire)'
    BY <2>1 DEF OnceOK
  <2>7. OnePlace
    BY DEF OnceOK
  <2>8. RangeOf(wire') \cap RangeOf(msgOutChan') = {} /\ RangeOf(wire') \subseteq RangeOf(accepted')
    BY ONLY <2>1, <2>3, <2>4, <2>7 DEF OnePlace
  <2>9. \A t \in Senders : hand'[t] \in Writers =>
          /\ hand'[t] \notin RangeOf(wire') \cup RangeOf(msgOutChan')
          /\ hand'[t] \in RangeOf(accepted')
    BY ONLY <2>1, <2>3, <2>4, <2>7 DEF OnePlace
  <2>10. /\ hand'["outgoing"] \in Writers => hand'["outgoing"] # hand'["closer"]
         /\ RangeOf(msgOutChan') \cap Writers \subseteq RangeOf(accepted')
    BY ONLY <2>1, <2>4, <2>7 DEF OnePlace
  <2>11. \A v \in RangeOf(accepted') : pc'[v] = "ok"
    BY ONLY <1>1, <2>1, <2>4, <2>7 DEF OnePlace
  <2>12. OnePlace'
    BY ONLY <2>8, <2>9, <2>10, <2>11 DEF OnePlace
  <2> QED
    BY ONLY <2>5, <2>6, <2>12 DEF OnceOK
<1>7. ASSUME NEW t \in Senders, msgOutChan # <<>>, msgOutChan' = Tail(msgOutChan),
             hand' = [hand EXCEPT ![t] = Head(msgOutChan)], wire' = wire,
             accepted' = accepted, \A w \in Writers : pc'[w] = pc[w]
      PROVE  OnceOK'
  <2>1. RangeOf(msgOutChan) = {Head(msgOutChan)} \cup RangeOf(msgOutChan')
    BY <1>1, <1>7, TailRange
  <2>2. Once(msgOutChan)' /\ (Head(msgOutChan) \in Writers => Head(msgOutChan) \notin RangeOf(msgOutChan'))
    <3>1. Once(msgOutChan)
      BY DEF OnceOK
    <3> QED
      BY ONLY <1>1, <1>7, <3>1, TailOnce
  <2>3. hand'[t] = Head(msgOutChan) /\ \A u \in Senders \ {t} : hand'[u] = hand[u]
    BY <1>1, <1>2, <1>7
  <2>4. OnePlace
    BY DEF OnceOK
  <2> DEFINE h == Head(msgOutChan)
  <2>5. h \in RangeOf(msgOutChan) /\ RangeOf(msgOutChan') \subseteq RangeOf(msgOutChan)
    BY ONLY <2>1
  <2>6. RangeOf(wire') \cap RangeOf(msgOutChan') = {} /\ RangeOf(wire') \subseteq RangeOf(accepted')
        /\ RangeOf(msgOutChan') \cap Writers \subseteq RangeOf(accepted')
        /\ \A w \in RangeOf(accepted') : pc'[w] = "ok"
    BY ONLY <1>1, <1>7, <2>4, <2>5 DEF OnePlace
  <2>7. h \in Writers => /\ h \notin RangeOf(wire') \cup RangeOf(msgOutChan')
                         /\ h \in RangeOf(accepted')
                         /\ \A u \in Senders : hand[u] # h
    BY ONLY <1>7, <2>2, <2>4, <2>5 DEF OnePlace
  <2>8. \A u \in Senders : hand'[u] \in Writers =>
          /\ hand'[u] \notin RangeOf(wire') \cup RangeOf(msgOutChan')
          /\ hand'[u] \in RangeOf(accepted')
    <3> SUFFICES ASSUME NEW u \in Senders, hand'[u] \in Writers
                 PROVE  /\ hand'[u] \notin RangeOf(wire') \cup RangeOf(msgOutChan')
                        /\ hand'[u] \in RangeOf(accepted')
      OBVIOUS
    <3>1. CASE u = t
      BY ONLY <2>3, <2>7, <3>1, hand'[u] \in Writers
    <3>2. CASE u # t
      BY ONLY <1>7, <2>3, <2>4, <2>5, <3>2, u \in Senders, hand'[u] \in Writers DEF OnePlace
    <3> QED
      BY ONLY <3>1, <3>2
  <2>9. hand'["outgoing"] \in Writers => hand'["outgoing"] # hand'["closer"]
    BY ONLY <1>2, <1>7, <2>3, <2>4, <2>7 DEF OnePlace
  <2>10. OnePlace'
    BY ONLY <2>6, <2>8, <2>9 DEF OnePlace
  <2>11. Once(wire)'
    BY <1>7 DEF OnceOK
  <2> QED
    BY ONLY <2>2, <2>10, <2>11 DEF OnceOK
<1>8. ASSUME NEW t \in Senders, wire' = wire \/ (hand[t] \in Writers /\ wire' = Append(wire, hand[t])),
             hand' = [hand EXCEPT ![t] = "none"], msgOutChan' = msgOutChan,
             accepted' = accepted, \A w \in Writers : pc'[w] = pc[w]
      PROVE  OnceOK'
  <2>1. hand'[t] = "none" /\ \A u \in Senders \ {t} : hand'[u] = hand[u]
    BY <1>1, <1>2, <1>8
  <2>2. CASE wire' = wire
    <3>1. OnePlace'
      BY <1>1, <1>2, <1>8, <2>1, <2>2 DEF OnceOK, OnePlace
    <3> QED
      BY ONLY OnceOK, <1>8, <2>2, <3>1 DEF OnceOK
  <2>3. CASE hand[t] \in Writers /\ wire' = Append(wire, hand[t])
    <3>1. RangeOf(wire') = RangeOf(wire) \cup {hand[t]}
      BY <1>1, <2>3, AppendRange
    <3>2. Once(wire)'
      <4>1. Once(wire) /\ hand[t] \notin RangeOf(wire)
        BY <2>3 DEF OnceOK, OnePlace
      <4>2. Once(Append(wire, hand[t]))
        BY ONLY <1>1, <2>3, <4>1, AppendOnce
      <4> QED
        BY ONLY <2>3, <4>2
    <3>3. Once(msgOutChan)'
      BY <1>8 DEF OnceOK
    <3>4. hand[t] \notin RangeOf(wire) \cup RangeOf(msgOutChan) /\ hand[t] \in RangeOf(accepted)
          /\ \A u \in Senders \ {t} : hand[u] # hand[t]
      BY <1>2, <2>3 DEF OnceOK, OnePlace
    <3>5. msgOutChan' = msgOutChan /\ accepted' = accepted /\ \A w \in Writers : pc'[w] = pc[w]
      BY <1>8
    <3>6. RangeOf(wire') \cap RangeOf(msgOutChan') = {} /\ RangeOf(wire') \subseteq RangeOf(accepted')
      BY <3>1, <3>4, <3>5 DEF OnceOK, OnePlace
    <3>7. \A u \in Senders : hand'[u] \in Writers =>
            /\ hand'[u] \notin RangeOf(wire') \cup RangeOf(msgOutChan')
            /\ hand'[u] \in RangeOf(accepted')
      <4> SUFFICES ASSUME NEW u \in Senders, hand'[u] \in Writers
                   PROVE  /\ hand'[u] \notin RangeOf(wire') \cup RangeOf(msgOutChan')
                          /\ hand'[u] \in RangeOf(accepted')
        OBVIOUS
      <4>1. u # t /\ hand'[u] = hand[u]
        BY <1>2, <2>1
      <4> QED
        BY <3>1, <3>4, <3>5, <4>1 DEF OnceOK, OnePlace
    <3>8. hand'["outgoing"] \in Writers => hand'["outgoing"] # hand'["closer"]
      BY <1>2, <2>1 DEF OnceOK, OnePlace
    <3>9. /\ RangeOf(msgOutChan') \cap Writers \subseteq RangeOf(accepted')
          /\ \A w \in RangeOf(accepted') : pc'[w] = "ok"
      BY <1>1, <3>5 DEF OnceOK, OnePlace
    <3> QED
      BY <3>2, <3>3, <3>6, <3>7, <3>8, <3>9 DEF OnceOK, OnePlace
  <2> QED
    BY <1>8, <2>2, <2>3
<1>9. CASE OutTake
  BY <1>1, <1>2, <1>7, <1>9 DEF OutTake, Goto, texts
<1>10. ASSUME NEW t \in Senders, DrainTake(t) PROVE OnceOK'
  BY <1>1, <1>2, <1>7, <1>10 DEF DrainTake, texts
<1>11. CASE OutSend
  BY <1>1, <1>2, <1>8, <1>11 DEF OutSend, WriteOk, WriteClosed, WriteBroken, Goto
<1>12. ASSUME NEW t \in Senders, DrainSend(t) PROVE OnceOK'
  BY <1>1, <1>2, <1>8, <1>12 DEF DrainSend, WriteOk, WriteClosed, WriteBroken, Goto
<1> QED
  BY <1>3, <1>4, <1>5, <1>6, <1>9, <1>10, <1>11, <1>12 DEF TextSteps

LEMMA InitFlags == Init => FlagsOK /\ OnceOK
<1> SUFFICES ASSUME Init PROVE FlagsOK /\ OnceOK
  OBVIOUS
<1>1. /\ pc["main"] = "run" /\ pc["outgoing"] = "select" /\ pc["closer"] = "idle"
      /\ hand["outgoing"] = "none" /\ hand["closer"] = "none" /\ connOpen /\ writeErr = "none"
      /\ wire = <<>> /\ msgOutChan = <<>> /\ accepted = <<>>
  BY ConstantsAssumption DEF Init, Senders, Threads
<1>2. RangeOf(<<>>) = {} /\ Once(<<>>)
  BY DEF RangeOf, Once
<1>3. "none" \notin Writers
  BY ConstantsAssumption
<1> QED
  BY <1>1, <1>2, <1>3 DEF FlagsOK, OnceOK, OnePlace, Senders

\* Close, the drain and the end lose texts but write none twice.
THEOREM NothingTwice == Spec => []SentOnce
<1>1. Init => FlagsOK /\ OnceOK
  BY InitFlags
<1>2. IInv /\ FlagsOK /\ OnceOK /\ [Next]_vars => FlagsOK' /\ OnceOK'
  BY StepFlags, StepOnce
<1>3. IInv /\ OnceOK => SentOnce
  <2> SUFFICES ASSUME IInv, OnceOK PROVE SentOnce
    OBVIOUS
  <2>1. RangeOf(wire) \subseteq RangeOf(accepted) /\ Once(wire)
    BY DEF OnceOK, OnePlace
  <2>2. \A i \in 1..Len(wire) : wire[i] \in Writers
    BY Typing DEF RangeOf
  <2> QED
    BY ONLY <2>1, <2>2 DEF Once, SentOnce
<1> QED
  BY <1>1, <1>2, <1>3, Invariance, PTL DEF Spec
-----------------------------------------------------------------------------
(* The order of the texts                                                  *)

\* What has begun to close stays so.
LEMMA DisturbedStays ==
  ASSUME IInv, [Next]_vars, Undisturbed'
  PROVE  Undisturbed
<1>1. /\ closeChan \in BOOLEAN /\ ctxDone \in BOOLEAN
      /\ closeChan' = FALSE /\ ctxDone' = FALSE /\ writeErr' = "none"
  BY StepIInv DEF IInv, TypeOK, Undisturbed
<1> USE <1>1 DEF env, conn, signals, WriteOk, WriteClosed, WriteBroken
<1>2. CASE Environment \/ SessionTakes
  BY <1>2 DEF Undisturbed, Environment, CtxCancel, AudioClose, SessionTakes
<1>3. ASSUME NEW w \in Writers, Write(w) PROVE Undisturbed
  BY <1>3 DEF Undisturbed, Write, WriteLock, WriteSend
<1>4. CASE Main
  BY <1>4 DEF Undisturbed, Main, MainWakes, MainClosesConn, MainClosesControl, MainSignals
<1>5. CASE Reader \/ ReaderSteps
  BY <1>5 DEF Undisturbed, Reader, ReadFrame, ReadClose, ReaderSteps, PushFrame, ReadError
<1>6. CASE AudioRead \/ SenderSteps
  BY <1>6 DEF Undisturbed, AudioRead, SenderSteps, AudioSend, AudioEnds
<1>7. CASE ProcessorSteps \/ AudioWritten \/ AudioWriteFails
  BY <1>7 DEF Undisturbed, ProcessorSteps, ProcessFrame, ProcessorStops, WriteInLock,
              WriteInSend, AudioWriteFails, AudioWritten
<1>8. CASE Outgoing \/ PingTick
  BY <1>8 DEF Undisturbed, Outgoing, OutTake, OutSend, PingSend, OutDone, PingTick
<1>9. ASSUME NEW t \in Senders, CloseStart(t) \/ Close(t) PROVE Undisturbed
  BY <1>9 DEF Undisturbed, CloseStart, Close, DrainTake, DrainSend, DrainEnds, CloseFrame,
              CloseOk, CloseTimeout
<1>10. CASE UNCHANGED vars
  BY <1>10 DEF Undisturbed, vars
<1> QED
  BY <1>2, <1>3, <1>4, <1>5, <1>6, <1>7, <1>8, <1>9, <1>10 DEF Next

LEMMA StepOrder ==
  ASSUME IInv, FlagsOK, InOrderUntilClose, [Next]_vars
  PROVE  InOrderUntilClose'
<1> SUFFICES ASSUME Undisturbed'
             PROVE  /\ RangeOf(accepted')
                         = (RangeOf(wire') \cup {hand'["outgoing"]} \cup RangeOf(msgOutChan'))
                             \cap Writers
                    /\ \A v, w \in Writers : Ahead(v, w)' <=> Before(accepted', v, w)
  BY DEF InOrderUntilClose
<1> DEFINE out == hand["outgoing"]
<1>1. /\ wire \in Seq(Writers) /\ accepted \in Seq(Writers) /\ msgOutChan \in Seq(Frames)
      /\ hand \in [Senders \cup {"reader"} ->
                     Writers \cup {"audio", "ping", "close", "text", "binary", "none"}]
  BY Typing
<1>2. /\ {"audio", "ping", "close", "text", "binary", "none"} \cap Writers = {}
      /\ Writers \subseteq Frames /\ {"audio", "ping", "close"} \subseteq Frames
      /\ Senders = {"outgoing", "closer"}
  BY ConstantsAssumption DEF Senders, Frames
<1>3. /\ Undisturbed /\ writeErr' = "none"
      /\ \A t \in Senders : pc[t] # "drain"
  BY DisturbedStays DEF Undisturbed, FlagsOK, IInv, MainOK
<1>4. /\ RangeOf(accepted) = (RangeOf(wire) \cup {out} \cup RangeOf(msgOutChan)) \cap Writers
      /\ \A v, w \in Writers : Ahead(v, w) <=> Before(accepted, v, w)
  BY <1>3 DEF InOrderUntilClose
<1>5. TextSteps
  BY StepKinds
<1>6. CASE Stays
  BY <1>2, <1>4, <1>6 DEF Stays, Ahead
<1>7. ASSUME NEW x \in {"audio", "ping", "close"}, Queues(x)
      PROVE  /\ RangeOf(accepted')
                  = (RangeOf(wire') \cup {hand'["outgoing"]} \cup RangeOf(msgOutChan')) \cap Writers
             /\ \A v, w \in Writers : Ahead(v, w)' <=> Before(accepted', v, w)
  <2>1. /\ wire' = wire /\ accepted' = accepted /\ hand' = hand /\ x \notin Writers
        /\ msgOutChan' = Append(msgOutChan, x)
    BY <1>2, <1>7 DEF Queues
  <2>2. RangeOf(msgOutChan') = RangeOf(msgOutChan) \cup {x}
    BY <1>1, <1>2, <2>1, AppendRange
  <2>3. \A v, w \in Writers : Before(msgOutChan', v, w) <=> Before(msgOutChan, v, w)
    BY <1>1, <1>2, <2>1, AppendBefore
  <2> QED
    BY <1>4, <2>1, <2>2, <2>3 DEF Ahead
<1>8. ASSUME NEW x \in Writers, WriteSend(x)
      PROVE  /\ RangeOf(accepted')
                  = (RangeOf(wire') \cup {hand'["outgoing"]} \cup RangeOf(msgOutChan')) \cap Writers
             /\ \A v, w \in Writers : Ahead(v, w)' <=> Before(accepted', v, w)
  <2>1. /\ msgOutChan' = Append(msgOutChan, x) /\ accepted' = Append(accepted, x)
        /\ hand' = hand /\ wire' = wire
    BY <1>8 DEF WriteSend, PutOut
  <2>2. /\ RangeOf(msgOutChan') = RangeOf(msgOutChan) \cup {x}
        /\ RangeOf(accepted') = RangeOf(accepted) \cup {x}
    BY <1>1, <1>2, <2>1, AppendRange
  <2>3. \A v, w \in Writers :
          /\ Before(msgOutChan', v, w) <=> Before(msgOutChan, v, w) \/ (w = x /\ v \in RangeOf(msgOutChan))
          /\ Before(accepted', v, w) <=> Before(accepted, v, w) \/ (w = x /\ v \in RangeOf(accepted))
    BY <1>1, <1>2, <2>1, AppendBefore
  <2> QED
    BY <1>4, <2>1, <2>2, <2>3 DEF Ahead
<1>9. CASE OutTake
  <2>1. /\ msgOutChan # <<>> /\ msgOutChan' = Tail(msgOutChan) /\ out = "none"
        /\ hand'["outgoing"] = Head(msgOutChan) /\ wire' = wire /\ accepted' = accepted
    BY <1>1, <1>2, <1>9 DEF OutTake, FlagsOK, texts
  <2>2. RangeOf(msgOutChan) = {Head(msgOutChan)} \cup RangeOf(msgOutChan')
    BY <1>1, <2>1, TailRange
  <2>3. \A v, w \in Writers :
          Before(msgOutChan, v, w) <=>
            Before(msgOutChan', v, w) \/ (v = Head(msgOutChan) /\ w \in RangeOf(msgOutChan'))
    BY <1>1, <2>1, TailBefore
  <2> QED
    BY <1>2, <1>4, <2>1, <2>2, <2>3 DEF Ahead
<1>10. CASE OutSend
  <2>1. /\ msgOutChan' = msgOutChan /\ accepted' = accepted /\ hand'["outgoing"] = "none"
        /\ wire' = IF out \in Writers THEN Append(wire, out) ELSE wire
    BY <1>1, <1>2, <1>3, <1>10 DEF OutSend, WriteOk, WriteClosed, WriteBroken
  <2>2. CASE out \in Writers
    <3>1. RangeOf(wire') = RangeOf(wire) \cup {out}
      BY <1>1, <2>1, <2>2, AppendRange
    <3>2. \A v, w \in Writers :
            Before(wire', v, w) <=> Before(wire, v, w) \/ (w = out /\ v \in RangeOf(wire))
      BY <1>1, <2>1, <2>2, AppendBefore
    <3> QED
      BY <1>2, <1>4, <2>1, <2>2, <3>1, <3>2 DEF Ahead
  <2>3. CASE out \notin Writers
    BY <1>2, <1>4, <2>1, <2>3 DEF Ahead
  <2> QED
    BY <2>2, <2>3
<1>11. \A t \in Senders : ~DrainTake(t) /\ ~DrainSend(t)
  BY <1>3 DEF DrainTake, DrainSend
<1> QED
  BY <1>5, <1>6, <1>7, <1>8, <1>9, <1>10, <1>11 DEF TextSteps

\* Until the transport begins to close, no accepted text is lost or overtaken.
THEOREM OrderKept == Spec => []InOrderUntilClose
<1>1. Init => FlagsOK /\ InOrderUntilClose
  <2> SUFFICES ASSUME Init PROVE InOrderUntilClose
    BY InitFlags
  <2>1. wire = <<>> /\ msgOutChan = <<>> /\ accepted = <<>> /\ hand["outgoing"] = "none"
    BY DEF Init, Senders
  <2>2. RangeOf(<<>>) = {} /\ \A v, w : ~Before(<<>>, v, w)
    BY DEF RangeOf, Before
  <2>3. "none" \notin Writers
    BY ConstantsAssumption
  <2> QED
    BY <2>1, <2>2, <2>3 DEF InOrderUntilClose, Ahead
<1>2. IInv /\ FlagsOK /\ InOrderUntilClose /\ [Next]_vars => FlagsOK' /\ InOrderUntilClose'
  BY StepFlags, StepOrder
<1> QED
  BY <1>1, <1>2, Invariance, PTL DEF Spec
-----------------------------------------------------------------------------
(* WsTransport implements TransportPromise                                 *)

\* A text that is accepted was not before: each writer has one.
LEMMA Accepts ==
  ASSUME IInv, OnceOK, NEW w \in Writers, WriteSend(w), Phase' = Phase
  PROVE  Promise!Accept(w)
<1>1. /\ pc[w] = "send" /\ accepted' = Append(accepted, w) /\ wire' = wire
  BY DEF WriteSend, texts
<1>2. ~doneChan
  BY <1>1, ConstantsAssumption DEF IInv, LockOK, MainOK
<1>3. w \notin RangeOf(accepted)
  BY <1>1 DEF OnceOK, OnePlace
<1> QED
  BY <1>1, <1>2, <1>3, Phase' = Phase DEF Promise!Accept, Promise!TextsOf, RangeOf, Phase

\* What is sent was accepted and is sent for the first time; as long as the
\* transport is undisturbed it is the outgoing goroutine that sends it, after
\* everything that was accepted before it.
LEMMA Sends ==
  ASSUME IInv, FlagsOK, OnceOK, InOrderUntilClose, NEW t \in Senders, hand[t] \in Writers,
         t = "closer" => closeChan, WriteOk(hand[t]), accepted' = accepted, Phase' = Phase
  PROVE  \E w \in Writers : Promise!Send(w)
<1> DEFINE w == hand[t]
<1>1. w \in Writers /\ wire' = Append(wire, w) /\ connOpen
  BY DEF WriteOk, FlagsOK, IInv, TypeOK
<1>2. Phase # "over"
  BY <1>1 DEF IInv, MainOK, Phase
<1>3. w \in RangeOf(accepted) \ RangeOf(wire) /\ w \notin RangeOf(msgOutChan)
  BY <1>1 DEF OnceOK, OnePlace
<1>4. Phase = "open" => \A v \in Writers : Before(accepted, v, w) => v \in RangeOf(wire)
  <2> SUFFICES ASSUME Phase = "open", NEW v \in Writers, Before(accepted, v, w)
               PROVE  v \in RangeOf(wire)
    OBVIOUS
  <2>1. Undisturbed
    BY DEF Phase
  <2>2. t = "outgoing"
    BY <2>1 DEF Undisturbed, Senders
  <2>3. Ahead(v, w)
    BY <1>1, <2>1 DEF InOrderUntilClose
  <2>4. CASE Before(wire, v, w)
    BY <2>4 DEF Before, RangeOf
  <2>5. ~Before(msgOutChan, v, w)
    BY <1>3 DEF Before, RangeOf
  <2> QED
    BY <1>3, <2>2, <2>3, <2>4, <2>5 DEF Ahead
<1> HIDE DEF w
<1>5. Promise!Send(w)
  BY <1>1, <1>2, <1>3, <1>4, accepted' = accepted, Phase' = Phase
  DEF Promise!Send, Promise!TextsOf, Promise!Earlier, RangeOf, Before
<1> QED
  BY <1>1, <1>5

\* It is process alone that ends the transport, as its last step.
LEMMA OnlyMainEnds ==
  ASSUME [Next]_vars
  PROVE  doneChan' = doneChan \/ MainSignals
<1> USE DEF signals
<1>1. CASE Environment \/ SessionTakes
  BY <1>1 DEF Environment, CtxCancel, AudioClose, SessionTakes
<1>2. ASSUME NEW w \in Writers, Write(w) PROVE doneChan' = doneChan
  BY <1>2 DEF Write, WriteLock, WriteSend
<1>3. CASE Main
  BY <1>3 DEF Main, MainWakes, MainClosesConn, MainClosesControl
<1>4. CASE Reader \/ ReaderSteps
  BY <1>4 DEF Reader, ReadFrame, ReadClose, ReaderSteps, PushFrame, ReadError
<1>5. CASE AudioRead \/ SenderSteps
  BY <1>5 DEF AudioRead, SenderSteps, AudioSend, AudioEnds
<1>6. CASE ProcessorSteps \/ AudioWritten \/ AudioWriteFails
  BY <1>6 DEF ProcessorSteps, ProcessFrame, ProcessorStops, WriteInLock, WriteInSend,
              AudioWriteFails, AudioWritten
<1>7. CASE Outgoing \/ PingTick
  BY <1>7 DEF Outgoing, OutTake, OutSend, PingSend, OutDone, PingTick
<1>8. ASSUME NEW t \in Senders, CloseStart(t) \/ Close(t) PROVE doneChan' = doneChan
  BY <1>8 DEF CloseStart, Close, DrainTake, DrainSend, DrainEnds, CloseFrame, CloseOk,
              CloseTimeout
<1>9. CASE UNCHANGED vars
  BY <1>9 DEF vars
<1> QED
  BY <1>1, <1>2, <1>3, <1>4, <1>5, <1>6, <1>7, <1>8, <1>9 DEF Next

\* The phase only moves on, one at a time: process ends what is closing.
LEMMA PhaseMoves ==
  ASSUME IInv, FlagsOK, [Next]_vars
  PROVE  \/ Phase' = Phase
         \/ Phase = "open" /\ Phase' = "closing"
         \/ Phase = "closing" /\ Phase' = "over"
<1>1. doneChan \in BOOLEAN /\ doneChan' \in BOOLEAN
  BY StepIInv DEF IInv, TypeOK
<1>2. CASE MainSignals
  <2>1. ~doneChan /\ ~Undisturbed
    BY <1>2 DEF MainSignals, IInv, MainOK, FlagsOK, Undisturbed
  <2>2. doneChan'
    BY <1>2 DEF MainSignals
  <2> QED
    BY ONLY <2>1, <2>2 DEF Phase
<1>3. CASE doneChan' = doneChan
  <2>1. Undisturbed' => Undisturbed
    BY DisturbedStays
  <2> QED
    BY ONLY <1>3, <2>1 DEF Phase
<1> QED
  BY <1>2, <1>3, OnlyMainEnds

LEMMA StepPromise ==
  ASSUME IInv, FlagsOK, OnceOK, InOrderUntilClose, [Next]_vars
  PROVE  [Promise!PNext]_(Promise!pvars)
<1>1. ASSUME NEW w \in Writers, WriteSend(w) PROVE Promise!PNext
  <2>1. Phase' = Phase
    BY <1>1 DEF WriteSend, env, conn, signals, Phase, Undisturbed
  <2> QED
    BY <1>1, <2>1, Accepts DEF Promise!PNext
<1>2. ASSUME NEW t \in Senders, t = "closer" => closeChan, accepted' = accepted,
             UNCHANGED <<env, signals>>, WriteOk(hand[t]), hand[t] \in Writers
      PROVE  Promise!PNext
  <2>1. writeErr' = writeErr
    BY <1>2, ConstantsAssumption DEF WriteOk
  <2>2. Phase' = Phase
    BY <1>2, <2>1 DEF env, signals, Phase, Undisturbed
  <2>3. \E w \in Writers : Promise!Send(w)
    BY <1>2, <2>2, Sends
  <2> QED
    BY <2>3 DEF Promise!PNext
<1>3. CASE wire' = wire /\ accepted' = accepted
  <2>1. CASE Phase' = Phase
    BY <1>3, <2>1 DEF Promise!pvars
  <2>2. CASE Phase = "open" /\ Phase' = "closing"
    BY <1>3, <2>2 DEF Promise!PNext, Promise!Disturb
  <2>3. CASE Phase = "closing" /\ Phase' = "over"
    BY <1>3, <2>3 DEF Promise!PNext, Promise!End
  <2> QED
    BY <2>1, <2>2, <2>3, PhaseMoves
<1>4. CASE OutSend
  <2>1. /\ accepted' = accepted /\ UNCHANGED <<env, signals>>
        /\ wire' = wire \/ (WriteOk(hand["outgoing"]) /\ hand["outgoing"] \in Writers)
    BY <1>4 DEF OutSend, WriteOk, WriteClosed, WriteBroken
  <2> QED
    BY <1>2, <1>3, <2>1 DEF Senders
<1>5. ASSUME NEW t \in Senders, DrainSend(t) PROVE [Promise!PNext]_(Promise!pvars)
  <2>1. /\ accepted' = accepted /\ UNCHANGED <<env, signals>> /\ closeChan
        /\ wire' = wire \/ (WriteOk(hand[t]) /\ hand[t] \in Writers)
    BY <1>5 DEF DrainSend, WriteOk, WriteClosed, WriteBroken, FlagsOK
  <2> QED
    BY <1>2, <1>3, <2>1
<1>6. ASSUME NEW t \in Senders, DrainTake(t) PROVE wire' = wire /\ accepted' = accepted
  BY <1>6 DEF DrainTake, texts
<1> QED
  BY <1>1, <1>3, <1>4, <1>5, <1>6, StepKinds DEF TextSteps, Stays, Queues, OutTake, texts

\* What the writers of a session see of the transport is what TransportPromise
\* allows, however its goroutines, Close and the network interleave.
THEOREM Implements == Spec => KeepsPromise
<1>1. Init => FlagsOK /\ OnceOK /\ Promise!PInit
  BY InitFlags DEF Init, Promise!PInit, Phase, Undisturbed
<1>2. IInv /\ FlagsOK /\ OnceOK /\ [Next]_vars => FlagsOK' /\ OnceOK'
  BY StepFlags, StepOnce
<1>3. IInv /\ FlagsOK /\ OnceOK /\ InOrderUntilClose /\ [Next]_vars
        => [Promise!PNext]_(Promise!pvars)
  BY StepPromise
<1> QED
  BY <1>1, <1>2, <1>3, Invariance, OrderKept, PTL DEF Spec, KeepsPromise, Promise!PSpec

-----------------------------------------------------------------------------
(* Who is at work, and who waits for whom                                  *)

\* Where each goroutine can be.
PlacesOK ==
  /\ \A w \in Writers : pc[w] \in {"idle", "send", "ok", "err"}
  /\ pc["sender"] \in {"select", "frame", "end"}
  /\ pc["processor"] \in {"select", "text", "insend", "binary", "end"}
  /\ pc["outgoing"] \in {"select", "frame", "ping", "drain", "closeframe", "wait", "end", "err"}
  /\ pc["closer"] \in {"idle", "drain", "closeframe", "wait", "end", "err"}

\* The reader never leaves its loop unseen; the outgoing goroutine does after
\* a failed write, the sender at the end of the audio.
EndsOK ==
  /\ PlacesOK
  /\ pc["reader"] = "end" => closeChan
  /\ pc["outgoing"] \in {"end", "err"} => closeChan \/ ctxDone \/ writeErr = "broken"
  /\ pc["sender"] = "end" => closeChan \/ ctxDone \/ ~audioOpen

LEMMA StepEnds == IInv /\ FlagsOK /\ EndsOK /\ [Next]_vars => EndsOK'
<1> SUFFICES ASSUME IInv, FlagsOK, EndsOK, [Next]_vars PROVE EndsOK'
  OBVIOUS
<1>1. /\ pc \in [Threads -> PCs]
      /\ closeChan \in BOOLEAN /\ ctxDone \in BOOLEAN /\ audioOpen \in BOOLEAN
      /\ writeErr \in {"none", "closed", "broken"}
  BY Typing DEF IInv, TypeOK
<1>2. /\ Writers \subseteq Threads
      /\ {"main", "reader", "sender", "processor", "outgoing", "closer"} \subseteq Threads
      /\ \A t \in {"main", "reader", "sender", "processor", "outgoing", "closer"} : t \notin Writers
      /\ Senders = {"outgoing", "closer"}
  BY ConstantsAssumption DEF Threads, Senders
<1>3. /\ writeErr = "closed" \/ ~connOpen \/ doneChan \/ inputState # "open" => closeChan \/ ctxDone
      /\ \A t \in Senders : pc[t] \in {"drain", "closeframe", "wait"} => closeChan
  BY DEF FlagsOK, IInv, MainOK
<1> USE <1>1, <1>2 DEF EndsOK, PlacesOK, Goto, env, conn, signals, control, texts
<1>4. CASE Environment \/ SessionTakes
  BY <1>4 DEF Environment, CtxCancel, AudioClose, SessionTakes
<1>5. ASSUME NEW w \in Writers, Write(w) PROVE EndsOK'
  <2>1. CASE WriteLock(w)
    BY <2>1 DEF WriteLock
  <2>2. CASE WriteSend(w)
    BY <2>2 DEF WriteSend
  <2> QED
    BY <1>5, <2>1, <2>2 DEF Write
<1>6. CASE Main
  BY <1>6 DEF Main, MainWakes, MainClosesConn, MainClosesControl, MainSignals
<1>7. CASE Reader \/ ReaderSteps
  BY <1>7 DEF Reader, ReadFrame, ReadClose, ReaderSteps, PushFrame, ReadError
<1>8. CASE AudioRead \/ SenderSteps
  BY <1>3, <1>8 DEF AudioRead, SenderSteps, AudioSend, AudioEnds
<1>9. CASE ProcessorSteps \/ AudioWritten \/ AudioWriteFails
  <2>1. CASE ProcessFrame
    <3>1. Head(msgInChan) \in {"text", "binary"}
      BY <2>1 DEF ProcessFrame, IInv, TypeOK
    <3> QED
      BY <2>1, <3>1 DEF ProcessFrame
  <2> QED
    BY <1>3, <1>9, <2>1 DEF ProcessorSteps, ProcessorStops, WriteInLock, WriteInSend,
                            AudioWriteFails, AudioWritten
<1>10. CASE OutTake \/ PingSend \/ OutDone \/ PingTick
  BY <1>3, <1>10 DEF OutTake, PingSend, OutDone, PingTick
<1>11. CASE OutSend
  <2>1. /\ \A t \in Threads \ {"outgoing"} : pc'[t] = pc[t]
        /\ closeChan' = closeChan /\ ctxDone' = ctxDone /\ audioOpen' = audioOpen
    BY <1>11 DEF OutSend
  <2>2. pc'["outgoing"] = "select" \/ (pc'["outgoing"] = "end" /\ (writeErr = "closed" \/ writeErr' = "broken"))
    BY <1>11 DEF OutSend, WriteOk, WriteClosed, WriteBroken
  <2> QED
    BY <1>3, <2>1, <2>2
<1>12. ASSUME NEW t \in Senders, CloseStart(t) PROVE EndsOK'
  BY <1>3, <1>12 DEF CloseStart
<1>13. ASSUME NEW t \in Senders, DrainTake(t) \/ DrainSend(t) PROVE EndsOK'
  BY <1>3, <1>13 DEF DrainTake, DrainSend
<1>14. ASSUME NEW t \in Senders, DrainEnds(t) \/ CloseFrame(t) \/ CloseOk(t) \/ CloseTimeout(t)
       PROVE  EndsOK'
  BY <1>3, <1>14 DEF DrainEnds, CloseFrame, CloseOk, CloseTimeout
<1>15. CASE UNCHANGED vars
  BY <1>15 DEF vars
<1> QED
  BY <1>4, <1>5, <1>6, <1>7, <1>8, <1>9, <1>10, <1>11, <1>12, <1>13, <1>14, <1>15
  DEF Next, Outgoing, Close

\* At all times the flags hold and nobody has left for no reason.
LEMMA AlwaysEnds == Spec => [](IInv /\ FlagsOK /\ EndsOK)
<1>1. Init => FlagsOK /\ EndsOK
  <2> SUFFICES ASSUME Init PROVE EndsOK
    BY InitFlags
  <2>1. /\ pc["reader"] = "read" /\ pc["sender"] = "select" /\ pc["processor"] = "select"
        /\ pc["outgoing"] = "select" /\ pc["closer"] = "idle"
        /\ \A w \in Writers : pc[w] = "idle"
    BY ConstantsAssumption DEF Init, Threads, Senders
  <2> QED
    BY <2>1 DEF EndsOK, PlacesOK
<1>2. IInv /\ FlagsOK /\ EndsOK /\ [Next]_vars => FlagsOK' /\ EndsOK'
  BY StepFlags, StepEnds
<1> QED
  BY <1>1, <1>2, Invariance, PTL DEF Spec

\* Until the transport closes or the context is cancelled, process and its
\* goroutines (transport.go, process) are at work and every Write finds the
\* control channel open. There are three exceptions: the outgoing goroutine has
\* left if a write failed, the sender if the audio has ended, and the processor.
AllAtWork ==
  ~closeChan /\ ~ctxDone =>
    /\ pc["main"] = "run" /\ connOpen /\ inputState = "open" /\ writeErr # "closed"
    /\ pc["reader"] # "end"
    /\ pc["outgoing"] \in {"end", "err"} => writeErr = "broken"
    /\ pc["sender"] = "end" => ~audioOpen

\* The processor leaves such a transport only from audio.Write, which failed
\* (transport.go:192-198): never from a text, and not because others have left.
OnlyAudioEndsProcessor ==
  [][pc["processor"] # "end" /\ pc'["processor"] = "end" /\ ~closeChan /\ ~ctxDone =>
       pc["processor"] = "binary"]_vars

\* A transport that works by half, reading and not writing or the other way
\* round, comes only from a failed write or a failed audio.Write.
THEOREM WhoLeavesEarly == Spec => []AllAtWork /\ OnlyAudioEndsProcessor
<1>1. IInv /\ FlagsOK /\ EndsOK => AllAtWork
  <2> SUFFICES ASSUME IInv, FlagsOK, EndsOK, ~closeChan, ~ctxDone
               PROVE  /\ pc["main"] = "run" /\ connOpen /\ inputState = "open"
                      /\ writeErr # "closed" /\ pc["reader"] # "end"
                      /\ pc["outgoing"] \in {"end", "err"} => writeErr = "broken"
                      /\ pc["sender"] = "end" => ~audioOpen
    BY DEF AllAtWork
  <2>1. pc["main"] = "run" /\ connOpen /\ inputState = "open" /\ writeErr # "closed"
    BY DEF FlagsOK, IInv, MainOK
  <2>2. /\ pc["reader"] # "end"
        /\ pc["outgoing"] \in {"end", "err"} => writeErr = "broken"
        /\ pc["sender"] = "end" => ~audioOpen
    BY DEF EndsOK
  <2> QED
    BY <2>1, <2>2
<1>2. ASSUME IInv, FlagsOK, [Next]_vars, pc["processor"] # "end", pc'["processor"] = "end",
             ~closeChan, ~ctxDone
      PROVE  pc["processor"] = "binary"
  <2>1. pc["main"] = "run" /\ inputState = "open" /\ ~doneChan
    BY <1>2 DEF FlagsOK, IInv, MainOK
  <2>2. pc \in [Threads -> PCs]
    BY <1>2, Typing
  <2>3. /\ {"main", "reader", "sender", "processor", "outgoing", "closer"} \subseteq Threads
        /\ Writers \subseteq Threads /\ "processor" \notin Writers
        /\ Senders = {"outgoing", "closer"}
    BY ConstantsAssumption DEF Threads, Senders
  <2>4. pc' # pc
    BY <1>2
  <2>5. /\ ~Environment /\ ~SessionTakes
        /\ \A w \in Writers : ~Write(w)
    BY <1>2, <2>2, <2>3 DEF Environment, CtxCancel, AudioClose, SessionTakes, Write, WriteLock,
                            WriteSend, Goto
  <2>6. ~Main /\ ~Reader /\ ~ReaderSteps /\ ~AudioRead /\ ~SenderSteps
    BY <1>2, <2>2, <2>3
    DEF Main, MainWakes, MainClosesConn, MainClosesControl, MainSignals, Reader, ReadFrame,
        ReadClose, ReaderSteps, PushFrame, ReadError, AudioRead, SenderSteps, AudioSend,
        AudioEnds, Goto
  <2>7. ~Outgoing /\ ~PingTick /\ \A t \in Senders : ~CloseStart(t) /\ ~Close(t)
    BY <1>2, <2>2, <2>3
    DEF Outgoing, OutTake, OutSend, PingSend, OutDone, PingTick, CloseStart, Close, DrainTake,
        DrainSend, DrainEnds, CloseFrame, CloseOk, CloseTimeout, Goto
  <2>8. CASE ProcessorSteps \/ AudioWritten \/ AudioWriteFails
    <3>1. ProcessFrame => pc'["processor"] # "end"
      BY <2>2, <2>3, <1>2 DEF ProcessFrame, Goto, IInv, TypeOK
    <3>2. ~ProcessorStops /\ ~WriteInLock /\ ~WriteInSend
      BY <1>2, <2>1, <2>2, <2>3 DEF ProcessorStops, WriteInLock, WriteInSend, Goto
    <3> QED
      BY <1>2, <2>8, <3>1, <3>2 DEF ProcessorSteps, AudioWritten, AudioWriteFails
  <2> QED
    BY <1>2, <2>4, <2>5, <2>6, <2>7, <2>8 DEF Next, vars
<1>3. IInv /\ FlagsOK /\ [Next]_vars =>
        [pc["processor"] # "end" /\ pc'["processor"] = "end" /\ ~closeChan /\ ~ctxDone =>
           pc["processor"] = "binary"]_vars
  BY <1>2
<1> QED
  BY <1>1, <1>3, AlwaysEnds, PTL DEF Spec, OnlyAudioEndsProcessor

\* Wherever the goroutines come to rest, it is one of the sends that wait for
\* room whatever happens that keeps one from its end.
THEOREM KeepsMoving == Spec => []RestIsExplained
<1>1. ASSUME IInv, FlagsOK, EndsOK, InOrderUntilClose, Stalled PROVE RestIsExplained
  <2> USE <1>1
  <2>1. OutFull => msgOutChan # <<>>
    BY ConstantsAssumption DEF OutFull
  <2>2. OutFull => NobodySends
    BY <2>1 DEF NobodySends, EndsOK, PlacesOK, Stalled, Senders
  <2>3. \A w \in Writers : pc[w] = "send" => mu = w /\ NobodySends
    BY <2>2 DEF Stalled, IInv, LockOK
  <2>4. mu # "free" => MuKept
    <3>1. mu \in Writers => MuKept
      BY <2>3 DEF IInv, LockOK, MuKept
    <3>2. mu = "processor" => MuKept
      BY DEF IInv, LockOK, MuKept, Stalled
    <3> QED
      BY <3>1, <3>2 DEF IInv, TypeOK
  <2>5. closeChan \/ ctxDone => doneChan \/ (pc["main"] = "ccclose" /\ MuKept)
    BY <2>4 DEF Stalled, IInv, MainOK
  <2>6. pc["closer"] \in {"idle", "end", "err"} \/ (pc["closer"] = "closeframe" /\ NobodySends)
    BY <2>2 DEF EndsOK, PlacesOK, Stalled, Senders
  <2>7. ASSUME doneChan, ~audioOpen
        PROVE  /\ pc["sender"] = "end" /\ pc["processor"] = "end"
               /\ pc["outgoing"] \in {"end", "err"} \/ NobodySends
               /\ pc["reader"] = "end" \/ (pc["reader"] = "push" /\ InFull)
    <3>1. pc["main"] = "end" /\ ~connOpen /\ mu = "free" /\ pc["processor"] # "insend"
      BY <2>7 DEF IInv, MainOK, LockOK
    <3>2. pc["sender"] = "end" /\ pc["processor"] = "end"
      BY <2>7, <3>1 DEF EndsOK, PlacesOK, Stalled
    <3>3. pc["outgoing"] \in {"end", "err"} \/ NobodySends
      BY <2>2, <2>7 DEF EndsOK, PlacesOK, Stalled, Senders
    <3>4. pc["reader"] = "end" \/ (pc["reader"] = "push" /\ InFull)
      BY <3>1 DEF IInv, HandOK, Stalled
    <3> QED
      BY <3>2, <3>3, <3>4
  <2>8. pc["processor"] = "text" \/ (\E w \in Writers : pc[w] = "send") => MuKept
    <3>1. pc["processor"] = "text" => mu # "free"
      BY DEF Stalled
    <3>2. (\E w \in Writers : pc[w] = "send") => MuKept
      BY <2>3 DEF MuKept
    <3> QED
      BY <2>4, <3>1, <3>2
  <2>9. Undisturbed => RangeOf(wire) = RangeOf(accepted) \/ pc["outgoing"] = "ping"
    <3> SUFFICES ASSUME Undisturbed, pc["outgoing"] # "ping"
                 PROVE  RangeOf(wire) = RangeOf(accepted)
      OBVIOUS
    <3>1. pc["outgoing"] = "select"
      BY DEF EndsOK, PlacesOK, Stalled, Senders, Undisturbed, FlagsOK
    <3>2. msgOutChan = <<>> /\ hand["outgoing"] = "none"
      BY <3>1 DEF Stalled, FlagsOK
    <3>3. RangeOf(msgOutChan) = {}
      BY <3>2 DEF RangeOf
    <3>4. RangeOf(accepted) = (RangeOf(wire) \cup {"none"} \cup {}) \cap Writers
      BY <3>2, <3>3 DEF InOrderUntilClose
    <3>5. RangeOf(wire) \subseteq Writers /\ "none" \notin Writers
      BY Typing, ConstantsAssumption
    <3> QED
      BY <3>4, <3>5
  <2> QED
    BY <2>5, <2>6, <2>7, <2>8, <2>9 DEF RestIsExplained
<1>2. IInv /\ FlagsOK /\ EndsOK /\ InOrderUntilClose => RestIsExplained
  BY <1>1 DEF RestIsExplained
<1> QED
  BY <1>2, AlwaysEnds, OrderKept, PTL
=============================================================================
