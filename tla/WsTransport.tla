---------------------------- MODULE WsTransport ----------------------------
(***************************************************************************)
(* One ws.WebsocketTransport (transport/ws/transport.go, control.go): the  *)
(* five goroutines of process, the goroutines that call Write, and the     *)
(* session's Close.  They share three bounded channels, the control        *)
(* channel's mutex (held while a send blocks), closeChan and doneChan.     *)
(*                                                                         *)
(* A text message is the goroutine that writes it; audio chunks, pings and *)
(* the close frame are told apart by their type only.  The socket is what  *)
(* the code sees of it: reads return a frame, a close frame or an error,   *)
(* writes succeed or fail (gorilla/websocket).                             *)
(***************************************************************************)
EXTENDS Naturals, Sequences, FiniteSets

CONSTANTS
  Writers,   \* goroutines of the session, each writes one text message
  OutCap,    \* capacity of msgOutChan (16 in the code)
  InCap,     \* capacity of msgInChan (16)
  InputCap,  \* capacity of the control channel's input (16)
  MaxFrames  \* bound: audio chunks to send, ping ticks and frames from the
             \* peer, all together

ASSUME ConstantsAssumption ==
  /\ {OutCap, InCap, InputCap} \subseteq Nat \ {0}
  /\ MaxFrames \in Nat
  /\ Writers \cap {"audio", "ping", "close", "none", "main", "reader", "sender",
                   "processor", "outgoing", "closer", "free", "text", "binary"} = {}

VARIABLES
  ctxDone,     \* the context of process (Run's) is cancelled
  audioOpen,   \* the audio ring buffers are open
  connOpen,    \* conn.Close has not been called
  writeErr,    \* the error of the connection's writes: "none", "closed" (a close
               \* frame was written, or conn.Close called), "broken"; the first stays
  closeChan,   \* TRUE once closed (closeOnce: closing again does nothing)
  doneChan,    \* TRUE once closed
  input,       \* the control channel's input: its length, if open
  inputState,  \* "open", "closed", or "panic": sent to or closed when closed
  mu,          \* holder of controlChannel.mu, or "free"
  msgOutChan,  \* queued frames: a writer's text, "audio", "ping" or "close"
  msgInChan,   \* queued frames from the socket: "text" or "binary"
  hand,        \* the frame a goroutine took from one place, not yet in the next
  left,        \* how many of MaxFrames are still to come
  accepted,    \* texts that Write has accepted, in order
  wire,        \* texts written to the socket, in order
  pc           \* where each goroutine is

vars == <<ctxDone, audioOpen, connOpen, writeErr, closeChan, doneChan, input,
          inputState, mu, msgOutChan, msgInChan, hand, left, accepted, wire, pc>>

env == <<ctxDone, audioOpen>>
conn == <<connOpen, writeErr>>
signals == <<closeChan, doneChan>>
control == <<input, inputState>>
texts == <<accepted, wire>>

Senders == {"outgoing", "closer"}  \* the goroutines that take from msgOutChan
Threads == Writers \cup Senders \cup {"main", "reader", "sender", "processor"}
PCs == {"idle", "send", "ok", "err", "run", "connclose", "ccclose", "signal", "read",
        "push", "select", "text", "insend", "binary", "frame", "drain", "closeframe",
        "wait", "ping", "end"}
RangeOf(s) == {s[i] : i \in 1..Len(s)}

TypeOK ==
  /\ ctxDone \in BOOLEAN /\ audioOpen \in BOOLEAN
  /\ connOpen \in BOOLEAN /\ writeErr \in {"none", "closed", "broken"}
  /\ closeChan \in BOOLEAN /\ doneChan \in BOOLEAN
  /\ input \in 0..InputCap
  /\ inputState \in {"open", "closed", "panic"}
  /\ mu \in Writers \cup {"processor", "free"}
  /\ msgOutChan \in Seq(Writers \cup {"audio", "ping", "close"}) /\ Len(msgOutChan) <= OutCap
  /\ msgInChan \in Seq({"text", "binary"}) /\ Len(msgInChan) <= InCap
  /\ hand \in [Senders \cup {"reader"} ->
                 Writers \cup {"audio", "ping", "close", "text", "binary", "none"}]
  /\ left \in 0..MaxFrames
  /\ accepted \in Seq(Writers) /\ wire \in Seq(Writers)
  /\ pc \in [Threads -> PCs]

Init ==
  /\ ctxDone = FALSE /\ audioOpen = TRUE
  /\ connOpen = TRUE /\ writeErr = "none"
  /\ closeChan = FALSE /\ doneChan = FALSE
  /\ input = 0 /\ inputState = "open" /\ mu = "free"
  /\ msgOutChan = <<>> /\ msgInChan = <<>>
  /\ hand = [t \in Senders \cup {"reader"} |-> "none"]
  /\ left = MaxFrames
  /\ accepted = <<>> /\ wire = <<>>
  /\ pc = [t \in Threads |->
             CASE t = "main" -> "run" [] t = "reader" -> "read"
               [] t \in {"sender", "processor", "outgoing"} -> "select" [] OTHER -> "idle"]

Goto(t, label) == pc' = [pc EXCEPT ![t] = label]
OutFull == Len(msgOutChan) >= OutCap
InFull == Len(msgInChan) >= InCap
InputFull == input >= InputCap

\* Mutant of PutOut: a channel without bound.
PutOutUnbounded(m) == msgOutChan' = Append(msgOutChan, m)

\* A send to msgOutChan waits while it is full.
PutOut(m) == ~OutFull /\ msgOutChan' = Append(msgOutChan, m)
-----------------------------------------------------------------------------
(* The environment: the session's context, the audio handler that finalize *)
(* runs before the transport's Close, and the session's reader, which takes *)
(* from input as long as it lives.                                         *)

CtxCancel ==
  /\ ~ctxDone /\ ctxDone' = TRUE
  /\ UNCHANGED <<audioOpen, conn, signals, control, mu, msgOutChan, msgInChan, hand,
                 left, texts, pc>>

AudioClose ==
  /\ audioOpen /\ audioOpen' = FALSE
  /\ UNCHANGED <<ctxDone, conn, signals, control, mu, msgOutChan, msgInChan, hand,
                 left, texts, pc>>

SessionTakes ==
  /\ input > 0 /\ input' = input - 1
  /\ UNCHANGED <<env, conn, signals, inputState, mu, msgOutChan, msgInChan, hand, left,
                 texts, pc>>
-----------------------------------------------------------------------------
(* Write: controlChannel.writeOut.  The lock is kept while the send waits. *)

\* Mutant of WriteLock: closed is not checked.
WriteLockUnchecked(w) ==
  /\ pc[w] = "idle" /\ mu = "free"
  /\ mu' = w
  /\ Goto(w, "send")
  /\ UNCHANGED <<env, conn, signals, control, msgOutChan, msgInChan, hand, left, texts>>

WriteLock(w) ==
  /\ pc[w] = "idle" /\ mu = "free"
  /\ IF inputState = "open" THEN mu' = w /\ Goto(w, "send")
                            ELSE mu' = mu /\ Goto(w, "err")
  /\ UNCHANGED <<env, conn, signals, control, msgOutChan, msgInChan, hand, left, texts>>

\* Mutant of WriteSend: a message that finds the channel full is dropped.
WriteSendOrDrop(w) ==
  /\ pc[w] = "send" /\ (PutOut(w) \/ (OutFull /\ UNCHANGED msgOutChan))
  /\ accepted' = Append(accepted, w)
  /\ mu' = "free"
  /\ Goto(w, "ok")
  /\ UNCHANGED <<env, conn, signals, control, msgInChan, hand, left, wire>>

\* Mutant of WriteSend: the lock is not given back.
WriteSendKeepsLock(w) ==
  /\ pc[w] = "send" /\ PutOut(w)
  /\ accepted' = Append(accepted, w)
  /\ Goto(w, "ok")
  /\ UNCHANGED <<env, conn, signals, control, mu, msgInChan, hand, left, wire>>

WriteSend(w) ==
  /\ pc[w] = "send" /\ PutOut(w)
  /\ accepted' = Append(accepted, w)
  /\ mu' = "free"
  /\ Goto(w, "ok")
  /\ UNCHANGED <<env, conn, signals, control, msgInChan, hand, left, wire>>
-----------------------------------------------------------------------------
(* process itself: waits for the end, then closes the connection, the      *)
(* control channel and doneChan, in this order.                            *)

MainWakes ==
  /\ pc["main"] = "run" /\ (ctxDone \/ closeChan)
  /\ Goto("main", "connclose")
  /\ UNCHANGED <<env, conn, signals, control, mu, msgOutChan, msgInChan, hand, left, texts>>

MainClosesConn ==
  /\ pc["main"] = "connclose"
  /\ connOpen' = FALSE
  /\ writeErr' = IF writeErr = "none" THEN "closed" ELSE writeErr
  /\ Goto("main", "ccclose")
  /\ UNCHANGED <<env, signals, control, mu, msgOutChan, msgInChan, hand, left, texts>>

MainClosesControl ==
  /\ pc["main"] = "ccclose" /\ mu = "free"
  /\ inputState' = IF inputState = "open" THEN "closed" ELSE "panic"
  /\ Goto("main", "signal")
  /\ UNCHANGED <<env, conn, signals, input, mu, msgOutChan, msgInChan, hand, left, texts>>

MainSignals ==
  /\ pc["main"] = "signal"
  /\ doneChan' = TRUE
  /\ Goto("main", "end")
  /\ UNCHANGED <<env, conn, closeChan, control, mu, msgOutChan, msgInChan, hand, left, texts>>
-----------------------------------------------------------------------------
(* The goroutine that reads the connection.                                *)

ReadFrame(mt) ==
  /\ pc["reader"] = "read" /\ connOpen /\ left > 0
  /\ left' = left - 1
  /\ hand' = [hand EXCEPT !["reader"] = mt]
  /\ Goto("reader", "push")
  /\ UNCHANGED <<env, conn, signals, control, mu, msgOutChan, msgInChan, texts>>

\* The send to msgInChan has no way out.
PushFrame ==
  /\ pc["reader"] = "push" /\ ~InFull
  /\ msgInChan' = Append(msgInChan, hand["reader"])
  /\ hand' = [hand EXCEPT !["reader"] = "none"]
  /\ Goto("reader", "read")
  /\ UNCHANGED <<env, conn, signals, control, mu, msgOutChan, left, texts>>

\* A close frame from the peer is answered by the library's close handler,
\* whatever comes of the answer; then the reader says so (here one step).
ReadClose ==
  /\ pc["reader"] = "read" /\ connOpen
  /\ writeErr' \in IF writeErr = "none" THEN {"closed", "broken"} ELSE {writeErr}
  /\ closeChan' = TRUE
  /\ Goto("reader", "end")
  /\ UNCHANGED <<env, connOpen, doneChan, control, mu, msgOutChan, msgInChan, hand, left, texts>>

\* The connection was closed or the network has failed; or a ping of the peer
\* could not be answered.
ReadError ==
  /\ pc["reader"] = "read"
  /\ closeChan' = TRUE
  /\ Goto("reader", "end")
  /\ UNCHANGED <<env, conn, doneChan, control, mu, msgOutChan, msgInChan, hand, left, texts>>
-----------------------------------------------------------------------------
(* The goroutine that sends audio: blocked in audio.Read, or in a send it  *)
(* gives up when the transport closes.                                     *)

AudioRead ==
  /\ pc["sender"] = "select" /\ audioOpen /\ left > 0
  /\ left' = left - 1
  /\ Goto("sender", "frame")
  /\ UNCHANGED <<env, conn, signals, control, mu, msgOutChan, msgInChan, hand, texts>>

AudioSend ==
  /\ pc["sender"] = "frame" /\ PutOut("audio")
  /\ Goto("sender", "select")
  /\ UNCHANGED <<env, conn, signals, control, mu, msgInChan, hand, left, texts>>

AudioEnds ==
  /\ \/ pc["sender"] = "select" /\ ~audioOpen
     \/ pc["sender"] = "frame" /\ (doneChan \/ closeChan)
  /\ Goto("sender", "end")
  /\ UNCHANGED <<env, conn, signals, control, mu, msgOutChan, msgInChan, hand, left, texts>>
-----------------------------------------------------------------------------
(* The goroutine that processes incoming messages.                         *)

ProcessFrame ==
  /\ pc["processor"] = "select" /\ msgInChan # <<>>
  /\ msgInChan' = Tail(msgInChan)
  /\ Goto("processor", Head(msgInChan))
  /\ UNCHANGED <<env, conn, signals, control, mu, msgOutChan, hand, left, texts>>

ProcessorStops ==
  /\ pc["processor"] = "select" /\ (doneChan \/ ctxDone)
  /\ Goto("processor", "end")
  /\ UNCHANGED <<env, conn, signals, control, mu, msgOutChan, msgInChan, hand, left, texts>>

\* Mutant of WriteInLock: closed is not checked.
WriteInLockUnchecked ==
  /\ pc["processor"] = "text" /\ mu = "free"
  /\ mu' = "processor"
  /\ Goto("processor", "insend")
  /\ UNCHANGED <<env, conn, signals, control, msgOutChan, msgInChan, hand, left, texts>>

\* controlChannel.writeIn: like writeOut, the lock is kept while the send waits.
WriteInLock ==
  /\ pc["processor"] = "text" /\ mu = "free"
  /\ IF inputState = "open" THEN mu' = "processor" /\ Goto("processor", "insend")
                            ELSE mu' = mu /\ Goto("processor", "end")
  /\ UNCHANGED <<env, conn, signals, control, msgOutChan, msgInChan, hand, left, texts>>

WriteInSend ==
  /\ pc["processor"] = "insend"
  /\ IF inputState = "open"
       THEN ~InputFull /\ input' = input + 1 /\ UNCHANGED inputState
       ELSE inputState' = "panic" /\ UNCHANGED input
  /\ mu' = "free"
  /\ Goto("processor", "select")
  /\ UNCHANGED <<env, conn, signals, msgOutChan, msgInChan, hand, left, texts>>

\* audio.Write blocks while the ring buffer is full, for as long as the
\* application does not read. It fails once the audio is closed, and when a
\* Reset (audio.buffer.clear) interrupts it.
AudioWritten ==
  /\ pc["processor"] = "binary" /\ audioOpen
  /\ Goto("processor", "select")
  /\ UNCHANGED <<env, conn, signals, control, mu, msgOutChan, msgInChan, hand, left, texts>>

AudioWriteFails ==
  /\ pc["processor"] = "binary"
  /\ Goto("processor", "end")
  /\ UNCHANGED <<env, conn, signals, control, mu, msgOutChan, msgInChan, hand, left, texts>>
-----------------------------------------------------------------------------
(* sendMessage: one frame to the socket.  It fails with an error that says *)
(* "closed" after a close frame or conn.Close, with another one when the   *)
(* network fails or the peer does not read for the five seconds of the     *)
(* write deadline; after an error all writes of the connection fail.       *)

WriteOk(m) ==
  /\ writeErr = "none"
  /\ writeErr' = IF m = "close" THEN "closed" ELSE "none"
  /\ wire' = IF m \in Writers THEN Append(wire, m) ELSE wire

WriteClosed == writeErr = "closed" /\ UNCHANGED <<writeErr, wire>>

WriteBroken == writeErr # "closed" /\ writeErr' = "broken" /\ UNCHANGED wire

\* The goroutine that sends outgoing messages.
OutTake ==
  /\ pc["outgoing"] = "select" /\ msgOutChan # <<>>
  /\ hand' = [hand EXCEPT !["outgoing"] = Head(msgOutChan)]
  /\ msgOutChan' = Tail(msgOutChan)
  /\ Goto("outgoing", "frame")
  /\ UNCHANGED <<env, conn, signals, control, mu, msgInChan, left, texts>>

OutSend ==
  /\ pc["outgoing"] = "frame"
  /\ \/ WriteOk(hand["outgoing"]) /\ Goto("outgoing", "select")
     \/ (WriteClosed \/ WriteBroken) /\ Goto("outgoing", "end")
  /\ hand' = [hand EXCEPT !["outgoing"] = "none"]
  /\ UNCHANGED <<env, connOpen, signals, control, mu, msgOutChan, msgInChan, left, accepted>>

\* The ticker: the goroutine sends to the channel that only it empties.
PingTick ==
  /\ pc["outgoing"] = "select" /\ left > 0
  /\ left' = left - 1
  /\ Goto("outgoing", "ping")
  /\ UNCHANGED <<env, conn, signals, control, mu, msgOutChan, msgInChan, hand, texts>>

PingSend ==
  /\ pc["outgoing"] = "ping" /\ PutOut("ping")
  /\ Goto("outgoing", "select")
  /\ UNCHANGED <<env, conn, signals, control, mu, msgInChan, hand, left, texts>>

OutDone ==
  /\ pc["outgoing"] = "select" /\ doneChan
  /\ Goto("outgoing", "end")
  /\ UNCHANGED <<env, conn, signals, control, mu, msgOutChan, msgInChan, hand, left, texts>>
-----------------------------------------------------------------------------
(* Close, called by the session's finalize after the audio was closed, and *)
(* by the outgoing goroutine when the context is cancelled.                *)

\* The check of doneChan and doClose; closeChan is closed at most once.
CloseStart(t) ==
  /\ \/ t = "closer" /\ pc[t] = "idle" /\ ~audioOpen
     \/ t = "outgoing" /\ pc[t] = "select" /\ ctxDone
  /\ IF doneChan THEN Goto(t, "end") /\ UNCHANGED closeChan
                 ELSE Goto(t, "drain") /\ closeChan' = TRUE
  /\ UNCHANGED <<env, conn, doneChan, control, mu, msgOutChan, msgInChan, hand, left, texts>>

\* Mutant of DrainTake: looks at the first message without taking it.
DrainPeek(t) ==
  /\ pc[t] = "drain" /\ hand[t] = "none" /\ msgOutChan # <<>>
  /\ hand' = [hand EXCEPT ![t] = Head(msgOutChan)]
  /\ UNCHANGED <<env, conn, signals, control, mu, msgOutChan, msgInChan, left, texts, pc>>

DrainTake(t) ==
  /\ pc[t] = "drain" /\ hand[t] = "none" /\ msgOutChan # <<>>
  /\ hand' = [hand EXCEPT ![t] = Head(msgOutChan)]
  /\ msgOutChan' = Tail(msgOutChan)
  /\ UNCHANGED <<env, conn, signals, control, mu, msgInChan, left, texts, pc>>

\* Errors other than "closed" are logged and the next message is tried.
DrainSend(t) ==
  /\ pc[t] = "drain" /\ hand[t] # "none"
  /\ \/ (WriteOk(hand[t]) \/ WriteBroken) /\ UNCHANGED pc
     \/ WriteClosed /\ Goto(t, "closeframe")
  /\ hand' = [hand EXCEPT ![t] = "none"]
  /\ UNCHANGED <<env, connOpen, signals, control, mu, msgOutChan, msgInChan, left, accepted>>

DrainEnds(t) ==
  /\ pc[t] = "drain" /\ hand[t] = "none" /\ msgOutChan = <<>>
  /\ Goto(t, "closeframe")
  /\ UNCHANGED <<env, conn, signals, control, mu, msgOutChan, msgInChan, hand, left, texts>>

\* This send waits for room, whatever ctx and doneChan say.
CloseFrame(t) ==
  /\ pc[t] = "closeframe" /\ PutOut("close")
  /\ Goto(t, "wait")
  /\ UNCHANGED <<env, conn, signals, control, mu, msgInChan, hand, left, texts>>

CloseOk(t) ==
  /\ pc[t] = "wait" /\ doneChan
  /\ Goto(t, "end")
  /\ UNCHANGED <<env, conn, signals, control, mu, msgOutChan, msgInChan, hand, left, texts>>

\* The five seconds of the context are over.
CloseTimeout(t) ==
  /\ pc[t] = "wait"
  /\ Goto(t, "err")
  /\ UNCHANGED <<env, conn, signals, control, mu, msgOutChan, msgInChan, hand, left, texts>>
-----------------------------------------------------------------------------
Environment == CtxCancel \/ AudioClose
Write(w) == WriteLock(w) \/ WriteSend(w)
Main == MainWakes \/ MainClosesConn \/ MainClosesControl \/ MainSignals
Reader == (\E mt \in {"text", "binary"} : ReadFrame(mt)) \/ ReadClose \/ ReadError
ReaderSteps == PushFrame \/ (~connOpen /\ ReadError)
SenderSteps == AudioSend \/ AudioEnds
ProcessorSteps == \/ ProcessFrame \/ ProcessorStops \/ WriteInLock \/ WriteInSend
                  \/ (~audioOpen /\ AudioWriteFails)
Outgoing == OutTake \/ OutSend \/ PingSend \/ OutDone
Close(t) == \/ DrainTake(t) \/ DrainSend(t) \/ DrainEnds(t) \/ CloseFrame(t)
            \/ CloseOk(t) \/ CloseTimeout(t)

Next ==
  \/ Environment \/ SessionTakes
  \/ \E w \in Writers : Write(w)
  \/ Main \/ Reader \/ ReaderSteps \/ AudioRead \/ SenderSteps
  \/ ProcessorSteps \/ AudioWritten \/ AudioWriteFails
  \/ Outgoing \/ PingTick
  \/ \E t \in Senders : CloseStart(t) \/ Close(t)

Spec == Init /\ [][Next]_vars

(***************************************************************************)
(* Every goroutine that can run does.  Not fair: the environment, frames   *)
(* from the peer, audio from the application, a tick, and whether the      *)
(* session takes its input or the application its audio.                   *)
(***************************************************************************)
Fairness ==
  /\ \A w \in Writers : WF_vars(WriteSend(w))
  /\ WF_vars(Main) /\ WF_vars(ReaderSteps) /\ WF_vars(SenderSteps) /\ WF_vars(ProcessorSteps)
  /\ WF_vars(Outgoing \/ CloseStart("outgoing") \/ Close("outgoing"))
  /\ WF_vars(Close("closer"))

FairSpec == Spec /\ Fairness
-----------------------------------------------------------------------------
(***************************************************************************)
(* Safety.                                                                 *)
(***************************************************************************)

\* v comes before w in a sequence.
Before(s, v, w) == \E i, j \in 1..Len(s) : i < j /\ s[i] = v /\ s[j] = w

\* v is ahead of w on the way from Write to the wire, by way of the queue and
\* the hand of the outgoing goroutine.
Ahead(v, w) ==
  \/ Before(wire, v, w) \/ Before(msgOutChan, v, w)
  \/ v \in RangeOf(wire) /\ w \in {hand["outgoing"]} \cup RangeOf(msgOutChan)
  \/ v = hand["outgoing"] /\ w \in RangeOf(msgOutChan)

\* No goroutine sends on the control channel's input after it was closed, or
\* closes it twice, whatever it was doing when the transport closed
\* (control.go:26, :51).
NoPanic == inputState # "panic"

\* doneChan tells the truth: connection and control channel are closed, and
\* nobody is inside writeOut or writeIn.
DoneMeansTornDown == doneChan => ~connOpen /\ inputState = "closed" /\ mu = "free"

\* As long as the transport is not closing, what Write accepted is on the
\* wire, in the hand of the one sender or queued, and in the order in which it
\* was accepted: nothing is lost, duplicated or overtaken.
Undisturbed == ~closeChan /\ ~ctxDone /\ writeErr = "none"
InOrderUntilClose ==
  Undisturbed =>
    /\ RangeOf(accepted)
         = (RangeOf(wire) \cup {hand["outgoing"]} \cup RangeOf(msgOutChan)) \cap Writers
    /\ \A v, w \in Writers : Ahead(v, w) <=> Before(accepted, v, w)

\* Closing, with two goroutines sending, may lose and reorder texts but
\* repeats none and invents none.
SentOnce ==
  /\ RangeOf(wire) \subseteq RangeOf(accepted)
  /\ \A i, j \in 1..Len(wire) : wire[i] = wire[j] => i = j

\* Write, Close and process together (transport.go:31, :48, :108) are what
\* TransportPromise allows: each text is sent at most once, in order until
\* something disturbs the transport, and after its end none is accepted or sent.
Phase == IF doneChan THEN "over" ELSE IF Undisturbed THEN "open" ELSE "closing"
Promise == INSTANCE TransportPromise WITH Texts <- Writers, phase <- Phase
KeepsPromise == Promise!PSpec

(***************************************************************************)
(* Who waits for whom.  The code has sends that wait for room whatever     *)
(* happens, the writers and the processor while they hold mu.  These waits *)
(* are the only ones: wherever the goroutines come to rest, one that has   *)
(* not done its work stands behind such a send.  (No behaviour goes on     *)
(* forever without new calls, frames or ticks, so every fair one comes to  *)
(* rest.)                                                                  *)
(***************************************************************************)

\* No goroutine has a step: none has something to take, to send with room for
\* it, a signal that it waits for, or the mutex it needs.
Stalled ==
  /\ pc["main"] \notin {"connclose", "signal"}
  /\ pc["main"] = "run" => ~ctxDone /\ ~closeChan
  /\ pc["main"] = "ccclose" => mu # "free"
  /\ \A w \in Writers : pc[w] = "send" => OutFull
  /\ pc["reader"] = "push" => InFull
  /\ pc["reader"] = "read" => connOpen
  /\ pc["sender"] = "frame" => OutFull /\ ~doneChan /\ ~closeChan
  /\ pc["sender"] = "select" => audioOpen
  /\ pc["processor"] = "select" => msgInChan = <<>> /\ ~doneChan /\ ~ctxDone
  /\ pc["processor"] = "text" => mu # "free"
  /\ pc["processor"] = "insend" => InputFull
  /\ pc["processor"] = "binary" => audioOpen
  /\ pc["outgoing"] = "select" => msgOutChan = <<>> /\ ~doneChan /\ ~ctxDone
  /\ pc["outgoing"] = "ping" => OutFull
  /\ pc["outgoing"] # "frame"
  /\ \A t \in Senders : pc[t] \notin {"drain", "wait"} /\ (pc[t] = "closeframe" => OutFull)

\* The queue is full and the goroutine that empties it has ended, or waits for
\* room in it itself, with a ping or a close frame.
NobodySends == OutFull /\ pc["outgoing"] \in {"ping", "closeframe", "end", "err"}

\* mu is held by a send that waits: of a writer to such a queue, or of the
\* processor to an input that the session does not take from.
MuKept ==
  \/ \E w \in Writers : mu = w /\ pc[w] = "send" /\ NobodySends
  \/ mu = "processor" /\ pc["processor"] = "insend" /\ InputFull

\* At rest a transport that is closing or cancelled has been torn down, unless
\* the teardown waits for mu; Close has returned, unless its close frame finds a
\* queue that nobody empties; the goroutines of process have ended once it is
\* done and the audio closed, but for a ping or a close frame of the outgoing
\* goroutine on the full queue and a frame of the reader that nobody takes; and
\* nobody else waits for mu. With nothing closing and no such ping, what Write
\* accepted is on the wire.
RestIsExplained ==
  Stalled =>
    /\ closeChan \/ ctxDone => doneChan \/ (pc["main"] = "ccclose" /\ MuKept)
    /\ pc["closer"] \in {"idle", "end", "err"} \/ (pc["closer"] = "closeframe" /\ NobodySends)
    /\ doneChan /\ ~audioOpen =>
         /\ pc["sender"] = "end" /\ pc["processor"] = "end"
         /\ pc["outgoing"] \in {"end", "err"} \/ NobodySends
         /\ pc["reader"] = "end" \/ (pc["reader"] = "push" /\ InFull)
    /\ pc["processor"] = "text" \/ (\E w \in Writers : pc[w] = "send") => MuKept
    /\ Undisturbed => RangeOf(wire) = RangeOf(accepted) \/ pc["outgoing"] = "ping"

(***************************************************************************)
(* What the comment on Close says and the code does not do.                *)
(***************************************************************************)

\* transport.go:47, "and wait for the connection to be closed": it returns
\* when the connection is closed or its own context has expired.
CloseReturns == pc["closer"] = "drain" ~> pc["closer"] \in {"end", "err"}
=============================================================================
