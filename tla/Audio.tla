------------------------------- MODULE Audio -------------------------------
(***************************************************************************)
(* The audio of a session: two ring buffers between the transport and the  *)
(* handler (audio.go); the goroutines of the transport at one end; at the  *)
(* other end the two copiers of DuplexCopy (audio/stream.go) between the   *)
(* handler's side and a Loopback (audio/loopback.go).  Meanwhile           *)
(* audio.buffer.clear empties the buffer towards the handler, the observer *)
(* counts (audio_observe.go), the tracker of audio.info takes the counts,  *)
(* and the session ends.                                                   *)
(*                                                                         *)
(*   feed -> session -> in -> loopback -> out -> transport -> send         *)
(*                                                                         *)
(* The stream begins where the transport's processor has taken a frame     *)
(* from msgInChan and ends where its audio goroutine has put one into      *)
(* msgOutChan; those two queues and the goroutines behind them belong to   *)
(* module WsTransport, which says what becomes of their frames at the end. *)
(* A byte is its number in the stream that the processor takes.  The ring  *)
(* buffer is a library: a Read or Write under way when Reset is called may *)
(* fail or go on, and so may a Write under way when the buffer is closed;  *)
(* Reset may open a closed buffer again.                                   *)
(***************************************************************************)
EXTENDS Naturals, Sequences, FiniteSets

CONSTANTS
  Cap,      \* capacity of a ring buffer
  Size,     \* what is read at once; no frame of the peer is larger
  MaxBytes  \* bound: bytes the processor takes from msgInChan

ASSUME SizesAssumption == Cap \in Nat \ {0} /\ Size \in Nat \ {0} /\ MaxBytes \in Nat

VARIABLES
  pc,       \* of the goroutine between two buffers: what it does next
  hand,     \* the bytes it has read and not yet written
  buf,      \* the ring buffers "session" and "transport", and the loopback's
  closed,   \* those of them that are closed
  signal,   \* the reader that waits in the loopback has been signalled
  up,       \* the transport works
  over,     \* the session has closed its audio
  next,     \* bytes the processor has taken from msgInChan
  handed,   \* bytes the audio goroutine has put into msgOutChan
  clear,    \* ClearReadBuffer: where it is, the length it will return
  cleared,  \* bytes it has removed
  lost,     \* bytes of writes that failed
  tick,     \* which counter dispatch is at
  count,    \* the tracker's counters of the interval
  taken,    \* what dispatch has swapped out of one
  total,    \* its totals
  moved     \* bytes that Read and Write of the audio stream have reported

flow == <<pc, hand, buf, signal, next, handed, cleared, lost>>
shutdown == <<closed, up, over>>
observer == <<count, moved>>
tracker == <<tick, taken, total>>
vars == <<flow, shutdown, clear, observer, tracker>>

Rings == {"session", "transport"}
Copiers == {"feed", "in", "out", "send"}
Kinds == {"read", "write"}

Source == [in |-> "session", out |-> "loopback", send |-> "transport"]
Target == [feed |-> "session", in |-> "loopback", out |-> "transport"]

Bytes(q) == {q[i] : i \in 1..Len(q)}
Take(q, n) == SubSeq(q, 1, n)
Drop(q, n) == SubSeq(q, n + 1, Len(q))
Least(m, n) == IF m < n THEN m ELSE n

TypeOK ==
  /\ pc \in [Copiers -> {"read", "sleep", "retry", "write", "wait", "end"}]
  /\ \A g \in Copiers : Bytes(hand[g]) \subseteq 1..next
  /\ \A b \in Rings : Len(buf[b]) <= Cap
  /\ closed \subseteq Rings \cup {"loopback"}
  /\ {signal, up, over} \subseteq BOOLEAN
  /\ next \in 0..MaxBytes
  /\ clear \in [at : {"idle", "reset", "end"}, n : 0..Cap]
  /\ tick \in {"wait", "write", "read"}
  /\ count \in [Kinds -> Nat] /\ total \in [Kinds -> Nat] /\ taken \in Nat

Init ==
  /\ pc = [g \in Copiers |-> "read"]
  /\ hand = [g \in Copiers |-> <<>>]
  /\ buf = [b \in Rings \cup {"loopback"} |-> <<>>]
  /\ closed = {} /\ signal = FALSE /\ up = TRUE /\ over = FALSE
  /\ next = 0 /\ handed = <<>> /\ lost = {}
  /\ clear = [at |-> "idle", n |-> 0] /\ cleared = {}
  /\ tick = "wait" /\ taken = 0
  /\ count = [k \in Kinds |-> 0] /\ total = count /\ moved = count

Goto(g, label) == pc' = [pc EXCEPT ![g] = label]
Hold(g, bytes) == hand' = [hand EXCEPT ![g] = bytes]

\* OnRead and OnWrite, in the goroutine that read or wrote n bytes.
Observe(k, n) ==
  /\ count' = [count EXCEPT ![k] = @ + n]
  /\ moved' = [moved EXCEPT ![k] = @ + n]
-----------------------------------------------------------------------------
(* The ring buffers, as their readers and writers see them.  A reader gets *)
(* what there is, up to Size bytes; a closed buffer is read to its end.    *)

ReadBytes(g) ==
  LET b == Source[g]  n == Least(Size, Len(buf[b])) IN
  /\ pc[g] = "read" /\ buf[b] # <<>>
  /\ Hold(g, Take(buf[b], n))
  /\ buf' = [buf EXCEPT ![b] = Drop(@, n)]
  /\ Goto(g, "write")
  /\ IF g = "in" THEN Observe("read", n) ELSE UNCHANGED observer
  /\ UNCHANGED <<signal, next, handed, cleared, lost, shutdown, clear, tracker>>

ReadEof(g) ==
  /\ pc[g] = "read" /\ buf[Source[g]] = <<>> /\ Source[g] \in closed
  /\ Goto(g, "end")
  /\ UNCHANGED <<hand, buf, signal, next, handed, cleared, lost, shutdown, clear, observer, tracker>>

\* Mutant of WriteBytes: a buffer that does not block takes what fits.
WriteWhatFits(g) ==
  LET b == Target[g]  n == Least(Cap - Len(buf[b]), Len(hand[g])) IN
  /\ pc[g] = "write" /\ b \notin closed
  /\ buf' = [buf EXCEPT ![b] = @ \o Take(hand[g], n)]
  /\ Hold(g, <<>>)
  /\ Goto(g, "read")
  /\ IF g = "out" THEN Observe("write", n) ELSE UNCHANGED observer
  /\ UNCHANGED <<signal, next, handed, cleared, lost, shutdown, clear, tracker>>

\* Mutant of WriteBytes: the buffer grows.
WriteAll(g) ==
  LET b == Target[g] IN
  /\ pc[g] = "write" /\ b \notin closed
  /\ buf' = [buf EXCEPT ![b] = @ \o hand[g]]
  /\ Hold(g, <<>>)
  /\ Goto(g, "read")
  /\ IF g = "out" THEN Observe("write", Len(hand[g])) ELSE UNCHANGED observer
  /\ UNCHANGED <<signal, next, handed, cleared, lost, shutdown, clear, tracker>>

\* A writer puts in what fits, and waits inside Write for room for the rest.
\* (OnWrite reports the sum when Write returns; here each part is counted.)
WriteBytes(g) ==
  LET b == Target[g]  n == Least(Cap - Len(buf[b]), Len(hand[g])) IN
  /\ \/ pc[g] = "write" /\ b \notin closed
     \/ pc[g] = "wait" /\ n > 0
  /\ buf' = [buf EXCEPT ![b] = @ \o Take(hand[g], n)]
  /\ Hold(g, Drop(hand[g], n))
  /\ Goto(g, IF n = Len(hand[g]) THEN "read" ELSE "wait")
  /\ IF g = "out" THEN Observe("write", n) ELSE UNCHANGED observer
  /\ UNCHANGED <<signal, next, handed, cleared, lost, shutdown, clear, tracker>>

\* The goroutine ends with bytes it cannot pass on.
Loses(g) ==
  /\ lost' = lost \cup Bytes(hand[g])
  /\ Hold(g, <<>>)
  /\ Goto(g, "end")

WriteRefused(g) ==
  /\ pc[g] = "write" /\ Target[g] \in closed
  /\ Loses(g)
  /\ UNCHANGED <<buf, signal, next, handed, cleared, shutdown, clear, observer, tracker>>

WriteCut(g) ==
  /\ pc[g] = "wait" /\ Target[g] \in closed
  /\ Loses(g)
  /\ UNCHANGED <<buf, signal, next, handed, cleared, shutdown, clear, observer, tracker>>
-----------------------------------------------------------------------------
(* The transport: the processor of incoming frames, and the goroutine that *)
(* reads audio for msgOutChan.                                             *)

\* The processor may find a frame in msgInChan also after the end.
TakeFrame ==
  /\ pc["feed"] = "read"
  /\ \E n \in 1..Least(Size, MaxBytes - next) :
       /\ Hold("feed", [i \in 1..n |-> next + i])
       /\ next' = next + n
  /\ Goto("feed", "write")
  /\ UNCHANGED <<buf, signal, handed, cleared, lost, shutdown, clear, observer, tracker>>

FeedStops ==
  /\ pc["feed"] = "read" /\ ~up
  /\ Goto("feed", "end")
  /\ UNCHANGED <<hand, buf, signal, next, handed, cleared, lost, shutdown, clear, observer, tracker>>

\* There is room in msgOutChan; after the end the select may still take it.
QueueFrame ==
  /\ pc["send"] = "write"
  /\ handed' = handed \o hand["send"]
  /\ Hold("send", <<>>)
  /\ Goto("send", "read")
  /\ UNCHANGED <<buf, signal, next, cleared, lost, shutdown, clear, observer, tracker>>

SendStops ==
  /\ pc["send"] = "write" /\ ~up
  /\ Loses("send")
  /\ UNCHANGED <<buf, signal, next, handed, cleared, shutdown, clear, observer, tracker>>
-----------------------------------------------------------------------------
(* CopyWithBuf from the audio stream to the loopback.  A reader that Reset *)
(* has interrupted waits a little and reads again.                         *)

\* Mutant of InRetries: "reset called" ends the copier.
InFails ==
  /\ pc["in"] = "retry"
  /\ Goto("in", "end")
  /\ UNCHANGED <<hand, buf, signal, next, handed, cleared, lost, shutdown, clear, observer, tracker>>

InRetries ==
  /\ pc["in"] = "retry"
  /\ Goto("in", "read")
  /\ UNCHANGED <<hand, buf, signal, next, handed, cleared, lost, shutdown, clear, observer, tracker>>

LoopbackWrite ==
  /\ pc["in"] = "write" /\ "loopback" \notin closed
  /\ buf' = [buf EXCEPT !["loopback"] = @ \o hand["in"]]
  /\ Hold("in", <<>>)
  /\ signal' = (signal \/ pc["out"] = "sleep")
  /\ Goto("in", "read")
  /\ UNCHANGED <<next, handed, cleared, lost, shutdown, clear, observer, tracker>>
-----------------------------------------------------------------------------
(* CopyWithBuf from the loopback to the audio stream.  Loopback.Read waits *)
(* on its condition while there is nothing to read; ReadBytes and ReadEof  *)
(* are its other two cases.                                                *)

LoopbackWait ==
  /\ pc["out"] = "read" /\ buf["loopback"] = <<>> /\ "loopback" \notin closed
  /\ Goto("out", "sleep")
  /\ UNCHANGED <<hand, buf, signal, next, handed, cleared, lost, shutdown, clear, observer, tracker>>

LoopbackWake ==
  /\ pc["out"] = "sleep" /\ signal
  /\ signal' = FALSE
  /\ Goto("out", "read")
  /\ UNCHANGED <<hand, buf, next, handed, cleared, lost, shutdown, clear, observer, tracker>>

\* The application closes its device, at any time: it may lose what is being
\* written to it (WriteRefused), and its reader gets what it still has.
LoopbackClose ==
  /\ "loopback" \notin closed
  /\ closed' = closed \cup {"loopback"}
  /\ signal' = (signal \/ pc["out"] = "sleep")
  /\ UNCHANGED <<pc, hand, buf, next, handed, cleared, lost, up, over, clear, observer, tracker>>
-----------------------------------------------------------------------------
(* ClearReadBuffer of the handler's side                                   *)

ClearLength ==
  /\ clear.at = "idle"
  /\ clear' = [at |-> "reset", n |-> Len(buf["session"])]
  /\ UNCHANGED <<flow, shutdown, observer, tracker>>

\* Reset fails the reader and the writer it finds at work, or does not; then
\* the length is returned.
ClearReset ==
  /\ clear.at = "reset"
  /\ cleared' = Bytes(buf["session"])
  /\ buf' = [buf EXCEPT !["session"] = <<>>]
  /\ clear' = [at |-> "end", n |-> 0]
  /\ closed' \in {closed, closed \ {"session"}}
  /\ \E reader \in IF pc["in"] = "read" THEN {"read", "retry"} ELSE {pc["in"]} :
       \/ /\ Goto("in", reader)
          /\ UNCHANGED <<hand, lost>>
       \/ /\ pc["feed"] \in {"write", "wait"}
          /\ pc' = [pc EXCEPT !["in"] = reader, !["feed"] = "end"]
          /\ lost' = lost \cup Bytes(hand["feed"])
          /\ Hold("feed", <<>>)
  /\ UNCHANGED <<signal, next, handed, up, over, observer, tracker>>
-----------------------------------------------------------------------------
(* audioInfoTracker.dispatch: the counter is swapped for 0 and then added  *)
(* to its total, which only this goroutine uses; first written bytes, then *)
(* read ones.                                                              *)

\* Mutant of Swap: the counter is read but not reset.
SwapNot(k) == taken' = count[k] /\ UNCHANGED count

Swap(k) == taken' = count[k] /\ count' = [count EXCEPT ![k] = 0]

TickWrite ==
  /\ tick = "wait"
  /\ tick' = "write"
  /\ Swap("write")
  /\ UNCHANGED <<total, moved, flow, shutdown, clear>>

TickRead ==
  /\ tick = "write"
  /\ tick' = "read"
  /\ total' = [total EXCEPT !["write"] = @ + taken]
  /\ Swap("read")
  /\ UNCHANGED <<moved, flow, shutdown, clear>>

\* The event with the totals is sent.
TickNotify ==
  /\ tick = "read"
  /\ tick' = "wait"
  /\ total' = [total EXCEPT !["read"] = @ + taken]
  /\ taken' = 0
  /\ UNCHANGED <<observer, flow, shutdown, clear>>
-----------------------------------------------------------------------------
\* The connection ends, or Close of the session has come to its transport.
TransportEnds ==
  /\ up /\ up' = FALSE
  /\ UNCHANGED <<flow, closed, over, clear, observer, tracker>>

\* Mutant of CloseAudio: each side closes the buffer it writes to, but the
\* session only closes its own side.
CloseWriter ==
  /\ ~over /\ over' = TRUE
  /\ closed' = closed \cup {"transport"}
  /\ UNCHANGED <<flow, up, clear, observer, tracker>>

\* The session's close handler closes both buffers of both sides.
CloseAudio ==
  /\ ~over /\ over' = TRUE
  /\ closed' = closed \cup Rings
  /\ UNCHANGED <<flow, up, clear, observer, tracker>>

Read == \E g \in {"in", "out", "send"} : ReadBytes(g) \/ ReadEof(g)
Write == \/ \E g \in {"feed", "out"} : WriteBytes(g)
         \/ \E g \in {"feed", "in", "out"} : WriteRefused(g)
Transport == FeedStops \/ QueueFrame \/ SendStops
Loopback == LoopbackWrite \/ LoopbackWait \/ LoopbackWake
Tracker == TickWrite \/ TickRead \/ TickNotify

Progress == Read \/ Write \/ Transport \/ InRetries \/ Loopback

Next ==
  \/ Progress
  \/ TakeFrame \/ TransportEnds \/ CloseAudio \/ LoopbackClose
  \/ \E g \in {"feed", "out"} : WriteCut(g)
  \/ ClearLength \/ ClearReset
  \/ Tracker

Spec == Init /\ [][Next]_vars

\* Goroutines that can run do: there are finitely many bytes, so one
\* condition for all of them is enough.  The end of the transport and of the
\* session bring each other about.  That the audio goroutine gets its frame
\* into msgOutChan takes for granted that the queue moves.  The peer need not
\* send, the application need not close its device, and what the library may
\* do is not counted on.
Fairness ==
  /\ WF_vars(Progress)
  /\ WF_vars(over /\ TransportEnds)
  /\ WF_vars(~up /\ CloseAudio)
FairSpec == Spec /\ Fairness
-----------------------------------------------------------------------------
\* What is on its way, from what the transport has in its queue back to what
\* its processor has just taken.
Stream == handed \o hand["send"] \o buf["transport"] \o hand["out"] \o buf["loopback"]
            \o hand["in"] \o buf["session"] \o hand["feed"]

Increasing(q) == \A i, j \in 1..Len(q) : i < j => q[i] < q[j]

\* From the processor to msgOutChan audio passes once and in order, whatever
\* partial reads and writes, clears and the end make of it: the stream has, in
\* order, what the processor took without what the clear removed and failed
\* writes lost; and writes fail only after a clear, the end, or the close of the
\* device. (Of the frames in the transport's two queues nothing is said here.)
NothingLost ==
  /\ Increasing(Stream)
  /\ Bytes(Stream) = (1..next) \ (cleared \cup lost)
  /\ lost # {} => over \/ ~up \/ clear.at = "end" \/ "loopback" \in closed

\* The totals of audio.info miss nothing and count nothing twice, although
\* the counters grow while dispatch takes them.
TotalsAddUp ==
  /\ count["write"] + total["write"] + (IF tick = "write" THEN taken ELSE 0) = moved["write"]
  /\ count["read"] + total["read"] + (IF tick = "read" THEN taken ELSE 0) = moved["read"]

\* While the session and the application's device last, all that the processor
\* took and no clear removed comes to msgOutChan. The exceptions: a clear that
\* makes a write of the transport fail ends the processor, the only reader of
\* the transport's messages; and a queue that does not move, as when a ping tick
\* has filled it for the goroutine that empties it (transport.go:219), which
\* the fairness leaves out.
Flows ==
  <>[](\/ over \/ ~up \/ pc["feed"] = "end" \/ "loopback" \in closed
       \/ Bytes(handed) \cup cleared = 1..next)

\* After the end the goroutines end, but for: a copier whose device nobody
\* closes; a reader of the session's buffer if a late clear has opened it
\* again; and a writer left in a full buffer whose reader has gone.
Reopened == clear.at = "end" /\ "session" \notin closed
LeftBehind(g) ==
  \/ g = "out" /\ pc["out"] = "sleep" /\ "loopback" \notin closed
  \/ g = "in" /\ pc["in"] = "read" /\ Reopened
  \/ g = "feed" /\ pc["feed"] = "wait" /\ pc["in"] = "end"
  \/ g = "out" /\ pc["out"] = "wait" /\ pc["send"] = "end"
CopiersEnd == <>[](over => \A g \in Copiers : pc[g] = "end" \/ LeftBehind(g))

(***************************************************************************)
(* What the repository says and the code does not do.                      *)
(***************************************************************************)

\* protov1/audio.go:15 says that the answer to audio.buffer.clear holds the
\* number of bytes that were removed from the buffer; ClearReadBuffer takes the
\* length first and empties the buffer in a second step.
ClearExact == [][ClearReset => clear.n = Cardinality(cleared')]_vars
=============================================================================
