---------------------------- MODULE AudioProofs ----------------------------
(***************************************************************************)
(* Audio, proved for any sizes of buffers and frames and any number of     *)
(* bytes: types, capacities and counters (IInv); then the order of what is *)
(* on its way (OnWay), as eight pieces of which every step but a clear and *)
(* a failed write passes bytes from one to the one before it.              *)
(***************************************************************************)
EXTENDS Audio, TLAPS

Labels == {"read", "sleep", "retry", "write", "wait", "end"}
Buffers == Rings \cup {"loopback"}

\* Bytes the processor has taken, in a goroutine's hand or in a buffer.
Sent(q) == q \in Seq(Nat) /\ Bytes(q) \subseteq 1..next

FlowOK ==
  /\ pc \in [Copiers -> Labels]
  /\ hand \in [Copiers -> Seq(Nat)] /\ buf \in [Buffers -> Seq(Nat)]
  /\ \A g \in Copiers : Sent(hand[g])
  /\ \A b \in Buffers : Sent(buf[b]) /\ (b \in Rings => Len(buf[b]) <= Cap)
  /\ next \in 0..MaxBytes

ShutdownOK ==
  /\ closed \subseteq Buffers
  /\ signal \in BOOLEAN /\ up \in BOOLEAN /\ over \in BOOLEAN

ClearOK == clear \in [at : {"idle", "reset", "end"}, n : 0..Cap]

CountsOK ==
  /\ tick \in {"wait", "write", "read"}
  /\ count \in [Kinds -> Nat] /\ total \in [Kinds -> Nat] /\ moved \in [Kinds -> Nat]
  /\ taken \in Nat
  /\ TotalsAddUp

IInv == FlowOK /\ ShutdownOK /\ ClearOK /\ CountsOK
-----------------------------------------------------------------------------
(* Pieces of sequences                                                     *)

LEMMA Pieces ==
  ASSUME NEW q \in Seq(Nat), NEW n \in 0..Len(q)
  PROVE  /\ Take(q, n) \in Seq(Nat) /\ Len(Take(q, n)) = n /\ Bytes(Take(q, n)) \subseteq Bytes(q)
         /\ Drop(q, n) \in Seq(Nat) /\ Len(Drop(q, n)) = Len(q) - n
         /\ Bytes(Drop(q, n)) \subseteq Bytes(q)
<1> DEFINE t == SubSeq(q, 1, n)
           d == SubSeq(q, n + 1, Len(q))
<1>1. n \in Nat /\ Len(q) \in Nat /\ n <= Len(q)
  OBVIOUS
<1>2. t \in Seq(Nat) /\ Len(t) = n /\ \A i \in 1..n : t[i] = q[i]
  BY <1>1
<1>3. d \in Seq(Nat) /\ Len(d) = Len(q) - n /\ \A i \in 1..(Len(q) - n) : d[i] = q[n + i]
  BY <1>1
<1> HIDE DEF t, d
<1>4. Bytes(t) \subseteq Bytes(q)
  <2>1. \A i \in 1..n : i \in 1..Len(q)
    BY <1>1
  <2> QED
    BY <1>2, <2>1 DEF Bytes
<1>5. \A i \in 1..(Len(q) - n) : n + i \in 1..Len(q)
  BY <1>1
<1>6. Bytes(d) \subseteq Bytes(q)
  BY <1>3, <1>5 DEF Bytes
<1> QED
  BY <1>2, <1>3, <1>4, <1>6 DEF t, d, Take, Drop

LEMMA Joined ==
  ASSUME NEW p \in Seq(Nat), NEW q \in Seq(Nat)
  PROVE  /\ p \o q \in Seq(Nat) /\ Len(p \o q) = Len(p) + Len(q)
         /\ Bytes(p \o q) \subseteq Bytes(p) \cup Bytes(q)
<1> DEFINE c == p \o q
<1>1. /\ c \in Seq(Nat) /\ Len(c) = Len(p) + Len(q) /\ Len(p) \in Nat /\ Len(q) \in Nat
      /\ \A i \in 1..Len(c) : c[i] = IF i <= Len(p) THEN p[i] ELSE q[i - Len(p)]
  OBVIOUS
<1> HIDE DEF c
<1>2. \A i \in 1..Len(c) : i <= Len(p) \/ i - Len(p) \in 1..Len(q)
  BY <1>1
<1>3. Bytes(c) \subseteq Bytes(p) \cup Bytes(q)
  <2> SUFFICES ASSUME NEW i \in 1..Len(c) PROVE c[i] \in Bytes(p) \cup Bytes(q)
    BY DEF Bytes
  <2>1. CASE i <= Len(p)
    BY <1>1, <2>1 DEF Bytes
  <2>2. CASE ~(i <= Len(p))
    BY <1>1, <1>2, <2>2 DEF Bytes
  <2> QED
    BY <2>1, <2>2
<1> QED
  BY <1>1, <1>3 DEF c

LEMMA LeastIs ==
  ASSUME NEW m \in Nat, NEW n \in Nat
  PROVE  Least(m, n) \in Nat /\ Least(m, n) <= m /\ Least(m, n) <= n
BY DEF Least

LEMMA Empty == Sent(<<>>) /\ Len(<<>>) = 0
BY DEF Sent, Bytes

LEMMA Frame ==
  ASSUME NEW m \in Nat, NEW n \in Nat
  PROVE  /\ [i \in 1..n |-> m + i] \in Seq(Nat)
         /\ Bytes([i \in 1..n |-> m + i]) \subseteq 1..(m + n)
<1> DEFINE q == [i \in 1..n |-> m + i]
<1>1. q \in Seq(Nat) /\ Len(q) = n /\ \A i \in 1..n : q[i] = m + i
  OBVIOUS
<1> HIDE DEF q
<1>2. Bytes(q) \subseteq 1..(m + n)
  BY <1>1 DEF Bytes
<1> QED
  BY <1>1, <1>2 DEF q
-----------------------------------------------------------------------------
(* The invariant, group by group                                           *)

\* A step of goroutine g changes at most what it holds and one buffer.
LEMMA Flow ==
  ASSUME FlowOK, UNCHANGED next,
         NEW g \in Copiers, NEW l \in Labels, NEW h, Sent(h),
         NEW b \in Buffers, NEW q, Sent(q), b \in Rings => Len(q) <= Cap,
         pc' = [pc EXCEPT ![g] = l], hand' = [hand EXCEPT ![g] = h], buf' = [buf EXCEPT ![b] = q]
  PROVE  FlowOK'
<1>1. h \in Seq(Nat) /\ q \in Seq(Nat)
  BY DEF Sent
<1>2. /\ pc' \in [Copiers -> Labels] /\ hand' \in [Copiers -> Seq(Nat)]
      /\ buf' \in [Buffers -> Seq(Nat)]
  BY <1>1 DEF FlowOK
<1>3. ASSUME NEW k \in Copiers PROVE Sent(hand'[k])
  BY <1>3 DEF FlowOK
<1>4. ASSUME NEW c \in Buffers PROVE Sent(buf'[c]) /\ (c \in Rings => Len(buf'[c]) <= Cap)
  BY <1>4 DEF FlowOK
<1> QED
  BY <1>2, <1>3, <1>4 DEF FlowOK, Sent

\* The same, when it only goes on or takes or leaves what it holds.
LEMMA Holds ==
  ASSUME FlowOK, UNCHANGED <<next, buf>>,
         NEW g \in Copiers, NEW l \in Labels, NEW h, Sent(h),
         pc' = [pc EXCEPT ![g] = l], hand' = [hand EXCEPT ![g] = h]
  PROVE  FlowOK'
<1> DEFINE q == buf["session"]
<1>1. "session" \in Buffers /\ Sent(q) /\ Len(q) <= Cap
  BY DEF FlowOK, Buffers, Rings
<1>2. buf' = [buf EXCEPT !["session"] = q]
  BY DEF FlowOK
<1> HIDE DEF q
<1> QED
  BY <1>1, <1>2, Flow

LEMMA Goes ==
  ASSUME FlowOK, UNCHANGED <<next, buf, hand>>,
         NEW g \in Copiers, NEW l \in Labels, pc' = [pc EXCEPT ![g] = l]
  PROVE  FlowOK'
<1> DEFINE h == hand[g]
<1>1. Sent(h) /\ hand' = [hand EXCEPT ![g] = h]
  BY DEF FlowOK
<1> HIDE DEF h
<1> QED
  BY <1>1, Holds

LEMMA Stays ==
  ASSUME FlowOK, UNCHANGED <<next, buf, hand, pc>>
  PROVE  FlowOK'
BY DEF FlowOK, Sent

LEMMA Counts ==
  ASSUME CountsOK, UNCHANGED tracker, NEW k \in Kinds, NEW n \in Nat, Observe(k, n)
  PROVE  CountsOK'
<1>1. /\ count' = [count EXCEPT ![k] = @ + n] /\ moved' = [moved EXCEPT ![k] = @ + n]
      /\ UNCHANGED <<tick, taken, total>>
  BY DEF Observe, tracker
<1>2. count' \in [Kinds -> Nat] /\ moved' \in [Kinds -> Nat]
  BY <1>1 DEF CountsOK
<1>3. TotalsAddUp'
  BY <1>1 DEF CountsOK, TotalsAddUp, Kinds
<1> QED
  BY <1>1, <1>2, <1>3 DEF CountsOK

LEMMA Uncounted ==
  ASSUME CountsOK, UNCHANGED <<observer, tracker>>
  PROVE  CountsOK'
BY DEF CountsOK, TotalsAddUp, observer, tracker

LEMMA ShutdownStays ==
  ASSUME ShutdownOK, UNCHANGED <<shutdown, signal>>
  PROVE  ShutdownOK'
BY DEF ShutdownOK, shutdown

LEMMA InitIInv == Init => IInv
<1> SUFFICES ASSUME Init PROVE IInv
  OBVIOUS
<1>1. SizesAssumption
  BY SizesAssumption
<1>2. FlowOK
  BY <1>1, Empty DEF Init, FlowOK, Labels, Buffers, SizesAssumption, Sent, Bytes
<1>3. ShutdownOK
  BY DEF Init, ShutdownOK
<1>4. ClearOK
  BY <1>1 DEF Init, ClearOK, SizesAssumption
<1>5. CountsOK
  BY DEF Init, CountsOK, TotalsAddUp, Kinds
<1> QED
  BY <1>2, <1>3, <1>4, <1>5 DEF IInv
-----------------------------------------------------------------------------
(* The steps                                                               *)

LEMMA ReadStep ==
  ASSUME IInv, NEW g \in {"in", "out", "send"}, ReadBytes(g) \/ ReadEof(g)
  PROVE  IInv'
<1> USE DEF IInv
<1>1. CASE ReadEof(g)
  <2>1. FlowOK'
    BY <1>1, Goes DEF ReadEof, Goto, Copiers, Labels
  <2> QED
    BY <1>1, <2>1, Uncounted, ShutdownStays DEF ReadEof, ClearOK
<1>2. CASE ReadBytes(g)
  <2> DEFINE b == Source[g]
             n == Least(Size, Len(buf[b]))
             h == Take(buf[b], n)
             q == Drop(buf[b], n)
  <2>1. g \in Copiers /\ b \in Buffers /\ "write" \in Labels
    BY DEF Copiers, Source, Buffers, Rings, Labels
  <2>2. /\ pc' = [pc EXCEPT ![g] = "write"] /\ hand' = [hand EXCEPT ![g] = h]
        /\ buf' = [buf EXCEPT ![b] = q]
        /\ UNCHANGED <<signal, next, shutdown, clear, tracker>>
        /\ g = "in" => Observe("read", n)
        /\ g # "in" => UNCHANGED observer
    BY <1>2 DEF ReadBytes, Goto, Hold
  <2> HIDE DEF b
  <2>3. n \in 0..Len(buf[b]) /\ n \in Nat
    <3>1. Len(buf[b]) \in Nat
      BY <2>1 DEF FlowOK
    <3> QED
      BY <3>1, SizesAssumption DEF Least
  <2> HIDE DEF n
  <2>4. buf[b] \in Seq(Nat) /\ Bytes(buf[b]) \subseteq 1..next /\ (b \in Rings => Len(buf[b]) <= Cap)
    BY <2>1 DEF FlowOK, Sent
  <2>5. Sent(h) /\ Sent(q) /\ (b \in Rings => Len(q) <= Cap)
    <3>1. /\ h \in Seq(Nat) /\ Bytes(h) \subseteq Bytes(buf[b])
          /\ q \in Seq(Nat) /\ Len(q) = Len(buf[b]) - n /\ Bytes(q) \subseteq Bytes(buf[b])
      BY <2>3, <2>4, Pieces
    <3> HIDE DEF h, q
    <3>2. Len(buf[b]) \in Nat /\ Cap \in Nat
      BY <2>4, SizesAssumption
    <3>3. b \in Rings => Len(q) <= Cap
      BY <2>3, <2>4, <3>1, <3>2
    <3> QED
      BY <2>4, <3>1, <3>3 DEF Sent
  <2> HIDE DEF h, q
  <2>6. FlowOK'
    BY <2>1, <2>2, <2>5, Flow
  <2>7. CountsOK'
    BY <2>2, <2>3, Counts, Uncounted DEF Kinds
  <2> QED
    BY <2>2, <2>6, <2>7, ShutdownStays DEF ClearOK
<1> QED
  BY <1>1, <1>2

LEMMA WriteStep ==
  ASSUME IInv, NEW g \in {"feed", "out"}, WriteBytes(g)
  PROVE  IInv'
<1> USE DEF IInv
<1> DEFINE b == Target[g]
           n == Least(Cap - Len(buf[b]), Len(hand[g]))
           h == Drop(hand[g], n)
           t == Take(hand[g], n)
           q == buf[b] \o t
           l == IF n = Len(hand[g]) THEN "read" ELSE "wait"
<1>1. g \in Copiers /\ b \in Rings /\ b \in Buffers /\ l \in Labels
  BY DEF Copiers, Target, Buffers, Rings, Labels
<1>2. /\ pc' = [pc EXCEPT ![g] = l] /\ hand' = [hand EXCEPT ![g] = h]
      /\ buf' = [buf EXCEPT ![b] = q]
      /\ UNCHANGED <<signal, next, shutdown, clear, tracker>>
      /\ g = "out" => Observe("write", n)
      /\ g # "out" => UNCHANGED observer
  BY DEF WriteBytes, Goto, Hold
<1> HIDE DEF b, l
<1>3. /\ buf[b] \in Seq(Nat) /\ Bytes(buf[b]) \subseteq 1..next /\ Len(buf[b]) <= Cap
      /\ hand[g] \in Seq(Nat) /\ Bytes(hand[g]) \subseteq 1..next
  BY <1>1 DEF FlowOK, Sent
<1>4. Len(buf[b]) \in Nat /\ Len(hand[g]) \in Nat /\ Cap \in Nat
  BY <1>3, SizesAssumption
<1>5. n \in 0..Len(hand[g]) /\ n \in Nat /\ Len(buf[b]) + n <= Cap
  <2>1. Cap - Len(buf[b]) \in Nat
    BY <1>3, <1>4
  <2>2. n \in Nat /\ n <= Cap - Len(buf[b]) /\ n <= Len(hand[g])
    BY <1>4, <2>1, LeastIs
  <2> HIDE DEF n
  <2> QED
    BY <1>4, <2>2
<1> HIDE DEF n
<1>6. /\ h \in Seq(Nat) /\ Bytes(h) \subseteq Bytes(hand[g])
      /\ t \in Seq(Nat) /\ Len(t) = n /\ Bytes(t) \subseteq Bytes(hand[g])
  BY <1>3, <1>5, Pieces
<1> HIDE DEF h, t
<1>7. q \in Seq(Nat) /\ Len(q) = Len(buf[b]) + Len(t) /\ Bytes(q) \subseteq Bytes(buf[b]) \cup Bytes(t)
  BY <1>3, <1>6, Joined
<1> HIDE DEF q
<1>8. Sent(h) /\ Sent(q) /\ Len(q) <= Cap
  BY <1>3, <1>5, <1>6, <1>7 DEF Sent
<1>9. FlowOK'
  BY <1>1, <1>2, <1>8, Flow
<1>10. CountsOK'
  BY <1>2, <1>5, Counts, Uncounted DEF Kinds
<1> QED
  BY <1>2, <1>9, <1>10, ShutdownStays DEF ClearOK

\* A goroutine ends, and what it held is lost.
LEMMA LosesStep ==
  ASSUME IInv, NEW g \in Copiers, Loses(g),
         UNCHANGED <<buf, signal, next, shutdown, clear, observer, tracker>>
  PROVE  IInv'
<1> USE DEF IInv
<1>1. pc' = [pc EXCEPT ![g] = "end"] /\ hand' = [hand EXCEPT ![g] = <<>>]
  BY DEF Loses, Goto, Hold
<1>2. FlowOK'
  BY <1>1, Empty, Holds DEF Labels
<1> QED
  BY <1>2, Uncounted, ShutdownStays DEF ClearOK

\* A goroutine goes on with what it holds.
LEMMA GoesStep ==
  ASSUME IInv, NEW g \in Copiers, NEW l \in Labels, Goto(g, l),
         UNCHANGED <<hand, buf, next, closed, up, over, clear, observer, tracker>>,
         signal' \in BOOLEAN
  PROVE  IInv'
<1> USE DEF IInv
<1>1. FlowOK'
  BY Goes DEF Goto
<1>2. ShutdownOK'
  BY DEF ShutdownOK
<1> QED
  BY <1>1, <1>2, Uncounted DEF ClearOK

LEMMA TransportStep ==
  ASSUME IInv, TakeFrame \/ Transport \/ TransportEnds
  PROVE  IInv'
<1> USE DEF IInv
<1>1. CASE TakeFrame
  <2>1. PICK n \in 1..Least(Size, MaxBytes - next) :
          hand' = [hand EXCEPT !["feed"] = [i \in 1..n |-> next + i]] /\ next' = next + n
    BY <1>1 DEF TakeFrame, Hold
  <2> DEFINE h == [i \in 1..n |-> next + i]
  <2>2. next \in Nat /\ n \in Nat /\ n <= MaxBytes - next /\ MaxBytes \in Nat
    <3>1. next \in Nat /\ MaxBytes \in Nat /\ MaxBytes - next \in Nat /\ Size \in Nat
      BY SizesAssumption DEF FlowOK
    <3>2. Least(Size, MaxBytes - next) \in Nat /\ Least(Size, MaxBytes - next) <= MaxBytes - next
      BY <3>1, LeastIs
    <3> QED
      BY <3>1, <3>2
  <2>3. h \in Seq(Nat) /\ Bytes(h) \subseteq 1..next'
    BY <2>1, <2>2, Frame
  <2>4. pc' = [pc EXCEPT !["feed"] = "write"] /\ hand' = [hand EXCEPT !["feed"] = h] /\ buf' = buf
    BY <1>1, <2>1 DEF TakeFrame, Goto
  <2> HIDE DEF h
  <2>5. 1..next \subseteq 1..next' /\ next' \in 0..MaxBytes
    BY <2>1, <2>2
  <2>6. /\ pc' \in [Copiers -> Labels] /\ hand' \in [Copiers -> Seq(Nat)]
        /\ buf' \in [Buffers -> Seq(Nat)]
    BY <2>3, <2>4 DEF FlowOK, Copiers, Labels
  <2>7. \A g \in Copiers : Bytes(hand'[g]) \subseteq 1..next'
    BY <2>3, <2>4, <2>5 DEF FlowOK, Sent
  <2>8. \A b \in Buffers : Bytes(buf'[b]) \subseteq 1..next' /\ (b \in Rings => Len(buf'[b]) <= Cap)
    BY <2>4, <2>5 DEF FlowOK, Sent
  <2>9. FlowOK'
    BY <2>5, <2>6, <2>7, <2>8 DEF FlowOK, Sent, Bytes
  <2> QED
    BY <1>1, <2>9, Uncounted, ShutdownStays DEF TakeFrame, ClearOK
<1>2. CASE FeedStops
  <2>1. "feed" \in Copiers /\ "end" \in Labels /\ signal \in BOOLEAN
    BY DEF Copiers, Labels, ShutdownOK
  <2> QED
    BY <1>2, <2>1, GoesStep DEF FeedStops, shutdown
<1>3. CASE QueueFrame
  <2>1. FlowOK'
    BY <1>3, Empty, Holds DEF QueueFrame, Goto, Hold, Copiers, Labels
  <2> QED
    BY <1>3, <2>1, Uncounted, ShutdownStays DEF QueueFrame, ClearOK
<1>4. CASE SendStops
  BY <1>4, LosesStep DEF SendStops, Copiers
<1>5. CASE TransportEnds
  <2>1. FlowOK'
    BY <1>5, Stays DEF TransportEnds, flow
  <2>2. ShutdownOK'
    BY <1>5 DEF TransportEnds, ShutdownOK, flow
  <2> QED
    BY <1>5, <2>1, <2>2, Uncounted DEF TransportEnds, ClearOK
<1> QED
  BY <1>1, <1>2, <1>3, <1>4, <1>5 DEF Transport

LEMMA LoopbackStep ==
  ASSUME IInv, Loopback \/ InRetries \/ LoopbackClose
  PROVE  IInv'
<1> USE DEF IInv
<1>1. {"in", "out"} \subseteq Copiers /\ {"read", "sleep", "retry"} \subseteq Labels
  BY DEF Copiers, Labels
<1>2. CASE InRetries
  BY <1>1, <1>2, GoesStep DEF InRetries, shutdown, ShutdownOK
<1>3. CASE LoopbackWait
  BY <1>1, <1>3, GoesStep DEF LoopbackWait, shutdown, ShutdownOK
<1>4. CASE LoopbackWake
  BY <1>1, <1>4, GoesStep DEF LoopbackWake, shutdown, ShutdownOK
<1>5. CASE LoopbackWrite
  <2> DEFINE q == buf["loopback"] \o hand["in"]
  <2>1. /\ pc' = [pc EXCEPT !["in"] = "read"] /\ hand' = [hand EXCEPT !["in"] = <<>>]
        /\ buf' = [buf EXCEPT !["loopback"] = q]
        /\ signal' = (signal \/ pc["out"] = "sleep")
        /\ UNCHANGED <<next, closed, up, over, clear, observer, tracker>>
    BY <1>5 DEF LoopbackWrite, Goto, Hold, shutdown
  <2>2. "loopback" \in Buffers /\ "loopback" \notin Rings
    BY DEF Buffers, Rings
  <2>3. Sent(buf["loopback"]) /\ Sent(hand["in"])
    BY <1>1, <2>2 DEF FlowOK
  <2>4. Sent(q)
    BY <2>3, Joined DEF Sent
  <2> HIDE DEF q
  <2>5. FlowOK'
    BY <1>1, <2>1, <2>2, <2>4, Empty, Flow
  <2>6. ShutdownOK'
    BY <2>1 DEF ShutdownOK
  <2> QED
    BY <2>1, <2>5, <2>6, Uncounted DEF ClearOK
<1>6. CASE LoopbackClose
  <2>1. FlowOK'
    BY <1>6, Stays DEF LoopbackClose
  <2>2. ShutdownOK'
    BY <1>6 DEF LoopbackClose, ShutdownOK, Buffers
  <2> QED
    BY <1>6, <2>1, <2>2, Uncounted DEF LoopbackClose, ClearOK
<1> QED
  BY <1>2, <1>3, <1>4, <1>5, <1>6 DEF Loopback

LEMMA ClearStep ==
  ASSUME IInv, ClearLength \/ ClearReset
  PROVE  IInv'
<1> USE DEF IInv
<1>1. CASE ClearLength
  <2>1. FlowOK'
    BY <1>1, Stays DEF ClearLength, flow
  <2>2. Len(buf["session"]) \in 0..Cap
    BY SizesAssumption DEF FlowOK, Buffers, Rings
  <2>3. ClearOK'
    BY <1>1, <2>2 DEF ClearLength, ClearOK
  <2> QED
    BY <1>1, <2>1, <2>3, Uncounted, ShutdownStays DEF ClearLength, flow
<1>2. CASE ClearReset
  <2>1. /\ buf' = [buf EXCEPT !["session"] = <<>>] /\ next' = next
        /\ clear' = [at |-> "end", n |-> 0]
        /\ closed' \subseteq closed
        /\ UNCHANGED <<signal, up, over, observer, tracker>>
    BY <1>2 DEF ClearReset
  <2>2. PICK reader \in Labels :
          \/ pc' = [pc EXCEPT !["in"] = reader] /\ hand' = hand
          \/ /\ pc' = [pc EXCEPT !["in"] = reader, !["feed"] = "end"]
             /\ hand' = [hand EXCEPT !["feed"] = <<>>]
    <3>1. pc["in"] \in Labels /\ {"read", "retry"} \subseteq Labels
      BY DEF FlowOK, Copiers, Labels
    <3> QED
      BY <1>2, <3>1 DEF ClearReset, Goto, Hold
  <2>3. pc' \in [Copiers -> Labels]
    BY <2>2 DEF FlowOK, Copiers, Labels
  <2>4. hand' \in [Copiers -> Seq(Nat)] /\ \A g \in Copiers : Sent(hand'[g])
    BY <2>2, Empty DEF FlowOK, Sent
  <2>5. /\ buf' \in [Buffers -> Seq(Nat)]
        /\ \A b \in Buffers : Sent(buf'[b]) /\ (b \in Rings => Len(buf'[b]) <= Cap)
    <3> DEFINE q == <<>>
    <3>1. Sent(q) /\ q \in Seq(Nat) /\ Len(q) <= Cap
      BY Empty, SizesAssumption DEF Sent
    <3>2. buf' = [buf EXCEPT !["session"] = q]
      BY <2>1
    <3> HIDE DEF q
    <3> QED
      BY <3>1, <3>2 DEF FlowOK
  <2>6. FlowOK'
    BY <2>1, <2>3, <2>4, <2>5 DEF FlowOK, Sent
  <2>7. ClearOK'
    BY <2>1, SizesAssumption DEF ClearOK
  <2>8. ShutdownOK'
    BY <2>1 DEF ShutdownOK
  <2> QED
    BY <2>1, <2>6, <2>7, <2>8, Uncounted
<1> QED
  BY <1>1, <1>2

\* dispatch moves what it has taken from a counter to its total.
LEMMA TrackerStep ==
  ASSUME IInv, Tracker
  PROVE  IInv'
<1> USE DEF IInv
<1>1. FlowOK' /\ ClearOK' /\ ShutdownOK'
  BY Stays, ShutdownStays DEF Tracker, TickWrite, TickRead, TickNotify, flow, ClearOK
<1>2. tick' \in {"wait", "write", "read"} /\ Kinds = {"read", "write"}
  BY DEF Tracker, TickWrite, TickRead, TickNotify, Kinds
<1>3. /\ count' \in [Kinds -> Nat] /\ total' \in [Kinds -> Nat] /\ moved' = moved
      /\ taken' \in Nat
  BY <1>2 DEF Tracker, TickWrite, TickRead, TickNotify, Swap, CountsOK, observer
<1>4. TotalsAddUp'
  <2>1. CASE TickWrite
    BY <1>2, <2>1 DEF TickWrite, Swap, CountsOK, TotalsAddUp
  <2>2. CASE TickRead
    BY <1>2, <2>2 DEF TickRead, Swap, CountsOK, TotalsAddUp
  <2>3. CASE TickNotify
    BY <1>2, <2>3 DEF TickNotify, observer, CountsOK, TotalsAddUp
  <2> QED
    BY <2>1, <2>2, <2>3 DEF Tracker
<1>5. CountsOK'
  BY <1>2, <1>3, <1>4 DEF CountsOK
<1> QED
  BY <1>1, <1>5

LEMMA StepIInv == IInv /\ [Next]_vars => IInv'
<1> SUFFICES ASSUME IInv, [Next]_vars PROVE IInv'
  OBVIOUS
<1>1. CASE Read
  BY <1>1, ReadStep DEF Read
<1>2. ASSUME NEW g \in {"feed", "in", "out"}, WriteRefused(g) \/ WriteCut(g) PROVE IInv'
  BY <1>2, LosesStep DEF WriteRefused, WriteCut, Copiers
<1>3. CASE CloseAudio
  <2>1. FlowOK'
    BY <1>3, Stays DEF CloseAudio, flow, IInv
  <2>2. ShutdownOK'
    BY <1>3 DEF CloseAudio, ShutdownOK, flow, Buffers, IInv
  <2> QED
    BY <1>3, <2>1, <2>2, Uncounted DEF CloseAudio, ClearOK, IInv
<1>4. CASE UNCHANGED vars
  BY <1>4, Stays, Uncounted, ShutdownStays DEF vars, flow, ClearOK, IInv
<1> QED
  BY <1>1, <1>2, <1>3, <1>4, WriteStep, TransportStep, LoopbackStep, ClearStep, TrackerStep
     DEF Next, Progress, Write
-----------------------------------------------------------------------------
\* IInv holds of every behaviour of the audio of a session.
THEOREM Invariance == Spec => []IInv
<1> QED
  BY InitIInv, StepIInv, PTL DEF Spec

\* The ring buffers keep their capacity, nothing but what was taken in is in
\* them or on its way, and the counters stay numbers (audio.go, audio_info.go).
THEOREM TypeCorrect == Spec => []TypeOK
<1>1. ASSUME IInv PROVE TypeOK
  <2>1. \A b \in Rings : b \in Buffers
    BY DEF Buffers
  <2>2. /\ pc \in [Copiers -> {"read", "sleep", "retry", "write", "wait", "end"}]
        /\ \A g \in Copiers : Bytes(hand[g]) \subseteq 1..next
        /\ \A b \in Rings : Len(buf[b]) <= Cap
        /\ next \in 0..MaxBytes
    BY <1>1, <2>1 DEF IInv, FlowOK, Labels, Sent
  <2>3. closed \subseteq Rings \cup {"loopback"} /\ {signal, up, over} \subseteq BOOLEAN
    BY <1>1 DEF IInv, ShutdownOK, Buffers
  <2> QED
    BY <1>1, <2>2, <2>3 DEF IInv, ClearOK, CountsOK, TypeOK
<1> QED
  BY <1>1, Invariance, PTL

\* Every byte that Read and Write of the audio stream report is counted once
\* in the totals of audio.info (audio_info.go:43 against audio_observe.go:22).
THEOREM TotalsExact == Spec => []TotalsAddUp
<1>1. IInv => TotalsAddUp
  BY DEF IInv, CountsOK
<1> QED
  BY <1>1, Invariance, PTL
-----------------------------------------------------------------------------
(* The way of the bytes, as eight pieces one behind the other              *)

Places == 1..8

\* p is read before q.
Below(p, q) == \A i \in 1..Len(p), j \in 1..Len(q) : p[i] < q[j]

Ordered(P) ==
  /\ \A k \in Places : Increasing(P[k])
  /\ \A k, l \in Places : k < l => Below(P[k], P[l])

AllOf(P) == UNION {Bytes(P[k]) : k \in Places}

LEMMA JoinedExactly ==
  ASSUME NEW p \in Seq(Nat), NEW q \in Seq(Nat), Increasing(p), Increasing(q), Below(p, q)
  PROVE  Increasing(p \o q) /\ Bytes(p \o q) = Bytes(p) \cup Bytes(q)
<1> DEFINE c == p \o q
<1>1. /\ c \in Seq(Nat) /\ Len(c) = Len(p) + Len(q) /\ Len(p) \in Nat /\ Len(q) \in Nat
      /\ \A i \in 1..Len(p) : c[i] = p[i]
      /\ \A i \in 1..Len(q) : c[Len(p) + i] = q[i]
  OBVIOUS
<1> HIDE DEF c
<1>2. \A i \in 1..Len(c) : i \in 1..Len(p) \/ \E j \in 1..Len(q) : i = Len(p) + j
  <2> SUFFICES ASSUME NEW i \in 1..Len(c), i \notin 1..Len(p)
               PROVE  \E j \in 1..Len(q) : i = Len(p) + j
    OBVIOUS
  <2>1. i - Len(p) \in 1..Len(q) /\ i = Len(p) + (i - Len(p))
    BY <1>1
  <2> QED
    BY <2>1
<1>3. Increasing(c)
  <2> SUFFICES ASSUME NEW i \in 1..Len(c), NEW j \in 1..Len(c), i < j PROVE c[i] < c[j]
    BY DEF Increasing
  <2>1. CASE j \in 1..Len(p)
    <3>1. i \in 1..Len(p)
      BY <1>1, <2>1
    <3> QED
      BY <1>1, <2>1, <3>1 DEF Increasing
  <2>2. ASSUME NEW m \in 1..Len(q), j = Len(p) + m PROVE c[i] < c[j]
    <3>1. CASE i \in 1..Len(p)
      BY <1>1, <2>2, <3>1 DEF Below
    <3>2. ASSUME NEW l \in 1..Len(q), i = Len(p) + l PROVE c[i] < c[j]
      <4>1. l < m
        BY <1>1, <2>2, <3>2
      <4> QED
        BY <1>1, <2>2, <3>2, <4>1 DEF Increasing
    <3> QED
      BY <1>2, <3>1, <3>2
  <2> QED
    BY <1>2, <2>1, <2>2
<1>4. Bytes(c) \subseteq Bytes(p) \cup Bytes(q)
  <2> SUFFICES ASSUME NEW i \in 1..Len(c) PROVE c[i] \in Bytes(p) \cup Bytes(q)
    BY DEF Bytes
  <2>1. CASE i \in 1..Len(p)
    BY <1>1, <2>1 DEF Bytes
  <2>2. ASSUME NEW j \in 1..Len(q), i = Len(p) + j PROVE c[i] \in Bytes(q)
    BY <1>1, <2>2 DEF Bytes
  <2> QED
    BY <1>2, <2>1, <2>2
<1>5. Bytes(p) \subseteq Bytes(c)
  <2> SUFFICES ASSUME NEW i \in 1..Len(p) PROVE p[i] \in Bytes(c)
    BY DEF Bytes
  <2>1. i \in 1..Len(c)
    BY <1>1
  <2> QED
    BY <1>1, <2>1 DEF Bytes
<1>6. Bytes(q) \subseteq Bytes(c)
  <2> SUFFICES ASSUME NEW i \in 1..Len(q) PROVE q[i] \in Bytes(c)
    BY DEF Bytes
  <2>1. Len(p) + i \in 1..Len(c)
    BY <1>1
  <2> QED
    BY <1>1, <2>1 DEF Bytes
<1> QED
  BY <1>3, <1>4, <1>5, <1>6 DEF c

\* Where the bytes of an order lie decides it, not their positions.
LEMMA BelowBytes ==
  ASSUME NEW p, NEW q
  PROVE  Below(p, q) <=> \A m \in Bytes(p), n \in Bytes(q) : m < n
BY DEF Below, Bytes

LEMMA Split ==
  ASSUME NEW q \in Seq(Nat), Increasing(q), NEW n \in 0..Len(q)
  PROVE  /\ Take(q, n) \in Seq(Nat) /\ Drop(q, n) \in Seq(Nat)
         /\ Increasing(Take(q, n)) /\ Increasing(Drop(q, n))
         /\ Below(Take(q, n), Drop(q, n))
         /\ Bytes(q) = Bytes(Take(q, n)) \cup Bytes(Drop(q, n))
<1> DEFINE t == SubSeq(q, 1, n)
           d == SubSeq(q, n + 1, Len(q))
<1>1. n \in Nat /\ Len(q) \in Nat /\ n <= Len(q) /\ \A i \in 1..Len(q) : q[i] \in Nat
  OBVIOUS
<1>2. t \in Seq(Nat) /\ Len(t) = n /\ \A i \in 1..n : t[i] = q[i]
  BY <1>1
<1>3. d \in Seq(Nat) /\ Len(d) = Len(q) - n /\ \A i \in 1..(Len(q) - n) : d[i] = q[n + i]
  BY <1>1
<1> HIDE DEF t, d
<1>4. \A i \in 1..n : i \in 1..Len(q)
  BY <1>1
<1>5. \A i \in 1..(Len(q) - n) : n + i \in 1..Len(q)
  BY <1>1
<1>6. Increasing(t)
  BY <1>2, <1>4 DEF Increasing
<1>7. Increasing(d)
  <2> SUFFICES ASSUME NEW i \in 1..Len(d), NEW j \in 1..Len(d), i < j PROVE d[i] < d[j]
    BY DEF Increasing
  <2>1. n + i < n + j
    BY <1>1, <1>3
  <2> QED
    BY <1>3, <1>5, <2>1 DEF Increasing
<1>8. Below(t, d)
  <2> SUFFICES ASSUME NEW i \in 1..Len(t), NEW j \in 1..Len(d) PROVE t[i] < d[j]
    BY DEF Below
  <2>1. i < n + j
    BY <1>1, <1>2, <1>3
  <2> QED
    BY <1>2, <1>3, <1>4, <1>5, <2>1 DEF Increasing
<1>9. Bytes(q) = Bytes(t) \cup Bytes(d)
  <2>1. \A i \in 1..Len(q) : i \in 1..n \/ (i - n \in 1..(Len(q) - n) /\ i = n + (i - n))
    BY <1>1
  <2>2. Bytes(q) \subseteq Bytes(t) \cup Bytes(d)
    <3> SUFFICES ASSUME NEW i \in 1..Len(q) PROVE q[i] \in Bytes(t) \cup Bytes(d)
      BY DEF Bytes
    <3>1. CASE i \in 1..n
      BY <1>2, <3>1 DEF Bytes
    <3>2. CASE i - n \in 1..(Len(q) - n) /\ i = n + (i - n)
      BY <1>3, <3>2 DEF Bytes
    <3> QED
      BY <2>1, <3>1, <3>2
  <2>3. Bytes(t) \subseteq Bytes(q)
    <3> SUFFICES ASSUME NEW i \in 1..n PROVE t[i] \in Bytes(q)
      BY <1>2 DEF Bytes
    <3> QED
      BY <1>2, <1>4 DEF Bytes
  <2>4. Bytes(d) \subseteq Bytes(q)
    <3> SUFFICES ASSUME NEW i \in 1..(Len(q) - n) PROVE d[i] \in Bytes(q)
      BY <1>3 DEF Bytes
    <3> QED
      BY <1>3, <1>5 DEF Bytes
  <2> QED
    BY <2>2, <2>3, <2>4
<1> QED
  BY <1>2, <1>3, <1>6, <1>7, <1>8, <1>9 DEF t, d, Take, Drop

\* An increasing piece has as many bytes as places.
LEMMA NothingThere == Bytes(<<>>) = {} /\ Increasing(<<>>) /\ <<>> \in Seq(Nat)
BY DEF Bytes, Increasing

LEMMA InAllOf ==
  ASSUME NEW P, NEW x
  PROVE  x \in AllOf(P) <=> \E k \in Places : x \in Bytes(P[k])
BY DEF AllOf

\* The first bytes of a piece, t, go to the end of the one before it, and d is
\* what remains.
LEMMA Moved ==
  ASSUME NEW P \in [Places -> Seq(Nat)], Ordered(P), NEW Q,
         NEW k \in Places, NEW l \in Places, l = k + 1,
         NEW t \in Seq(Nat), NEW d \in Seq(Nat), Increasing(t), Increasing(d), Below(t, d),
         Bytes(P[l]) = Bytes(t) \cup Bytes(d),
         Q[k] = P[k] \o t, Q[l] = d, \A a \in Places \ {k, l} : Q[a] = P[a]
  PROVE  Ordered(Q) /\ AllOf(Q) = AllOf(P)
<1>1. \A a \in Places : a \in Nat
  BY DEF Places
<1>2. k < l /\ \A a \in Places : (k < a /\ a # l => l < a) /\ (a < l /\ a # k => a < k)
  BY <1>1
<1>3. P[k] \in Seq(Nat) /\ P[l] \in Seq(Nat) /\ Increasing(P[k])
  BY DEF Ordered
<1>4. \A a, b \in Places : a < b => \A x \in Bytes(P[a]), y \in Bytes(P[b]) : x < y
  BY BelowBytes DEF Ordered
<1>5. \A x \in Bytes(t), y \in Bytes(d) : x < y
  BY BelowBytes
<1>6. Below(P[k], t)
  <2>1. \A x \in Bytes(P[k]), y \in Bytes(t) : x < y
    BY <1>2, <1>4
  <2> QED
    BY <2>1, BelowBytes
<1>7. Increasing(P[k] \o t) /\ Bytes(P[k] \o t) = Bytes(P[k]) \cup Bytes(t)
  BY <1>3, <1>6, JoinedExactly
<1>8. Increasing(Q[k]) /\ Bytes(Q[k]) = Bytes(P[k]) \cup Bytes(t) /\ Bytes(Q[l]) = Bytes(d)
  BY <1>7
<1>9. \A a \in Places : Increasing(Q[a])
  <2> SUFFICES ASSUME NEW a \in Places PROVE Increasing(Q[a])
    OBVIOUS
  <2>1. a = k \/ a = l \/ Q[a] = P[a]
    OBVIOUS
  <2> QED
    BY <1>8, <2>1 DEF Ordered
<1>10. ASSUME NEW a \in Places, NEW b \in Places, a < b PROVE Below(Q[a], Q[b])
  <2> SUFFICES ASSUME NEW x \in Bytes(Q[a]), NEW y \in Bytes(Q[b]) PROVE x < y
    BY BelowBytes
  <2>1. CASE a = k /\ b = l
    BY <1>2, <1>4, <1>5, <1>8, <2>1
  <2>2. CASE a = k /\ b # l
    <3>1. b # k /\ l < b
      BY <1>1, <1>2, <1>10, <2>2
    <3>2. (x \in Bytes(P[k]) \/ x \in Bytes(P[l])) /\ y \in Bytes(P[b])
      BY <1>8, <2>2, <3>1
    <3> QED
      BY <1>4, <1>10, <2>2, <3>1, <3>2
  <2>3. CASE a = l
    <3>1. b # l /\ b # k
      BY <1>1, <1>2, <1>10, <2>3
    <3>2. x \in Bytes(P[l]) /\ y \in Bytes(P[b])
      BY <1>8, <2>3, <3>1
    <3> QED
      BY <1>4, <1>10, <2>3, <3>2
  <2>4. CASE a \notin {k, l} /\ b = k
    <3>1. a < l
      BY <1>1, <1>10, <2>4
    <3>2. x \in Bytes(P[a]) /\ (y \in Bytes(P[k]) \/ y \in Bytes(P[l]))
      BY <1>8, <2>4
    <3> QED
      BY <1>4, <1>10, <2>4, <3>1, <3>2
  <2>5. CASE a \notin {k, l} /\ b = l
    <3>1. x \in Bytes(P[a]) /\ y \in Bytes(P[l])
      BY <1>8, <2>5
    <3> QED
      BY <1>4, <1>10, <2>5, <3>1
  <2>6. CASE a \notin {k, l} /\ b \notin {k, l}
    <3>1. x \in Bytes(P[a]) /\ y \in Bytes(P[b])
      BY <2>6
    <3> QED
      BY <1>4, <1>10, <3>1
  <2> QED
    BY <2>1, <2>2, <2>3, <2>4, <2>5, <2>6
<1>11. AllOf(Q) = AllOf(P)
  <2> SUFFICES ASSUME NEW x PROVE x \in AllOf(Q) <=> x \in AllOf(P)
    OBVIOUS
  <2>1. x \in Bytes(Q[k]) \/ x \in Bytes(Q[l]) <=> x \in Bytes(P[k]) \/ x \in Bytes(P[l])
    BY <1>8
  <2>2. (\E a \in Places : x \in Bytes(Q[a])) <=> (\E a \in Places : x \in Bytes(P[a]))
    BY <2>1
  <2> QED
    BY <2>2, InAllOf
<1> QED
  BY <1>9, <1>10, <1>11 DEF Ordered

\* A piece is thrown away: it had no byte in common with another one.
LEMMA Removed ==
  ASSUME NEW P \in [Places -> Seq(Nat)], Ordered(P), NEW k \in Places,
         NEW Q, Q[k] = <<>>, \A l \in Places \ {k} : Q[l] = P[l]
  PROVE  Ordered(Q) /\ AllOf(Q) = AllOf(P) \ Bytes(P[k])
<1> DEFINE e == <<>>
<1>1. Bytes(e) = {} /\ Increasing(e)
  BY NothingThere
<1>2. Q[k] = e /\ \A l \in Places \ {k} : Q[l] = P[l]
  OBVIOUS
<1> HIDE DEF e
<1>3. \A a, b \in Places : a < b => \A x \in Bytes(P[a]), y \in Bytes(P[b]) : x < y
  BY BelowBytes DEF Ordered
<1>4. \A a \in Places : Increasing(Q[a])
  BY <1>1, <1>2 DEF Ordered
<1>5. ASSUME NEW a \in Places, NEW b \in Places, a < b PROVE Below(Q[a], Q[b])
  BY <1>1, <1>2, <1>3, <1>5, BelowBytes
<1>6. \A a \in Places : Bytes(P[a]) \subseteq Nat
  BY DEF Bytes
<1>7. ASSUME NEW a \in Places, a # k, NEW x \in Bytes(P[a]) PROVE x \notin Bytes(P[k])
  <2>1. a < k \/ k < a
    BY <1>7 DEF Places
  <2>2. x \in Nat /\ ~(x < x)
    BY <1>6, <1>7
  <2> QED
    BY <1>3, <1>7, <2>1, <2>2
<1>8. AllOf(Q) = AllOf(P) \ Bytes(P[k])
  <2> SUFFICES ASSUME NEW x PROVE x \in AllOf(Q) <=> x \in AllOf(P) /\ x \notin Bytes(P[k])
    OBVIOUS
  <2>1. (\E a \in Places : x \in Bytes(Q[a]))
           <=> (\E a \in Places : x \in Bytes(P[a])) /\ x \notin Bytes(P[k])
    BY <1>1, <1>2, <1>7
  <2> QED
    BY <2>1, InAllOf
<1> QED
  BY <1>4, <1>5, <1>8 DEF Ordered

\* The pieces make one increasing stream.
LEMMA InOneStream ==
  ASSUME NEW P \in [Places -> Seq(Nat)], Ordered(P), NEW s,
         s = P[1] \o P[2] \o P[3] \o P[4] \o P[5] \o P[6] \o P[7] \o P[8]
  PROVE  Increasing(s) /\ Bytes(s) = AllOf(P)
<1> DEFINE Upto(q, k) ==
             /\ q \in Seq(Nat) /\ Increasing(q)
             /\ \A x : x \in Bytes(q) <=> \E a \in 1..k : x \in Bytes(P[a])
<1>1. ASSUME NEW q, NEW k \in 1..7, Upto(q, k) PROVE Upto(q \o P[k + 1], k + 1)
  <2>1. k + 1 \in Places /\ \A a \in 1..k : a \in Places /\ a < k + 1
    BY DEF Places
  <2>2. Below(q, P[k + 1])
    <3>1. \A a \in 1..k : \A x \in Bytes(P[a]), y \in Bytes(P[k + 1]) : x < y
      BY <2>1, BelowBytes DEF Ordered
    <3>2. \A x \in Bytes(q), y \in Bytes(P[k + 1]) : x < y
      BY <1>1, <3>1
    <3> QED
      BY <3>2, BelowBytes
  <2>3. P[k + 1] \in Seq(Nat) /\ Increasing(P[k + 1])
    BY <2>1 DEF Ordered
  <2>4. Increasing(q \o P[k + 1]) /\ Bytes(q \o P[k + 1]) = Bytes(q) \cup Bytes(P[k + 1])
    BY <1>1, <2>2, <2>3, JoinedExactly
  <2>5. q \o P[k + 1] \in Seq(Nat)
    BY <1>1, <2>3
  <2>6. \A a : a \in 1..(k + 1) <=> a \in 1..k \/ a = k + 1
    OBVIOUS
  <2>7. ASSUME NEW x
        PROVE  x \in Bytes(q \o P[k + 1]) <=> \E a \in 1..(k + 1) : x \in Bytes(P[a])
    <3>1. x \in Bytes(q) <=> \E a \in 1..k : x \in Bytes(P[a])
      BY <1>1
    <3> QED
      BY <2>4, <2>6, <3>1
  <2> QED
    BY <2>4, <2>5, <2>7
<1>2. Upto(P[1], 1)
  <2>1. P[1] \in Seq(Nat) /\ Increasing(P[1])
    BY DEF Places, Ordered
  <2>2. 1..1 = {1}
    OBVIOUS
  <2> QED
    BY <2>1, <2>2
<1> HIDE DEF Upto
<1> DEFINE s2 == P[1] \o P[2]
           s3 == s2 \o P[3]
           s4 == s3 \o P[4]
           s5 == s4 \o P[5]
           s6 == s5 \o P[6]
           s7 == s6 \o P[7]
           s8 == s7 \o P[8]
<1>3. s = s8
  OBVIOUS
<1> HIDE DEF s3, s4, s5, s6, s7, s8
<1>4. Upto(s2, 2)
  BY <1>1, <1>2
<1> HIDE DEF s2
<1>5. Upto(s3, 3)
  BY <1>1, <1>4 DEF s3
<1>6. Upto(s4, 4)
  BY <1>1, <1>5 DEF s4
<1>7. Upto(s5, 5)
  BY <1>1, <1>6 DEF s5
<1>8. Upto(s6, 6)
  BY <1>1, <1>7 DEF s6
<1>9. Upto(s7, 7)
  BY <1>1, <1>8 DEF s7
<1>10. Upto(s8, 8)
  BY <1>1, <1>9 DEF s8
<1> QED
  <2>1. Bytes(s) = AllOf(P)
    <3> SUFFICES ASSUME NEW x PROVE x \in Bytes(s) <=> x \in AllOf(P)
      OBVIOUS
    <3>1. x \in Bytes(s) <=> \E a \in 1..8 : x \in Bytes(P[a])
      BY <1>3, <1>10 DEF Upto
    <3> QED
      BY <3>1, InAllOf DEF Places
  <2> QED
    BY <1>3, <1>10, <2>1 DEF Upto
-----------------------------------------------------------------------------
(* The invariant of the bytes                                              *)

\* The pieces, from what is in msgOutChan back to what was just taken from
\* msgInChan.
Pieces8(h, held, b) ==
  [k \in Places |->
     CASE k = 1 -> h [] k = 2 -> held["send"] [] k = 3 -> b["transport"] [] k = 4 -> held["out"]
       [] k = 5 -> b["loopback"] [] k = 6 -> held["in"] [] k = 7 -> b["session"] [] k = 8 -> held["feed"]]
Way == Pieces8(handed, hand, buf)

WayOK ==
  /\ handed \in Seq(Nat)
  /\ Ordered(Way)
  /\ AllOf(Way) = (1..next) \ (cleared \cup lost)

\* Who does not write holds nothing: a read never overwrites what is held.
HandsOK == \A g \in Copiers : pc[g] \notin {"write", "wait"} => hand[g] = <<>>

\* What is gone was sent, and there was a reason.
GoneOK ==
  /\ cleared \cup lost \subseteq 1..next
  /\ clear.at # "end" => cleared = {}
  /\ lost # {} => over \/ ~up \/ clear.at = "end" \/ "loopback" \in closed
  /\ closed \cap Rings # {} => over

OnWay == WayOK /\ HandsOK /\ GoneOK
-----------------------------------------------------------------------------
(* What a step does to the way                                             *)

LEMMA WayIs ==
  ASSUME NEW h \in Seq(Nat), NEW held \in [Copiers -> Seq(Nat)], NEW b \in [Buffers -> Seq(Nat)]
  PROVE  LET P == Pieces8(h, held, b) IN
         /\ P \in [Places -> Seq(Nat)]
         /\ P[1] = h /\ P[2] = held["send"] /\ P[3] = b["transport"] /\ P[4] = held["out"]
         /\ P[5] = b["loopback"] /\ P[6] = held["in"] /\ P[7] = b["session"] /\ P[8] = held["feed"]
<1> DEFINE P == Pieces8(h, held, b)
<1>1. \A k \in Places : k = 1 \/ k = 2 \/ k = 3 \/ k = 4 \/ k = 5 \/ k = 6 \/ k = 7 \/ k = 8
  BY DEF Places
<1>2. /\ P[1] = h /\ P[2] = held["send"] /\ P[3] = b["transport"] /\ P[4] = held["out"]
      /\ P[5] = b["loopback"] /\ P[6] = held["in"] /\ P[7] = b["session"] /\ P[8] = held["feed"]
  BY DEF Pieces8, Places
<1>3. \A k \in Places : P[k] \in Seq(Nat)
  BY <1>1, <1>2 DEF Copiers, Buffers, Rings
<1> DEFINE piece(k) ==
     CASE k = 1 -> h [] k = 2 -> held["send"] [] k = 3 -> b["transport"] [] k = 4 -> held["out"]
       [] k = 5 -> b["loopback"] [] k = 6 -> held["in"] [] k = 7 -> b["session"] [] k = 8 -> held["feed"]
<1>4. P = [k \in Places |-> piece(k)]
  BY DEF Pieces8
<1> HIDE DEF piece, P
<1>5. \A k \in Places : P[k] = piece(k)
  BY <1>4
<1>6. P \in [Places -> Seq(Nat)]
  BY <1>3, <1>4, <1>5
<1> QED
  BY <1>2, <1>6 DEF P

HandAt == [feed |-> 8, in |-> 6, out |-> 4, send |-> 2]
BufAt == [session |-> 7, loopback |-> 5, transport |-> 3]

LEMMA WayHere ==
  ASSUME FlowOK, handed \in Seq(Nat)
  PROVE  /\ Way \in [Places -> Seq(Nat)] /\ Way[1] = handed
         /\ Way[2] = hand["send"] /\ Way[4] = hand["out"] /\ Way[6] = hand["in"]
         /\ Way[8] = hand["feed"]
         /\ Way[3] = buf["transport"] /\ Way[5] = buf["loopback"] /\ Way[7] = buf["session"]
<1>1. handed \in Seq(Nat) /\ hand \in [Copiers -> Seq(Nat)] /\ buf \in [Buffers -> Seq(Nat)]
  BY DEF FlowOK
<1> QED
  BY ONLY <1>1, WayIs, SMTT(30) DEF Way

LEMMA WayThere ==
  ASSUME FlowOK', handed' \in Seq(Nat)
  PROVE  /\ Way' \in [Places -> Seq(Nat)] /\ Way'[1] = handed'
         /\ Way'[2] = hand'["send"] /\ Way'[4] = hand'["out"] /\ Way'[6] = hand'["in"]
         /\ Way'[8] = hand'["feed"]
         /\ Way'[3] = buf'["transport"] /\ Way'[5] = buf'["loopback"] /\ Way'[7] = buf'["session"]
<1>1. handed' \in Seq(Nat) /\ hand' \in [Copiers -> Seq(Nat)] /\ buf' \in [Buffers -> Seq(Nat)]
  BY DEF FlowOK
<1> QED
  BY ONLY <1>1, WayIs, SMTT(30) DEF Way

\* Where things are, and what a step on one hand and one buffer leaves alone.
LEMMA WayChanges ==
  ASSUME FlowOK, FlowOK', handed \in Seq(Nat), handed' = handed,
         NEW g \in Copiers, \A f \in Copiers \ {g} : hand'[f] = hand[f],
         NEW b \in Buffers, \A c \in Buffers \ {b} : buf'[c] = buf[c]
  PROVE  /\ HandAt[g] \in Places /\ BufAt[b] \in Places
         /\ Way[HandAt[g]] = hand[g] /\ Way'[HandAt[g]] = hand'[g]
         /\ Way[BufAt[b]] = buf[b] /\ Way'[BufAt[b]] = buf'[b]
         /\ \A a \in Places \ {HandAt[g], BufAt[b]} : Way'[a] = Way[a]
<1>1. g = "feed" \/ g = "in" \/ g = "out" \/ g = "send"
  BY DEF Copiers
<1>2. b = "session" \/ b = "loopback" \/ b = "transport"
  BY DEF Buffers, Rings
<1>3. HandAt[g] \in Places /\ BufAt[b] \in Places
  BY <1>1, <1>2 DEF HandAt, BufAt, Places
<1>4. /\ \A f \in Copiers \ {g} : hand'[f] = hand[f]
      /\ \A c \in Buffers \ {b} : buf'[c] = buf[c]
  OBVIOUS
<1>5. /\ Way[1] = handed /\ Way[2] = hand["send"] /\ Way[4] = hand["out"] /\ Way[6] = hand["in"]
      /\ Way[8] = hand["feed"]
      /\ Way[3] = buf["transport"] /\ Way[5] = buf["loopback"] /\ Way[7] = buf["session"]
  BY WayHere
<1>6. /\ Way'[1] = handed' /\ Way'[2] = hand'["send"] /\ Way'[4] = hand'["out"] /\ Way'[6] = hand'["in"]
      /\ Way'[8] = hand'["feed"]
      /\ Way'[3] = buf'["transport"] /\ Way'[5] = buf'["loopback"] /\ Way'[7] = buf'["session"]
  BY WayThere
<1>7. Way[HandAt[g]] = hand[g] /\ Way'[HandAt[g]] = hand'[g]
  BY <1>1, <1>4, <1>5, <1>6 DEF HandAt
<1>8. Way[BufAt[b]] = buf[b] /\ Way'[BufAt[b]] = buf'[b]
  BY <1>2, <1>4, <1>5, <1>6 DEF BufAt
<1>9. ASSUME NEW a \in Places, a # HandAt[g], a # BufAt[b] PROVE Way'[a] = Way[a]
  <2>1. /\ (HandAt[g] # 2 => g # "send") /\ (HandAt[g] # 4 => g # "out")
        /\ (HandAt[g] # 6 => g # "in") /\ (HandAt[g] # 8 => g # "feed")
        /\ (BufAt[b] # 3 => b # "transport") /\ (BufAt[b] # 5 => b # "loopback")
        /\ (BufAt[b] # 7 => b # "session")
    BY DEF HandAt, BufAt
  <2>2. {"send", "out", "in", "feed"} = Copiers /\ {"transport", "loopback", "session"} = Buffers
    BY DEF Copiers, Buffers, Rings
  <2>3. /\ (g # "send" => Way'[2] = Way[2]) /\ (g # "out" => Way'[4] = Way[4])
        /\ (g # "in" => Way'[6] = Way[6]) /\ (g # "feed" => Way'[8] = Way[8])
    BY <1>4, <1>5, <1>6, <2>2
  <2>4. /\ (b # "transport" => Way'[3] = Way[3]) /\ (b # "loopback" => Way'[5] = Way[5])
        /\ (b # "session" => Way'[7] = Way[7])
    BY <1>4, <1>5, <1>6, <2>2
  <2>5. a = 1 \/ a = 2 \/ a = 3 \/ a = 4 \/ a = 5 \/ a = 6 \/ a = 7 \/ a = 8
    BY DEF Places
  <2> QED
    BY <1>5, <1>6, <1>9, <2>1, <2>3, <2>4, <2>5
<1> QED
  BY <1>3, <1>7, <1>8, <1>9

\* A piece passes its first n bytes on to the piece before it.
LEMMA PassedOn ==
  ASSUME NEW P \in [Places -> Seq(Nat)], Ordered(P), NEW Q,
         NEW k \in Places, NEW l \in Places, l = k + 1, NEW n \in 0..Len(P[l]),
         Q[k] = P[k] \o Take(P[l], n), Q[l] = Drop(P[l], n),
         \A a \in Places \ {k, l} : Q[a] = P[a]
  PROVE  Ordered(Q) /\ AllOf(Q) = AllOf(P)
<1> DEFINE t == Take(P[l], n)
           d == Drop(P[l], n)
<1>1. P[l] \in Seq(Nat) /\ Increasing(P[l])
  BY DEF Ordered
<1>2. /\ t \in Seq(Nat) /\ d \in Seq(Nat) /\ Increasing(t) /\ Increasing(d) /\ Below(t, d)
      /\ Bytes(P[l]) = Bytes(t) \cup Bytes(d)
  BY <1>1, Split
<1>3. Q[k] = P[k] \o t /\ Q[l] = d
  OBVIOUS
<1>4. /\ P \in [Places -> Seq(Nat)] /\ Ordered(P) /\ k \in Places /\ l \in Places /\ l = k + 1
      /\ \A a \in Places \ {k, l} : Q[a] = P[a]
  OBVIOUS
<1> HIDE DEF t, d
<1> QED
  BY ONLY <1>2, <1>3, <1>4, Moved, ZenonT(30)

LEMMA Passes ==
  ASSUME FlowOK, FlowOK', WayOK, handed' \in Seq(Nat), UNCHANGED <<next, cleared, lost>>,
         NEW k \in Places, NEW l \in Places, l = k + 1, NEW n \in 0..Len(Way[l]),
         Way'[k] = Way[k] \o Take(Way[l], n), Way'[l] = Drop(Way[l], n),
         \A a \in Places \ {k, l} : Way'[a] = Way[a]
  PROVE  WayOK'
<1> DEFINE P == Way
           Q == Way'
<1>1. P \in [Places -> Seq(Nat)] /\ Ordered(P)
  BY WayHere DEF WayOK
<1>2. /\ n \in 0..Len(P[l]) /\ Q[k] = P[k] \o Take(P[l], n) /\ Q[l] = Drop(P[l], n)
      /\ \A a \in Places \ {k, l} : Q[a] = P[a]
  OBVIOUS
<1> HIDE DEF P, Q
<1>3. k \in Places /\ l \in Places /\ l = k + 1
  OBVIOUS
<1>4. Ordered(Q) /\ AllOf(Q) = AllOf(P)
  BY ONLY <1>1, <1>2, <1>3, PassedOn, ZenonT(60)
<1> QED
  BY <1>4 DEF WayOK, P, Q, Ordered, AllOf

\* A piece is thrown away and is gone.
LEMMA Throws ==
  ASSUME FlowOK, FlowOK', WayOK, UNCHANGED <<handed, next>>, NEW k \in Places, Way'[k] = <<>>,
         \A a \in Places \ {k} : Way'[a] = Way[a],
         cleared' \cup lost' = cleared \cup lost \cup Bytes(Way[k])
  PROVE  WayOK'
<1> DEFINE e == <<>>
           P == Way
           Q == Way'
<1>1. P \in [Places -> Seq(Nat)] /\ Q \in [Places -> Seq(Nat)] /\ Ordered(P)
  BY WayHere, WayThere DEF WayOK
<1>2. Q[k] = e /\ \A a \in Places \ {k} : Q[a] = P[a]
  OBVIOUS
<1> HIDE DEF P, Q
<1>3. Ordered(Q) /\ AllOf(Q) = AllOf(P) \ Bytes(P[k])
  BY <1>1, <1>2, Removed DEF e
<1> QED
  BY <1>3 DEF WayOK, P, Q, Ordered, AllOf

\* All of it, or nothing.
LEMMA Whole ==
  ASSUME NEW q \in Seq(Nat)
  PROVE  /\ Take(q, Len(q)) = q /\ Drop(q, Len(q)) = <<>>
         /\ <<>> \o q = q
<1>1. Len(q) \in Nat
  OBVIOUS
<1>2. Take(q, Len(q)) = q
  BY <1>1 DEF Take
<1>3. Drop(q, Len(q)) = <<>>
  BY <1>1 DEF Drop
<1> QED
  BY <1>2, <1>3
-----------------------------------------------------------------------------
(* The other conjuncts of OnWay                                            *)

LEMMA HandsStep ==
  ASSUME FlowOK, HandsOK, NEW g \in Copiers, NEW l, NEW h,
         pc' = [pc EXCEPT ![g] = l], hand' = [hand EXCEPT ![g] = h],
         l \in {"write", "wait"} \/ h = <<>>
  PROVE  HandsOK'
BY DEF FlowOK, HandsOK

LEMMA GoneStays ==
  ASSUME GoneOK, UNCHANGED <<next, cleared, lost, closed, up, over, clear>>
  PROVE  GoneOK'
BY DEF GoneOK

-----------------------------------------------------------------------------
(* The steps                                                               *)

LEMMA ReadKeeps ==
  ASSUME IInv, IInv', OnWay, NEW g \in {"in", "out", "send"}, ReadBytes(g)
  PROVE  OnWay'
<1> USE DEF OnWay, IInv
<1> DEFINE b == Source[g]
           n == Least(Size, Len(buf[b]))
           t == Take(buf[b], n)
           d == Drop(buf[b], n)
<1>1. g \in Copiers /\ b \in Buffers
  BY DEF Copiers, Source, Buffers, Rings
<1>2. /\ pc' = [pc EXCEPT ![g] = "write"] /\ hand' = [hand EXCEPT ![g] = t]
      /\ buf' = [buf EXCEPT ![b] = d]
      /\ UNCHANGED <<handed, next, cleared, lost, shutdown, clear>>
      /\ hand[g] = <<>>
  <2>1. pc[g] = "read"
    BY DEF ReadBytes
  <2> QED
    BY <1>1, <2>1 DEF ReadBytes, Goto, Hold, HandsOK
<1>3. n \in 0..Len(buf[b]) /\ buf[b] \in Seq(Nat)
  <2>1. Len(buf[b]) \in Nat /\ buf[b] \in Seq(Nat)
    BY <1>1 DEF FlowOK
  <2> QED
    BY <2>1, SizesAssumption DEF Least
<1>4. t \in Seq(Nat) /\ <<>> \o t = t
  <2>1. t \in Seq(Nat)
    BY <1>3, Pieces
  <2> HIDE DEF t
  <2> QED
    BY <2>1, Whole
<1> HIDE DEF n
<1> HIDE DEF t, d
<1> DEFINE k == HandAt[g]
           l == BufAt[b]
<1>5. k \in Places /\ l \in Places /\ l = k + 1
  BY DEF HandAt, BufAt, Source, Places
<1>6. /\ Way[k] = hand[g] /\ Way'[k] = t /\ Way[l] = buf[b] /\ Way'[l] = d
      /\ \A a \in Places \ {k, l} : Way'[a] = Way[a]
  <2>1. /\ hand'[g] = t /\ \A f \in Copiers \ {g} : hand'[f] = hand[f]
        /\ buf'[b] = d /\ \A c \in Buffers \ {b} : buf'[c] = buf[c]
    BY <1>1, <1>2 DEF FlowOK
  <2>2. handed \in Seq(Nat) /\ handed' = handed
    BY <1>2 DEF WayOK
  <2> QED
    BY <1>1, <2>1, <2>2, WayChanges
<1> HIDE DEF k, l
<1>7. Way'[k] = Way[k] \o Take(Way[l], n) /\ Way'[l] = Drop(Way[l], n) /\ n \in 0..Len(Way[l])
  BY <1>2, <1>3, <1>4, <1>6 DEF t, d
<1>8. WayOK'
  BY <1>2, <1>5, <1>6, <1>7, Passes DEF WayOK
<1>9. HandsOK'
  BY <1>1, <1>2, HandsStep
<1>10. GoneOK'
  BY <1>2, GoneStays DEF shutdown
<1> QED
  BY <1>8, <1>9, <1>10

LEMMA WriteKeeps ==
  ASSUME IInv, IInv', OnWay, NEW g \in {"feed", "out"}, WriteBytes(g)
  PROVE  OnWay'
<1> USE DEF OnWay, IInv
<1> DEFINE b == Target[g]
           n == Least(Cap - Len(buf[b]), Len(hand[g]))
           t == Take(hand[g], n)
           d == Drop(hand[g], n)
           label == IF n = Len(hand[g]) THEN "read" ELSE "wait"
<1>1. g \in Copiers /\ b \in Buffers /\ b \in Rings
  BY DEF Copiers, Target, Buffers, Rings
<1>2. /\ pc' = [pc EXCEPT ![g] = label] /\ hand' = [hand EXCEPT ![g] = d]
      /\ buf' = [buf EXCEPT ![b] = buf[b] \o t]
      /\ UNCHANGED <<handed, next, cleared, lost, shutdown, clear>>
  BY DEF WriteBytes, Goto, Hold
<1>3. hand[g] \in Seq(Nat) /\ n \in 0..Len(hand[g])
  <2>1. /\ Len(buf[b]) \in Nat /\ Len(buf[b]) <= Cap /\ Cap \in Nat
        /\ hand[g] \in Seq(Nat) /\ Len(hand[g]) \in Nat
    BY <1>1, SizesAssumption DEF FlowOK
  <2>2. Cap - Len(buf[b]) \in Nat
    BY <2>1
  <2>3. n \in Nat /\ n <= Len(hand[g])
    BY <2>1, <2>2, LeastIs
  <2> HIDE DEF n
  <2> QED
    BY <2>1, <2>3
<1> HIDE DEF n
<1>4. n = Len(hand[g]) => d = <<>>
  BY <1>3, Whole
<1> DEFINE q == buf[b] \o t
<1>5. buf' = [buf EXCEPT ![b] = q]
  BY <1>2
<1> HIDE DEF t, d, q
<1> DEFINE k == BufAt[b]
           l == HandAt[g]
<1>6. k \in Places /\ l \in Places /\ l = k + 1
  BY DEF HandAt, BufAt, Target, Places
<1>7. /\ Way[k] = buf[b] /\ Way'[k] = q /\ Way[l] = hand[g] /\ Way'[l] = d
      /\ \A a \in Places \ {k, l} : Way'[a] = Way[a]
  <2>1. /\ hand'[g] = d /\ \A f \in Copiers \ {g} : hand'[f] = hand[f]
        /\ buf'[b] = q /\ \A c \in Buffers \ {b} : buf'[c] = buf[c]
    BY <1>1, <1>2, <1>5 DEF FlowOK
  <2>2. handed \in Seq(Nat) /\ handed' = handed
    BY <1>2 DEF WayOK
  <2> QED
    BY <1>1, <2>1, <2>2, WayChanges
<1> HIDE DEF k, l
<1>8. Way'[k] = Way[k] \o Take(Way[l], n) /\ Way'[l] = Drop(Way[l], n) /\ n \in 0..Len(Way[l])
  BY <1>3, <1>7 DEF t, d, q
<1>9. WayOK'
  BY <1>2, <1>6, <1>7, <1>8, Passes DEF WayOK
<1>10. HandsOK'
  <2>1. label \in {"write", "wait"} \/ d = <<>>
    BY <1>4
  <2> HIDE DEF label
  <2> QED
    BY <1>1, <1>2, <2>1, HandsStep
<1>11. GoneOK'
  BY <1>2, GoneStays DEF shutdown
<1> QED
  BY <1>9, <1>10, <1>11

LEMMA LoopbackWriteKeeps ==
  ASSUME IInv, IInv', OnWay, LoopbackWrite
  PROVE  OnWay'
<1> USE DEF OnWay, IInv
<1> DEFINE h == hand["in"]
           e == <<>>
           q == buf["loopback"] \o h
<1>1. "in" \in Copiers /\ "loopback" \in Buffers /\ h \in Seq(Nat)
  BY DEF Copiers, Buffers, FlowOK
<1>2. /\ pc' = [pc EXCEPT !["in"] = "read"] /\ hand' = [hand EXCEPT !["in"] = e]
      /\ buf' = [buf EXCEPT !["loopback"] = q]
      /\ UNCHANGED <<handed, next, cleared, lost, shutdown, clear>>
  BY DEF LoopbackWrite, Goto, Hold
<1>3. Take(h, Len(h)) = h /\ Drop(h, Len(h)) = e /\ Len(h) \in 0..Len(h)
  BY <1>1, Whole
<1>4. HandsOK'
  BY <1>1, <1>2, HandsStep
<1> HIDE DEF e, q
<1>5. /\ HandAt["in"] = 6 /\ BufAt["loopback"] = 5 /\ 5 \in Places /\ 6 \in Places /\ 6 = 5 + 1
  BY DEF HandAt, BufAt, Places
<1>6. /\ Way[5] = buf["loopback"] /\ Way'[5] = q /\ Way[6] = h /\ Way'[6] = e
      /\ \A a \in Places \ {5, 6} : Way'[a] = Way[a]
  <2>1. /\ hand'["in"] = e /\ \A f \in Copiers \ {"in"} : hand'[f] = hand[f]
        /\ buf'["loopback"] = q /\ \A c \in Buffers \ {"loopback"} : buf'[c] = buf[c]
    BY <1>1, <1>2 DEF FlowOK
  <2>2. handed \in Seq(Nat) /\ handed' = handed
    BY <1>2 DEF WayOK
  <2> QED
    BY <1>1, <1>5, <2>1, <2>2, WayChanges
<1>7. /\ Way'[5] = Way[5] \o Take(Way[6], Len(h)) /\ Way'[6] = Drop(Way[6], Len(h))
      /\ Len(h) \in 0..Len(Way[6])
  BY <1>3, <1>6 DEF q
<1>8. WayOK'
  BY <1>2, <1>5, <1>6, <1>7, Passes DEF WayOK
<1>9. GoneOK'
  BY <1>2, GoneStays DEF shutdown
<1> QED
  BY <1>4, <1>8, <1>9

LEMMA SendKeeps ==
  ASSUME IInv, IInv', OnWay, QueueFrame
  PROVE  OnWay'
<1> USE DEF OnWay, IInv
<1> DEFINE h == hand["send"]
           e == <<>>
           q == handed \o h
<1>1. "send" \in Copiers /\ h \in Seq(Nat) /\ handed \in Seq(Nat)
  BY DEF Copiers, FlowOK, WayOK
<1>2. /\ pc' = [pc EXCEPT !["send"] = "read"] /\ hand' = [hand EXCEPT !["send"] = e]
      /\ handed' = q
      /\ UNCHANGED <<buf, next, cleared, lost, shutdown, clear>>
  BY DEF QueueFrame, Goto, Hold
<1>3. Take(h, Len(h)) = h /\ Drop(h, Len(h)) = e /\ Len(h) \in 0..Len(h) /\ q \in Seq(Nat)
  BY <1>1, Whole
<1>4. HandsOK'
  BY <1>1, <1>2, HandsStep
<1> HIDE DEF e, q
<1>5. 1 \in Places /\ 2 \in Places /\ 2 = 1 + 1
  BY DEF Places
<1>6. hand'["send"] = e /\ \A g \in Copiers \ {"send"} : hand'[g] = hand[g]
  BY <1>1, <1>2 DEF FlowOK
<1>7. /\ Way[1] = handed /\ Way'[1] = q /\ Way[2] = h /\ Way'[2] = e
      /\ \A a \in Places \ {1, 2} : Way'[a] = Way[a]
  <2>1. /\ Way[1] = handed /\ Way[2] = h /\ Way'[1] = q /\ Way'[2] = e
        /\ Way'[4] = Way[4] /\ Way'[6] = Way[6] /\ Way'[8] = Way[8]
        /\ Way'[3] = Way[3] /\ Way'[5] = Way[5] /\ Way'[7] = Way[7]
    <3>1. FlowOK /\ FlowOK' /\ handed' \in Seq(Nat) /\ handed' = q
      BY <1>2, <1>3
    <3>2. /\ hand'["send"] = e /\ hand'["out"] = hand["out"] /\ hand'["in"] = hand["in"]
          /\ hand'["feed"] = hand["feed"] /\ buf' = buf
      BY <1>2, <1>6 DEF Copiers
    <3> QED
      BY ONLY <1>1, <3>1, <3>2, WayHere, WayThere
  <2>2. \A a \in Places \ {1, 2} : a = 3 \/ a = 4 \/ a = 5 \/ a = 6 \/ a = 7 \/ a = 8
    BY DEF Places
  <2> QED
    BY <2>1, <2>2
<1>8. /\ Way'[1] = Way[1] \o Take(Way[2], Len(h)) /\ Way'[2] = Drop(Way[2], Len(h))
      /\ Len(h) \in 0..Len(Way[2])
  BY <1>3, <1>7 DEF q
<1>9. WayOK'
  BY <1>2, <1>3, <1>5, <1>7, <1>8, Passes
<1>10. GoneOK'
  BY <1>2, GoneStays DEF shutdown
<1> QED
  BY <1>4, <1>9, <1>10

\* A goroutine that ends with bytes in its hand: there was a reason.
LEMMA LosesKeeps ==
  ASSUME IInv, IInv', OnWay, NEW g \in Copiers, Loses(g),
         over \/ ~up \/ clear.at = "end" \/ "loopback" \in closed,
         UNCHANGED <<buf, handed, next, cleared, shutdown, clear>>
  PROVE  OnWay'
<1> USE DEF OnWay, IInv
<1> DEFINE e == <<>>
           k == HandAt[g]
<1>1. /\ pc' = [pc EXCEPT ![g] = "end"] /\ hand' = [hand EXCEPT ![g] = e]
      /\ lost' = lost \cup Bytes(hand[g])
  BY DEF Loses, Goto, Hold
<1>2. HandsOK'
  BY <1>1, HandsStep
<1>3. "session" \in Buffers /\ BufAt["session"] = 7
  BY DEF Buffers, Rings, BufAt
<1> HIDE DEF e
<1>4. /\ k \in Places /\ Way[k] = hand[g] /\ Way'[k] = e
      /\ \A a \in Places \ {k} : Way'[a] = Way[a]
  <2>1. hand'[g] = e /\ (\A f \in Copiers \ {g} : hand'[f] = hand[f]) /\ buf' = buf
    BY <1>1 DEF FlowOK
  <2>2. handed \in Seq(Nat) /\ handed' = handed
    BY DEF WayOK
  <2>3. /\ k \in Places /\ Way[k] = hand[g] /\ Way'[k] = hand'[g]
        /\ Way[7] = buf["session"] /\ Way'[7] = buf'["session"]
        /\ \A a \in Places \ {k, 7} : Way'[a] = Way[a]
    BY <1>3, <2>1, <2>2, WayChanges
  <2> QED
    BY <2>1, <2>3
<1> HIDE DEF k
<1>5. cleared' \cup lost' = cleared \cup lost \cup Bytes(Way[k])
  BY <1>1, <1>4
<1>6. WayOK'
  BY <1>4, <1>5, Throws DEF e
<1>7. GoneOK'
  <2>1. Bytes(hand[g]) \subseteq 1..next
    BY DEF FlowOK, Sent
  <2> QED
    BY <1>1, <2>1 DEF GoneOK, shutdown
<1> QED
  BY <1>2, <1>6, <1>7

LEMMA NextFrame ==
  ASSUME NEW m \in Nat, NEW n \in Nat, NEW q \in Seq(Nat), Len(q) = n, \A i \in 1..n : q[i] = m + i
  PROVE  Increasing(q) /\ Bytes(q) = (m + 1)..(m + n)
<1>1. Increasing(q)
  BY DEF Increasing
<1>2. Bytes(q) \subseteq (m + 1)..(m + n)
  <2> SUFFICES ASSUME NEW i \in 1..n PROVE q[i] \in (m + 1)..(m + n)
    BY DEF Bytes
  <2>1. q[i] = m + i /\ m + i \in (m + 1)..(m + n)
    OBVIOUS
  <2> QED
    BY <2>1
<1>3. (m + 1)..(m + n) \subseteq Bytes(q)
  <2> SUFFICES ASSUME NEW x \in (m + 1)..(m + n) PROVE x \in Bytes(q)
    OBVIOUS
  <2>1. x - m \in 1..n /\ x = m + (x - m)
    OBVIOUS
  <2> QED
    BY <2>1 DEF Bytes
<1> QED
  BY <1>1, <1>2, <1>3

\* The next bytes come in behind all others.
LEMMA Arrived ==
  ASSUME NEW P, Ordered(P), NEW q, Increasing(q), Bytes(P[8]) = {},
         \A x \in AllOf(P), y \in Bytes(q) : x < y,
         NEW Q, Q[8] = q, \A a \in Places \ {8} : Q[a] = P[a]
  PROVE  Ordered(Q) /\ AllOf(Q) = AllOf(P) \cup Bytes(q)
<1>1. 8 \in Places /\ \A a \in Places : a # 8 => a < 8
  BY DEF Places
<1>2. \A a, b \in Places : a < b => \A x \in Bytes(P[a]), y \in Bytes(P[b]) : x < y
  BY BelowBytes DEF Ordered
<1>3. \A a \in Places : Increasing(Q[a])
  BY DEF Ordered
<1>4. ASSUME NEW a \in Places, NEW b \in Places, a < b PROVE Below(Q[a], Q[b])
  <2> SUFFICES ASSUME NEW x \in Bytes(Q[a]), NEW y \in Bytes(Q[b]) PROVE x < y
    BY BelowBytes
  <2>1. a # 8 /\ x \in Bytes(P[a])
    <3>1. a # 8
      BY <1>4 DEF Places
    <3> QED
      BY <3>1
  <2>2. CASE b = 8
    BY <2>1, <2>2, InAllOf
  <2>3. CASE b # 8
    BY <1>2, <1>4, <2>1, <2>3
  <2> QED
    BY <2>2, <2>3
<1>5. AllOf(Q) = AllOf(P) \cup Bytes(q)
  <2> SUFFICES ASSUME NEW x PROVE x \in AllOf(Q) <=> x \in AllOf(P) \/ x \in Bytes(q)
    OBVIOUS
  <2>1. (\E a \in Places : x \in Bytes(Q[a]))
           <=> (\E a \in Places : x \in Bytes(P[a])) \/ x \in Bytes(q)
    BY <1>1
  <2> QED
    BY <2>1, InAllOf
<1> QED
  BY <1>3, <1>4, <1>5 DEF Ordered

LEMMA TakeFrameKeeps ==
  ASSUME IInv, IInv', OnWay, TakeFrame
  PROVE  OnWay'
<1> USE DEF OnWay, IInv
<1>1. PICK n \in 1..Least(Size, MaxBytes - next) :
        hand' = [hand EXCEPT !["feed"] = [i \in 1..n |-> next + i]] /\ next' = next + n
  BY DEF TakeFrame, Hold
<1> DEFINE q == [i \in 1..n |-> next + i]
<1>2. next \in Nat /\ n \in Nat /\ "feed" \in Copiers
  <2>1. next \in Nat /\ MaxBytes - next \in Nat /\ Size \in Nat
    BY SizesAssumption DEF FlowOK
  <2>2. Least(Size, MaxBytes - next) \in Nat
    BY <2>1, LeastIs
  <2> QED
    BY <2>1, <2>2 DEF Copiers
<1>3. q \in Seq(Nat) /\ Len(q) = n /\ \A i \in 1..n : q[i] = next + i
  BY <1>2
<1>4. /\ hand' = [hand EXCEPT !["feed"] = q] /\ pc' = [pc EXCEPT !["feed"] = "write"]
      /\ hand["feed"] = <<>>
      /\ UNCHANGED <<handed, buf, cleared, lost, shutdown, clear>>
  BY <1>1, <1>2 DEF TakeFrame, Goto, HandsOK
<1> HIDE DEF q
<1>5. HandsOK'
  BY <1>2, <1>4, HandsStep
<1>6. GoneOK'
  <2>1. 1..next \subseteq 1..next'
    BY <1>1, <1>2
  <2> QED
    BY <1>4, <2>1 DEF GoneOK, shutdown
<1>7. /\ Way[8] = <<>> /\ Way'[8] = q
      /\ \A a \in Places \ {8} : Way'[a] = Way[a]
  <2>1. hand'["feed"] = q /\ \A f \in Copiers \ {"feed"} : hand'[f] = hand[f]
    BY <1>2, <1>4 DEF FlowOK
  <2>2. handed \in Seq(Nat) /\ handed' = handed /\ \A c \in Buffers \ {"session"} : buf'[c] = buf[c]
    BY <1>4 DEF WayOK
  <2>3. "session" \in Buffers /\ BufAt["session"] = 7 /\ HandAt["feed"] = 8
    BY DEF Buffers, Rings, BufAt, HandAt
  <2>4. /\ Way[8] = hand["feed"] /\ Way'[8] = hand'["feed"]
        /\ Way[7] = buf["session"] /\ Way'[7] = buf'["session"]
        /\ \A a \in Places \ {8, 7} : Way'[a] = Way[a]
    BY <1>2, <2>1, <2>2, <2>3, WayChanges
  <2> QED
    BY <1>4, <2>1, <2>4
<1>8. WayOK'
  <2> DEFINE P == Way
             Q == Way'
  <2>1. /\ Ordered(P) /\ Bytes(P[8]) = {} /\ Q[8] = q
        /\ \A a \in Places \ {8} : Q[a] = P[a]
    BY <1>7, NothingThere DEF WayOK
  <2>2. AllOf(P) = (1..next) \ (cleared \cup lost)
    BY DEF WayOK
  <2> HIDE DEF P, Q
  <2>3. Increasing(q) /\ Bytes(q) = (next + 1)..(next + n)
    BY ONLY <1>2, <1>3, NextFrame
  <2>4. ASSUME NEW x \in AllOf(P), NEW y \in Bytes(q) PROVE x < y
    <3>1. x \in 1..next /\ y \in (next + 1)..(next + n)
      BY <2>2, <2>3
    <3> QED
      BY <1>2, <3>1
  <2>5. Ordered(Q) /\ AllOf(Q) = AllOf(P) \cup ((next + 1)..(next + n))
    <3>1. Ordered(Q) /\ AllOf(Q) = AllOf(P) \cup Bytes(q)
      BY ONLY <2>1, <2>3, <2>4, Arrived
    <3> QED
      BY <2>3, <3>1
  <2>6. (1..next') \ (cleared \cup lost)
          = ((1..next) \ (cleared \cup lost)) \cup ((next + 1)..(next + n))
    <3>1. 1..next' = (1..next) \cup ((next + 1)..(next + n))
      BY <1>1, <1>2
    <3>2. ((next + 1)..(next + n)) \cap (cleared \cup lost) = {}
      <4>1. \A x \in (next + 1)..(next + n) : x \notin 1..next
        BY <1>2
      <4> QED
        BY <4>1 DEF GoneOK
    <3> QED
      BY <3>1, <3>2
  <2>7. AllOf(Q) = (1..next') \ (cleared' \cup lost')
    BY <1>4, <2>2, <2>5, <2>6
  <2> QED
    BY <1>4, <2>5, <2>7 DEF WayOK, P, Q, Ordered, AllOf
<1> QED
  BY <1>5, <1>6, <1>8

\* A clear throws the session's buffer away, and the write it fails what it holds.
LEMMA ClearKeeps ==
  ASSUME IInv, IInv', OnWay, ClearReset
  PROVE  OnWay'
<1> USE DEF OnWay, IInv
<1> DEFINE e == <<>>
           fails == pc["feed"] \in {"write", "wait"} /\ lost' = lost \cup Bytes(hand["feed"])
<1>1. /\ clear.at = "reset" /\ clear' = [at |-> "end", n |-> 0]
      /\ cleared' = Bytes(buf["session"])
      /\ buf' = [buf EXCEPT !["session"] = e]
      /\ closed' \subseteq closed
      /\ UNCHANGED <<handed, next, up, over>>
  BY DEF ClearReset
<1>2. PICK reader \in IF pc["in"] = "read" THEN {"read", "retry"} ELSE {pc["in"]} :
        \/ pc' = [pc EXCEPT !["in"] = reader] /\ hand' = hand /\ lost' = lost
        \/ /\ fails
           /\ pc' = [pc EXCEPT !["in"] = reader, !["feed"] = "end"]
           /\ hand' = [hand EXCEPT !["feed"] = e]
  BY DEF ClearReset, Goto, Hold
<1>3. HandsOK'
  BY <1>2 DEF HandsOK, FlowOK, Copiers
<1>4. /\ Way \in [Places -> Seq(Nat)] /\ Ordered(Way)
      /\ Way[7] = buf["session"] /\ Way[8] = hand["feed"]
  BY WayHere DEF WayOK
<1>5. GoneOK'
  <2>1. Bytes(buf["session"]) \subseteq 1..next /\ Bytes(hand["feed"]) \subseteq 1..next
    BY DEF FlowOK, Sent, Buffers, Rings, Copiers
  <2>2. clear'.at = "end"
    BY <1>1 DEF ClearOK
  <2> QED
    BY <1>1, <1>2, <2>1, <2>2 DEF GoneOK
<1>6. /\ Way' \in [Places -> Seq(Nat)]
      /\ \A a \in Places \ {7, 8} : Way'[a] = Way[a]
      /\ Way'[7] = e
      /\ \/ Way'[8] = Way[8] /\ lost' = lost
         \/ Way'[8] = e /\ lost' = lost \cup Bytes(Way[8])
  <2>1. /\ buf'["session"] = e /\ buf'["transport"] = buf["transport"]
        /\ buf'["loopback"] = buf["loopback"]
    BY <1>1 DEF FlowOK, Buffers, Rings
  <2>2. /\ hand'["send"] = hand["send"] /\ hand'["out"] = hand["out"] /\ hand'["in"] = hand["in"]
        /\ \/ hand'["feed"] = hand["feed"] /\ lost' = lost
           \/ hand'["feed"] = e /\ lost' = lost \cup Bytes(hand["feed"])
    BY <1>2 DEF FlowOK, Copiers
  <2> HIDE DEF e
  <2>3. handed \in Seq(Nat) /\ handed' \in Seq(Nat) /\ handed' = handed
    BY <1>1 DEF WayOK
  <2>4. /\ Way' \in [Places -> Seq(Nat)]
        /\ Way'[1] = Way[1] /\ Way'[2] = Way[2] /\ Way'[3] = Way[3] /\ Way'[4] = Way[4]
        /\ Way'[5] = Way[5] /\ Way'[6] = Way[6] /\ Way'[7] = e /\ Way'[8] = hand'["feed"]
    BY <2>1, <2>2, <2>3, WayHere, WayThere
  <2>5. \A a \in Places \ {7, 8} : a = 1 \/ a = 2 \/ a = 3 \/ a = 4 \/ a = 5 \/ a = 6
    BY DEF Places
  <2> QED
    BY <1>4, <2>2, <2>4, <2>5
<1>7. Ordered(Way') /\ AllOf(Way') = AllOf(Way) \ (cleared' \cup lost')
      /\ AllOf(Way) \cap lost = {}
  <2> DEFINE P == Way
             Q == Way'
             R == [P EXCEPT ![7] = e]
  <2>1. P \in [Places -> Seq(Nat)] /\ Ordered(P) /\ 7 \in Places /\ 8 \in Places
    BY <1>4 DEF Places
  <2>2. /\ Q \in [Places -> Seq(Nat)] /\ \A a \in Places \ {7, 8} : Q[a] = P[a]
        /\ Q[7] = e
        /\ \/ Q[8] = P[8] /\ lost' = lost
           \/ Q[8] = e /\ lost' = lost \cup Bytes(P[8])
    BY <1>6
  <2>3. cleared' = Bytes(P[7]) /\ AllOf(P) \cap lost = {}
    BY <1>1, <1>4 DEF WayOK
  <2> HIDE DEF P, Q
  <2>4. e \in Seq(Nat)
    OBVIOUS
  <2> HIDE DEF e
  <2>5. /\ R \in [Places -> Seq(Nat)] /\ R[7] = e /\ \A a \in Places \ {7} : R[a] = P[a]
    BY <2>1, <2>4
  <2> HIDE DEF R
  <2>6. Ordered(R) /\ AllOf(R) = AllOf(P) \ Bytes(P[7])
    BY ONLY <2>1, <2>5, Removed, ZenonT(30) DEF e
  <2>7. CASE Q[8] = P[8] /\ lost' = lost
    <3>1. \A a \in Places : Q[a] = R[a]
      <4>1. Q[7] = R[7] /\ Q[8] = R[8]
        BY <2>1, <2>2, <2>5, <2>7
      <4> QED
        BY <2>2, <2>5, <4>1
    <3>2. Q = R
      BY <2>2, <2>5, <3>1
    <3> QED
      BY <2>3, <2>6, <2>7, <3>2 DEF P, Q, Ordered, AllOf
  <2>8. CASE Q[8] = e /\ lost' = lost \cup Bytes(P[8])
    <3>1. \A a \in Places \ {8} : Q[a] = R[a]
      BY <2>2, <2>5, <2>8
    <3>2. R[8] = P[8]
      BY <2>1, <2>5
    <3>3. Ordered(Q) /\ AllOf(Q) = AllOf(R) \ Bytes(R[8])
      <4>1. PICK k \in Places : k = 8
        BY <2>1
      <4>2. /\ R \in [Places -> Seq(Nat)] /\ Ordered(R)
            /\ Q[k] = <<>> /\ \A a \in Places \ {k} : Q[a] = R[a]
        BY <2>5, <2>6, <2>8, <3>1, <4>1 DEF e
      <4>3. Ordered(Q) /\ AllOf(Q) = AllOf(R) \ Bytes(R[k])
        BY ONLY <4>2, Removed
      <4> QED
        BY <4>1, <4>3
    <3>4. AllOf(Q) = AllOf(P) \ (cleared' \cup lost')
      BY <2>3, <2>6, <2>8, <3>2, <3>3
    <3> QED
      BY <2>3, <3>3, <3>4 DEF P, Q, Ordered, AllOf
  <2> QED
    BY <2>2, <2>7, <2>8
<1>8. WayOK'
  <2>1. cleared = {}
    BY <1>1 DEF GoneOK
  <2>2. lost \subseteq lost'
    BY <1>2
  <2>3. AllOf(Way') = (1..next') \ (cleared' \cup lost')
    BY <1>1, <1>7, <2>1, <2>2 DEF WayOK
  <2> QED
    BY <1>1, <1>7, <2>3 DEF WayOK, Ordered, AllOf
<1> QED
  BY <1>3, <1>5, <1>8

\* A step that leaves the bytes where they are.
LEMMA RestKeeps ==
  ASSUME IInv, OnWay, UNCHANGED <<hand, buf, handed, next, cleared, lost>>,
         \A g \in Copiers : pc'[g] = pc[g] \/ pc[g] \notin {"write", "wait"},
         \/ clear' = clear
         \/ clear.at = "idle" /\ clear'.at = "reset",
         over => over', up' => up, "loopback" \in closed => "loopback" \in closed',
         closed' \cap Rings # {} => over'
  PROVE  OnWay'
<1> USE DEF OnWay
<1>1. WayOK'
  <2>1. Way' = Pieces8(handed', hand', buf') /\ Way = Pieces8(handed, hand, buf)
    BY DEF Way
  <2>2. Way' = Way
    BY <2>1
  <2> QED
    BY <2>2 DEF WayOK, Ordered, AllOf
<1>2. HandsOK'
  BY DEF HandsOK
<1>3. GoneOK'
  BY DEF GoneOK, IInv, ShutdownOK
<1> QED
  BY <1>1, <1>2, <1>3

LEMMA InitOnWay == Init => OnWay
<1> SUFFICES ASSUME Init PROVE OnWay
  OBVIOUS
<1> DEFINE e == <<>>
<1>1. /\ handed = e /\ hand = [g \in Copiers |-> e] /\ buf = [b \in Rings \cup {"loopback"} |-> e]
      /\ next = 0 /\ cleared = {} /\ lost = {} /\ closed = {} /\ clear.at = "idle"
  BY DEF Init
<1>2. e \in Seq(Nat) /\ Bytes(e) = {} /\ Increasing(e)
  BY NothingThere
<1> HIDE DEF e
<1>3. FlowOK
  BY InitIInv DEF IInv
<1>4. \A a \in Places : Way[a] = e
  <2>1. \A a \in Places : a = 1 \/ a = 2 \/ a = 3 \/ a = 4 \/ a = 5 \/ a = 6 \/ a = 7 \/ a = 8
    BY DEF Places
  <2>2. handed \in Seq(Nat)
    BY <1>1, <1>2
  <2>3. /\ Way[1] = handed /\ Way[2] = hand["send"] /\ Way[4] = hand["out"] /\ Way[6] = hand["in"]
        /\ Way[8] = hand["feed"]
        /\ Way[3] = buf["transport"] /\ Way[5] = buf["loopback"] /\ Way[7] = buf["session"]
    BY <1>3, <2>2, WayHere
  <2> QED
    BY <1>1, <2>1, <2>3 DEF Copiers, Rings
<1>5. WayOK
  <2>1. AllOf(Way) = {}
    BY <1>2, <1>4 DEF AllOf
  <2>2. Ordered(Way)
    BY <1>2, <1>4, BelowBytes DEF Ordered
  <2>3. 1..next = {}
    BY <1>1
  <2> QED
    BY <1>1, <1>2, <2>1, <2>2, <2>3 DEF WayOK
<1>6. HandsOK
  BY <1>1 DEF HandsOK, e
<1>7. GoneOK
  BY <1>1 DEF GoneOK
<1> QED
  BY <1>5, <1>6, <1>7 DEF OnWay

LEMMA StepOnWay == IInv /\ IInv' /\ OnWay /\ [Next]_vars => OnWay'
<1> SUFFICES ASSUME IInv, IInv', OnWay, [Next]_vars PROVE OnWay'
  OBVIOUS
<1>1. /\ {"feed", "in", "out", "send"} = Copiers /\ pc \in [Copiers -> Labels]
      /\ closed \cap Rings # {} => over
  BY DEF Copiers, IInv, FlowOK, OnWay, GoneOK
<1>2. ASSUME NEW g \in {"in", "out", "send"}, ReadEof(g) PROVE OnWay'
  BY <1>1, <1>2, RestKeeps DEF ReadEof, Goto, shutdown
<1>3. ASSUME NEW g \in {"feed", "in", "out"}, WriteRefused(g) \/ WriteCut(g) PROVE OnWay'
  <2>1. Target[g] \in closed /\ (Target[g] \in Rings \/ Target[g] = "loopback")
    BY <1>3 DEF WriteRefused, WriteCut, Target, Rings
  <2>2. (over \/ "loopback" \in closed) /\ g \in Copiers
    BY <1>1, <2>1
  <2> QED
    BY <1>3, <2>2, LosesKeeps DEF WriteRefused, WriteCut
<1>4. CASE SendStops
  BY <1>1, <1>4, LosesKeeps DEF SendStops
<1>5. CASE FeedStops
  BY <1>1, <1>5, RestKeeps DEF FeedStops, Goto, shutdown
<1>6. CASE InRetries
  BY <1>1, <1>6, RestKeeps DEF InRetries, Goto, shutdown
<1>7. CASE LoopbackWait
  BY <1>1, <1>7, RestKeeps DEF LoopbackWait, Goto, shutdown
<1>8. CASE LoopbackWake
  BY <1>1, <1>8, RestKeeps DEF LoopbackWake, Goto, shutdown
<1>9. CASE LoopbackClose
  BY <1>1, <1>9, RestKeeps DEF LoopbackClose, Rings
<1>10. CASE ClearLength
  BY <1>1, <1>10, RestKeeps DEF ClearLength, flow, shutdown
<1>11. CASE TransportEnds
  BY <1>1, <1>11, RestKeeps DEF TransportEnds, flow
<1>12. CASE CloseAudio
  BY <1>1, <1>12, RestKeeps DEF CloseAudio, flow
<1>13. CASE Tracker
  BY <1>1, <1>13, RestKeeps DEF Tracker, TickWrite, TickRead, TickNotify, flow, shutdown
<1>14. CASE UNCHANGED vars
  BY <1>1, <1>14, RestKeeps DEF vars, flow, shutdown
<1>15. CASE Read
  BY <1>2, <1>15, ReadKeeps DEF Read
<1>16. CASE Write
  BY <1>3, <1>16, WriteKeeps DEF Write
<1>17. CASE Transport
  BY <1>4, <1>5, <1>17, SendKeeps DEF Transport
<1>18. CASE Loopback
  BY <1>7, <1>8, <1>18, LoopbackWriteKeeps DEF Loopback
<1> QED
  BY <1>3, <1>6, <1>9, <1>10, <1>11, <1>12, <1>13, <1>14, <1>15, <1>16, <1>17, <1>18,
     TakeFrameKeeps, ClearKeeps DEF Next, Progress
-----------------------------------------------------------------------------
\* OnWay holds of every behaviour of the audio of a session.
THEOREM WayInvariance == Spec => []OnWay
<1> QED
  BY InitOnWay, StepOnWay, Invariance, PTL DEF Spec

\* Whatever partial reads and writes (audio.go), a clear (audio.go:28) and the
\* end of the session do between the processor that takes a frame from
\* msgInChan (transport.go:178) and the goroutine that puts one into msgOutChan
\* (:163), audio comes out once and in order: what was taken, without what was
\* cleared or lost by writes that failed, and those fail only after a clear, the
\* end, or the close of the application's device.
THEOREM AudioArrives == Spec => []NothingLost
<1>1. IInv /\ OnWay => NothingLost
  <2> SUFFICES ASSUME IInv, OnWay PROVE NothingLost
    OBVIOUS
  <2>1. FlowOK /\ handed \in Seq(Nat) /\ Ordered(Way)
    BY DEF IInv, OnWay, WayOK
  <2> DEFINE P == Way
             s == Stream
  <2>2. s = P[1] \o P[2] \o P[3] \o P[4] \o P[5] \o P[6] \o P[7] \o P[8]
    BY <2>1, WayHere DEF Stream
  <2>3. P \in [Places -> Seq(Nat)] /\ Ordered(P)
    BY <2>1, WayHere
  <2> HIDE DEF P, s
  <2>4. Increasing(s) /\ Bytes(s) = AllOf(P)
    BY ONLY <2>2, <2>3, InOneStream
  <2> QED
    BY <2>4 DEF NothingLost, OnWay, WayOK, GoneOK, P, s
<1> QED
  BY <1>1, Invariance, WayInvariance, PTL

-----------------------------------------------------------------------------
(* Nobody sleeps over work, and nothing stands still                       *)

\* What each goroutine has to wait for, and what its end means.
WorkOK ==
  /\ pc["feed"] \in {"read", "write", "wait", "end"}
  /\ pc["in"] \in {"read", "retry", "write", "end"}
  /\ pc["out"] \in {"read", "sleep", "write", "wait", "end"}
  /\ pc["send"] \in {"read", "write", "end"}
  /\ \A g \in Copiers : pc[g] = "wait" => hand[g] # <<>>
  /\ pc["out"] = "sleep" /\ ~signal => buf["loopback"] = <<>> /\ "loopback" \notin closed
  /\ over => "transport" \in closed /\ ("session" \in closed \/ clear.at = "end")
  /\ pc["in"] = "end" \/ pc["out"] = "end" => over \/ "loopback" \in closed
  /\ pc["send"] = "end" => over \/ ~up
  /\ pc["feed"] = "end" => over \/ ~up \/ clear.at = "end"
  /\ lost # {} => over \/ ~up \/ pc["feed"] = "end" \/ "loopback" \in closed

\* Goroutine g has a step: it need not wait for bytes, for room, for the
\* condition of the loopback, or for the peer.
CanStep(g) ==
  \/ pc[g] \in {"write", "retry"}
  \/ pc[g] = "read" /\ IF g = "feed" THEN ~up
                       ELSE g = "out" \/ buf[Source[g]] # <<>> \/ Source[g] \in closed
  \/ pc[g] = "wait" /\ Len(buf[Target[g]]) < Cap
  \/ pc[g] = "sleep" /\ signal

Stalled == \A g \in Copiers : ~CanStep(g)

\* Audio never stands still with bytes on the way: when no goroutine has a step
\* and nothing has ended, all that was taken but for what was cleared has come
\* to msgOutChan; when the session and the transport are over, each has ended or
\* is left behind for one of the reasons CopiersEnd names.  There is no lost
\* wake-up in Loopback.Read (loopback.go:35) and no circle of full buffers.
\* (A goroutine with a frame for msgOutChan counts as having a step.)
NothingStandsStill ==
  Stalled =>
    /\ \/ over \/ ~up \/ pc["feed"] = "end" \/ "loopback" \in closed
       \/ Bytes(handed) \cup cleared = 1..next
    /\ over /\ ~up => \A g \in Copiers : pc[g] = "end" \/ LeftBehind(g)

LEMMA StepWork == IInv /\ OnWay /\ WorkOK /\ [Next]_vars => WorkOK'
<1> SUFFICES ASSUME IInv, OnWay, WorkOK, [Next]_vars PROVE WorkOK'
  OBVIOUS
<1>1. /\ pc \in [Copiers -> Labels] /\ hand \in [Copiers -> Seq(Nat)] /\ buf \in [Buffers -> Seq(Nat)]
      /\ Copiers = {"feed", "in", "out", "send"} /\ Buffers = {"session", "transport", "loopback"}
      /\ ClearOK /\ signal \in BOOLEAN /\ over \in BOOLEAN /\ up \in BOOLEAN
      /\ \A b \in {"session", "transport"} : Len(buf[b]) \in Nat /\ Len(buf[b]) <= Cap
      /\ Target["feed"] = "session" /\ Target["out"] = "transport"
  BY DEF IInv, FlowOK, ShutdownOK, Copiers, Buffers, Rings, Target
<1>2. /\ \A b \in {"session", "transport"} : b \in closed => over
      /\ \A g \in Copiers : pc[g] \notin {"write", "wait"} => hand[g] = <<>>
  BY DEF OnWay, GoneOK, HandsOK, Rings
<1> USE <1>1 DEF WorkOK, Goto, Hold, shutdown
<1>3. ASSUME NEW g \in {"in", "out", "send"}, ReadEof(g) PROVE WorkOK'
  <2>1. /\ pc[g] = "read" /\ pc' = [pc EXCEPT ![g] = "end"] /\ Source[g] \in closed
        /\ UNCHANGED <<hand, buf, signal, lost, closed, up, over, clear>>
    BY <1>3 DEF ReadEof
  <2>2. CASE g = "in"
    BY <1>2, <2>1, <2>2 DEF Source
  <2>3. CASE g = "out"
    BY <1>2, <2>1, <2>3 DEF Source
  <2>4. CASE g = "send"
    BY <1>2, <2>1, <2>4 DEF Source
  <2> QED
    BY <2>2, <2>3, <2>4
<1>4. ASSUME NEW g \in {"in", "out", "send"}, ReadBytes(g) PROVE WorkOK'
  <2>1. /\ pc[g] = "read" /\ pc' = [pc EXCEPT ![g] = "write"]
        /\ \A k \in Copiers \ {g} : hand'[k] = hand[k]
        /\ UNCHANGED <<signal, lost, closed, over, up>>
        /\ g # "out" => buf'["loopback"] = buf["loopback"]
    BY <1>4 DEF ReadBytes, Source
  <2>2. clear'.at = clear.at
    BY <1>4 DEF ReadBytes
  <2>3. \A k \in Copiers : pc'[k] = IF k = g THEN "write" ELSE pc[k]
    BY <2>1
  <2>4. \A k \in Copiers : pc'[k] = "wait" => hand'[k] # <<>>
    BY <2>1, <2>3
  <2>5. CASE g = "in"
    BY <2>1, <2>2, <2>3, <2>4, <2>5
  <2>6. CASE g = "out"
    BY <2>1, <2>2, <2>3, <2>4, <2>6
  <2>7. CASE g = "send"
    BY <2>1, <2>2, <2>3, <2>4, <2>7
  <2> QED
    BY <2>5, <2>6, <2>7
<1>5. ASSUME NEW g \in {"feed", "out"}, WriteBytes(g) PROVE WorkOK'
  <2> DEFINE b == Target[g]
             n == Least(Cap - Len(buf[b]), Len(hand[g]))
  <2>1. b \in {"session", "transport"} /\ g \in Copiers
    OBVIOUS
  <2>2. /\ pc[g] \in {"write", "wait"}
        /\ pc' = [pc EXCEPT ![g] = IF n = Len(hand[g]) THEN "read" ELSE "wait"]
        /\ hand' = [hand EXCEPT ![g] = Drop(hand[g], n)]
        /\ buf' = [buf EXCEPT ![b] = @ \o Take(hand[g], n)]
        /\ UNCHANGED <<signal, lost, closed, over, up, clear>>
    BY <1>5 DEF WriteBytes
  <2>3. Len(buf[b]) \in Nat /\ Len(buf[b]) <= Cap /\ Len(hand[g]) \in Nat /\ hand[g] \in Seq(Nat)
    BY <2>1
  <2> HIDE DEF b
  <2>4. n \in 0..Len(hand[g])
    <3>1. Cap - Len(buf[b]) \in Nat
      BY <2>3, SizesAssumption
    <3>2. Least(Cap - Len(buf[b]), Len(hand[g])) \in Nat
          /\ Least(Cap - Len(buf[b]), Len(hand[g])) <= Len(hand[g])
      BY ONLY <2>3, <3>1, LeastIs
    <3> QED
      BY ONLY <2>3, <3>2
  <2>5. clear'.at = clear.at /\ buf'["loopback"] = buf["loopback"]
    BY <2>1, <2>2
  <2> HIDE DEF n
  <2>6. n # Len(hand[g]) => Drop(hand[g], n) # <<>>
    <3>1. Len(Drop(hand[g], n)) = Len(hand[g]) - n
      BY <2>3, <2>4, Pieces
    <3>2. Len(<<>>) = 0
      OBVIOUS
    <3> QED
      BY <2>3, <2>4, <3>1, <3>2
  <2>7. \A k \in Copiers \ {g} : pc'[k] = pc[k] /\ hand'[k] = hand[k]
    BY <2>1, <2>2
  <2>8. /\ pc'[g] = IF n = Len(hand[g]) THEN "read" ELSE "wait"
        /\ hand'[g] = Drop(hand[g], n)
    BY <2>1, <2>2
  <2>9. UNCHANGED <<signal, lost, closed, over, up>>
    BY <2>2
  <2>10. CASE g = "feed"
    <3>1. pc'["feed"] \in {"read", "wait"} /\ (pc'["feed"] = "wait" => hand'["feed"] # <<>>)
      BY <2>6, <2>8, <2>10
    <3>2. \A k \in {"in", "out", "send"} : pc'[k] = pc[k] /\ hand'[k] = hand[k]
      BY ONLY <1>1, <2>7, <2>10
    <3>3. pc["feed"] # "end"
      BY <2>2, <2>10
    <3>4. \A k \in Copiers : pc'[k] = "wait" => hand'[k] # <<>>
      BY ONLY <1>1, <3>1, <3>2, WorkOK DEF WorkOK
    <3> QED
      BY <2>5, <2>9, <3>1, <3>2, <3>3, <3>4
  <2>11. CASE g = "out"
    <3>1. pc'["out"] \in {"read", "wait"} /\ (pc'["out"] = "wait" => hand'["out"] # <<>>)
      BY <2>6, <2>8, <2>11
    <3>2. \A k \in {"feed", "in", "send"} : pc'[k] = pc[k] /\ hand'[k] = hand[k]
      BY ONLY <1>1, <2>7, <2>11
    <3>3. pc["out"] # "end"
      BY <2>2, <2>11
    <3>4. \A k \in Copiers : pc'[k] = "wait" => hand'[k] # <<>>
      BY ONLY <1>1, <3>1, <3>2, WorkOK DEF WorkOK
    <3> QED
      BY <2>5, <2>9, <3>1, <3>2, <3>3, <3>4
  <2> QED
    BY <2>10, <2>11
<1>6. ASSUME NEW g \in {"feed", "in", "out"}, WriteRefused(g) \/ WriteCut(g) PROVE WorkOK'
  <2>1. /\ pc[g] \in {"write", "wait"} /\ Target[g] \in closed
        /\ pc' = [pc EXCEPT ![g] = "end"] /\ hand' = [hand EXCEPT ![g] = <<>>]
        /\ UNCHANGED <<buf, signal, clear, closed, over, up>>
    BY <1>6 DEF WriteRefused, WriteCut, Loses
  <2>2. over \/ (g = "in" /\ "loopback" \in closed)
    <3>1. Target["feed"] = "session" /\ Target["in"] = "loopback" /\ Target["out"] = "transport"
      BY DEF Target
    <3>2. Target[g] \in closed
      BY <2>1
    <3> QED
      BY <1>2, <3>1, <3>2
  <2> QED
    BY <2>1, <2>2
<1>7. CASE Transport
  <2>1. CASE FeedStops
    BY <2>1 DEF FeedStops
  <2>2. CASE QueueFrame
    BY <2>2 DEF QueueFrame
  <2>3. CASE SendStops
    BY <2>3 DEF SendStops, Loses
  <2> QED
    BY <1>7, <2>1, <2>2, <2>3 DEF Transport
<1>8. CASE TakeFrame
  BY <1>8 DEF TakeFrame
<1>9. CASE InRetries
  BY <1>9 DEF InRetries
<1>10. CASE LoopbackWrite
  BY <1>10 DEF LoopbackWrite
<1>11. CASE LoopbackWait \/ LoopbackWake \/ LoopbackClose
  <2>1. CASE LoopbackWait
    BY <2>1 DEF LoopbackWait
  <2>2. CASE LoopbackWake
    BY <2>2 DEF LoopbackWake
  <2>3. CASE LoopbackClose
    <3>1. /\ closed' = closed \cup {"loopback"}
          /\ signal' = (signal \/ pc["out"] = "sleep")
          /\ UNCHANGED <<pc, hand, buf, lost, up, over, clear>>
      BY <2>3 DEF LoopbackClose
    <3>2. "loopback" \in closed' /\ \A b \in {"session", "transport"} : b \in closed => b \in closed'
      BY <3>1
    <3>3. pc["out"] # "sleep" \/ signal'
      BY <3>1
    <3>4. \A g \in Copiers : pc'[g] = "wait" => hand'[g] # <<>>
      BY <3>1
    <3> QED
      BY <3>1, <3>2, <3>3, <3>4
  <2> QED
    BY <1>11, <2>1, <2>2, <2>3
<1>12. CASE ClearLength
  BY <1>12 DEF ClearLength, ClearOK, flow
<1>13. CASE ClearReset
  <2>1. PICK reader \in IF pc["in"] = "read" THEN {"read", "retry"} ELSE {pc["in"]} :
          \/ pc' = [pc EXCEPT !["in"] = reader] /\ UNCHANGED <<hand, lost>>
          \/ /\ pc["feed"] \in {"write", "wait"}
             /\ pc' = [pc EXCEPT !["in"] = reader, !["feed"] = "end"]
             /\ hand' = [hand EXCEPT !["feed"] = <<>>]
    BY <1>13 DEF ClearReset
  <2>2. /\ buf'["loopback"] = buf["loopback"] /\ clear'.at = "end"
        /\ "loopback" \in closed' <=> "loopback" \in closed
        /\ "transport" \in closed => "transport" \in closed'
        /\ UNCHANGED <<signal, over, up>>
    BY <1>13 DEF ClearReset, ClearOK
  <2>3. /\ pc'["in"] = pc["in"] \/ (pc["in"] = "read" /\ pc'["in"] \in {"read", "retry"})
        /\ pc'["out"] = pc["out"] /\ pc'["send"] = pc["send"]
        /\ hand'["out"] = hand["out"]
    BY <2>1
  <2>4. \/ pc'["feed"] = pc["feed"] /\ hand'["feed"] = hand["feed"] /\ lost' = lost
        \/ pc'["feed"] = "end"
    BY <2>1
  <2>5. \A g \in Copiers : pc'[g] = "wait" => hand'[g] # <<>>
    BY <2>3, <2>4
  <2>6. pc'["out"] = "sleep" /\ ~signal' => buf'["loopback"] = <<>> /\ "loopback" \notin closed'
    BY <2>2, <2>3
  <2>7. /\ pc'["in"] = "end" \/ pc'["out"] = "end" => over' \/ "loopback" \in closed'
        /\ pc'["send"] = "end" => over' \/ ~up'
    BY <2>2, <2>3
  <2>8. over' => "transport" \in closed' /\ clear'.at = "end"
    BY <2>2
  <2>9. lost' # {} => over' \/ ~up' \/ pc'["feed"] = "end" \/ "loopback" \in closed'
    BY <2>2, <2>4
  <2> QED
    BY <2>2, <2>3, <2>4, <2>5, <2>6, <2>7, <2>8, <2>9
<1>14. CASE TransportEnds \/ CloseAudio \/ Tracker
  <2>1. CASE TransportEnds
    BY <2>1 DEF TransportEnds, flow
  <2>2. CASE CloseAudio
    <3>1. /\ UNCHANGED <<pc, hand, buf, signal, lost, up, clear>>
          /\ over' /\ closed' = closed \cup {"session", "transport"}
      BY <2>2 DEF CloseAudio, flow, Rings
    <3> QED
      BY <3>1
  <2>3. CASE Tracker
    <3>1. UNCHANGED <<flow, shutdown, clear>>
      BY <2>3 DEF Tracker, TickWrite, TickRead, TickNotify
    <3> QED
      BY <3>1 DEF flow
  <2> QED
    BY <1>14, <2>1, <2>2, <2>3
<1>15. CASE UNCHANGED vars
  BY <1>15 DEF vars, flow
<1> QED
  BY <1>3, <1>4, <1>5, <1>6, <1>7, <1>8, <1>9, <1>10, <1>11, <1>12, <1>13, <1>14, <1>15
  DEF Next, Progress, Read, Write, Loopback

\* A copier that cannot step waits for something that is not there.
LEMMA StalledIs ==
  ASSUME IInv, WorkOK, Stalled
  PROVE  /\ pc["feed"] \in {"read", "wait", "end"} /\ pc["in"] \in {"read", "end"}
         /\ pc["out"] \in {"sleep", "wait", "end"} /\ pc["send"] \in {"read", "end"}
         /\ pc["feed"] = "read" => up
         /\ pc["feed"] = "wait" => buf["session"] # <<>>
         /\ pc["in"] = "read" => buf["session"] = <<>> /\ "session" \notin closed
         /\ pc["out"] = "wait" => buf["transport"] # <<>>
         /\ pc["out"] = "sleep" => buf["loopback"] = <<>> /\ "loopback" \notin closed
         /\ pc["send"] = "read" => buf["transport"] = <<>> /\ "transport" \notin closed
<1>1. /\ Source["in"] = "session" /\ Source["send"] = "transport"
      /\ Target["feed"] = "session" /\ Target["out"] = "transport"
  BY DEF Source, Target
<1>2. ~CanStep("feed") /\ ~CanStep("in") /\ ~CanStep("out") /\ ~CanStep("send")
  BY DEF Stalled, Copiers
<1>3. \A b \in Rings : ~(Len(buf[b]) < Cap) => buf[b] # <<>>
  <2>1. Len(<<>>) < Cap
    BY SizesAssumption
  <2> QED
    BY <2>1
<1>4. /\ pc["feed"] \notin {"write", "retry"} /\ (pc["feed"] = "read" => up)
      /\ pc["feed"] = "wait" => ~(Len(buf["session"]) < Cap)
  BY <1>1, <1>2 DEF CanStep
<1>5. /\ pc["in"] \notin {"write", "retry"}
      /\ pc["in"] = "read" => buf["session"] = <<>> /\ "session" \notin closed
  BY <1>1, <1>2 DEF CanStep
<1>6. /\ pc["out"] \notin {"write", "read"} /\ (pc["out"] = "sleep" => ~signal)
      /\ pc["out"] = "wait" => ~(Len(buf["transport"]) < Cap)
  BY <1>1, <1>2 DEF CanStep
<1>7. /\ pc["send"] # "write"
      /\ pc["send"] = "read" => buf["transport"] = <<>> /\ "transport" \notin closed
  BY <1>1, <1>2 DEF CanStep
<1> QED
  BY <1>3, <1>4, <1>5, <1>6, <1>7 DEF WorkOK, Rings

\* The safe half of Flows and CopiersEnd.
THEOREM KeepsMoving == Spec => []NothingStandsStill
<1>1. Init => WorkOK
  BY DEF Init, WorkOK, Copiers
<1>2. IInv /\ OnWay /\ WorkOK => NothingStandsStill
  <2> SUFFICES ASSUME IInv, OnWay, WorkOK, Stalled
               PROVE  /\ \/ over \/ ~up \/ pc["feed"] = "end" \/ "loopback" \in closed
                         \/ Bytes(handed) \cup cleared = 1..next
                      /\ over /\ ~up => \A g \in Copiers : pc[g] = "end" \/ LeftBehind(g)
    BY DEF NothingStandsStill
  <2>1. ASSUME ~over, up, pc["feed"] # "end", "loopback" \notin closed PROVE Bytes(handed) \cup cleared = 1..next
    <3>1. /\ pc["in"] = "read" /\ pc["send"] = "read" /\ pc["out"] = "sleep" /\ pc["feed"] = "read"
          /\ buf["session"] = <<>> /\ buf["transport"] = <<>> /\ buf["loopback"] = <<>>
      BY <2>1, StalledIs DEF WorkOK
    <3>2. \A g \in Copiers : hand[g] = <<>>
      BY <3>1 DEF OnWay, HandsOK, Copiers
    <3>3. /\ AllOf(Way) = (1..next) \ (cleared \cup lost) /\ cleared \subseteq 1..next /\ lost = {}
      BY <2>1 DEF OnWay, WayOK, GoneOK, WorkOK
    <3>4. AllOf(Way) = Bytes(handed)
      <4>1. FlowOK /\ handed \in Seq(Nat)
        BY DEF IInv, OnWay, WayOK
      <4> DEFINE e == <<>>
      <4>2. /\ Way[1] = handed /\ Way[2] = e /\ Way[3] = e /\ Way[4] = e
            /\ Way[5] = e /\ Way[6] = e /\ Way[7] = e /\ Way[8] = e
        BY <3>1, <3>2, <4>1, WayHere DEF Copiers
      <4>3. Bytes(e) = {}
        BY NothingThere
      <4> HIDE DEF e
      <4>4. \A a \in Places : a = 1 \/ a = 2 \/ a = 3 \/ a = 4 \/ a = 5 \/ a = 6 \/ a = 7 \/ a = 8
        BY DEF Places
      <4>5. 1 \in Places
        BY DEF Places
      <4> QED
        <5>1. ASSUME NEW x PROVE x \in AllOf(Way) <=> x \in Bytes(handed)
          <6>1. x \in AllOf(Way) <=> \E a \in Places : x \in Bytes(Way[a])
            BY InAllOf
          <6>2. x \notin Bytes(e)
            BY <4>3
          <6> QED
            BY ONLY <4>2, <4>4, <4>5, <6>1, <6>2
        <5>2. \A x : x \in AllOf(Way) <=> x \in Bytes(handed)
          BY <5>1
        <5> QED
          BY ONLY <5>2
    <3> QED
      BY <3>3, <3>4
  <2>2. ASSUME over, ~up, NEW g \in Copiers, pc[g] # "end" PROVE LeftBehind(g)
    <3>1. pc["send"] = "end"
      BY <2>2, StalledIs DEF WorkOK
    <3>2. CASE g = "out"
      BY <2>2, <3>1, <3>2, StalledIs DEF LeftBehind
    <3>3. CASE g = "in"
      BY <2>2, <3>3, StalledIs DEF LeftBehind, Reopened, WorkOK
    <3>4. CASE g = "feed"
      BY <2>2, <3>4, StalledIs DEF LeftBehind
    <3> QED
      BY <2>2, <3>1, <3>2, <3>3, <3>4 DEF Copiers
  <2> QED
    BY <2>1, <2>2
<1> QED
  BY <1>1, <1>2, StepWork, Invariance, WayInvariance, PTL DEF Spec
=============================================================================
