-------------------------- MODULE DirectTransport --------------------------
(***************************************************************************)
(* The in-process transport (transport/direct/channel.go): a channel of    *)
(* capacity 1 for each direction and one closer, which both sides share.   *)
(* Write waits for room or for the closer; ReadChan is never closed, so a  *)
(* side that only reads does not learn that the transport is closed.       *)
(***************************************************************************)
EXTENDS Naturals, Sequences

CONSTANT ChanCap  \* capacity of the channels (1 in the code)

ASSUME ChanCapAssumption == ChanCap \in Nat \ {0}

VARIABLES
  chan,   \* for each side the channel it writes to and its peer reads from
  closed  \* the closer's channel is closed

Sides == {"a", "b"}
Peer(s) == IF s = "a" THEN "b" ELSE "a"

TransportInit == chan = [s \in Sides |-> <<>>] /\ closed = FALSE

\* Mutant of TransportWrite: channels without bound.
TransportWriteUnbounded(s, data) ==
  chan' = [chan EXCEPT ![s] = Append(@, data)] /\ UNCHANGED closed

\* Write's select has another case, closed, in which it fails; when both are
\* ready it takes any of them.
TransportWrite(s, data) ==
  /\ Len(chan[s]) < ChanCap
  /\ chan' = [chan EXCEPT ![s] = Append(@, data)]
  /\ UNCHANGED closed

\* A receive from the ReadChan of side s.
TransportRead(s, data) ==
  /\ chan[Peer(s)] # <<>> /\ data = Head(chan[Peer(s)])
  /\ chan' = [chan EXCEPT ![Peer(s)] = Tail(@)]
  /\ UNCHANGED closed

\* Close: closing again does nothing.
TransportClose == closed' = TRUE /\ UNCHANGED chan
=============================================================================
