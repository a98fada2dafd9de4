--------------------------- MODULE TransportPromise ---------------------------
(***************************************************************************)
(* What a transport promises those who write to it: a text that Write has  *)
(* accepted is sent at most once, and nothing else is sent.  While the     *)
(* transport is open the texts are sent in the order in which they were    *)
(* accepted, without a gap.  Once something has disturbed it (Close, the   *)
(* end of the context, the network) they may be lost and may overtake each *)
(* other, but can still be accepted and sent; after the end of the         *)
(* transport nothing is.                                                   *)
(***************************************************************************)
EXTENDS Naturals, Sequences

CONSTANT Texts

VARIABLES
  phase,     \* of the transport: "open", "closing" or "over"
  accepted,  \* the texts that Write has accepted, in order
  wire       \* the texts that were sent, in order

pvars == <<phase, accepted, wire>>

TextsOf(s) == {s[i] : i \in 1..Len(s)}
Earlier(s, v, w) == \E i, j \in 1..Len(s) : i < j /\ s[i] = v /\ s[j] = w

PInit == phase = "open" /\ accepted = <<>> /\ wire = <<>>

Accept(w) ==
  /\ phase # "over" /\ w \notin TextsOf(accepted)
  /\ accepted' = Append(accepted, w)
  /\ UNCHANGED <<phase, wire>>

Send(w) ==
  /\ phase # "over" /\ w \in TextsOf(accepted) \ TextsOf(wire)
  /\ phase = "open" => \A v \in Texts : Earlier(accepted, v, w) => v \in TextsOf(wire)
  /\ wire' = Append(wire, w)
  /\ UNCHANGED <<phase, accepted>>

Disturb ==
  /\ phase = "open"
  /\ phase' = "closing"
  /\ UNCHANGED <<accepted, wire>>

End ==
  /\ phase = "closing"
  /\ phase' = "over"
  /\ UNCHANGED <<accepted, wire>>

PNext == Disturb \/ End \/ \E w \in Texts : Accept(w) \/ Send(w)

PSpec == PInit /\ [][PNext]_pvars
===============================================================================
