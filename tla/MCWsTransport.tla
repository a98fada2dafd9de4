--------------------------- MODULE MCWsTransport ---------------------------
(* Channels of capacity 1, so that every send can find its channel full,    *)
(* one or two writers and up to three other frames.                         *)
EXTENDS WsTransport, TLC

CONSTANTS w1, w2

OneWriter == {w1}
TwoWriters == {w1, w2}
Symmetry == Permutations(TwoWriters)
=============================================================================
