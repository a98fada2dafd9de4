------------------------------ MODULE MCServer ------------------------------
(* Two connections: one that Shutdown closes while the other one comes,     *)
(* fails or leaves.                                                         *)
EXTENDS Server

CONSTANTS c1, c2

MCConns == {c1, c2}
=============================================================================
