------------------------------- MODULE MCRpc -------------------------------
(* Two concurrent requests: enough for one to hold muPending while the      *)
(* other registers, times out or is resolved.                               *)
EXTENDS Rpc

CONSTANTS r1, r2

MCReqs == {r1, r2}
=============================================================================
