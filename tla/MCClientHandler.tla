-------------------------- MODULE MCClientHandler --------------------------
(* A request that closes the session (call.hangup) and one that does not,   *)
(* one application goroutine that calls Terminate, two digits.              *)
EXTENDS ClientHandler

CONSTANTS hangup, clear, a1

MCReqs == {hangup, clear}
MCClosing == {hangup}
MCApps == {a1}
=============================================================================
