----------------------------- MODULE MCSession -----------------------------
(* A session with one application goroutine that closes without a deadline  *)
(* and without a callback, as the server's upgrade handler does, and one    *)
(* message handler that closes politely (deadline and callback), as         *)
(* sessionTerminateAndClose does.  With the reader, three goroutines meet   *)
(* in doClose, one for each way of using it.                                *)
EXTENDS Session

CONSTANTS a1, h1, k1

MCApps == {a1}
MCHandlers == {h1}
MCBounded == {h1}
MCWithCallback == {h1}
MCHooks == {k1}
=============================================================================
