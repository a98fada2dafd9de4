------------------------------ MODULE MCWsClose ------------------------------
(* MCWsTransport, and what was buffered when the session called Close.      *)
EXTENDS MCWsTransport

VARIABLE promised  \* the texts in msgOutChan at the call

CInit == Init /\ promised = {}

CNext ==
  /\ Next
  /\ promised' = IF pc["closer"] = "idle" /\ pc'["closer"] # "idle"
                   THEN RangeOf(msgOutChan) \cap Writers
                   ELSE promised

CSpec == CInit /\ [][CNext]_<<vars, promised>>

\* transport.go:46, "will send all currently buffered outgoing messages": a
\* Close that returned nil has, unless the peer, the network or the context
\* ended first.
CloseSendsBuffered ==
  pc["closer"] = "end" /\ pc["reader"] = "read" /\ writeErr # "broken" /\ ~ctxDone =>
    promised \subseteq RangeOf(wire)
==============================================================================
