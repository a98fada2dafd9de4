--------------------------- MODULE ClosingSession ---------------------------
(***************************************************************************)
(* A session as the goroutines that close it see it: the Once of doClose,  *)
(* the phase of finalize, whether the transport accepts writes, and the    *)
(* context of Run.  ClientHandler is built from these actions, and Session *)
(* implements them.                                                        *)
(***************************************************************************)
VARIABLES
  once,       \* Session.closeOnce: "free", "busy", "done"
  phase,      \* of finalize: "open", "closing", "closed"
  transport,  \* the transport accepts writes
  ctxDone     \* the session's context is cancelled

sess == <<once, phase, transport, ctxDone>>

SessInit == once = "free" /\ phase = "open" /\ transport = TRUE /\ ctxDone = FALSE

\* doClose looks at the state before it enters the Once: finalize may have
\* begun meanwhile, or the end of OnBegin have overwritten what it wrote.
OnceEnter ==
  /\ once = "free" /\ once' = "busy"
  /\ UNCHANGED <<phase, transport, ctxDone>>

\* The callback has returned: trigger.
OnceLeave ==
  /\ once = "busy" /\ once' = "done"
  /\ UNCHANGED <<phase, transport, ctxDone>>

\* The reader's doClose, without a callback, when ReadChan has ended, which may
\* be before writes fail.
ReaderCloses ==
  /\ once = "free" /\ once' = "done"
  /\ UNCHANGED <<phase, transport, ctxDone>>

CtxCancel ==
  /\ ~ctxDone /\ ctxDone' = TRUE
  /\ UNCHANGED <<once, phase, transport>>

\* The transport fails, or finalize closes it.
TransportCloses ==
  /\ transport /\ transport' = FALSE
  /\ UNCHANGED <<once, phase, ctxDone>>

FinalizeStart ==
  /\ phase = "open" /\ (once = "done" \/ ctxDone)
  /\ phase' = "closing"
  /\ UNCHANGED <<once, transport, ctxDone>>

FinalizeEnd ==
  /\ phase = "closing"
  /\ phase' = "closed" /\ transport' = FALSE
  /\ UNCHANGED <<once, ctxDone>>

SessNext == \/ OnceEnter \/ OnceLeave \/ ReaderCloses
            \/ CtxCancel \/ TransportCloses \/ FinalizeStart \/ FinalizeEnd

SessSpec == SessInit /\ [][SessNext]_sess
=============================================================================
