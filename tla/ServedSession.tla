---------------------------- MODULE ServedSession ----------------------------
(***************************************************************************)
(* Sessions as the server sees them: each is run once under a context of   *)
(* its own, goes down when somebody triggers it or cancels the context,    *)
(* takes any time to finalize, and has a channel with room for one result, *)
(* which both its watcher and a failed OnBegin write to.  Server is built  *)
(* from these actions, and Session, with all its goroutines, implements    *)
(* them.                                                                   *)
(***************************************************************************)
CONSTANT Conns  \* one session for each connection

VARIABLES
  ctx,    \* the context given to Run is cancelled
  phase,  \* "none", "up", "closing", "finalized", "reported"
  begin,  \* OnBegin has not returned yet, or its error is not reported yet
  done    \* the buffer of the channel Run returned

sess == <<ctx, phase, begin, done>>

SessInit ==
  /\ ctx = [c \in Conns |-> FALSE]
  /\ phase = [c \in Conns |-> "none"]
  /\ begin = [c \in Conns |-> FALSE]
  /\ done = [c \in Conns |-> <<>>]

\* A trigger or a cancelled context starts the teardown of a session that is up.
Trigger(c) == phase' = [phase EXCEPT ![c] = IF @ = "up" THEN "closing" ELSE @]

\* Run; Close may have been called before.
Run(c) ==
  /\ phase[c] = "none"
  /\ \E p \in {"up", "closing"} : (ctx[c] => p = "closing") /\ phase' = [phase EXCEPT ![c] = p]
  /\ begin' = [begin EXCEPT ![c] = TRUE]
  /\ UNCHANGED <<ctx, done>>

\* Run without a handler or a transport.
RunFails(c) ==
  /\ phase[c] = "none" /\ done[c] = <<>>
  /\ done' = [done EXCEPT ![c] = <<"err">>]
  /\ UNCHANGED <<ctx, phase, begin>>

CtxCancelled(c) ==
  /\ ctx' = [ctx EXCEPT ![c] = TRUE]
  /\ Trigger(c)
  /\ UNCHANGED <<begin, done>>

\* Somebody's Close, or the end of the transport.
DoClose(c) == Trigger(c) /\ UNCHANGED <<ctx, begin, done>>

BeginOk(c) ==
  /\ begin[c]
  /\ begin' = [begin EXCEPT ![c] = FALSE]
  /\ UNCHANGED <<ctx, phase, done>>

\* Mutant of BeginFails: the channel has no bound.
BeginFailsUnbounded(c) ==
  /\ begin[c]
  /\ begin' = [begin EXCEPT ![c] = FALSE]
  /\ done' = [done EXCEPT ![c] = IF @ = <<>> THEN <<"err">> ELSE <<@[1], "err">>]
  /\ UNCHANGED <<ctx, phase>>

BeginFails(c) ==
  /\ begin[c] /\ done[c] = <<>>
  /\ begin' = [begin EXCEPT ![c] = FALSE]
  /\ done' = [done EXCEPT ![c] = <<"err">>]
  /\ UNCHANGED <<ctx, phase>>

Finalize(c) ==
  /\ phase[c] = "closing"
  /\ phase' = [phase EXCEPT ![c] = "finalized"]
  /\ UNCHANGED <<ctx, begin, done>>

ReportNil(c) ==
  /\ phase[c] = "finalized" /\ done[c] = <<>>
  /\ phase' = [phase EXCEPT ![c] = "reported"]
  /\ done' = [done EXCEPT ![c] = <<"nil">>]
  /\ UNCHANGED <<ctx, begin>>

\* The owner takes the result.
Receive(c) ==
  /\ done[c] # <<>>
  /\ done' = [done EXCEPT ![c] = <<>>]
  /\ UNCHANGED <<ctx, phase, begin>>

SessStep(c) == \/ Run(c) \/ RunFails(c) \/ CtxCancelled(c) \/ DoClose(c) \/ BeginOk(c)
               \/ BeginFails(c) \/ Finalize(c) \/ ReportNil(c) \/ Receive(c)

SessNext == \E c \in Conns : SessStep(c)

SessSpec == SessInit /\ [][SessNext]_sess
=============================================================================
