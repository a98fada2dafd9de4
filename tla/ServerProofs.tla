---------------------------- MODULE ServerProofs ----------------------------
(***************************************************************************)
(* For any number of connections: the map of sessions is not touched under *)
(* the loop of Shutdown, and a Shutdown that meets its deadline has closed *)
(* every session it found there.  A handler does not return while its      *)
(* session is up, and nobody waits for what cannot come.                   *)
(*                                                                         *)
(* The inductive invariant says who holds the lock, what the loop has      *)
(* left, that a session in the map, unlike a connection that is not        *)
(* upgraded yet, can never come up again, and what the position of a       *)
(* handler says about its session.                                         *)
(***************************************************************************)
EXTENDS Server, TLAPS, Integers

\* Shutdown holds the lock from its first step to its last.
LockOK == mu = "shutdown" <=> shutdown \in {"closing", "http"}

\* The loop works on the map as it was found.
LoopOK ==
  /\ shutdown = "closing" => asked = sessions
  /\ todo \subseteq asked /\ current \in asked \cup {"none"}
  /\ shutdown # "closing" => todo = {} /\ current = "none"

\* Sessions the loop has been through are down and were started long ago.
ClosedOK ==
  /\ shutdown # "idle" /\ ~expired =>
       \A c \in asked : c \in todo \/ c = current \/ phase[c] \in {"finalized", "reported"}
  /\ \A c \in sessions \cup asked : pc[c] \notin {"off", "upgrade"}
  /\ shutdown = "idle" => asked = {}

\* The map holds the sessions whose handlers are between addSession and
\* removeSession, no more and no less.
InMap(c) == c \in sessions <=> pc[c] \in {"serve", "close", "remove"}

\* A session starts with the upgrade.
StartOK(c) ==
  /\ pc[c] \in {"off", "upgrade"} => phase[c] = "none" /\ ~begin[c]
  /\ pc[c] \in {"add", "serve", "close", "remove", "cancel"} \/ c \in asked => phase[c] # "none"

\* Who is past Close, past cancel or in the hands of Shutdown is not up.
DownOK(c) ==
  /\ pc[c] \in {"close", "end"} \/ ctx[c] \/ current = c => phase[c] # "up"
  /\ pc[c] \in {"add", "serve"} /\ phase[c] = "reported" => done[c] # <<>>

HandlersOK == \A c \in Conns : InMap(c) /\ StartOK(c) /\ DownOK(c)

IInv == TypeOK /\ LockOK /\ LoopOK /\ ClosedOK /\ HandlersOK
-----------------------------------------------------------------------------
LEMMA InitIInv == Init => IInv
  BY ConnsAssumption
     DEF Init, SessInit, IInv, TypeOK, LockOK, LoopOK, ClosedOK, HandlersOK, InMap, StartOK, DownOK

LEMMA StepIInv == IInv /\ [Next]_vars => IInv'
<1> SUFFICES ASSUME IInv, [Next]_vars PROVE IInv'
  OBVIOUS
<1> USE ConnsAssumption
    DEF IInv, TypeOK, LockOK, LoopOK, ClosedOK, HandlersOK, InMap, StartOK, DownOK,
        Goto, Trigger, DoClose, CtxCancelled, sess, down
<1>1. ASSUME NEW c \in Conns, Accept(c) PROVE IInv'
  BY <1>1 DEF Accept
<1>2. ASSUME NEW c \in Conns, Refuse(c) PROVE IInv'
  BY <1>2 DEF Refuse
<1>3. ASSUME NEW c \in Conns, Upgrade(c) PROVE IInv'
  <2>1. \A d \in Conns : d # c => pc'[d] = pc[d] /\ phase'[d] = phase[d] /\ begin'[d] = begin[d]
    BY <1>3 DEF Upgrade, Run
  <2>2. /\ pc[c] = "upgrade" /\ pc'[c] = "add"
        /\ phase'[c] \in {"up", "closing"} /\ (phase'[c] = "up" <=> ~ctx[c]) /\ begin'[c]
        /\ UNCHANGED <<ctx, done, sessions, mu, down>>
    BY <1>3 DEF Upgrade, Run
  <2>3. TypeOK'
    BY <1>3 DEF Upgrade, Run
  <2>4. LockOK' /\ LoopOK'
    BY <2>2
  <2>5. c \notin sessions \cup asked
    BY <2>2
  <2>6. ClosedOK'
    BY <2>1, <2>2, <2>5
  <2>7. HandlersOK'
    BY <2>1, <2>2, <2>5
  <2> QED
    BY <2>3, <2>4, <2>6, <2>7
<1>4. ASSUME NEW c \in Conns, AddSession(c) PROVE IInv'
  BY <1>4 DEF AddSession
<1>5. ASSUME NEW c \in Conns, ReceiveDone(c) PROVE IInv'
  BY <1>5 DEF ReceiveDone, Receive
<1>6. ASSUME NEW c \in Conns, CtxDone(c) PROVE IInv'
  BY <1>6 DEF CtxDone
<1>7. ASSUME NEW c \in Conns, CloseReturns(c) PROVE IInv'
  BY <1>7 DEF CloseReturns
<1>8. ASSUME NEW c \in Conns, RemoveSession(c) PROVE IInv'
  BY <1>8 DEF RemoveSession
<1>9. ASSUME NEW c \in Conns, Cancel(c) PROVE IInv'
  BY <1>9 DEF Cancel
<1>10. ASSUME NEW c \in Conns, RequestCancelled(c) PROVE IInv'
  BY <1>10 DEF RequestCancelled
<1>11. ASSUME NEW c \in Conns, SessionEnds(c) PROVE IInv'
  BY <1>11 DEF SessionEnds
<1>12. ASSUME NEW c \in Conns, SessionRuns(c) PROVE IInv'
  <2> UNCHANGED <<pc, sessions, mu, down>>
    BY <1>12 DEF SessionRuns
  <2>1. CASE BeginOk(c)
    BY <2>1 DEF BeginOk
  <2>2. CASE BeginFails(c)
    BY <2>2 DEF BeginFails
  <2>3. CASE Finalize(c)
    BY <2>3 DEF Finalize
  <2> QED
    BY <1>12, <2>1, <2>2, <2>3 DEF SessionRuns
<1>13. ASSUME NEW c \in Conns, SessionReports(c) PROVE IInv'
  BY <1>13 DEF SessionReports, ReportNil
<1>14. ASSUME NEW c \in Conns, ShutdownNext(c) PROVE IInv'
  BY <1>14 DEF ShutdownNext
<1>15. CASE ShutdownLock
  BY <1>15 DEF ShutdownLock
<1>16. CASE ShutdownClosed
  BY <1>16 DEF ShutdownClosed
<1>17. CASE ShutdownHttp
  BY <1>17 DEF ShutdownHttp
<1>18. CASE ShutdownReturns
  BY <1>18 DEF ShutdownReturns
<1>19. CASE Expire
  BY <1>19 DEF Expire
<1>20. CASE UNCHANGED vars
  BY <1>20 DEF vars
<1> QED
  BY <1>1, <1>2, <1>3, <1>4, <1>5, <1>6, <1>7, <1>8, <1>9, <1>10, <1>11, <1>12, <1>13, <1>14, <1>15,
     <1>16, <1>17, <1>18, <1>19, <1>20
     DEF Next, Handler, Session, Shutdown
-----------------------------------------------------------------------------
\* The inductive invariant holds in every reachable state.
THEOREM Invariance == Spec => []IInv
  BY InitIInv, StepIInv, PTL DEF Spec

\* Every variable keeps its type.
THEOREM TypeCorrect == Spec => []TypeOK
<1>1. IInv => TypeOK
  BY DEF IInv
<1> QED
  BY Invariance, <1>1, PTL

\* addSession and removeSession (server.go:121-133) never change the map while
\* Shutdown iterates over it.
THEOREM MapStable == Spec => []IterationSafe
<1>1. IInv => IterationSafe
  BY DEF IInv, TypeOK, LockOK, LoopOK, IterationSafe
<1> QED
  BY Invariance, <1>1, PTL

\* Before its deadline Shutdown (server.go:135) goes on to http.Shutdown, and
\* returns nil, only when every session of the map is down.
THEOREM ShutdownSound == Spec => []ShutdownClosesAll
<1>1. IInv => ShutdownClosesAll
  BY ConnsAssumption DEF IInv, TypeOK, LoopOK, ClosedOK, ShutdownClosesAll
<1> QED
  BY Invariance, <1>1, PTL
-----------------------------------------------------------------------------
\* A session is in the map exactly while its handler serves it, and a handler
\* that has returned leaves no session up.
NoOrphans ==
  \A c \in Conns :
    /\ c \in sessions <=> pc[c] \in {"serve", "close", "remove"}
    /\ pc[c] = "end" => c \notin sessions /\ phase[c] # "up"

\* The deferred removeSession and cancel (server.go:72-86) undo what the
\* handler began, whatever made it return: a result, a cancelled request or
\* Shutdown.
THEOREM HandlersCleanUp == Spec => []NoOrphans
<1>1. IInv => NoOrphans
  BY DEF IInv, TypeOK, HandlersOK, InMap, DownOK, NoOrphans
<1> QED
  BY Invariance, <1>1, PTL

\* Who waits on the server waits for something that is on its way: a session
\* that is up has a handler that will receive its result or cancel it; the
\* handler of a session that has reported finds the report; Close and Shutdown
\* wait for sessions that are going down; and the lock is held by nobody but a
\* Shutdown that has not returned.
WaitsServed ==
  /\ \A c \in Conns :
       /\ phase[c] = "up" => pc[c] \in {"add", "serve", "remove", "cancel"}
       /\ pc[c] = "serve" /\ phase[c] = "reported" => done[c] # <<>>
       /\ pc[c] = "close" \/ c = current => phase[c] \in {"closing", "finalized", "reported"}
  /\ mu # "free" <=> shutdown \in {"closing", "http"}

\* This is the safe half of EndedSessionsLeave, FailedIsTornDown and
\* ShutdownEnds: what remains is that those steps are taken.
THEOREM NobodyWaitsInVain == Spec => []WaitsServed
<1>1. IInv => WaitsServed
  <2> SUFFICES ASSUME IInv PROVE WaitsServed
    OBVIOUS
  <2>1. ASSUME NEW c \in Conns PROVE
          /\ phase[c] = "up" => pc[c] \in {"add", "serve", "remove", "cancel"}
          /\ pc[c] = "serve" /\ phase[c] = "reported" => done[c] # <<>>
          /\ pc[c] = "close" => phase[c] \in {"closing", "finalized", "reported"}
    BY DEF IInv, TypeOK, HandlersOK, StartOK, DownOK
  <2>2. ASSUME NEW c \in Conns, c = current PROVE phase[c] \in {"closing", "finalized", "reported"}
    BY <2>2, ConnsAssumption DEF IInv, TypeOK, LoopOK, HandlersOK, StartOK, DownOK
  <2> QED
    BY <2>1, <2>2 DEF IInv, TypeOK, LockOK, WaitsServed
<1> QED
  BY Invariance, <1>1, PTL
-----------------------------------------------------------------------------
(* The server does not stop half-way: where no fair action can be taken,   *)
(* what EndedSessionsLeave, FailedIsTornDown and ShutdownEnds promise has  *)
(* happened.                                                               *)

\* No handler, no Shutdown and no finalized session has a step; the deadline
\* has passed, if it is running.
Stalled ==
  /\ \A c \in Conns :
       /\ pc[c] \notin {"upgrade", "cancel"}
       /\ pc[c] \in {"add", "remove"} => mu # "free"
       /\ pc[c] = "serve" => done[c] = <<>> /\ ~ctx[c]
       /\ pc[c] = "close" => phase[c] \notin {"finalized", "reported"}
       /\ phase[c] = "finalized" => done[c] # <<>>
  /\ shutdown \in {"closing", "http"} => expired
  /\ shutdown = "closing" => current # "none"
  /\ current # "none" => phase[current] \notin {"finalized", "reported"} /\ ~expired
  /\ shutdown = "http" => ~expired

ComesToRest ==
  Stalled =>
    /\ mu = "free" /\ shutdown \notin {"closing", "http"}
    /\ \A c \in Conns : phase[c] = "reported" => pc[c] = "end" /\ c \notin sessions
    /\ \A c \in Conns : done[c] = <<"err">> => phase[c] # "up"

\* Whatever the sessions do, and also when one of them never finalizes while
\* Shutdown (server.go:135) has the lock.
THEOREM KeepsMoving == Spec => []ComesToRest
<1>1. IInv /\ NoOrphans /\ WaitsServed => ComesToRest
  <2> SUFFICES ASSUME IInv, NoOrphans, WaitsServed, Stalled
               PROVE  /\ mu = "free" /\ shutdown \notin {"closing", "http"}
                      /\ \A c \in Conns : /\ phase[c] = "reported" => pc[c] = "end" /\ c \notin sessions
                                          /\ done[c] = <<"err">> => phase[c] # "up"
    BY DEF ComesToRest
  <2>1. mu = "free" /\ shutdown \notin {"closing", "http"}
    BY DEF Stalled, WaitsServed
  <2>2. ASSUME NEW c \in Conns
        PROVE  /\ phase[c] = "reported" => pc[c] = "end" /\ c \notin sessions
               /\ done[c] = <<"err">> => phase[c] # "up"
    <3>1. pc[c] \in {"off", "serve", "close", "end"}
      BY <2>1 DEF Stalled, IInv, TypeOK
    <3>2. ASSUME phase[c] = "reported" PROVE pc[c] = "end"
      BY <3>1, <3>2 DEF Stalled, WaitsServed, IInv, HandlersOK, StartOK
    <3>3. ASSUME done[c] = <<"err">> PROVE phase[c] # "up"
      <4>1. <<"err">> # <<>>
        OBVIOUS
      <4> QED
        BY <3>1, <3>3, <4>1 DEF Stalled, WaitsServed
    <3> QED
      BY <3>2, <3>3 DEF NoOrphans
  <2> QED
    BY <2>1, <2>2
<1> QED
  BY <1>1, Invariance, HandlersCleanUp, NobodyWaitsInVain, PTL
-----------------------------------------------------------------------------
\* Whatever the server does to its sessions, and they do by themselves, is a
\* step of ServedSession, which is what module Session implements.
THEOREM ServesSessions == Spec => SessSpec
<1>1. Init => SessInit
  BY DEF Init
<1>2. [Next]_vars => [SessNext]_sess
  <2> SUFFICES ASSUME Next PROVE SessNext \/ UNCHANGED sess
    BY DEF vars
  <2>1. ASSUME NEW c \in Conns, Handler(c) PROVE SessStep(c) \/ UNCHANGED sess
    BY <2>1 DEF Handler, Refuse, Upgrade, AddSession, ReceiveDone, CtxDone, CloseReturns,
                RemoveSession, Cancel, SessStep
  <2>2. ASSUME NEW c \in Conns, Session(c) PROVE SessStep(c)
    BY <2>2 DEF Session, RequestCancelled, SessionEnds, SessionRuns, SessionReports, SessStep
  <2>3. ASSUME NEW c \in Conns, ShutdownNext(c) PROVE SessStep(c)
    BY <2>3 DEF ShutdownNext, SessStep
  <2>4. ASSUME NEW c \in Conns, Accept(c) PROVE UNCHANGED sess
    BY <2>4 DEF Accept
  <2>5. CASE ShutdownLock \/ ShutdownClosed \/ ShutdownHttp \/ ShutdownReturns \/ Expire
    BY <2>5 DEF ShutdownLock, ShutdownClosed, ShutdownHttp, ShutdownReturns, Expire
  <2> QED
    BY <2>1, <2>2, <2>3, <2>4, <2>5 DEF Next, Shutdown, SessNext
<1> QED
  BY <1>1, <1>2, PTL DEF Spec, SessSpec
-----------------------------------------------------------------------------
(* No way back                                                             *)

\* The places of a handler, a session and Shutdown, in their order.
HandlerPlace == [off |-> 0, upgrade |-> 1, add |-> 2, serve |-> 3, close |-> 4, remove |-> 5,
                 cancel |-> 6, end |-> 7]
PhasePlace == [none |-> 0, up |-> 1, closing |-> 2, finalized |-> 3, reported |-> 4]
ShutdownPlace == [idle |-> 0, closing |-> 1, http |-> 2, ok |-> 3, err |-> 3]

\* Nobody comes back to a place and no context is cancelled twice; the
\* other steps are the end of an OnBegin that runs, of one of the sessions that
\* Shutdown has left to close, or of its wait for that session.
Advance ==
  /\ \A c \in Conns : /\ pc'[c] # pc[c] => HandlerPlace[pc[c]] < HandlerPlace[pc'[c]]
                      /\ phase'[c] # phase[c] => PhasePlace[phase[c]] < PhasePlace[phase'[c]]
                      /\ ctx[c] => ctx'[c]
  /\ shutdown' # shutdown => ShutdownPlace[shutdown] < ShutdownPlace[shutdown']
  /\ expired => expired'
  /\ \/ <<pc, phase, ctx, shutdown, expired>>' # <<pc, phase, ctx, shutdown, expired>>
     \/ /\ UNCHANGED <<todo, current>>
        /\ \E c \in Conns : begin[c] /\ begin' = [begin EXCEPT ![c] = FALSE]
     \/ UNCHANGED begin /\ \E c \in todo : todo' = todo \ {c}
     \/ UNCHANGED <<begin, todo>> /\ current # "none" /\ current' = "none"

LEMMA PlaceIs ==
  /\ HandlerPlace["off"] = 0 /\ HandlerPlace["upgrade"] = 1 /\ HandlerPlace["add"] = 2
  /\ HandlerPlace["serve"] = 3 /\ HandlerPlace["close"] = 4 /\ HandlerPlace["remove"] = 5
  /\ HandlerPlace["cancel"] = 6 /\ HandlerPlace["end"] = 7
  /\ PhasePlace["none"] = 0 /\ PhasePlace["up"] = 1 /\ PhasePlace["closing"] = 2
  /\ PhasePlace["finalized"] = 3 /\ PhasePlace["reported"] = 4
  /\ ShutdownPlace["idle"] = 0 /\ ShutdownPlace["closing"] = 1 /\ ShutdownPlace["http"] = 2
  /\ ShutdownPlace["ok"] = 3 /\ ShutdownPlace["err"] = 3
  BY DEF HandlerPlace, PhasePlace, ShutdownPlace

\* What a step does to the sessions takes each of them forward.
SessForward ==
  \A c \in Conns : /\ phase'[c] # phase[c] => PhasePlace[phase[c]] < PhasePlace[phase'[c]]
                   /\ ctx[c] => ctx'[c]

LEMMA SessionForward ==
  ASSUME IInv, NEW c \in Conns,
         \/ Run(c) \/ CtxCancelled(c) \/ DoClose(c) \/ BeginOk(c) \/ BeginFails(c)
         \/ Finalize(c) \/ ReportNil(c) \/ Receive(c)
  PROVE  SessForward
<1>1. /\ phase \in [Conns -> {"none", "up", "closing", "finalized", "reported"}]
      /\ ctx \in [Conns -> BOOLEAN]
  BY DEF IInv, TypeOK
<1>2. \/ phase' = phase
      \/ \E p : phase' = [phase EXCEPT ![c] = p] /\ PhasePlace[phase[c]] < PhasePlace[p]
      \/ phase' = [phase EXCEPT ![c] = phase[c]]
  BY <1>1, PlaceIs
  DEF Run, CtxCancelled, DoClose, BeginOk, BeginFails, Finalize, ReportNil, Receive, Trigger
<1>3. ctx' = ctx \/ ctx' = [ctx EXCEPT ![c] = TRUE]
  BY DEF Run, CtxCancelled, DoClose, BeginOk, BeginFails, Finalize, ReportNil, Receive
<1>4. \A d \in Conns : phase'[d] # phase[d] => PhasePlace[phase[d]] < PhasePlace[phase'[d]]
  BY ONLY <1>1, <1>2, c \in Conns
<1>5. \A d \in Conns : ctx[d] => ctx'[d]
  BY ONLY <1>1, <1>3, c \in Conns
<1> QED
  BY <1>4, <1>5 DEF SessForward

\* A handler moves on.
LEMMA HandlerMoves ==
  ASSUME IInv, NEW c \in Conns, NEW label, Goto(c, label),
         HandlerPlace[pc[c]] < HandlerPlace[label], label # pc[c],
         SessForward, UNCHANGED <<shutdown, expired>>
  PROVE  Advance
<1>1. pc \in [Conns -> {"off", "upgrade", "add", "serve", "close", "remove", "cancel", "end"}]
  BY DEF IInv, TypeOK
<1>2. pc'[c] = label /\ \A d \in Conns : d # c => pc'[d] = pc[d]
  BY <1>1 DEF Goto
<1>3. pc' # pc
  BY <1>2
<1> QED
  BY <1>2, <1>3 DEF Advance, SessForward

LEMMA HandlerAdvances ==
  ASSUME IInv, NEW c \in Conns, Accept(c) \/ Handler(c)
  PROVE  Advance
<1>1. UNCHANGED sess => SessForward
  BY DEF sess, SessForward
<1>2. SessForward
  BY <1>1, SessionForward
  DEF Accept, Handler, Refuse, Upgrade, AddSession, ReceiveDone, CtxDone, CloseReturns,
      RemoveSession, Cancel
<1>3. PICK label : Goto(c, label) /\ HandlerPlace[pc[c]] < HandlerPlace[label] /\ label # pc[c]
  BY PlaceIs
  DEF Accept, Handler, Refuse, Upgrade, AddSession, ReceiveDone, CtxDone, CloseReturns,
      RemoveSession, Cancel
<1>4. UNCHANGED <<shutdown, expired>>
  BY DEF Accept, Handler, Refuse, Upgrade, AddSession, ReceiveDone, CtxDone, CloseReturns,
         RemoveSession, Cancel, down
<1> QED
  BY <1>2, <1>3, <1>4, HandlerMoves

LEMMA SessionAdvances ==
  ASSUME IInv, NEW c \in Conns, Session(c)
  PROVE  Advance
<1>1. SessForward /\ UNCHANGED <<pc, shutdown, expired, todo, current>>
  BY SessionForward
  DEF Session, RequestCancelled, SessionEnds, SessionRuns, SessionReports, down
<1>2. /\ phase \in [Conns -> {"none", "up", "closing", "finalized", "reported"}]
      /\ ctx \in [Conns -> BOOLEAN]
  BY DEF IInv, TypeOK
<1>3. CASE RequestCancelled(c)
  <2>1. ~ctx[c] /\ ctx'[c]
    BY <1>2, <1>3 DEF RequestCancelled, CtxCancelled
  <2> QED
    BY <1>1, <2>1 DEF Advance, SessForward
<1>4. CASE SessionEnds(c) \/ Finalize(c) \/ SessionReports(c)
  <2>1. phase'[c] # phase[c]
    BY <1>2, <1>4 DEF SessionEnds, DoClose, Trigger, Finalize, SessionReports, ReportNil
  <2> QED
    BY <1>1, <2>1 DEF Advance, SessForward
<1>5. CASE BeginOk(c) \/ BeginFails(c)
  <2>1. begin[c] /\ begin' = [begin EXCEPT ![c] = FALSE]
    BY <1>5 DEF BeginOk, BeginFails
  <2> QED
    BY <1>1, <2>1 DEF Advance, SessForward
<1> QED
  BY <1>3, <1>4, <1>5 DEF Session, SessionRuns

LEMMA ShutdownAdvances ==
  ASSUME IInv, ShutdownLock \/ Shutdown \/ Expire
  PROVE  Advance
<1>1. UNCHANGED sess => SessForward
  BY DEF sess, SessForward
<1>2. CASE ShutdownLock \/ ShutdownHttp \/ ShutdownReturns
  <2>1. /\ ShutdownPlace[shutdown] < ShutdownPlace[shutdown'] /\ shutdown' # shutdown
        /\ UNCHANGED <<pc, sess, expired>>
    BY <1>2, PlaceIs DEF ShutdownLock, ShutdownHttp, ShutdownReturns
  <2> QED
    BY <1>1, <2>1 DEF Advance, SessForward
<1>3. CASE Expire
  <2>1. ~expired /\ expired' = TRUE /\ UNCHANGED <<pc, sess, shutdown>>
    BY <1>3 DEF Expire
  <2> QED
    BY <1>1, <2>1 DEF Advance, SessForward
<1>4. ASSUME NEW c \in Conns, ShutdownNext(c) PROVE Advance
  <2>1. /\ c \in todo /\ todo' = todo \ {c} /\ UNCHANGED <<pc, shutdown, expired>>
        /\ DoClose(c) /\ UNCHANGED begin
    BY <1>4 DEF ShutdownNext, DoClose
  <2>2. SessForward
    BY <2>1, SessionForward
  <2> QED
    BY <2>1, <2>2 DEF Advance, SessForward
<1>5. CASE ShutdownClosed
  <2>1. current # "none" /\ current' = "none" /\ UNCHANGED <<pc, sess, shutdown, expired, todo>>
    BY <1>5 DEF ShutdownClosed
  <2> QED
    BY <1>1, <2>1 DEF Advance, SessForward, sess
<1> QED
  BY <1>2, <1>3, <1>4, <1>5 DEF Shutdown

\* Handlers, sessions and Shutdown do not keep each other busy: each goes
\* through its places once, so finitely many connections leave finitely many
\* steps, and with KeepsMoving the server comes to rest.
THEOREM OnlyForward == Spec => [][Advance]_vars
<1>1. IInv /\ [Next]_vars => [Advance]_vars
  BY HandlerAdvances, SessionAdvances, ShutdownAdvances DEF Next
<1> QED
  BY <1>1, Invariance, PTL DEF Spec
=============================================================================
