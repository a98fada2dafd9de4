------------------------------- MODULE Server -------------------------------
(***************************************************************************)
(* The websocket server (transport/ws/server.go): one goroutine of         *)
(* net/http per connection runs the upgrade handler, which owns a session  *)
(* and keeps it in the map `sessions'; Shutdown closes the sessions of the *)
(* map while it holds the lock of the map.                                 *)
(*                                                                         *)
(* Its sessions are those of ServedSession, which module Session           *)
(* implements; they may take forever to finalize (WsTransport shows how).  *)
(***************************************************************************)
EXTENDS ServedSession

ASSUME ConnsAssumption == "none" \notin Conns

VARIABLES
  pc,         \* where the upgrade handler of each connection is
  sessions,   \* Server.sessions
  mu,         \* holder of Server.mu: "shutdown" or "free"
  listening,  \* the listener is open
  expired,    \* the context given to Shutdown has expired
  shutdown,   \* "idle", "closing", "http", "ok", "err"
  todo,       \* sessions of the map that Shutdown has not come to yet
  current,    \* the session it is closing, or "none"
  asked       \* the sessions it found in the map

down == <<listening, expired, shutdown, todo, current, asked>>
vars == <<pc, sess, sessions, mu, down>>

TypeOK ==
  /\ pc \in [Conns -> {"off", "upgrade", "add", "serve", "close", "remove", "cancel", "end"}]
  /\ ctx \in [Conns -> BOOLEAN]
  /\ phase \in [Conns -> {"none", "up", "closing", "finalized", "reported"}]
  /\ begin \in [Conns -> BOOLEAN]
  /\ done \in [Conns -> {<<>>, <<"nil">>, <<"err">>}]
  /\ sessions \subseteq Conns
  /\ mu \in {"free", "shutdown"}
  /\ listening \in BOOLEAN /\ expired \in BOOLEAN
  /\ shutdown \in {"idle", "closing", "http", "ok", "err"}
  /\ todo \subseteq Conns /\ asked \subseteq Conns
  /\ current \in Conns \cup {"none"}

Init ==
  /\ pc = [c \in Conns |-> "off"]
  /\ SessInit
  /\ sessions = {} /\ mu = "free"
  /\ listening = TRUE /\ expired = FALSE
  /\ shutdown = "idle" /\ todo = {} /\ current = "none" /\ asked = {}

Goto(c, label) == pc' = [pc EXCEPT ![c] = label]
-----------------------------------------------------------------------------
(* The upgrade handler.                                                    *)

Accept(c) ==
  /\ pc[c] = "off" /\ listening
  /\ Goto(c, "upgrade")
  /\ UNCHANGED <<sess, sessions, mu, down>>

\* AuthHandler refuses, or the upgrade fails.
Refuse(c) ==
  /\ pc[c] = "upgrade"
  /\ Goto(c, "end")
  /\ UNCHANGED <<sess, sessions, mu, down>>

\* NewSession and Run, which has a handler and a transport, and which nobody
\* can close before it runs.
Upgrade(c) ==
  /\ pc[c] = "upgrade"
  /\ Run(c) /\ (phase'[c] = "up" <=> ~ctx[c])
  /\ Goto(c, "add")
  /\ UNCHANGED <<sessions, mu, down>>

AddSession(c) ==
  /\ pc[c] = "add" /\ mu = "free"
  /\ sessions' = sessions \cup {c}
  /\ Goto(c, "serve")
  /\ UNCHANGED <<sess, mu, down>>

\* The handler's select: a result of Run, or the context of the request.
ReceiveDone(c) ==
  /\ pc[c] = "serve"
  /\ Receive(c)
  /\ Goto(c, "remove")
  /\ UNCHANGED <<sessions, mu, down>>

CtxDone(c) ==
  /\ pc[c] = "serve" /\ ctx[c]
  /\ DoClose(c)
  /\ Goto(c, "close")
  /\ UNCHANGED <<sessions, mu, down>>

\* Close with a context that never expires.
CloseReturns(c) ==
  /\ pc[c] = "close" /\ phase[c] \in {"finalized", "reported"}
  /\ Goto(c, "remove")
  /\ UNCHANGED <<sess, sessions, mu, down>>

\* The deferred calls run in reverse order: removeSession, then cancel.
RemoveSession(c) ==
  /\ pc[c] = "remove" /\ mu = "free"
  /\ sessions' = sessions \ {c}
  /\ Goto(c, "cancel")
  /\ UNCHANGED <<sess, mu, down>>

\* Mutant of Cancel: the handler returns without cancelling.
CancelNot(c) ==
  /\ pc[c] = "cancel"
  /\ Goto(c, "end")
  /\ UNCHANGED <<sess, sessions, mu, down>>

Cancel(c) ==
  /\ pc[c] = "cancel"
  /\ CtxCancelled(c)
  /\ Goto(c, "end")
  /\ UNCHANGED <<sessions, mu, down>>
-----------------------------------------------------------------------------
(* The sessions: the rest of what ServedSession describes.                 *)

\* net/http cancels the context of the request.
RequestCancelled(c) ==
  /\ pc[c] # "off" /\ ~ctx[c]
  /\ CtxCancelled(c)
  /\ UNCHANGED <<pc, sessions, mu, down>>

\* The client leaves, or the session's handler closes it.
SessionEnds(c) ==
  /\ phase[c] = "up"
  /\ DoClose(c)
  /\ UNCHANGED <<pc, sessions, mu, down>>

SessionRuns(c) ==
  /\ BeginOk(c) \/ BeginFails(c) \/ Finalize(c)
  /\ UNCHANGED <<pc, sessions, mu, down>>

SessionReports(c) ==
  /\ ReportNil(c)
  /\ UNCHANGED <<pc, sessions, mu, down>>
-----------------------------------------------------------------------------
(* Shutdown, called once; its context has a deadline.                      *)

Expire ==
  /\ shutdown \in {"closing", "http"} /\ ~expired
  /\ expired' = TRUE
  /\ UNCHANGED <<pc, sess, sessions, mu, listening, shutdown, todo, current, asked>>

ShutdownLock ==
  /\ shutdown = "idle" /\ mu = "free"
  /\ mu' = "shutdown"
  /\ todo' = sessions /\ asked' = sessions
  /\ shutdown' = "closing"
  /\ UNCHANGED <<pc, sess, sessions, listening, expired, current>>

\* The range loop closes one session after the other: doClose first,
ShutdownNext(c) ==
  /\ shutdown = "closing" /\ current = "none" /\ c \in todo
  /\ todo' = todo \ {c} /\ current' = c
  /\ DoClose(c)
  /\ UNCHANGED <<pc, sessions, mu, listening, expired, shutdown, asked>>

\* Mutants of ShutdownClosed: the loop does not wait; it ignores the deadline.
ShutdownForgets ==
  /\ current # "none"
  /\ current' = "none"
  /\ UNCHANGED <<pc, sess, sessions, mu, listening, expired, shutdown, todo, asked>>

ShutdownWaits ==
  /\ current # "none" /\ phase[current] \in {"finalized", "reported"}
  /\ current' = "none"
  /\ UNCHANGED <<pc, sess, sessions, mu, listening, expired, shutdown, todo, asked>>

\* then the wait, whose error when the context has expired is ignored.
ShutdownClosed ==
  /\ current # "none"
  /\ phase[current] \in {"finalized", "reported"} \/ expired
  /\ current' = "none"
  /\ UNCHANGED <<pc, sess, sessions, mu, listening, expired, shutdown, todo, asked>>

\* http.Server.Shutdown closes the listener
ShutdownHttp ==
  /\ shutdown = "closing" /\ todo = {} /\ current = "none"
  /\ listening' = FALSE
  /\ shutdown' = "http"
  /\ UNCHANGED <<pc, sess, sessions, mu, expired, todo, current, asked>>

\* Mutant of ShutdownReturns: the lock is kept.
ShutdownReturnsLocked ==
  /\ shutdown = "http"
  /\ \/ shutdown' = "ok" /\ \A c \in Conns : pc[c] # "upgrade"
     \/ shutdown' = "err" /\ expired
  /\ UNCHANGED <<pc, sess, sessions, mu, listening, expired, todo, current, asked>>

\* and waits for the connections that have not been hijacked by an upgrade.
ShutdownReturns ==
  /\ shutdown = "http"
  /\ \/ shutdown' = "ok" /\ \A c \in Conns : pc[c] # "upgrade"
     \/ shutdown' = "err" /\ expired
  /\ mu' = "free"
  /\ UNCHANGED <<pc, sess, sessions, listening, expired, todo, current, asked>>
-----------------------------------------------------------------------------
Handler(c) == \/ Refuse(c) \/ Upgrade(c) \/ AddSession(c) \/ ReceiveDone(c) \/ CtxDone(c)
              \/ CloseReturns(c) \/ RemoveSession(c) \/ Cancel(c)
Session(c) == RequestCancelled(c) \/ SessionEnds(c) \/ SessionRuns(c) \/ SessionReports(c)
Shutdown == \/ ShutdownClosed \/ ShutdownHttp \/ ShutdownReturns
            \/ \E c \in Conns : ShutdownNext(c)

Next ==
  \/ \E c \in Conns : Accept(c) \/ Handler(c) \/ Session(c)
  \/ ShutdownLock \/ Shutdown \/ Expire

Spec == Init /\ [][Next]_vars

(***************************************************************************)
(* Handlers, Shutdown and its deadline go on; who waits for the lock gets  *)
(* it (sync.Mutex is starvation free); a finalized session reports.  Not   *)
(* fair: clients, OnBegin, and Finalize, which may hang in the transport.  *)
(***************************************************************************)
Fairness ==
  /\ WF_vars(Shutdown) /\ WF_vars(Expire)
  /\ \A c \in Conns : /\ WF_vars(Handler(c)) /\ WF_vars(SessionReports(c))
                      /\ SF_vars(AddSession(c)) /\ SF_vars(RemoveSession(c))

FairSpec == Spec /\ Fairness
-----------------------------------------------------------------------------
\* The map does not change under Shutdown's range loop, though sessions end
\* and start at any time (Go would stop the process).
IterationSafe == todo \subseteq sessions /\ (todo # {} => mu = "shutdown" /\ asked = sessions)

\* A Shutdown that meets its deadline has closed every session it found in
\* the map.  A session that runs but is not in the map yet is not among them.
ShutdownClosesAll ==
  shutdown \in {"http", "ok"} /\ ~expired =>
    \A c \in asked : phase[c] \in {"finalized", "reported"}

\* A session that has ended leaves the map and its handler returns, also when
\* Shutdown is closing other sessions with the lock held.
EndedSessionsLeave ==
  \A c \in Conns : phase[c] = "reported" ~> pc[c] = "end" /\ c \notin sessions

\* On the server a session whose OnBegin failed is torn down: the handler
\* receives the error and cancels the context.
FailedIsTornDown == \A c \in Conns : done[c] = <<"err">> ~> phase[c] # "up"

\* Shutdown returns, also when a session cannot be closed.
ShutdownEnds == shutdown = "closing" ~> shutdown \in {"ok", "err"}
=============================================================================
