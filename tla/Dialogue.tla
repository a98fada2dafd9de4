------------------------------ MODULE Dialogue ------------------------------
(***************************************************************************)
(* Two sessions over a direct transport: the writers (Session.Request,     *)
(* EventDispatch, Respond), the reader of each session, the goroutine each *)
(* incoming message gets (handleIncomingMessage), and in it the default    *)
(* handler, the middleware and the typed handlers.  A handler may send     *)
(* requests of its own and wait for them while it runs.                    *)
(*                                                                         *)
(* The table of pending requests is Rpc's subject: here a response that    *)
(* finds its request waiting ends it in one step.  Of the life cycle of a  *)
(* session only what others see of it is kept: its context is cancelled,   *)
(* its transport closed, its reader gone.                                  *)
(***************************************************************************)
EXTENDS DirectTransport, Messages, FiniteSets

CONSTANTS
  Top,     \* requests of the applications
  Nested,  \* requests that handlers send
  Within,  \* of a nested request: the request whose handler sends it
  From,    \* the side that sends a request
  Events,
  EFrom    \* the side that sends an event

Reqs == Top \cup Nested

ASSUME DialogueAssumption ==
  /\ From \in [Reqs -> Sides] /\ EFrom \in [Events -> Sides]
  /\ Within \in [Nested -> Reqs]
  /\ "" \notin Reqs \cup Events

To(r) == Peer(From[r])

VARIABLES
  phase,     \* of each session: "up", "closing" or "over"
  reader,    \* its reader goroutine
  call,      \* where the goroutine inside Request is, then its outcome
  result,    \* the error Request returned
  spawned,   \* the messages whose goroutine has not begun, of each session
  serve,     \* where the goroutine that handles a request is
  failure,   \* the error it answers with
  answers,   \* the answers to each request that were written, as codes
  performed, \* requests whose handler function has succeeded
  event      \* where the goroutine inside EventDispatch is, then its outcome

transportVars == <<chan, closed>>
sessionVars == <<phase, reader>>
callVars == <<call, result>>
serveVars == <<serve, failure, answers, performed>>
vars == <<transportVars, sessionVars, callVars, spawned, serveVars, event>>

Outcomes == {"ok", "err", "timeout", "sendfail"}
Ends == {"done", "refused"}

\* What an application puts in a request or an event.  The last kind is not
\* what the receiver's type is, the one before is refused by its Validate:
\* the sender's own type refuses it first, if that is the receiver's.
Contents ==
  {[name |-> "known", payload |-> "fine", typed |-> TRUE],
   [name |-> "unknown", payload |-> "fine", typed |-> TRUE],
   [name |-> "known", payload |-> "invalid", typed |-> TRUE],
   [name |-> "known", payload |-> "invalid", typed |-> FALSE],
   [name |-> "known", payload |-> "alien", typed |-> FALSE]}

\* What handlers and middleware return of their own: errors with and without
\* a text, and a response error without a code.
HandlerErrors ==
  {PlainError(TRUE), PlainError(FALSE), [kind |-> "response", code |-> "0", text |-> TRUE]}

Code(error) == IF error = NoError THEN "ok" ELSE error.code

TypeOK ==
  /\ \A s \in Sides : Len(chan[s]) <= ChanCap
  /\ closed \in BOOLEAN
  /\ phase \in [Sides -> {"up", "closing", "over"}]
  /\ reader \in [Sides -> {"read", "end"}]
  /\ call \in [Reqs -> {"idle", "invalid", "write", "wait"} \cup Outcomes]
  /\ serve \in [Reqs -> {"none", "handle", "reply", "hook", "refuse"} \cup Ends]
  /\ failure \in [Reqs -> ResponseError \cup {NoError}]
  /\ result \in [Reqs -> ResponseError \cup {NoError}]
  /\ \A r \in Reqs : Len(answers[r]) <= 2
  /\ performed \subseteq Reqs
  /\ event \in [Events -> {"idle", "write", "sent", "sendfail"}]

Init ==
  /\ TransportInit
  /\ phase = [s \in Sides |-> "up"] /\ reader = [s \in Sides |-> "read"]
  /\ call = [r \in Reqs |-> "idle"]
  /\ result = [r \in Reqs |-> NoError]
  /\ spawned = [s \in Sides |-> {}]
  /\ serve = [r \in Reqs |-> "none"]
  /\ failure = [r \in Reqs |-> NoError]
  /\ answers = [r \in Reqs |-> <<>>]
  /\ performed = {}
  /\ event = [e \in Events |-> "idle"]

CallTo(r, label) == call' = [call EXCEPT ![r] = label]
ServeTo(r, label) == serve' = [serve EXCEPT ![r] = label]
EventTo(e, label) == event' = [event EXCEPT ![e] = label]
-----------------------------------------------------------------------------
(* The sessions                                                            *)

\* Close, or the end of the context: either wakes the watcher.
Stop(s) ==
  /\ phase[s] = "up"
  /\ phase' = [phase EXCEPT ![s] = "closing"]
  /\ UNCHANGED <<transportVars, reader, callVars, spawned, serveVars, event>>

Finalize(s) ==
  /\ phase[s] = "closing"
  /\ TransportClose
  /\ phase' = [phase EXCEPT ![s] = "over"]
  /\ UNCHANGED <<reader, callVars, spawned, serveVars, event>>

\* The message gets a goroutine, or is dropped when it does not parse.
ReaderReads(s) ==
  /\ reader[s] = "read"
  /\ \E data \in {Head(c) : c \in {chan[t] : t \in Sides} \ {<<>>}} :
       /\ TransportRead(s, data)
       /\ spawned' = [spawned EXCEPT ![s] =
                        IF Accepted(data) THEN @ \cup {Parse(data)} ELSE @]
  /\ UNCHANGED <<sessionVars, callVars, serveVars, event>>

ReaderEnds(s) ==
  /\ reader[s] = "read" /\ phase[s] # "up"
  /\ reader' = [reader EXCEPT ![s] = "end"]
  /\ UNCHANGED <<transportVars, phase, callVars, spawned, serveVars, event>>
-----------------------------------------------------------------------------
(* Session.Request                                                         *)

Requests(r) == {NewRequest(r, c.name, c.payload, c.typed) : c \in Contents}

\* Any goroutine of the application may call, a handler while it runs.
MayCall(r) == r \in Nested => serve[Within[r]] = "handle"

\* sendMessage validates; then the encoded request is written.  (Which of
\* the valid ones it is, is left open until then.)
Call(r) ==
  /\ call[r] = "idle" /\ MayCall(r)
  /\ \E req \in Requests(r) : CallTo(r, IF Validate(req) THEN "write" ELSE "invalid")
  /\ UNCHANGED <<transportVars, sessionVars, result, spawned, serveVars, event>>

CallWrites(r) ==
  /\ call[r] = "write"
  /\ \E req \in Requests(r) : Validate(req) /\ TransportWrite(From[r], Encode(req))
  /\ CallTo(r, "wait")
  /\ UNCHANGED <<sessionVars, result, spawned, serveVars, event>>

\* Mutant of CallFails: Write waits for room only.
CallWaitsForRoom(r) ==
  /\ call[r] = "invalid"
  /\ CallTo(r, "sendfail")
  /\ UNCHANGED <<transportVars, sessionVars, result, spawned, serveVars, event>>

CallFails(r) ==
  /\ call[r] = "invalid" \/ (call[r] = "write" /\ closed)
  /\ CallTo(r, "sendfail")
  /\ UNCHANGED <<transportVars, sessionVars, result, spawned, serveVars, event>>

\* The request's own timeout or the context it was called with.
CallTimesOut(r) ==
  /\ call[r] = "wait"
  /\ CallTo(r, "timeout")
  /\ UNCHANGED <<transportVars, sessionVars, result, spawned, serveVars, event>>

\* Mutant of Resolve: Request returns the response without a look at its error.
ResolveIgnoresError(s, m) ==
  /\ m \in spawned[s] /\ m.type = "response"
  /\ spawned' = [spawned EXCEPT ![s] = @ \ {m}]
  /\ IF call[m.id] = "wait" THEN CallTo(m.id, "ok") ELSE UNCHANGED call
  /\ UNCHANGED <<transportVars, sessionVars, result, serveVars, event>>

\* A response nobody waits for is dropped.
Resolve(s, m) ==
  /\ m \in spawned[s] /\ m.type = "response"
  /\ spawned' = [spawned EXCEPT ![s] = @ \ {m}]
  /\ IF call[m.id] = "wait"
       THEN /\ CallTo(m.id, IF m.error = NoError THEN "ok" ELSE "err")
            /\ result' = [result EXCEPT ![m.id] = m.error]
       ELSE UNCHANGED <<call, result>>
  /\ UNCHANGED <<transportVars, sessionVars, serveVars, event>>
-----------------------------------------------------------------------------
(* handleRequest: an error the handler returns is answered with NotOk.     *)

\* The goroutine of r has an error.
Fails(r, err) ==
  /\ failure' = [failure EXCEPT ![r] = ToResponseError(err)]
  /\ ServeTo(r, "refuse")

BadRequest == [kind |-> "response", code |-> "400", text |-> TRUE]
InternalError == [kind |-> "response", code |-> "500", text |-> TRUE]
NotImplemented == [kind |-> "response", code |-> "501", text |-> TRUE]

\* Mutant of Dispatch: nobody handles an unknown method, nobody answers.
DispatchIgnores(s, m) ==
  /\ m \in spawned[s] /\ m.type = "request"
  /\ spawned' = [spawned EXCEPT ![s] = @ \ {m}]
  /\ \/ m.name = "unknown" /\ ServeTo(m.id, "done") /\ UNCHANGED failure
     \/ m.name = "known" /\ \E err \in HandlerErrors : Fails(m.id, err)
     \/ m.name = "known" /\ m.payload = "alien" /\ Fails(m.id, PlainError(TRUE))
     \/ m.name = "known" /\ m.payload = "invalid" /\ Fails(m.id, BadRequest)
     \/ m.name = "known" /\ m.payload = "fine" /\ ServeTo(m.id, "handle") /\ UNCHANGED failure
  /\ UNCHANGED <<transportVars, sessionVars, callVars, answers, performed, event>>

\* OnRequest: the method is unknown; its middleware says no; the parameters
\* cannot be decoded; they are invalid; the handler function is called.
Dispatch(s, m) ==
  /\ m \in spawned[s] /\ m.type = "request"
  /\ spawned' = [spawned EXCEPT ![s] = @ \ {m}]
  /\ \/ m.name = "unknown" /\ Fails(m.id, NotImplemented)
     \/ m.name = "known" /\ \E err \in HandlerErrors : Fails(m.id, err)
     \/ m.name = "known" /\ m.payload = "alien" /\ Fails(m.id, PlainError(TRUE))
     \/ m.name = "known" /\ m.payload = "invalid" /\ Fails(m.id, BadRequest)
     \/ m.name = "known" /\ m.payload = "fine" /\ ServeTo(m.id, "handle") /\ UNCHANGED failure
  /\ UNCHANGED <<transportVars, sessionVars, callVars, answers, performed, event>>

\* The handler function returns once the requests it sent have.
Waits(r) == \E n \in Nested : Within[n] = r /\ call[n] \in {"invalid", "write", "wait"}

HandlerFails(r, err) ==
  /\ serve[r] = "handle" /\ ~Waits(r)
  /\ Fails(r, err)
  /\ UNCHANGED <<transportVars, sessionVars, callVars, spawned, answers, performed, event>>

\* It returns the error its own request ended with: the peer's code goes on
\* to the caller.
PassesOn(r, n) ==
  /\ Within[n] = r /\ call[n] = "err"
  /\ HandlerFails(r, [kind |-> "response", code |-> result[n].code, text |-> result[n].text])

HandlerReturns(r) ==
  /\ serve[r] = "handle" /\ ~Waits(r)
  /\ performed' = performed \cup {r}
  /\ ServeTo(r, "reply")
  /\ UNCHANGED <<transportVars, sessionVars, callVars, spawned, failure, answers, event>>

\* Of a request its answers take the version and the ID, whatever it says.
Request(r) == Parse(Encode(NewRequest(r, "known", "fine", TRUE)))

Respond(r, response) ==
  /\ Validate(response)
  /\ TransportWrite(To(r), Encode(response))
  /\ answers' = [answers EXCEPT ![r] = Append(@, Code(response.error))]

Reply(r) ==
  /\ serve[r] = "reply"
  /\ Respond(r, Ok(Request(r), "fine"))
  /\ ServeTo(r, "hook")
  /\ UNCHANGED <<sessionVars, callVars, spawned, failure, performed, event>>

\* The result is invalid, or the transport is closed.
ReplyFails(r) ==
  /\ serve[r] = "reply"
  /\ Fails(r, InternalError) \/ (closed /\ Fails(r, PlainError(TRUE)))
  /\ UNCHANGED <<transportVars, sessionVars, callVars, spawned, answers, performed, event>>

\* OnAfterReply, whose error (of Session.Close) is answered as well.
HookReturns(r) ==
  /\ serve[r] = "hook"
  /\ ServeTo(r, "done")
  /\ UNCHANGED <<transportVars, sessionVars, callVars, spawned, failure, answers, performed, event>>

HookFails(r) ==
  /\ serve[r] = "hook"
  /\ Fails(r, PlainError(TRUE))
  /\ UNCHANGED <<transportVars, sessionVars, callVars, spawned, answers, performed, event>>

\* Mutant of Refuse: the answer is written without validation.
RefuseUnchecked(r) ==
  /\ serve[r] = "refuse"
  /\ TransportWrite(To(r), Encode(NotOk(Request(r), failure[r])))
  /\ answers' = [answers EXCEPT ![r] = Append(@, failure[r].code)]
  /\ ServeTo(r, "refused")
  /\ UNCHANGED <<sessionVars, callVars, spawned, failure, performed, event>>

Refuse(r) ==
  /\ serve[r] = "refuse"
  /\ Respond(r, NotOk(Request(r), failure[r]))
  /\ ServeTo(r, "refused")
  /\ UNCHANGED <<sessionVars, callVars, spawned, failure, performed, event>>

\* The failure to answer is logged.
RefuseFails(r) ==
  /\ serve[r] = "refuse"
  /\ ~Validate(NotOk(Request(r), failure[r])) \/ closed
  /\ ServeTo(r, "refused")
  /\ UNCHANGED <<transportVars, sessionVars, callVars, spawned, failure, answers, performed, event>>
-----------------------------------------------------------------------------
(* Events                                                                  *)

\* What an event carries matters to its sender: one that nobody handles or
\* that cannot be decoded changes nothing at the other side.
Notes(e) == {NewEvent(e, "known", payload, TRUE) : payload \in {"fine", "invalid"}}

Notify(e) ==
  /\ event[e] = "idle"
  /\ \E evt \in Notes(e) : EventTo(e, IF Validate(evt) THEN "write" ELSE "sendfail")
  /\ UNCHANGED <<transportVars, sessionVars, callVars, spawned, serveVars>>

NotifyWrites(e) ==
  /\ event[e] = "write"
  /\ \E evt \in Notes(e) : Validate(evt) /\ TransportWrite(EFrom[e], Encode(evt))
  /\ EventTo(e, "sent")
  /\ UNCHANGED <<sessionVars, callVars, spawned, serveVars>>

NotifyFails(e) ==
  /\ event[e] = "write"
  /\ closed
  /\ EventTo(e, "sendfail")
  /\ UNCHANGED <<transportVars, sessionVars, callVars, spawned, serveVars>>

\* An event nobody handles is ignored; an error, also of decoding it, is logged.
OnEvent(s, m) ==
  /\ m \in spawned[s] /\ m.type = "event"
  /\ spawned' = [spawned EXCEPT ![s] = @ \ {m}]
  /\ UNCHANGED <<transportVars, sessionVars, callVars, serveVars, event>>
-----------------------------------------------------------------------------
Reader(s) == ReaderReads(s) \/ ReaderEnds(s)
Caller(r) == CallWrites(r) \/ CallFails(r) \/ CallTimesOut(r)
Incoming(s, m) == Resolve(s, m) \/ Dispatch(s, m) \/ OnEvent(s, m)
Handler(r) == \/ \E err \in HandlerErrors : HandlerFails(r, err)
              \/ \E n \in Nested : PassesOn(r, n)
              \/ HandlerReturns(r)
Answer(r) == Reply(r) \/ ReplyFails(r) \/ HookReturns(r) \/ HookFails(r) \/ Refuse(r) \/ RefuseFails(r)
Notifier(e) == NotifyWrites(e) \/ NotifyFails(e)

\* What goes on by itself, and what an application or a user starts.
Progress ==
  \/ \E s \in Sides : \/ Finalize(s) \/ Reader(s)
                      \/ \E m \in spawned[s] : Incoming(s, m)
  \/ \E r \in Reqs : Caller(r) \/ Handler(r) \/ Answer(r)
  \/ \E e \in Events : Notifier(e)

Start ==
  \/ \E s \in Sides : Stop(s)
  \/ \E r \in Reqs : Call(r)
  \/ \E e \in Events : Notify(e)

Next == Progress \/ Start

Spec == Init /\ [][Next]_vars

\* A goroutine that can run does, handlers and hooks return, a request times
\* out; nobody has to send or to close.  One condition is enough: each
\* request and each event is sent once, so no goroutine runs for ever while
\* another waits.
Fairness == WF_vars(Progress)
FairSpec == Spec /\ Fairness
-----------------------------------------------------------------------------
\* What is in a channel parses and validates at the other end as what it was
\* meant to be: a request or an event of the sender, an answer to a request
\* the receiver sent.  (The text of an error can be empty; the checks of both
\* ends, and the order of parseMessage, must agree.)
Understood ==
  \A s \in Sides : \A i \in 1..Len(chan[s]) :
    LET m == Parse(chan[s][i]) IN
    /\ Accepted(chan[s][i])
    /\ m.type = "request" => m.id \in Reqs /\ From[m.id] = s
    /\ m.type = "response" => m.id \in Reqs /\ To(m.id) = s
    /\ m.type = "event" => m.id \in Events /\ EFrom[m.id] = s

\* A request that was handled has been answered, unless the transport was
\* closed or the error cannot be sent (no code, no text).  A positive answer
\* means that it was performed, 400 or 501 that it was not, whatever failed
\* after the handler function; only a positive answer can be followed by
\* another one.
AnswersTell ==
  \A r \in Reqs :
    /\ serve[r] \in Ends /\ answers[r] = <<>> =>
         closed \/ (failure[r] # NoError /\ ~ErrorValid(failure[r]))
    /\ \A i \in 1..Len(answers[r]) :
         /\ i > 1 => answers[r][1] = "ok"
         /\ answers[r][i] = "ok" => i = 1 /\ r \in performed
         /\ answers[r][i] \in {"400", "501"} => r \notin performed

\* What callers see is what RpcPromise allows.
Promise == INSTANCE RpcPromise
  WITH phase <- [r \in Reqs |-> IF call[r] \in {"invalid", "write", "wait"} THEN "open" ELSE call[r]],
       failed <- {r \in Reqs : serve[r] \in {"refuse", "refused"}}
KeepsPromise == Promise!PSpec

\* No write, no request and no handler blocks for ever, however full the
\* channels are and whichever side has gone: the one that stays learns nothing
\* from its ReadChan.
AtRest ==
  /\ \A r \in Reqs : call[r] \in {"idle"} \cup Outcomes /\ serve[r] \in {"none"} \cup Ends
  /\ \A e \in Events : event[e] \in {"idle", "sent", "sendfail"}
Returns == <>[]AtRest
=============================================================================
