-------------------------------- MODULE Rpc --------------------------------
(***************************************************************************)
(* Requests between two sessions: Session.Request with the table of        *)
(* pending requests (session_request.go), and on the other side the        *)
(* goroutine handleIncomingMessage runs for a request: the middleware and  *)
(* the typed handler with its OnAfterReply hook (request.go), and the      *)
(* error reply of handleRequest (session.go).                              *)
(*                                                                         *)
(* Each message is handled by a goroutine of its own, so messages in       *)
(* flight are sets: they are handled in any order, and lost when a         *)
(* connection or a session ends.  Request IDs are random and unique; a     *)
(* request stands for its ID.                                              *)
(*                                                                         *)
(* A write to the transport succeeds, fails, or waits: the transport's     *)
(* Write heeds no context (control.go:31).  How long it waits is open; a   *)
(* side whose transport takes nothing any more is in stuck (module         *)
(* WsTransport says when that happens).                                    *)
(***************************************************************************)
EXTENDS Naturals, Sequences, FiniteSets

CONSTANT Reqs

VARIABLES
  call,       \* where the goroutine inside Request is, then its outcome
  ch,         \* pendingRequest.ch of each request: a channel of capacity 1
  pending,    \* keys of Session.pendingRequests
  resolver,   \* what the goroutine holding muPending in resolve is doing
  requests,   \* requests written by the caller, not yet handled
  responses,  \* responses written by the callee, not yet handled
  serve,      \* where the callee's goroutine for a request is
  performed,  \* requests whose handler function has succeeded
  stuck       \* sides whose transport makes writes wait forever

vars == <<call, ch, pending, resolver, requests, responses, serve, performed, stuck>>
callVars == <<call, ch, pending, resolver>>
serveVars == <<serve, performed>>

Sides == {"caller", "callee"}
Status == {"ok", "notok"}
Response == [req : Reqs, status : Status]
Outcomes == {"ok", "err", "timeout", "sendfail"}

\* muPending is free, or held by a resolver that has to send to the channel,
\* or has sent and has to delete the entry.  Request's own two sections
\* (insert, delete) are single steps.
Resolver == [at : {"free"}] \cup [at : {"send", "delete"}, resp : Response]
Free == [at |-> "free"]

TypeOK ==
  /\ call \in [Reqs -> {"idle", "registered", "waiting", "timing"} \cup Outcomes]
  /\ ch \in [Reqs -> {<<>>} \cup {<<s>> : s \in Status}]
  /\ pending \subseteq Reqs
  /\ resolver \in Resolver
  /\ requests \subseteq Reqs
  /\ responses \subseteq Response
  /\ serve \in [Reqs -> {"none", "handling", "performed", "hook", "failing", "end", "failed"}]
  /\ performed \subseteq Reqs /\ stuck \subseteq Sides

Init ==
  /\ call = [r \in Reqs |-> "idle"]
  /\ ch = [r \in Reqs |-> <<>>]
  /\ pending = {}
  /\ resolver = Free
  /\ requests = {}
  /\ responses = {}
  /\ serve = [r \in Reqs |-> "none"]
  /\ performed = {} /\ stuck = {}

MuFree == resolver = Free
CallTo(r, label) == call' = [call EXCEPT ![r] = label]
ServeTo(r, label) == serve' = [serve EXCEPT ![r] = label]
-----------------------------------------------------------------------------
(* Session.Request                                                         *)

\* newPendingRequest
Register(r) ==
  /\ call[r] = "idle" /\ MuFree
  /\ pending' = pending \cup {r}
  /\ CallTo(r, "registered")
  /\ UNCHANGED <<ch, resolver, requests, responses, serveVars, stuck>>

\* sendMessage hands the request to the transport, or fails (validation,
\* encoding, closed transport): Request returns and keeps the entry. The
\* timeout of the request does not end a write that waits.
Send(r) ==
  /\ call[r] = "registered" /\ "caller" \notin stuck
  /\ requests' = requests \cup {r}
  /\ CallTo(r, "waiting")
  /\ UNCHANGED <<ch, pending, resolver, responses, serveVars, stuck>>

SendFails(r) ==
  /\ call[r] = "registered"
  /\ CallTo(r, "sendfail")
  /\ UNCHANGED <<ch, pending, resolver, requests, responses, serveVars, stuck>>

\* Mutants of Receive: the response handed on as it is; its error ignored.
ReceiveRaw(r) ==
  /\ call[r] = "waiting" /\ ch[r] # <<>>
  /\ ch' = [ch EXCEPT ![r] = Tail(ch[r])]
  /\ CallTo(r, Head(ch[r]))
  /\ UNCHANGED <<pending, resolver, requests, responses, serveVars, stuck>>

ReceiveIgnoresError(r) ==
  /\ call[r] = "waiting" /\ ch[r] # <<>>
  /\ ch' = [ch EXCEPT ![r] = Tail(ch[r])]
  /\ CallTo(r, "ok")
  /\ UNCHANGED <<pending, resolver, requests, responses, serveVars, stuck>>

\* select: a response that is there wins or loses against an expired context.
Receive(r) ==
  /\ call[r] = "waiting" /\ ch[r] # <<>>
  /\ ch' = [ch EXCEPT ![r] = Tail(ch[r])]
  /\ CallTo(r, IF Head(ch[r]) = "ok" THEN "ok" ELSE "err")
  /\ UNCHANGED <<pending, resolver, requests, responses, serveVars, stuck>>

\* Mutant of Expire: the request has no timeout.
ExpireNever(r) ==
  /\ call[r] = "waiting" /\ ch[r] # <<>>
  /\ CallTo(r, "timing")
  /\ UNCHANGED <<ch, pending, resolver, requests, responses, serveVars, stuck>>

Expire(r) ==
  /\ call[r] = "waiting"
  /\ CallTo(r, "timing")
  /\ UNCHANGED <<ch, pending, resolver, requests, responses, serveVars, stuck>>

\* Mutant of GiveUp: the entry is not deleted.
GiveUpKeepsEntry(r) ==
  /\ call[r] = "timing" /\ MuFree
  /\ CallTo(r, "timeout")
  /\ UNCHANGED <<ch, pending, resolver, requests, responses, serveVars, stuck>>

GiveUp(r) ==
  /\ call[r] = "timing" /\ MuFree
  /\ pending' = pending \ {r}
  /\ CallTo(r, "timeout")
  /\ UNCHANGED <<ch, resolver, requests, responses, serveVars, stuck>>
-----------------------------------------------------------------------------
(* resolvePendingRequest, for one response                                 *)

ResolveLock(resp) ==
  /\ resp \in responses /\ MuFree
  /\ responses' = responses \ {resp}
  /\ resolver' = IF resp.req \in pending THEN [at |-> "send", resp |-> resp] ELSE Free
  /\ UNCHANGED <<call, ch, pending, requests, serveVars, stuck>>

\* Blocks, holding muPending, while the channel is full.
ResolveSend ==
  /\ resolver.at = "send"
  /\ ch[resolver.resp.req] = <<>>
  /\ ch' = [ch EXCEPT ![resolver.resp.req] = <<resolver.resp.status>>]
  /\ resolver' = [resolver EXCEPT !.at = "delete"]
  /\ UNCHANGED <<call, pending, requests, responses, serveVars, stuck>>

\* Mutant of ResolveDelete: the entry stays until Request returns.
ResolveKeepsEntry ==
  /\ resolver.at = "delete"
  /\ resolver' = Free
  /\ UNCHANGED <<call, ch, pending, requests, responses, serveVars, stuck>>

ResolveDelete ==
  /\ resolver.at = "delete"
  /\ pending' = pending \ {resolver.resp.req}
  /\ resolver' = Free
  /\ UNCHANGED <<call, ch, requests, responses, serveVars, stuck>>
-----------------------------------------------------------------------------
(* The callee's goroutine for request r                                    *)

Accept(r) ==
  /\ r \in requests
  /\ requests' = requests \ {r}
  /\ ServeTo(r, "handling")
  /\ UNCHANGED <<callVars, responses, performed, stuck>>

\* Unknown method, undecodable or invalid parameters, the middleware or the
\* handler function said no.
Refuse(r) ==
  /\ serve[r] = "handling"
  /\ ServeTo(r, "failing")
  /\ UNCHANGED <<callVars, requests, responses, performed, stuck>>

Perform(r) ==
  /\ serve[r] = "handling"
  /\ performed' = performed \cup {r}
  /\ ServeTo(r, "performed")
  /\ UNCHANGED <<callVars, requests, responses, stuck>>

\* Respond(Ok), which fails on an invalid result or a closed transport.
ReplyOk(r) ==
  /\ serve[r] = "performed" /\ "callee" \notin stuck
  /\ responses' = responses \cup {[req |-> r, status |-> "ok"]}
  /\ ServeTo(r, "hook")
  /\ UNCHANGED <<callVars, requests, performed, stuck>>

ReplyOkFails(r) ==
  /\ serve[r] = "performed"
  /\ ServeTo(r, "failing")
  /\ UNCHANGED <<callVars, requests, responses, performed, stuck>>

\* OnAfterReply; its error makes handleRequest answer a second time.
HookReturns(r) ==
  /\ serve[r] = "hook"
  /\ ServeTo(r, "end")
  /\ UNCHANGED <<callVars, requests, responses, performed, stuck>>

HookFails(r) ==
  /\ serve[r] = "hook"
  /\ ServeTo(r, "failing")
  /\ UNCHANGED <<callVars, requests, responses, performed, stuck>>

\* Respond(NotOk), which fails on an error without a message or a closed
\* transport: then the request stays without an answer.
ReplyNotOk(r) ==
  /\ serve[r] = "failing" /\ "callee" \notin stuck
  /\ responses' = responses \cup {[req |-> r, status |-> "notok"]}
  /\ ServeTo(r, "failed")
  /\ UNCHANGED <<callVars, requests, performed, stuck>>

ReplyNotOkFails(r) ==
  /\ serve[r] = "failing"
  /\ ServeTo(r, "failed")
  /\ UNCHANGED <<callVars, requests, responses, performed, stuck>>

\* A message is dropped: undecodable, or the connection or a session ended.
LoseRequest(r) ==
  /\ r \in requests
  /\ requests' = requests \ {r}
  /\ UNCHANGED <<callVars, responses, serveVars, stuck>>

LoseResponse(resp) ==
  /\ resp \in responses
  /\ responses' = responses \ {resp}
  /\ UNCHANGED <<callVars, requests, serveVars, stuck>>

\* From now on the writes of a side wait forever: nobody empties its queue, and
\* whoever waits for room holds the control channel's lock.
GetStuck(side) ==
  /\ side \notin stuck
  /\ stuck' = stuck \cup {side}
  /\ UNCHANGED <<callVars, requests, responses, serveVars>>
-----------------------------------------------------------------------------
Sending(r) == Send(r) \/ SendFails(r)
Caller(r) == Receive(r) \/ Expire(r) \/ GiveUp(r)
Resolve == ResolveSend \/ ResolveDelete
Callee(r) == \/ Accept(r) \/ Refuse(r) \/ Perform(r) \/ ReplyOk(r) \/ ReplyOkFails(r)
             \/ HookReturns(r) \/ HookFails(r) \/ ReplyNotOk(r) \/ ReplyNotOkFails(r)

Next ==
  \/ \E r \in Reqs : Register(r) \/ Sending(r) \/ Caller(r) \/ Callee(r) \/ LoseRequest(r)
  \/ \E resp \in responses : ResolveLock(resp) \/ LoseResponse(resp)
  \/ Resolve
  \/ \E side \in Sides : GetStuck(side)

Spec == Init /\ [][Next]_vars

\* Goroutines that can run do, and the context of a request expires. A write
\* comes to an end while the transport is not stuck. The peer need not answer,
\* nor the network deliver.
Fairness ==
  /\ WF_vars(Resolve)
  /\ \A r \in Reqs : WF_vars("caller" \notin stuck /\ Sending(r)) /\ WF_vars(Caller(r))
FairSpec == Spec /\ Fairness
-----------------------------------------------------------------------------
\* A resolver that holds muPending can send at once: a second answer to the
\* same request, or one that races a timeout, never makes it block with the
\* lock and with it every other request of the session.
ResolverNeverBlocks ==
  resolver.at = "send" => ch[resolver.resp.req] = <<>>

\* An entry outlives its Request only when the send failed, or while the
\* resolver that answered is about to delete it.
NoStaleEntry ==
  \A r \in pending :
    \/ call[r] \in {"registered", "waiting", "timing", "sendfail"}
    \/ resolver.at = "delete" /\ resolver.resp.req = r

\* Whatever the loss, the order and the number of answers: what the caller
\* sees is what RpcPromise allows.
Promise == INSTANCE RpcPromise
  WITH phase <- [r \in Reqs |-> IF call[r] \in {"registered", "waiting", "timing"}
                                  THEN "open" ELSE call[r]],
       failed <- {r \in Reqs : serve[r] \in {"failing", "failed"}}
KeepsPromise == Promise!PSpec

\* An answer is delivered at most once: after Request returned, what the
\* channel may still hold is an answer that lost against the timeout.
LeftOver ==
  \A r \in Reqs : ch[r] # <<>> => call[r] \in {"waiting", "timing", "timeout"}

\* A Request returns unless the transport takes nothing any more, and one that
\* has sent its request returns whatever becomes of the transport and of the
\* other requests, also when the peer never answers or answers twice.
RequestReturns ==
  \A r \in Reqs : /\ call[r] = "registered" ~> call[r] \in Outcomes \/ "caller" \in stuck
                  /\ call[r] = "waiting" ~> call[r] \in Outcomes
=============================================================================
