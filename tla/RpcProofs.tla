------------------------------ MODULE RpcProofs ------------------------------
(***************************************************************************)
(* The safety properties of module Rpc for any set of requests, and that   *)
(* it implements RpcPromise.                                               *)
(***************************************************************************)
EXTENDS Rpc, TLAPS

InCall == {"registered", "waiting", "timing"}
Sent == {"waiting", "timing", "ok", "err", "timeout"}

\* The resolver works on request r.
Resolving(r) == resolver.at # "free" /\ resolver.resp.req = r

\* The entry of a request is in the table, and its channel empty, until the
\* resolver has sent; only a request still in flight has a resolver.
TableOK ==
  /\ \A r \in Reqs : Resolving(r) => r \in pending
  /\ \A r \in pending : ~(resolver.at = "delete" /\ Resolving(r)) => ch[r] = <<>>
  /\ \A r \in pending : \/ call[r] \in InCall \cup {"sendfail"}
                        \/ resolver.at = "delete" /\ Resolving(r)
  /\ \A r \in Reqs : call[r] = "idle" => r \notin pending
  /\ LeftOver

\* Nothing is known of a request on the other side before it was sent.
SentOK ==
  /\ \A r \in requests : call[r] \in Sent /\ serve[r] = "none"
  /\ \A r \in Reqs : serve[r] # "none" => call[r] \in Sent
  /\ \A resp \in responses : serve[resp.req] # "none"
  /\ \A r \in Reqs : Resolving(r) => serve[r] # "none"

\* Each response tells what the callee did.
Truthful(r, status) ==
  IF status = "ok" THEN r \in performed ELSE serve[r] = "failed"

TruthOK ==
  /\ \A r \in performed : serve[r] \notin {"none", "handling"}
  /\ \A r \in Reqs : serve[r] \in {"performed", "hook"} => r \in performed
  /\ \A resp \in responses : Truthful(resp.req, resp.status)
  /\ resolver.at # "free" => Truthful(resolver.resp.req, resolver.resp.status)
  /\ \A r \in Reqs : ch[r] # <<>> => Truthful(r, Head(ch[r]))
  /\ \A r \in Reqs : call[r] = "ok" => r \in performed

IInv == TypeOK /\ TableOK /\ SentOK /\ TruthOK
-----------------------------------------------------------------------------
LEMMA InitIInv == Init => IInv
<1> SUFFICES ASSUME Init PROVE IInv
  OBVIOUS
<1>1. TypeOK
  <2>1. Free \in Resolver
    BY DEF Free, Resolver
  <2>2. ch \in [Reqs -> {<<>>} \cup {<<s>> : s \in Status}]
    BY DEF Init
  <2> QED
    BY <2>1, <2>2 DEF Init, TypeOK
<1>2. TableOK
  <2>1. resolver.at = "free" /\ pending = {} /\ \A r \in Reqs : ch[r] = <<>> /\ call[r] = "idle"
    BY DEF Init, Free
  <2> QED
    BY <2>1 DEF TableOK, LeftOver, Resolving
<1>3. SentOK
  BY DEF Init, SentOK, Resolving, Free
<1>4. TruthOK
  <2>1. /\ resolver.at = "free" /\ performed = {} /\ responses = {}
        /\ \A r \in Reqs : ch[r] = <<>> /\ call[r] = "idle" /\ serve[r] = "none"
    BY DEF Init, Free
  <2> QED
    BY <2>1 DEF TruthOK
<1> QED
  BY <1>1, <1>2, <1>3, <1>4 DEF IInv

LEMMA StepIInv == IInv /\ [Next]_vars => IInv'
<1> SUFFICES ASSUME IInv, [Next]_vars PROVE IInv'
  OBVIOUS
<1> USE DEF IInv, TypeOK, TableOK, SentOK, TruthOK, LeftOver, Resolving, Free, Resolver,
            InCall, Sent, Truthful, Status, Response, Outcomes, MuFree, CallTo, ServeTo,
            callVars, serveVars
<1>1. ASSUME NEW r \in Reqs, Register(r) PROVE IInv'
  BY <1>1 DEF Register
<1>2. ASSUME NEW r \in Reqs, Send(r) PROVE IInv'
  BY <1>2 DEF Send
<1>3. ASSUME NEW r \in Reqs, SendFails(r) PROVE IInv'
  BY <1>3 DEF SendFails
<1>4. ASSUME NEW r \in Reqs, Receive(r) PROVE IInv'
  <2>1. PICK s \in Status : ch[r] = <<s>>
    BY <1>4 DEF Receive
  <2>2. Head(ch[r]) = s /\ Tail(ch[r]) = <<>>
    BY <2>1
  <2>3. /\ call[r] = "waiting"
        /\ ch' = [ch EXCEPT ![r] = <<>>]
        /\ call' = [call EXCEPT ![r] = IF s = "ok" THEN "ok" ELSE "err"]
        /\ UNCHANGED <<pending, resolver, requests, responses, serve, performed, stuck>>
    BY <1>4, <2>2 DEF Receive
  <2>4. CASE s = "ok"
    <3>1. r \in performed
      BY <2>1, <2>2, <2>4
    <3> QED
      BY <2>1, <2>3, <2>4, <3>1
  <2>5. CASE s = "notok"
    BY <2>1, <2>3, <2>5
  <2> QED
    BY <2>4, <2>5
<1>5. ASSUME NEW r \in Reqs, Expire(r) PROVE IInv'
  BY <1>5 DEF Expire
<1>6. ASSUME NEW r \in Reqs, GiveUp(r) PROVE IInv'
  BY <1>6 DEF GiveUp
<1>7. ASSUME NEW resp \in responses, ResolveLock(resp) PROVE IInv'
  BY <1>7 DEF ResolveLock
<1>8. CASE ResolveSend
  BY <1>8 DEF ResolveSend
<1>9. CASE ResolveDelete
  BY <1>9 DEF ResolveDelete
<1>10. ASSUME NEW r \in Reqs, Accept(r) PROVE IInv'
  BY <1>10 DEF Accept
<1>11. ASSUME NEW r \in Reqs, Refuse(r) PROVE IInv'
  BY <1>11 DEF Refuse
<1>12. ASSUME NEW r \in Reqs, Perform(r) PROVE IInv'
  BY <1>12 DEF Perform
<1>13. ASSUME NEW r \in Reqs, ReplyOk(r) PROVE IInv'
  BY <1>13 DEF ReplyOk
<1>14. ASSUME NEW r \in Reqs, ReplyOkFails(r) PROVE IInv'
  BY <1>14 DEF ReplyOkFails
<1>15. ASSUME NEW r \in Reqs, HookReturns(r) PROVE IInv'
  BY <1>15 DEF HookReturns
<1>16. ASSUME NEW r \in Reqs, HookFails(r) PROVE IInv'
  BY <1>16 DEF HookFails
<1>17. ASSUME NEW r \in Reqs, ReplyNotOk(r) PROVE IInv'
  BY <1>17 DEF ReplyNotOk
<1>18. ASSUME NEW r \in Reqs, ReplyNotOkFails(r) PROVE IInv'
  BY <1>18 DEF ReplyNotOkFails
<1>19. ASSUME NEW r \in Reqs, LoseRequest(r) PROVE IInv'
  BY <1>19 DEF LoseRequest
<1>20. ASSUME NEW resp \in responses, LoseResponse(resp) PROVE IInv'
  BY <1>20 DEF LoseResponse
<1>21. ASSUME NEW side \in Sides, GetStuck(side) PROVE IInv'
  BY <1>21 DEF GetStuck
<1>22. CASE UNCHANGED vars
  BY <1>22 DEF vars
<1> QED
  BY <1>1, <1>2, <1>3, <1>4, <1>5, <1>6, <1>7, <1>8, <1>9, <1>10, <1>11, <1>12, <1>13,
     <1>14, <1>15, <1>16, <1>17, <1>18, <1>19, <1>20, <1>21, <1>22
  DEF Next, Sending, Caller, Resolve, Callee

\* The inductive invariant holds throughout.
THEOREM Invariance == Spec => []IInv
<1>1. Init => IInv
  BY InitIInv
<1>2. IInv /\ [Next]_vars => IInv'
  BY StepIInv
<1> QED
  BY <1>1, <1>2, PTL DEF Spec

\* Every variable keeps its type: a channel holds at most one response.
THEOREM TypeCorrect == Spec => []TypeOK
<1>1. IInv => TypeOK
  BY DEF IInv
<1> QED
  BY <1>1, Invariance, PTL

\* The send under muPending never blocks, however many answers arrive.
THEOREM LockNeverStuck == Spec => []ResolverNeverBlocks
<1>1. IInv => ResolverNeverBlocks
  BY DEF IInv, TypeOK, TableOK, Resolving, ResolverNeverBlocks, Resolver, Response
<1> QED
  BY <1>1, Invariance, PTL

\* Only a failed send leaves an entry behind.
THEOREM EntriesCleared == Spec => []NoStaleEntry
<1>1. IInv => NoStaleEntry
  BY DEF IInv, TableOK, Resolving, NoStaleEntry, InCall
<1> QED
  BY <1>1, Invariance, PTL

\* A returned Request leaves at most an answer that lost against the timeout.
THEOREM LeftOverIsLate == Spec => []LeftOver
<1>1. IInv => LeftOver
  BY DEF IInv, TableOK
<1> QED
  BY <1>1, Invariance, PTL
-----------------------------------------------------------------------------
(* No request is left behind: where no fair action can be taken, each call *)
(* of Request has returned, or waits to be written to a stuck transport.    *)

\* No caller and no resolver has a step.
Stalled ==
  /\ resolver.at # "delete"
  /\ resolver.at = "send" => ch[resolver.resp.req] # <<>>
  /\ \A r \in Reqs : call[r] # "waiting" /\ (call[r] = "registered" => "caller" \in stuck)
  /\ \A r \in Reqs : call[r] = "timing" => ~MuFree

ComesToRest ==
  Stalled => \A r \in Reqs : call[r] \in InCall => call[r] = "registered" /\ "caller" \in stuck

\* The safe half of RequestReturns: the one place where a Request stays is the
\* write to a stuck transport (session_request.go:54), and it holds no lock
\* there. One whose time is up waits for the table's lock (:61), and whoever
\* holds it in resolvePendingRequest finds room for the response and lets go,
\* also with two answers to one request and with other requests that are stuck.
THEOREM KeepsMoving == Spec => []ComesToRest
<1>1. IInv => ComesToRest
  <2> SUFFICES ASSUME IInv, Stalled
               PROVE  \A r \in Reqs : call[r] \in InCall => call[r] = "registered" /\ "caller" \in stuck
    BY DEF ComesToRest
  <2>1. resolver \in Resolver
    BY DEF IInv, TypeOK
  <2>2. CASE resolver.at = "send"
    <3>1. resolver.resp.req \in Reqs
      BY <2>1, <2>2 DEF Resolver, Response
    <3>2. ch[resolver.resp.req] = <<>>
      BY <2>2, <3>1 DEF IInv, TableOK, Resolving
    <3> QED
      BY <2>2, <3>2 DEF Stalled
  <2>3. CASE resolver.at = "free"
    BY <2>1, <2>3 DEF Stalled, MuFree, Free, Resolver, InCall
  <2> QED
    BY <2>1, <2>2, <2>3 DEF Stalled, Resolver
<1> QED
  BY <1>1, Invariance, PTL
-----------------------------------------------------------------------------
(* Rpc implements RpcPromise.                                              *)

LEMMA InitPromise == Init => Promise!PInit
  BY DEF Init, Promise!PInit

\* Each step is a step of the promise, or changes nothing the promise sees.
LEMMA StepPromise ==
  ASSUME IInv, [Next]_vars
  PROVE  [Promise!PNext]_(Promise!pvars)
<1> USE DEF IInv, TypeOK, Sent, CallTo, ServeTo, callVars, serveVars
<1>1. ASSUME NEW r \in Reqs, Register(r) PROVE Promise!Call(r)
  BY <1>1 DEF Register, Promise!Call
<1>2. ASSUME NEW r \in Reqs, SendFails(r) PROVE Promise!Finish(r, "sendfail")
  <2>1. r \notin performed /\ serve[r] = "none"
    BY <1>2 DEF SendFails, SentOK, TruthOK
  <2> QED
    BY <1>2, <2>1 DEF SendFails, Promise!Finish
<1>3. ASSUME NEW r \in Reqs, Receive(r)
      PROVE  Promise!Finish(r, "ok") \/ Promise!Finish(r, "err")
  <2>1. Truthful(r, Head(ch[r])) /\ call[r] = "waiting"
    BY <1>3 DEF Receive, TruthOK
  <2>2. CASE Head(ch[r]) = "ok"
    BY <1>3, <2>1, <2>2 DEF Receive, Truthful, Promise!Finish
  <2>3. CASE Head(ch[r]) # "ok"
    BY <1>3, <2>1, <2>3 DEF Receive, Truthful, Promise!Finish
  <2> QED
    BY <2>2, <2>3
<1>4. ASSUME NEW r \in Reqs, GiveUp(r) PROVE Promise!Finish(r, "timeout")
  BY <1>4 DEF GiveUp, Promise!Finish
<1>5. ASSUME NEW r \in Reqs, Perform(r) PROVE Promise!Perform(r)
  <2>1. r \notin performed /\ call[r] \in Sent
    BY <1>5 DEF Perform, SentOK, TruthOK
  <2> QED
    BY <1>5, <2>1 DEF Perform, Promise!Perform
<1>6. ASSUME NEW r \in Reqs, Refuse(r) \/ ReplyOkFails(r) \/ HookFails(r)
      PROVE  Promise!Fail(r)
  <2>1. call[r] \in Sent /\ serve[r] \in {"handling", "performed", "hook"}
    BY <1>6 DEF Refuse, ReplyOkFails, HookFails, SentOK
  <2> QED
    BY <1>6, <2>1 DEF Refuse, ReplyOkFails, HookFails, Promise!Fail
<1>7. ASSUME NEW r \in Reqs, Send(r) \/ Expire(r) PROVE UNCHANGED Promise!pvars
  BY <1>7 DEF Send, Expire, Promise!pvars
<1>8. ASSUME NEW r \in Reqs,
             Accept(r) \/ ReplyOk(r) \/ HookReturns(r) \/ ReplyNotOk(r) \/ ReplyNotOkFails(r)
      PROVE  UNCHANGED Promise!pvars
  <2>1. (r \in requests => serve[r] = "none") /\ UNCHANGED <<call, performed>>
    BY <1>8 DEF SentOK, Accept, ReplyOk, HookReturns, ReplyNotOk, ReplyNotOkFails
  <2> QED
    BY <1>8, <2>1 DEF Accept, ReplyOk, HookReturns, ReplyNotOk, ReplyNotOkFails, Promise!pvars
<1>9. ASSUME \/ \E r \in Reqs : LoseRequest(r)
             \/ \E resp \in responses : ResolveLock(resp) \/ LoseResponse(resp)
             \/ Resolve \/ (\E side \in Sides : GetStuck(side)) \/ UNCHANGED vars
      PROVE  UNCHANGED Promise!pvars
  BY <1>9 DEF LoseRequest, ResolveLock, LoseResponse, Resolve, ResolveSend, ResolveDelete,
              GetStuck, vars, Promise!pvars
<1>10. "ok" \in Promise!Outcomes /\ "err" \in Promise!Outcomes
       /\ "timeout" \in Promise!Outcomes /\ "sendfail" \in Promise!Outcomes
  BY DEF Promise!Outcomes
<1> QED
  BY <1>1, <1>2, <1>3, <1>4, <1>5, <1>6, <1>7, <1>8, <1>9, <1>10
  DEF Next, Sending, Caller, Callee, Promise!PNext

\* What callers see of Request, and handlers of their requests, is what
\* RpcPromise allows: "ok" only for a performed request, no second outcome.
THEOREM Implements == Spec => KeepsPromise
<1>1. Init => Promise!PInit
  BY InitPromise
<1>2. IInv /\ [Next]_vars => [Promise!PNext]_(Promise!pvars)
  BY StepPromise
<1> QED
  BY <1>1, <1>2, Invariance, PTL DEF Spec, KeepsPromise, Promise!PSpec
-----------------------------------------------------------------------------
(* No way back                                                             *)

\* The places of the goroutine inside Request, of the one that handles the
\* request, and of the one that resolves a response, in their order.
CallPlace == [idle |-> 0, registered |-> 1, waiting |-> 2, timing |-> 3,
              ok |-> 4, err |-> 4, timeout |-> 4, sendfail |-> 4]
ServePlace == [none |-> 0, handling |-> 1, performed |-> 2, hook |-> 3, failing |-> 4,
               end |-> 5, failed |-> 5]
ResolvePlace == [send |-> 1, delete |-> 2, free |-> 3]

\* Neither goroutine of a request comes back to a place, and a step that moves
\* none of them takes a message out of flight or the resolver further, or is
\* the end of a transport.
Advance ==
  /\ \A r \in Reqs : /\ call'[r] # call[r] => CallPlace[call[r]] < CallPlace[call'[r]]
                     /\ serve'[r] # serve[r] => ServePlace[serve[r]] < ServePlace[serve'[r]]
  /\ \/ call' # call \/ serve' # serve
     \/ /\ requests' \subseteq requests /\ responses' \subseteq responses
        /\ requests' # requests \/ responses' # responses
     \/ /\ UNCHANGED <<requests, responses>>
        /\ ResolvePlace[resolver.at] < ResolvePlace[resolver'.at]
     \/ UNCHANGED <<requests, responses, resolver>> /\ stuck \subseteq stuck' /\ stuck' # stuck

LEMMA PlaceIs ==
  /\ CallPlace["idle"] = 0 /\ CallPlace["registered"] = 1 /\ CallPlace["waiting"] = 2
  /\ CallPlace["timing"] = 3 /\ \A o \in Outcomes : CallPlace[o] = 4
  /\ ServePlace["none"] = 0 /\ ServePlace["handling"] = 1 /\ ServePlace["performed"] = 2
  /\ ServePlace["hook"] = 3 /\ ServePlace["failing"] = 4
  /\ ServePlace["end"] = 5 /\ ServePlace["failed"] = 5
  /\ ResolvePlace["send"] = 1 /\ ResolvePlace["delete"] = 2 /\ ResolvePlace["free"] = 3
  BY DEF CallPlace, ServePlace, ResolvePlace, Outcomes

\* One goroutine moves on.
LEMMA CallMoves ==
  ASSUME IInv, NEW r \in Reqs, NEW label, CallTo(r, label), serve' = serve,
         CallPlace[call[r]] < CallPlace[label], label # call[r]
  PROVE  Advance
<1>1. call' = [call EXCEPT ![r] = label] /\ r \in DOMAIN call
  BY DEF CallTo, IInv, TypeOK
<1>2. call'[r] = label /\ \A q \in Reqs : q # r => call'[q] = call[q]
  BY <1>1 DEF IInv, TypeOK
<1> QED
  BY <1>2 DEF Advance

LEMMA ServeMoves ==
  ASSUME IInv, NEW r \in Reqs, NEW label, ServeTo(r, label), call' = call,
         ServePlace[serve[r]] < ServePlace[label], label # serve[r]
  PROVE  Advance
<1>1. serve' = [serve EXCEPT ![r] = label] /\ serve \in [Reqs -> {"none", "handling", "performed", "hook", "failing", "end", "failed"}]
  BY DEF ServeTo, IInv, TypeOK
<1>2. serve'[r] = label /\ \A q \in Reqs : q # r => serve'[q] = serve[q]
  BY ONLY <1>1
<1> QED
  BY <1>2 DEF Advance

\* Between them, the goroutines of any set of requests go through Request,
\* resolvePendingRequest and handleRequest once for each request and each
\* answer: with finitely many requests only finitely many steps are left, so
\* with KeepsMoving each Request returns if it is scheduled and can write.
THEOREM OnlyForward == Spec => [][Advance]_vars
<1>1. ASSUME IInv, Next PROVE Advance
  <2> USE <1>1, PlaceIs
  <2>1. ASSUME NEW r \in Reqs, Register(r) PROVE Advance
    BY <2>1, CallMoves DEF Register, serveVars
  <2>2. ASSUME NEW r \in Reqs, Send(r) PROVE Advance
    BY <2>2, CallMoves DEF Send, serveVars
  <2>3. ASSUME NEW r \in Reqs, SendFails(r) PROVE Advance
    BY <2>3, CallMoves DEF SendFails, serveVars, Outcomes
  <2>4. ASSUME NEW r \in Reqs, Receive(r) PROVE Advance
    <3>1. \E o \in {"ok", "err"} : CallTo(r, o)
      BY <2>4 DEF Receive
    <3> QED
      BY <2>4, <3>1, CallMoves DEF Receive, serveVars, Outcomes
  <2>5. ASSUME NEW r \in Reqs, Expire(r) PROVE Advance
    BY <2>5, CallMoves DEF Expire, serveVars
  <2>6. ASSUME NEW r \in Reqs, GiveUp(r) PROVE Advance
    BY <2>6, CallMoves DEF GiveUp, serveVars, Outcomes
  <2>7. ASSUME NEW r \in Reqs, Accept(r) PROVE Advance
    <3>1. serve[r] = "none"
      BY <2>7 DEF Accept, IInv, SentOK
    <3> QED
      BY <2>7, <3>1, ServeMoves DEF Accept, callVars
  <2>8. ASSUME NEW r \in Reqs, Refuse(r) \/ ReplyOkFails(r) \/ HookFails(r) PROVE Advance
    BY <2>8, ServeMoves DEF Refuse, ReplyOkFails, HookFails, callVars
  <2>9. ASSUME NEW r \in Reqs, Perform(r) \/ ReplyOk(r) \/ HookReturns(r) PROVE Advance
    BY <2>9, ServeMoves DEF Perform, ReplyOk, HookReturns, callVars
  <2>10. ASSUME NEW r \in Reqs, ReplyNotOk(r) \/ ReplyNotOkFails(r) PROVE Advance
    BY <2>10, ServeMoves DEF ReplyNotOk, ReplyNotOkFails, callVars
  <2>11. ASSUME NEW r \in Reqs, LoseRequest(r) PROVE Advance
    BY <2>11 DEF LoseRequest, callVars, serveVars, Advance
  <2>12. ASSUME NEW resp \in responses, ResolveLock(resp) \/ LoseResponse(resp) PROVE Advance
    BY <2>12 DEF ResolveLock, LoseResponse, callVars, serveVars, Advance
  <2>13. CASE ResolveSend
    <3>1. resolver.at = "send" /\ resolver'.at = "delete"
      BY <2>13 DEF ResolveSend, IInv, TypeOK, Resolver
    <3> QED
      BY <2>13, <3>1 DEF ResolveSend, serveVars, Advance
  <2>14. CASE ResolveDelete
    <3>1. resolver.at = "delete" /\ resolver'.at = "free"
      BY <2>14 DEF ResolveDelete, Free
    <3> QED
      BY <2>14, <3>1 DEF ResolveDelete, serveVars, Advance
  <2>15. ASSUME NEW side \in Sides, GetStuck(side) PROVE Advance
    BY <2>15 DEF GetStuck, callVars, serveVars, Advance
  <2> QED
    BY <2>1, <2>2, <2>3, <2>4, <2>5, <2>6, <2>7, <2>8, <2>9, <2>10, <2>11, <2>12, <2>13, <2>14,
       <2>15
    DEF Next, Sending, Caller, Callee, Resolve
<1> QED
  BY <1>1, Invariance, PTL DEF Spec
=============================================================================
