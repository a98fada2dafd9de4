--------------------------- MODULE DialogueProofs ---------------------------
(***************************************************************************)
(* The safety properties of module Dialogue, proved for any requests, any  *)
(* nesting of them, any events and any capacity of the channels.           *)
(*                                                                         *)
(* The inductive invariant follows a message from its encoding to the      *)
(* goroutine that handles it: what is in flight is what its sender meant,  *)
(* a request is in flight once and before it is served, an answer in       *)
(* flight tells what has happened, and how far a request has been served   *)
(* determines its answers.                                                 *)
(***************************************************************************)
EXTENDS Dialogue, TLAPS

Payloads == {"fine", "invalid", "alien"}
Errors == ResponseError \cup {NoError}

\* What is in a channel, and what the reader makes of it.
Wire ==
  [version : {Version}, payload : Payloads, error : Errors, id : Reqs \cup Events \cup {""},
   response : Reqs \cup {""}, event : {"known", ""}, method : {"known", "unknown", ""}]

Msg ==
  [type : {"request", "response", "event"}, version : {Version}, id : Reqs \cup Events,
   name : {"known", "unknown", ""}, payload : Payloads, typed : {FALSE}, error : Errors]

Types ==
  /\ TypeOK
  /\ chan \in [Sides -> Seq(Wire)]
  /\ spawned \in [Sides -> SUBSET Msg]
  /\ answers \in [Reqs -> Seq(Codes \cup {"ok"})]

\* The messages of side s that are on their way: in the channel, or taken out
\* of it and not yet handled.
Queue(s) == {Parse(chan[s][i]) : i \in 1..Len(chan[s])}
InFlight(s) == Queue(s) \cup spawned[Peer(s)]

AcceptedOK == \A s \in Sides : \A i \in 1..Len(chan[s]) : Accepted(chan[s][i])

Meant(s, m) ==
  /\ m.type = "request" => m.id \in Reqs /\ From[m.id] = s
  /\ m.type = "response" => m.id \in Reqs /\ To(m.id) = s
  /\ m.type = "event" => m.id \in Events /\ EFrom[m.id] = s

\* A request is written once, by its caller, and then served once.
Written == {"wait", "ok", "err", "timeout"}
Refusing == {"refuse", "refused"}

Fresh(m) == m.type = "request" => call[m.id] \in Written /\ serve[m.id] = "none"

\* What the answer m says has happened.
True(m) ==
  m.type = "response" =>
    IF m.error = NoError THEN m.id \in performed ELSE serve[m.id] \in Refusing

FlightOK == \A s \in Sides : \A m \in InFlight(s) : m \in Msg /\ Meant(s, m) /\ Fresh(m) /\ True(m)

SameRequest(m, n) == m.type = "request" /\ n.type = "request" /\ m.id = n.id

OnceOK ==
  /\ \A s \in Sides : \A i, j \in 1..Len(chan[s]) :
       SameRequest(Parse(chan[s][i]), Parse(chan[s][j])) => i = j
  /\ \A s \in Sides : \A m \in Queue(s), n \in spawned[Peer(s)] : ~SameRequest(m, n)
  /\ \A s \in Sides : \A m, n \in spawned[s] : SameRequest(m, n) => m = n

ServeOf(r) ==
  /\ serve[r] # "none" => call[r] \in Written
  /\ serve[r] \in {"none", "handle"} =>
       answers[r] = <<>> /\ failure[r] = NoError /\ r \notin performed
  /\ serve[r] = "reply" => answers[r] = <<>> /\ r \in performed
  /\ serve[r] \in {"hook", "done"} => answers[r] = <<"ok">> /\ r \in performed
  /\ serve[r] \in Refusing =>
       failure[r] \in ResponseError /\ (r \in performed => failure[r].code \notin {"400", "501"})
  /\ serve[r] = "refuse" => answers[r] = <<>> \/ (answers[r] = <<"ok">> /\ r \in performed)
  /\ serve[r] = "refused" =>
       \/ answers[r] = <<>> /\ (closed \/ ~ErrorValid(failure[r]))
       \/ answers[r] = <<"ok">> /\ r \in performed
       \/ answers[r] = <<failure[r].code>>
       \/ answers[r] = <<"ok", failure[r].code>> /\ r \in performed

\* A caller has the error its peer answered with.
CallOf(r) == call[r] = "err" => serve[r] \in Refusing /\ result[r] \in ResponseError

ServeOK == \A r \in Reqs : ServeOf(r)
CallOK == \A r \in Reqs : CallOf(r) /\ (call[r] = "ok" => r \in performed)

IInv == Types /\ AcceptedOK /\ FlightOK /\ OnceOK /\ ServeOK /\ CallOK
-----------------------------------------------------------------------------
(* Messages: what validates is accepted at the other end, as what it was.  *)

LEMMA RequestUnderstood ==
  ASSUME NEW r \in Reqs, NEW req \in Requests(r), Validate(req)
  PROVE  /\ Encode(req) \in Wire /\ Accepted(Encode(req)) /\ Parse(Encode(req)) \in Msg
         /\ Parse(Encode(req)).type = "request" /\ Parse(Encode(req)).id = r
<1> DEFINE d == Encode(req)
           m == Parse(d)
<1>1. PICK c \in Contents : req = NewRequest(r, c.name, c.payload, c.typed)
  BY DEF Requests
<1>2. c.name \in {"known", "unknown"}
  BY DEF Contents
<1>p. c.payload \in Payloads
  BY DEF Contents, Payloads
<1>r. r # ""
  BY DialogueAssumption
<1>3. d = [version |-> Version, payload |-> c.payload, error |-> NoError, id |-> r,
           response |-> "", event |-> "", method |-> c.name]
  BY <1>1 DEF Encode, NewRequest, Message
<1> HIDE DEF d
<1>4. d \in Wire
  BY <1>2, <1>p, <1>3 DEF Wire, Errors
<1>5. /\ d.version = Version /\ d.payload = c.payload /\ d.id = r
      /\ d.event = "" /\ d.method = c.name
  BY <1>3
<1>6. m = [type |-> "request", version |-> Version, id |-> r, name |-> c.name,
                  payload |-> c.payload, typed |-> FALSE, error |-> NoError]
  BY <1>2, <1>5 DEF Parse, Message
<1> HIDE DEF m
<1>7. m \in Msg
  BY <1>2, <1>p, <1>6 DEF Msg, Errors
<1>8. /\ m.type = "request" /\ m.version = Version /\ m.id = r
      /\ m.name = c.name /\ m.error = NoError /\ ~m.typed
  BY <1>6
<1>9. Accepted(d)
  BY <1>2, <1>r, <1>8 DEF Accepted, Validate, m
<1> QED
  BY <1>4, <1>7, <1>8, <1>9 DEF d, m

LEMMA EventUnderstood ==
  ASSUME NEW e \in Events, NEW evt \in Notes(e), Validate(evt)
  PROVE  /\ Encode(evt) \in Wire /\ Accepted(Encode(evt)) /\ Parse(Encode(evt)) \in Msg
         /\ Parse(Encode(evt)).type = "event" /\ Parse(Encode(evt)).id = e
<1> DEFINE d == Encode(evt)
<1>1. PICK payload \in {"fine", "invalid"} : evt = NewEvent(e, "known", payload, TRUE)
  BY DEF Notes
<1>2. e # ""
  BY DialogueAssumption
<1>p. payload \in Payloads
  BY DEF Payloads
<1>3. d = [version |-> Version, payload |-> payload, error |-> NoError, id |-> e,
           response |-> "", event |-> "known", method |-> ""]
  BY <1>1 DEF Encode, NewEvent, Message
<1> HIDE DEF d
<1>4. d \in Wire
  BY <1>p, <1>3 DEF Wire, Errors
<1>5. d.version = Version /\ d.payload = payload /\ d.id = e /\ d.event = "known"
  BY <1>3
<1>6. Parse(d) = [type |-> "event", version |-> Version, id |-> e, name |-> "known",
                  payload |-> payload, typed |-> FALSE, error |-> NoError]
  BY <1>5 DEF Parse, Message
<1>7. Parse(d) \in Msg
  BY <1>p, <1>6 DEF Msg, Errors
<1>8. /\ Parse(d).type = "event" /\ Parse(d).version = Version /\ Parse(d).id = e
      /\ Parse(d).name = "known" /\ Parse(d).error = NoError /\ ~Parse(d).typed
  BY <1>6
<1>9. Accepted(d)
  BY <1>2, <1>8 DEF Accepted, Validate
<1> QED
  BY <1>4, <1>7, <1>8, <1>9 DEF d

\* A response is Ok or NotOk: with an error, or with NoError.
Answered(r, error) ==
  [type |-> "response", version |-> Version, id |-> r, name |-> "",
   payload |-> "fine", typed |-> TRUE, error |-> error]

LEMMA AnswerForm ==
  ASSUME NEW r \in Reqs, NEW error
  PROVE  /\ Ok(Request(r), "fine") = Answered(r, NoError)
         /\ NotOk(Request(r), error) = Answered(r, error)
         /\ Validate(Answered(r, error)) <=> (error # NoError => ErrorValid(error))
<1> DEFINE d == Encode(NewRequest(r, "known", "fine", TRUE))
           m == Answered(r, error)
<1>1. d = [version |-> Version, payload |-> "fine", error |-> NoError, id |-> r,
           response |-> "", event |-> "", method |-> "known"]
  BY DEF Encode, NewRequest, Message
<1> HIDE DEF d
<1>2. d.version = Version /\ d.id = r /\ d.event = "" /\ d.method = "known" /\ d.payload = "fine"
  BY <1>1
<1>3. m.version = Version /\ m.id = r /\ m.type = "response" /\ m.payload = "fine" /\ m.error = error
  BY DEF Answered
<1>4. r # ""
  BY DialogueAssumption
<1>5. Request(r) = Parse(d)
  BY DEF Request, d
<1> HIDE DEF m
<1>6. Request(r) = [type |-> "request", version |-> Version, id |-> r, name |-> "known",
                    payload |-> "fine", typed |-> FALSE, error |-> NoError]
  BY <1>2, <1>5 DEF Parse, Message
<1>7. Request(r).version = Version /\ Request(r).id = r
  BY <1>6
<1>8. /\ Ok(Request(r), "fine") = Answered(r, NoError)
      /\ NotOk(Request(r), error) = Answered(r, error)
  BY <1>7 DEF Ok, NotOk, Answered, Message
<1>9. Validate(m) <=> (error # NoError => ErrorValid(error))
  BY <1>3, <1>4 DEF Validate
<1> QED
  BY <1>8, <1>9 DEF m

LEMMA ResponseUnderstood ==
  ASSUME NEW r \in Reqs, NEW error \in Errors, Validate(Answered(r, error))
  PROVE  LET d == Encode(Answered(r, error)) IN
         /\ d \in Wire /\ Accepted(d) /\ Parse(d) \in Msg
         /\ Parse(d).type = "response" /\ Parse(d).id = r /\ Parse(d).error = error
<1> DEFINE d == Encode(Answered(r, error))
           m == Parse(d)
<1>1. r # "" /\ (error # NoError => ErrorValid(error))
  BY DialogueAssumption, AnswerForm
<1>2. d = [version |-> Version, payload |-> "fine", error |-> error, id |-> "",
           response |-> r, event |-> "", method |-> ""]
  BY DEF Encode, Answered
<1> HIDE DEF d
<1>3. d \in Wire
  BY <1>2 DEF Wire, Payloads
<1>4. /\ d.version = Version /\ d.payload = "fine" /\ d.error = error
      /\ d.response = r /\ d.event = "" /\ d.method = ""
  BY <1>2
<1>5. m = [type |-> "response", version |-> Version, id |-> r, name |-> "",
                  payload |-> "fine", typed |-> FALSE, error |-> error]
  BY <1>1, <1>4 DEF Parse, Message
<1> HIDE DEF m
<1>6. m \in Msg
  BY <1>5 DEF Msg, Payloads
<1>7. /\ m.type = "response" /\ m.version = Version /\ m.id = r
      /\ m.error = error /\ ~m.typed
  BY <1>5
<1>8. Accepted(d)
  BY <1>1, <1>7 DEF Accepted, Validate, m
<1> QED
  BY <1>3, <1>6, <1>7, <1>8 DEF d, m
-----------------------------------------------------------------------------
(* Errors                                                                  *)

\* Every error a handler can have becomes a response error; the one of a
\* failed result or hook is an internal one.
LEMMA ErrorForms ==
  /\ \A err \in HandlerErrors : ToResponseError(err) \in ResponseError
  /\ ToResponseError(BadRequest) \in ResponseError
  /\ ToResponseError(NotImplemented) \in ResponseError
  /\ \A text \in BOOLEAN : ToResponseError(PlainError(text)) = [code |-> "500", text |-> text]
  /\ ToResponseError(InternalError) = [code |-> "500", text |-> TRUE]
<1>1. \A text \in BOOLEAN : ToResponseError(PlainError(text)) = [code |-> "500", text |-> text]
  BY DEF ToResponseError, PlainError, NewError
<1>2. /\ ToResponseError(InternalError) = [code |-> "500", text |-> TRUE]
      /\ ToResponseError(BadRequest) = [code |-> "400", text |-> TRUE]
      /\ ToResponseError(NotImplemented) = [code |-> "501", text |-> TRUE]
  BY DEF ToResponseError, InternalError, BadRequest, NotImplemented, NewError
<1>3. ToResponseError([kind |-> "response", code |-> "0", text |-> TRUE]) = [code |-> "0", text |-> TRUE]
  BY DEF ToResponseError, NewError
<1>4. \A code \in Codes, text \in BOOLEAN : [code |-> code, text |-> text] \in ResponseError
  BY DEF ResponseError
<1>5. {"0", "400", "500", "501"} \subseteq Codes
  BY DEF Codes
<1> QED
  BY <1>1, <1>2, <1>3, <1>4, <1>5 DEF HandlerErrors

\* An error that is passed on stays what it is.
LEMMA PassedOn ==
  ASSUME NEW e \in ResponseError
  PROVE  ToResponseError([kind |-> "response", code |-> e.code, text |-> e.text]) = e
BY DEF ToResponseError, NewError, ResponseError

LEMMA NoResponseError == NoError \notin ResponseError
<1>1. NoError.code = "nil"
  BY DEF NoError
<1>2. "nil" \notin Codes
  BY DEF Codes
<1>3. \A e \in ResponseError : e.code \in Codes
  BY DEF ResponseError
<1> QED
  BY <1>1, <1>2, <1>3
-----------------------------------------------------------------------------
(* The channels                                                            *)

LEMMA Channels ==
  ASSUME Types, NEW s \in Sides
  PROVE  /\ Peer(s) \in Sides /\ Peer(Peer(s)) = s
         /\ chan[s] \in Seq(Wire) /\ Len(chan[s]) \in Nat
         /\ \A t \in Sides : t = s \/ t = Peer(s)
         /\ \A i \in 1..Len(chan[s]) : chan[s][i] \in Wire
BY DEF Types, Sides, Peer

LEMMA Sends ==
  ASSUME Types, NEW s \in Sides, NEW d \in Wire, TransportWrite(s, d)
  PROVE  /\ chan' \in [Sides -> Seq(Wire)] /\ \A t \in Sides : Len(chan'[t]) <= ChanCap
         /\ Queue(s)' = Queue(s) \cup {Parse(d)}
         /\ \A t \in Sides : t # s => chan'[t] = chan[t] /\ Queue(t)' = Queue(t)
         /\ Len(chan'[s]) = Len(chan[s]) + 1
         /\ \A i \in 1..Len(chan[s]) : chan'[s][i] = chan[s][i]
         /\ chan'[s][Len(chan'[s])] = d
         /\ closed' = closed
<1>1. /\ chan' = [chan EXCEPT ![s] = Append(@, d)] /\ closed' = closed
      /\ Len(chan[s]) < ChanCap
  BY DEF TransportWrite
<1>2. /\ chan \in [Sides -> Seq(Wire)] /\ \A t \in Sides : Len(chan[t]) <= ChanCap
      /\ ChanCap \in Nat
  BY ChanCapAssumption DEF Types, TypeOK
<1> DEFINE c == chan[s]
           n == Append(c, d)
<1>3. c \in Seq(Wire) /\ Len(c) \in Nat /\ Len(c) < ChanCap
  BY <1>1, <1>2
<1>4. /\ n \in Seq(Wire) /\ Len(n) = Len(c) + 1 /\ n[Len(n)] = d
      /\ \A i \in 1..Len(c) : n[i] = c[i]
  BY <1>3
<1>5. chan'[s] = n /\ \A t \in Sides : t # s => chan'[t] = chan[t]
  BY <1>1, <1>2
<1>6. {Parse(n[i]) : i \in 1..Len(n)} = {Parse(c[i]) : i \in 1..Len(c)} \cup {Parse(d)}
  <2> HIDE DEF n, c
  <2>1. 1..Len(n) = 1..Len(c) \cup {Len(n)}
    BY <1>3, <1>4
  <2> QED
    BY <1>3, <1>4, <2>1
<1>7. chan' \in [Sides -> Seq(Wire)]
  BY <1>1, <1>2, <1>4
<1>8. Queue(s)' = Queue(s) \cup {Parse(d)}
  BY <1>5, <1>6 DEF Queue
<1>9. \A t \in Sides : t # s => Queue(t)' = Queue(t)
  BY <1>5 DEF Queue
<1>10. \A t \in Sides : Len(chan'[t]) <= ChanCap
  <2> HIDE DEF n, c
  <2>1. Len(n) <= ChanCap
    BY <1>2, <1>3, <1>4
  <2> QED
    BY <1>2, <1>5, <2>1
<1> QED
  BY <1>1, <1>4, <1>5, <1>7, <1>8, <1>9, <1>10

LEMMA Reads ==
  ASSUME Types, NEW s \in Sides, NEW d, TransportRead(Peer(s), d)
  PROVE  /\ chan' \in [Sides -> Seq(Wire)] /\ \A t \in Sides : Len(chan'[t]) <= ChanCap
         /\ chan[s] # <<>> /\ d = chan[s][1] /\ 1 \in 1..Len(chan[s])
         /\ \A t \in Sides : t # s => chan'[t] = chan[t] /\ Queue(t)' = Queue(t)
         /\ Len(chan'[s]) = Len(chan[s]) - 1
         /\ \A i \in 1..Len(chan'[s]) : chan'[s][i] = chan[s][i + 1] /\ i + 1 \in 1..Len(chan[s])
         /\ Queue(s)' \subseteq Queue(s) /\ Parse(d) \in Queue(s)
         /\ closed' = closed
<1>1. Peer(Peer(s)) = s
  BY Channels
<1>2. /\ chan' = [chan EXCEPT ![s] = Tail(@)] /\ closed' = closed
      /\ chan[s] # <<>> /\ d = Head(chan[s])
  BY <1>1 DEF TransportRead
<1>3. /\ chan \in [Sides -> Seq(Wire)] /\ \A t \in Sides : Len(chan[t]) <= ChanCap
      /\ ChanCap \in Nat
  BY ChanCapAssumption DEF Types, TypeOK
<1> DEFINE c == chan[s]
           n == Tail(c)
<1>4. c \in Seq(Wire) /\ Len(c) \in Nat /\ c # <<>> /\ Len(c) <= ChanCap
  BY <1>2, <1>3
<1>5. /\ n \in Seq(Wire) /\ Len(n) = Len(c) - 1 /\ Len(c) > 0
      /\ \A i \in 1..Len(n) : n[i] = c[i + 1] /\ i + 1 \in 1..Len(c)
  BY <1>4
<1>6. d = c[1] /\ 1 \in 1..Len(c)
  BY <1>2, <1>4, <1>5
<1>7. chan'[s] = n /\ \A t \in Sides : t # s => chan'[t] = chan[t]
  BY <1>2, <1>3
<1>8. chan' \in [Sides -> Seq(Wire)]
  BY <1>2, <1>3, <1>5
<1>9. \A t \in Sides : Len(chan'[t]) <= ChanCap
  <2> HIDE DEF n, c
  <2>1. Len(n) <= ChanCap
    BY <1>3, <1>4, <1>5
  <2> QED
    BY <1>3, <1>7, <2>1
<1>10. {Parse(n[i]) : i \in 1..Len(n)} \subseteq {Parse(c[i]) : i \in 1..Len(c)}
  <2> HIDE DEF n, c
  <2> QED
    BY <1>5
<1>11. Queue(s)' \subseteq Queue(s) /\ Parse(d) \in Queue(s)
  BY <1>6, <1>7, <1>10 DEF Queue
<1>12. \A t \in Sides : t # s => Queue(t)' = Queue(t)
  BY <1>7 DEF Queue
<1> QED
  BY <1>2, <1>5, <1>6, <1>7, <1>8, <1>9, <1>11, <1>12
-----------------------------------------------------------------------------
(* What a step may change                                                  *)

\* No step takes back that a request was written, performed or refused.
Keep ==
  \A r \in Reqs : /\ call[r] \in Written => call'[r] \in Written
                  /\ serve[r] \in Refusing => serve'[r] \in Refusing
                  /\ r \in performed => r \in performed'

StillFresh == \A r \in Reqs : serve[r] = "none" => serve'[r] = "none"

OtherServed(r) ==
  \A q \in Reqs : q # r => /\ serve'[q] = serve[q] /\ failure'[q] = failure[q]
                           /\ answers'[q] = answers[q] /\ (q \in performed' <=> q \in performed)

\* What is in flight after a step was before, or its sender means it.
LEMMA Flight ==
  ASSUME FlightOK, Keep,
         \A s \in Sides : \A m \in InFlight(s)' :
           \/ m \in InFlight(s) /\ (m.type = "request" => serve'[m.id] = "none")
           \/ m \in Msg /\ Meant(s, m) /\ Fresh(m)' /\ True(m)'
  PROVE  FlightOK'
<1> SUFFICES ASSUME NEW s \in Sides, NEW m \in InFlight(s)'
             PROVE  m \in Msg /\ Meant(s, m) /\ Fresh(m)' /\ True(m)'
  BY DEF FlightOK, Meant
<1> SUFFICES ASSUME m \in InFlight(s), m.type = "request" => serve'[m.id] = "none"
             PROVE  m \in Msg /\ Meant(s, m) /\ Fresh(m)' /\ True(m)'
  OBVIOUS
<1>1. m \in Msg /\ Meant(s, m) /\ Fresh(m) /\ True(m)
  BY DEF FlightOK
<1>2. Fresh(m)'
  BY <1>1 DEF Fresh, Meant, Keep
<1>3. True(m)'
  BY <1>1 DEF True, Meant, Keep
<1> QED
  BY <1>1, <1>2, <1>3

LEMMA Quiet ==
  ASSUME IInv, UNCHANGED <<chan, spawned>>, Keep, StillFresh
  PROVE  AcceptedOK' /\ FlightOK' /\ OnceOK'
<1>1. \A s \in Sides : Queue(s)' = Queue(s) /\ InFlight(s)' = InFlight(s)
  BY DEF Queue, InFlight
<1>2. AcceptedOK'
  BY DEF IInv, AcceptedOK
<1>3. OnceOK'
  BY <1>1 DEF IInv, OnceOK
<1>4. \A s \in Sides : \A m \in InFlight(s) : m.type = "request" => serve'[m.id] = "none"
  BY DEF IInv, FlightOK, Fresh, Meant, StillFresh
<1>5. FlightOK'
  BY <1>1, <1>4, Flight DEF IInv
<1> QED
  BY <1>2, <1>3, <1>5

LEMMA ServedOne ==
  ASSUME IInv, NEW r \in Reqs, OtherServed(r), ServeOf(r)', UNCHANGED <<closed, call, result>>,
         serve[r] \in Refusing => serve'[r] \in Refusing, r \in performed => r \in performed'
  PROVE  ServeOK' /\ CallOK' /\ Keep
<1>1. Keep
  BY DEF Keep, OtherServed
<1>2. \A q \in Reqs : q # r => ServeOf(q)'
  BY DEF IInv, ServeOK, ServeOf, OtherServed
<1>3. CallOK'
  BY <1>1 DEF IInv, CallOK, CallOf, Keep
<1> QED
  BY <1>1, <1>2, <1>3 DEF ServeOK

LEMMA CalledOne ==
  ASSUME IInv, NEW r \in Reqs, UNCHANGED <<serve, failure, answers, performed, closed>>,
         \A q \in Reqs : q # r => call'[q] = call[q] /\ result'[q] = result[q],
         call[r] \in Written => call'[r] \in Written, CallOf(r)', call'[r] = "ok" => r \in performed
  PROVE  ServeOK' /\ CallOK' /\ Keep /\ StillFresh
<1>1. Keep /\ StillFresh
  BY DEF Keep, StillFresh
<1>2. CallOK'
  BY DEF IInv, CallOK, CallOf
<1>3. \A q \in Reqs : ServeOf(q)'
  BY <1>1 DEF IInv, ServeOK, ServeOf, Keep
<1> QED
  BY <1>1, <1>2, <1>3 DEF ServeOK

LEMMA Unserved ==
  ASSUME IInv, UNCHANGED <<call, result, serve, failure, answers, performed>>, closed => closed'
  PROVE  ServeOK' /\ CallOK' /\ Keep /\ StillFresh
<1>1. Keep /\ StillFresh
  BY DEF Keep, StillFresh
<1>2. CallOK'
  BY DEF IInv, CallOK, CallOf
<1>3. \A q \in Reqs : ServeOf(q)'
  BY DEF IInv, ServeOK, ServeOf
<1> QED
  BY <1>1, <1>2, <1>3 DEF ServeOK
-----------------------------------------------------------------------------
(* Steps that leave the channels and the spawned goroutines alone          *)

LEMMA InitIInv == Init => IInv
<1> SUFFICES ASSUME Init PROVE IInv
  OBVIOUS
<1> USE DEF Init, TransportInit
<1>1. chan \in [Sides -> Seq(Wire)] /\ \A s \in Sides : chan[s] = <<>> /\ Len(chan[s]) = 0
  OBVIOUS
<1>2. \A s \in Sides : Queue(s) = {} /\ InFlight(s) = {} /\ spawned[s] = {}
  BY <1>1 DEF Queue, InFlight, Sides, Peer
<1>3. TypeOK
  <2>1. \A s \in Sides : Len(chan[s]) <= ChanCap
    BY <1>1, ChanCapAssumption
  <2>2. \A r \in Reqs : answers[r] = <<>> /\ Len(answers[r]) = 0
    OBVIOUS
  <2>3. /\ failure \in [Reqs -> ResponseError \cup {NoError}]
        /\ result \in [Reqs -> ResponseError \cup {NoError}]
    OBVIOUS
  <2>4. performed \subseteq Reqs /\ \A r \in Reqs : Len(answers[r]) <= 2
    BY <2>2
  <2>8. closed \in BOOLEAN
    BY Zenon
  <2>5. /\ phase \in [Sides -> {"up", "closing", "over"}] /\ reader \in [Sides -> {"read", "end"}]
        /\ event \in [Events -> {"idle", "write", "sent", "sendfail"}]
    OBVIOUS
  <2>6. call \in [Reqs -> {"idle", "invalid", "write", "wait"} \cup Outcomes]
    OBVIOUS
  <2>7. serve \in [Reqs -> {"none", "handle", "reply", "hook", "refuse"} \cup Ends]
    OBVIOUS
  <2> HIDE DEF Init, TransportInit
  <2> QED
    BY <2>1, <2>3, <2>4, <2>5, <2>6, <2>7, <2>8 DEF TypeOK
<1>4. Types
  BY <1>1, <1>3 DEF Types
<1>5. AcceptedOK /\ FlightOK /\ OnceOK
  BY <1>1, <1>2 DEF AcceptedOK, FlightOK, OnceOK
<1>6. ServeOK /\ CallOK
  BY DEF ServeOK, ServeOf, CallOK, CallOf, Refusing
<1> QED
  BY <1>4, <1>5, <1>6 DEF IInv

LEMMA IdleStep ==
  ASSUME IInv,
         \/ \E s \in Sides : Stop(s) \/ Finalize(s) \/ ReaderEnds(s)
         \/ \E e \in Events : Notify(e) \/ NotifyFails(e)
         \/ UNCHANGED vars
  PROVE  IInv' /\ UNCHANGED <<call, result, serve, failure, answers, performed>>
<1> USE DEF transportVars, sessionVars, callVars, serveVars, vars
<1>1. /\ UNCHANGED <<chan, spawned, call, result, serve, failure, answers, performed>>
      /\ closed => closed'
  BY DEF Stop, Finalize, ReaderEnds, Notify, NotifyFails, TransportClose
<1>2. /\ phase' \in [Sides -> {"up", "closing", "over"}] /\ reader' \in [Sides -> {"read", "end"}]
      /\ event' \in [Events -> {"idle", "write", "sent", "sendfail"}] /\ closed' \in BOOLEAN
  BY DEF IInv, Types, TypeOK, Stop, Finalize, ReaderEnds, Notify, NotifyFails,
         TransportClose, EventTo
<1>3. Types'
  BY <1>1, <1>2 DEF IInv, Types, TypeOK
<1>4. ServeOK' /\ CallOK' /\ Keep /\ StillFresh
  BY <1>1, Unserved
<1>5. AcceptedOK' /\ FlightOK' /\ OnceOK'
  BY <1>1, <1>4, Quiet
<1> QED
  BY <1>1, <1>3, <1>4, <1>5 DEF IInv

LEMMA CallStep ==
  ASSUME IInv, NEW r \in Reqs, Call(r) \/ CallFails(r) \/ CallTimesOut(r)
  PROVE  IInv'
<1> USE DEF transportVars, sessionVars, callVars, serveVars, Call, CallFails, CallTimesOut, CallTo
<1>1. /\ UNCHANGED <<chan, closed, phase, reader, result, spawned>>
      /\ UNCHANGED <<serve, failure, answers, performed, event>>
      /\ call[r] \in Written => call'[r] \in Written
      /\ call'[r] \notin {"ok", "err"}
      /\ call' = [call EXCEPT ![r] = call'[r]]
      /\ call'[r] \in {"write", "invalid", "sendfail", "timeout"}
  BY DEF IInv, Types, TypeOK, Written
<1> DEFINE l == call'[r]
<1>2. l \in {"write", "invalid", "sendfail", "timeout"} /\ call' = [call EXCEPT ![r] = l]
  BY <1>1
<1> HIDE DEF l
<1>3. call' \in [Reqs -> {"idle", "invalid", "write", "wait"} \cup Outcomes]
  BY <1>2 DEF IInv, Types, TypeOK, Outcomes
<1>4. Types'
  BY <1>1, <1>3 DEF IInv, Types, TypeOK
<1>5. \A q \in Reqs : q # r => call'[q] = call[q] /\ result'[q] = result[q]
  BY <1>1 DEF IInv, Types, TypeOK
<1>6. CallOf(r)' /\ (call'[r] = "ok" => r \in performed)
  BY <1>1 DEF CallOf
<1>7. ServeOK' /\ CallOK' /\ Keep /\ StillFresh
  BY <1>1, <1>5, <1>6, CalledOne
<1>8. AcceptedOK' /\ FlightOK' /\ OnceOK'
  BY <1>1, <1>7, Quiet
<1> QED
  BY <1>4, <1>7, <1>8 DEF IInv
-----------------------------------------------------------------------------
(* Serving a request                                                       *)

LEMMA Served ==
  ASSUME IInv, NEW r \in Reqs, NEW l \in {"handle", "reply", "hook", "refuse"} \cup Ends,
         NEW e \in ResponseError \cup {NoError},
         UNCHANGED <<chan, closed, phase, reader, call, result, spawned, event, answers>>,
         serve' = [serve EXCEPT ![r] = l], failure' = [failure EXCEPT ![r] = e],
         performed' \in {performed, performed \cup {r}},
         serve[r] # "none", serve[r] \in Refusing => l \in Refusing, ServeOf(r)'
  PROVE  IInv'
<1>1. /\ serve \in [Reqs -> {"none", "handle", "reply", "hook", "refuse"} \cup Ends]
      /\ failure \in [Reqs -> ResponseError \cup {NoError}]
  BY DEF IInv, Types, TypeOK
<1>2. /\ serve' \in [Reqs -> {"none", "handle", "reply", "hook", "refuse"} \cup Ends]
      /\ failure' \in [Reqs -> ResponseError \cup {NoError}]
      /\ performed' \subseteq Reqs
  BY <1>1 DEF IInv, Types, TypeOK
<1>3. Types'
  BY <1>2 DEF IInv, Types, TypeOK
<1>4. OtherServed(r) /\ StillFresh /\ serve'[r] = l
  BY <1>1 DEF OtherServed, StillFresh
<1>5. ServeOK' /\ CallOK' /\ Keep
  BY <1>4, ServedOne
<1>6. AcceptedOK' /\ FlightOK' /\ OnceOK'
  BY <1>4, <1>5, Quiet
<1> QED
  BY <1>3, <1>5, <1>6 DEF IInv

\* The goroutine of r gets an error that r's being performed does not forbid.
LEMMA FailsStep ==
  ASSUME IInv, NEW r \in Reqs, NEW err, Fails(r, err), ToResponseError(err) \in ResponseError,
         UNCHANGED <<transportVars, sessionVars, callVars, spawned, answers, performed, event>>,
         serve[r] \in {"handle", "reply", "hook"},
         serve[r] # "handle" => ToResponseError(err).code = "500"
  PROVE  IInv'
<1> DEFINE e == ToResponseError(err)
<1>1. serve' = [serve EXCEPT ![r] = "refuse"] /\ failure' = [failure EXCEPT ![r] = e]
  BY DEF Fails, ServeTo
<1> HIDE DEF e
<1>2. /\ serve \in [Reqs -> {"none", "handle", "reply", "hook", "refuse"} \cup Ends]
      /\ failure \in [Reqs -> ResponseError \cup {NoError}]
  BY DEF IInv, Types, TypeOK
<1>3. serve'[r] = "refuse" /\ failure'[r] = e /\ e \in ResponseError
  BY <1>1, <1>2 DEF e
<1>4. UNCHANGED <<chan, closed, phase, reader, call, result, spawned, event, answers, performed>>
  BY DEF transportVars, sessionVars, callVars
<1>5. ServeOf(r) /\ (serve[r] # "handle" => e.code = "500")
  BY DEF IInv, ServeOK, e
<1>6. ServeOf(r)'
  BY <1>3, <1>4, <1>5 DEF ServeOf, Refusing
<1>7. serve[r] # "none" /\ serve[r] \notin Refusing
  BY DEF Refusing
<1> QED
  BY <1>1, <1>3, <1>4, <1>6, <1>7, Served

LEMMA HandlerStep ==
  ASSUME IInv, NEW r \in Reqs, Handler(r)
  PROVE  IInv'
<1>1. ASSUME NEW err \in HandlerErrors, HandlerFails(r, err) PROVE IInv'
  BY <1>1, ErrorForms, FailsStep DEF HandlerFails
<1>2. ASSUME NEW n \in Nested, PassesOn(r, n) PROVE IInv'
  <2>1. result[n] \in ResponseError
    BY <1>2 DEF PassesOn, IInv, CallOK, CallOf, Reqs
  <2> DEFINE err == [kind |-> "response", code |-> result[n].code, text |-> result[n].text]
  <2>2. HandlerFails(r, err)
    BY <1>2 DEF PassesOn
  <2>3. ToResponseError(err) \in ResponseError
    BY <2>1, PassedOn
  <2> HIDE DEF err
  <2> QED
    BY <2>2, <2>3, FailsStep DEF HandlerFails
<1>3. CASE HandlerReturns(r)
  <2>1. /\ UNCHANGED <<chan, closed, phase, reader, call, result, spawned, event, answers, failure>>
        /\ serve[r] = "handle" /\ performed' = performed \cup {r}
        /\ serve' = [serve EXCEPT ![r] = "reply"]
    BY <1>3 DEF HandlerReturns, ServeTo, transportVars, sessionVars, callVars
  <2>2. /\ serve \in [Reqs -> {"none", "handle", "reply", "hook", "refuse"} \cup Ends]
        /\ failure \in [Reqs -> ResponseError \cup {NoError}]
    BY DEF IInv, Types, TypeOK
  <2>3. serve'[r] = "reply" /\ failure' = [failure EXCEPT ![r] = failure[r]]
    BY <2>1, <2>2
  <2>4. ServeOf(r)'
    BY <2>1, <2>3 DEF IInv, ServeOK, ServeOf, Refusing
  <2> DEFINE e == failure[r]
  <2>5. e \in ResponseError \cup {NoError} /\ failure' = [failure EXCEPT ![r] = e]
    BY <2>2, <2>3
  <2>6. serve[r] # "none" /\ serve[r] \notin Refusing
    BY <2>1 DEF Refusing
  <2> HIDE DEF e
  <2> QED
    BY <2>1, <2>4, <2>5, <2>6, Served
<1> QED
  BY <1>1, <1>2, <1>3 DEF Handler

LEMMA AnswerStep ==
  ASSUME IInv, NEW r \in Reqs, ReplyFails(r) \/ HookReturns(r) \/ HookFails(r) \/ RefuseFails(r)
  PROVE  IInv'
<1>1. CASE ReplyFails(r)
  <2>1. PICK err \in {InternalError, PlainError(TRUE)} : Fails(r, err)
    BY <1>1 DEF ReplyFails
  <2>2. ToResponseError(err) = [code |-> "500", text |-> TRUE]
    BY <2>1, ErrorForms
  <2>3. ToResponseError(err) \in ResponseError /\ ToResponseError(err).code = "500"
    BY <2>2 DEF ResponseError, Codes
  <2> QED
    BY <1>1, <2>1, <2>3, FailsStep DEF ReplyFails
<1>2. CASE HookFails(r)
  <2>1. PICK err \in {PlainError(TRUE)} : Fails(r, err)
    BY <1>2 DEF HookFails
  <2>2. ToResponseError(err) = [code |-> "500", text |-> TRUE]
    BY <2>1, ErrorForms
  <2>3. ToResponseError(err) \in ResponseError /\ ToResponseError(err).code = "500"
    BY <2>2 DEF ResponseError, Codes
  <2> QED
    BY <1>2, <2>1, <2>3, FailsStep DEF HookFails
<1>3. CASE HookReturns(r) \/ RefuseFails(r)
  <2>1. PICK l \in Ends :
          /\ serve' = [serve EXCEPT ![r] = l]
          /\ l = "done" => serve[r] = "hook"
          /\ l = "refused" => serve[r] = "refuse"
          /\ l = "refused" => ~Validate(NotOk(Request(r), failure[r])) \/ closed
    BY <1>3 DEF HookReturns, RefuseFails, ServeTo, Ends
  <2>2. UNCHANGED <<chan, closed, phase, reader, call, result, spawned, event, answers, failure, performed>>
    BY <1>3 DEF HookReturns, RefuseFails, transportVars, sessionVars, callVars
  <2>3. /\ serve \in [Reqs -> {"none", "handle", "reply", "hook", "refuse"} \cup Ends]
        /\ failure \in [Reqs -> ResponseError \cup {NoError}]
    BY DEF IInv, Types, TypeOK
  <2>4. /\ serve'[r] = l
        /\ serve[r] # "none" /\ (serve[r] \in Refusing => l \in Refusing)
    BY <2>1, <2>3 DEF Ends, Refusing
  <2>5. ~Validate(NotOk(Request(r), failure[r])) => ~ErrorValid(failure[r])
    BY AnswerForm
  <2>6. ServeOf(r)
    BY DEF IInv, ServeOK
  <2>7. ServeOf(r)'
    BY <2>1, <2>2, <2>4, <2>5, <2>6 DEF ServeOf, Refusing, Ends
  <2> DEFINE e == failure[r]
  <2>8. e \in ResponseError \cup {NoError} /\ failure' = [failure EXCEPT ![r] = e]
    BY <2>2, <2>3
  <2> HIDE DEF e
  <2> QED
    BY <2>1, <2>2, <2>4, <2>7, <2>8, Served
<1> QED
  BY <1>1, <1>2, <1>3
-----------------------------------------------------------------------------
(* Writing a message                                                       *)

LEMMA Writes ==
  ASSUME IInv, NEW s \in Sides, NEW d \in Wire, TransportWrite(s, d), Accepted(d),
         Parse(d) \in Msg, Meant(s, Parse(d)), Fresh(Parse(d))', True(Parse(d))',
         \A m \in InFlight(s) : ~SameRequest(m, Parse(d)),
         UNCHANGED spawned, Keep, StillFresh
  PROVE  /\ AcceptedOK' /\ FlightOK' /\ OnceOK'
         /\ chan' \in [Sides -> Seq(Wire)] /\ \A t \in Sides : Len(chan'[t]) <= ChanCap
         /\ closed' = closed
<1> DEFINE n == Parse(d)
<1>1. /\ chan' \in [Sides -> Seq(Wire)] /\ \A t \in Sides : Len(chan'[t]) <= ChanCap
      /\ Queue(s)' = Queue(s) \cup {n}
      /\ \A t \in Sides : t # s => chan'[t] = chan[t] /\ Queue(t)' = Queue(t)
      /\ Len(chan'[s]) = Len(chan[s]) + 1
      /\ \A i \in 1..Len(chan[s]) : chan'[s][i] = chan[s][i]
      /\ chan'[s][Len(chan'[s])] = d
      /\ closed' = closed
  BY Sends DEF IInv
<1>2. Len(chan[s]) \in Nat
  BY Channels DEF IInv
<1>3. AcceptedOK'
  <2> SUFFICES ASSUME NEW t \in Sides, NEW i \in 1..Len(chan'[t]) PROVE Accepted(chan'[t][i])
    BY DEF AcceptedOK, Accepted, Validate, Parse
  <2>1. CASE t # s
    BY <1>1, <2>1 DEF IInv, AcceptedOK
  <2>2. CASE t = s
    <3>1. i \in 1..Len(chan[s]) \/ i = Len(chan'[s])
      BY <1>1, <1>2, <2>2
    <3> QED
      BY <1>1, <2>2, <3>1 DEF IInv, AcceptedOK
  <2> QED
    BY <2>1, <2>2
<1>4. \A t \in Sides : InFlight(t)' \subseteq InFlight(t) \cup (IF t = s THEN {n} ELSE {})
  BY <1>1 DEF InFlight
<1>5. FlightOK'
  <2>1. ASSUME NEW t \in Sides, NEW m \in InFlight(t)'
        PROVE  \/ m \in InFlight(t) /\ (m.type = "request" => serve'[m.id] = "none")
               \/ m \in Msg /\ Meant(t, m) /\ Fresh(m)' /\ True(m)'
    <3>1. CASE m \in InFlight(t)
      BY <3>1 DEF IInv, FlightOK, Meant, Fresh, StillFresh
    <3>2. CASE t = s /\ m = n
      BY <3>2
    <3> QED
      BY <1>4, <2>1, <3>1, <3>2
  <2> QED
    BY <2>1, Flight DEF IInv
<1>6. OnceOK'
  <2> HIDE DEF n
  <2>1. ASSUME NEW t \in Sides, NEW i \in 1..Len(chan'[t]), NEW j \in 1..Len(chan'[t]),
               SameRequest(Parse(chan'[t][i]), Parse(chan'[t][j]))
        PROVE  i = j
    <3>1. CASE t # s
      BY <1>1, <2>1, <3>1 DEF IInv, OnceOK
    <3>2. CASE t = s
      <4>1. \A k \in 1..Len(chan[s]) : Parse(chan'[s][k]) \in InFlight(s)
        BY <1>1 DEF InFlight, Queue
      <4>2. \A k \in 1..Len(chan'[s]) : k \in 1..Len(chan[s]) \/ k = Len(chan'[s])
        BY <1>1, <1>2
      <4>3. Parse(chan'[s][Len(chan'[s])]) = n
        BY <1>1 DEF n
      <4>4. \A m \in InFlight(s) : ~SameRequest(m, n) /\ ~SameRequest(n, m)
        BY DEF SameRequest, n
      <4>5. i \in 1..Len(chan[s]) /\ j \in 1..Len(chan[s]) => i = j
        BY <1>1, <2>1, <3>2 DEF IInv, OnceOK
      <4> QED
        BY <2>1, <3>2, <4>1, <4>2, <4>3, <4>4, <4>5
    <3> QED
      BY <3>1, <3>2
  <2>2. ASSUME NEW t \in Sides, NEW m \in Queue(t)', NEW k \in spawned'[Peer(t)]
        PROVE  ~SameRequest(m, k)
    <3>1. CASE m \in Queue(t)
      BY <2>2, <3>1 DEF IInv, OnceOK
    <3>2. CASE t = s /\ m = n
      <4>1. k \in InFlight(s)
        BY <2>2, <3>2 DEF InFlight
      <4> QED
        BY <3>2, <4>1 DEF SameRequest, n
    <3> QED
      BY <1>1, <2>2, <3>1, <3>2 DEF n
  <2>3. \A t \in Sides : \A m, k \in spawned'[t] : SameRequest(m, k) => m = k
    BY DEF IInv, OnceOK
  <2> QED
    BY <2>1, <2>2, <2>3 DEF OnceOK, SameRequest
<1> QED
  BY <1>1, <1>3, <1>5, <1>6
LEMMA SideOf ==
  /\ \A r \in Reqs : From[r] \in Sides /\ To(r) \in Sides
  /\ \A e \in Events : EFrom[e] \in Sides
BY DialogueAssumption DEF To, Peer, Sides

LEMMA CallWritesStep ==
  ASSUME IInv, NEW r \in Reqs, CallWrites(r)
  PROVE  IInv'
<1>1. /\ call[r] = "write" /\ call' = [call EXCEPT ![r] = "wait"]
      /\ UNCHANGED <<phase, reader, result, spawned, serve, failure, answers, performed, event>>
  BY DEF CallWrites, CallTo, sessionVars, serveVars
<1>2. PICK req \in Requests(r) : Validate(req) /\ TransportWrite(From[r], Encode(req))
  BY DEF CallWrites
<1> DEFINE d == Encode(req)
           s == From[r]
<1>3. /\ d \in Wire /\ Accepted(d) /\ Parse(d) \in Msg
      /\ Parse(d).type = "request" /\ Parse(d).id = r
  BY <1>2, RequestUnderstood
<1>4. s \in Sides /\ TransportWrite(s, d)
  BY <1>2, SideOf
<1> HIDE DEF d
<1>5. call \in [Reqs -> {"idle", "invalid", "write", "wait"} \cup Outcomes]
  BY DEF IInv, Types, TypeOK
<1>6. /\ call' \in [Reqs -> {"idle", "invalid", "write", "wait"} \cup Outcomes]
      /\ call'[r] = "wait"
      /\ \A q \in Reqs : q # r => call'[q] = call[q]
  BY <1>1, <1>5
<1>7. serve[r] = "none"
  BY <1>1 DEF IInv, ServeOK, ServeOf, Written
<1>8. Keep /\ StillFresh
  BY <1>1, <1>6 DEF Keep, StillFresh, Written
<1>9. Meant(s, Parse(d)) /\ Fresh(Parse(d))' /\ True(Parse(d))'
  BY <1>1, <1>3, <1>6, <1>7 DEF Meant, Fresh, True, Written
<1>10. \A m \in InFlight(s) : ~SameRequest(m, Parse(d))
  BY <1>1, <1>3, <1>4 DEF IInv, FlightOK, Fresh, SameRequest, Written
<1> HIDE DEF s
<1>11. /\ AcceptedOK' /\ FlightOK' /\ OnceOK'
       /\ chan' \in [Sides -> Seq(Wire)] /\ \A t \in Sides : Len(chan'[t]) <= ChanCap
       /\ closed' = closed
  BY <1>1, <1>3, <1>4, <1>8, <1>9, <1>10, Writes
<1>12. Types'
  BY <1>1, <1>6, <1>11 DEF IInv, Types, TypeOK
<1>13. CallOf(r)' /\ call'[r] # "ok"
  BY <1>6 DEF CallOf
<1>14. ServeOK' /\ CallOK'
  BY <1>1, <1>6, <1>11, <1>13, CalledOne DEF Written
<1> QED
  BY <1>11, <1>12, <1>14 DEF IInv

LEMMA NotifyWritesStep ==
  ASSUME IInv, NEW e \in Events, NotifyWrites(e)
  PROVE  IInv' /\ UNCHANGED <<call, result, serve, failure, answers, performed>>
<1>1. /\ event' = [event EXCEPT ![e] = "sent"]
      /\ UNCHANGED <<phase, reader, call, result, spawned, serve, failure, answers, performed>>
  BY DEF NotifyWrites, EventTo, sessionVars, callVars, serveVars
<1>2. PICK evt \in Notes(e) : Validate(evt) /\ TransportWrite(EFrom[e], Encode(evt))
  BY DEF NotifyWrites
<1> DEFINE d == Encode(evt)
           s == EFrom[e]
<1>3. /\ d \in Wire /\ Accepted(d) /\ Parse(d) \in Msg
      /\ Parse(d).type = "event" /\ Parse(d).id = e
  BY <1>2, EventUnderstood
<1>4. s \in Sides /\ TransportWrite(s, d)
  BY <1>2, SideOf
<1> HIDE DEF d
<1>5. event' \in [Events -> {"idle", "write", "sent", "sendfail"}]
  BY <1>1 DEF IInv, Types, TypeOK
<1>6. Keep /\ StillFresh
  BY <1>1 DEF Keep, StillFresh
<1>7. /\ Meant(s, Parse(d)) /\ Fresh(Parse(d))' /\ True(Parse(d))'
      /\ \A m \in InFlight(s) : ~SameRequest(m, Parse(d))
  BY <1>3 DEF Meant, Fresh, True, SameRequest
<1> HIDE DEF s
<1>8. /\ AcceptedOK' /\ FlightOK' /\ OnceOK'
      /\ chan' \in [Sides -> Seq(Wire)] /\ \A t \in Sides : Len(chan'[t]) <= ChanCap
      /\ closed' = closed
  BY <1>1, <1>3, <1>4, <1>6, <1>7, Writes
<1>9. Types'
  BY <1>1, <1>5, <1>8 DEF IInv, Types, TypeOK
<1>10. ServeOK' /\ CallOK'
  BY <1>1, <1>8, Unserved
<1> QED
  BY <1>1, <1>8, <1>9, <1>10 DEF IInv

LEMMA OneMore ==
  ASSUME NEW S, NEW a \in S, NEW b \in S, NEW s \in Seq(S)
  PROVE  /\ s = <<>> => Append(s, a) = <<a>>
         /\ s = <<b>> => Append(s, a) = <<b, a>>
         /\ s = <<>> \/ s = <<b>> => Len(Append(s, a)) <= 2
<1>1. s = <<>> => Append(s, a) = <<a>> /\ Len(Append(s, a)) = 1
  OBVIOUS
<1>2. ASSUME s = <<b>> PROVE Append(s, a) = <<b, a>> /\ Len(Append(s, a)) = 2
  <2> DEFINE t == Append(s, a)
  <2>1. t \in Seq(S) /\ Len(t) = 2 /\ t[1] = b /\ t[2] = a
    BY <1>2
  <2> HIDE DEF t
  <2>2. t = <<b, a>>
    BY <2>1
  <2> QED
    BY <2>1, <2>2 DEF t
<1> QED
  BY <1>1, <1>2

\* An answer is written when it is true, and makes the next step of r's service.
LEMMA RespondStep ==
  ASSUME IInv, NEW r \in Reqs, NEW error \in Errors, NEW l \in {"hook", "refused"},
         Respond(r, Answered(r, error)), serve' = [serve EXCEPT ![r] = l],
         UNCHANGED <<sessionVars, callVars, spawned, failure, performed, event>>,
         IF error = NoError THEN serve[r] = "reply" /\ l = "hook"
                            ELSE serve[r] = "refuse" /\ l = "refused" /\ error = failure[r]
  PROVE  IInv'
<1> DEFINE d == Encode(Answered(r, error))
           s == To(r)
           a == IF error = NoError THEN "ok" ELSE error.code
<1>1. Answered(r, error).error = error
  BY DEF Answered
<1>2. /\ Validate(Answered(r, error)) /\ TransportWrite(s, d)
      /\ answers' = [answers EXCEPT ![r] = Append(@, a)]
  BY <1>1 DEF Respond, Code
<1>3. UNCHANGED <<phase, reader, call, result, spawned, failure, performed, event>>
  BY DEF sessionVars, callVars
<1>4. /\ d \in Wire /\ Accepted(d) /\ Parse(d) \in Msg
      /\ Parse(d).type = "response" /\ Parse(d).id = r /\ Parse(d).error = error
  BY <1>2, ResponseUnderstood
<1> HIDE DEF d, a
<1>5. s \in Sides
  BY SideOf
<1>6. /\ serve \in [Reqs -> {"none", "handle", "reply", "hook", "refuse"} \cup Ends]
      /\ answers \in [Reqs -> Seq(Codes \cup {"ok"})] /\ ServeOf(r)
  BY DEF IInv, Types, TypeOK, ServeOK
<1>7. /\ serve' \in [Reqs -> {"none", "handle", "reply", "hook", "refuse"} \cup Ends]
      /\ serve'[r] = l
      /\ \A q \in Reqs : q # r => serve'[q] = serve[q] /\ answers'[q] = answers[q]
      /\ answers'[r] = Append(answers[r], a)
  BY <1>2, <1>6 DEF Ends
<1>8. /\ answers[r] = <<>> \/ (answers[r] = <<"ok">> /\ error # NoError /\ r \in performed)
      /\ error # NoError => error \in ResponseError
      /\ error = NoError => r \in performed
  BY <1>6 DEF ServeOf, Refusing
<1>9. a \in Codes \cup {"ok"} /\ (error = NoError => a = "ok") /\ (error # NoError => a = error.code)
  BY <1>8 DEF a, ResponseError
<1>10. /\ answers[r] = <<>> => answers'[r] = <<a>>
       /\ answers[r] = <<"ok">> => answers'[r] = <<"ok", a>>
       /\ Len(answers'[r]) <= 2
  <2> DEFINE b == "ok"
             S == Codes \cup {"ok"}
             c == answers[r]
  <2>1. a \in S /\ b \in S /\ c \in Seq(S)
    BY <1>6, <1>9
  <2> HIDE DEF b, S, c
  <2>2. /\ c = <<>> => Append(c, a) = <<a>>
        /\ c = <<b>> => Append(c, a) = <<b, a>>
        /\ c = <<>> \/ c = <<b>> => Len(Append(c, a)) <= 2
    BY <2>1, OneMore
  <2>3. answers'[r] = Append(c, a) /\ (c = <<>> \/ c = <<b>>)
    BY <1>7, <1>8 DEF b, c
  <2> QED
    BY <2>2, <2>3 DEF b, c
<1>11. ServeOf(r)'
  BY <1>3, <1>6, <1>7, <1>8, <1>9, <1>10 DEF ServeOf, Refusing
<1>12. OtherServed(r) /\ StillFresh /\ (serve[r] \in Refusing => serve'[r] \in Refusing)
  BY <1>3, <1>6, <1>7 DEF OtherServed, StillFresh, Refusing
<1>13. closed' = closed
  BY <1>2 DEF TransportWrite
<1>14. ServeOK' /\ CallOK' /\ Keep
  BY <1>3, <1>11, <1>12, <1>13, ServedOne
<1>15. /\ Meant(s, Parse(d)) /\ Fresh(Parse(d))' /\ True(Parse(d))'
       /\ \A m \in InFlight(s) : ~SameRequest(m, Parse(d))
  BY <1>3, <1>4, <1>7, <1>8 DEF Meant, Fresh, True, SameRequest, Refusing
<1> HIDE DEF s
<1>16. /\ AcceptedOK' /\ FlightOK' /\ OnceOK'
       /\ chan' \in [Sides -> Seq(Wire)] /\ \A t \in Sides : Len(chan'[t]) <= ChanCap
  BY <1>2, <1>3, <1>4, <1>5, <1>12, <1>14, <1>15, Writes
<1>17. answers' \in [Reqs -> Seq(Codes \cup {"ok"})] /\ \A q \in Reqs : Len(answers'[q]) <= 2
  <2>1. answers' \in [Reqs -> Seq(Codes \cup {"ok"})]
    BY <1>2, <1>6, <1>9
  <2> QED
    BY <1>7, <1>10, <2>1 DEF IInv, Types, TypeOK
<1>18. Types'
  BY <1>3, <1>7, <1>13, <1>16, <1>17 DEF IInv, Types, TypeOK
<1> QED
  BY <1>14, <1>16, <1>18 DEF IInv

LEMMA ReplyStep ==
  ASSUME IInv, NEW r \in Reqs, Reply(r) \/ Refuse(r)
  PROVE  IInv'
<1>1. CASE Reply(r)
  <2>1. Respond(r, Answered(r, NoError)) /\ serve' = [serve EXCEPT ![r] = "hook"]
    BY <1>1, AnswerForm DEF Reply, ServeTo
  <2>2. NoError \in Errors
    BY DEF Errors
  <2> QED
    BY <1>1, <2>1, <2>2, RespondStep DEF Reply
<1>2. CASE Refuse(r)
  <2>1. Respond(r, Answered(r, failure[r])) /\ serve' = [serve EXCEPT ![r] = "refused"]
    BY <1>2, AnswerForm DEF Refuse, ServeTo
  <2>2. serve[r] = "refuse" /\ failure[r] \in ResponseError
    BY <1>2 DEF Refuse, IInv, ServeOK, ServeOf, Refusing
  <2>3. failure[r] \in Errors /\ failure[r] # NoError
    BY <2>2, NoResponseError DEF Errors
  <2> QED
    BY <1>2, <2>1, <2>2, <2>3, RespondStep DEF Refuse
<1> QED
  BY <1>1, <1>2
-----------------------------------------------------------------------------
(* Reading a message, and handling it                                      *)

LEMMA ReaderReadsStep ==
  ASSUME IInv, NEW s \in Sides, ReaderReads(s)
  PROVE  IInv' /\ UNCHANGED <<call, result, serve, failure, answers, performed>>
<1> DEFINE t == Peer(s)
<1>1. /\ t \in Sides /\ Peer(t) = s /\ s # t
      /\ \A q \in Sides : q = s \/ q = t
  BY DEF Sides, Peer
<1>2. UNCHANGED <<phase, reader, call, result, serve, failure, answers, performed, event>>
  BY DEF ReaderReads, sessionVars, callVars, serveVars
<1>3. PICK d : /\ TransportRead(s, d)
               /\ spawned' = [spawned EXCEPT ![s] = IF Accepted(d) THEN @ \cup {Parse(d)} ELSE @]
  BY DEF ReaderReads
<1> HIDE DEF t
<1>4. /\ chan' \in [Sides -> Seq(Wire)] /\ \A q \in Sides : Len(chan'[q]) <= ChanCap
      /\ d = chan[t][1] /\ 1 \in 1..Len(chan[t])
      /\ \A q \in Sides : q # t => chan'[q] = chan[q] /\ Queue(q)' = Queue(q)
      /\ Len(chan'[t]) = Len(chan[t]) - 1
      /\ \A i \in 1..Len(chan'[t]) : chan'[t][i] = chan[t][i + 1] /\ i + 1 \in 1..Len(chan[t])
      /\ Queue(t)' \subseteq Queue(t) /\ Parse(d) \in Queue(t)
      /\ closed' = closed
  BY <1>1, <1>3, Reads DEF IInv
<1> DEFINE n == Parse(d)
<1>5. Accepted(d) /\ n \in Msg
  BY <1>1, <1>4 DEF IInv, AcceptedOK, FlightOK, InFlight
<1> HIDE DEF n
<1>6. spawned' = [spawned EXCEPT ![s] = @ \cup {n}] /\ spawned \in [Sides -> SUBSET Msg]
  BY <1>3, <1>5 DEF n, IInv, Types
<1>7. /\ spawned'[s] = spawned[s] \cup {n} /\ spawned'[t] = spawned[t]
      /\ spawned' \in [Sides -> SUBSET Msg]
  BY <1>1, <1>5, <1>6
<1>8. \A q \in Sides : InFlight(q)' \subseteq InFlight(q)
  <2>1. InFlight(t)' \subseteq InFlight(t)
    BY <1>1, <1>4, <1>7 DEF InFlight, n
  <2>2. InFlight(s)' = InFlight(s)
    BY <1>1, <1>4, <1>7 DEF InFlight, t
  <2> QED
    BY <1>1, <2>1, <2>2
<1>9. Keep /\ StillFresh
  BY <1>2 DEF Keep, StillFresh
<1>10. FlightOK'
  <2>1. \A q \in Sides : \A m \in InFlight(q)' :
          m \in InFlight(q) /\ (m.type = "request" => serve'[m.id] = "none")
    BY <1>2, <1>8 DEF IInv, FlightOK, Fresh
  <2> QED
    BY <1>9, <2>1, Flight DEF IInv
<1>11. AcceptedOK'
  <2>1. \A i \in 1..Len(chan'[t]) : Accepted(chan'[t][i])
    BY <1>1, <1>4 DEF IInv, AcceptedOK
  <2>2. \A i \in 1..Len(chan'[s]) : Accepted(chan'[s][i])
    BY <1>1, <1>4 DEF IInv, AcceptedOK
  <2> QED
    BY <1>1, <2>1, <2>2 DEF AcceptedOK
<1>12. ASSUME NEW q \in Sides, NEW i \in 1..Len(chan'[q]), NEW j \in 1..Len(chan'[q]),
              SameRequest(Parse(chan'[q][i]), Parse(chan'[q][j]))
       PROVE  i = j
  <2>1. CASE q # t
    BY <1>4, <1>12, <2>1 DEF IInv, OnceOK
  <2>2. CASE q = t
    <3>1. i + 1 \in 1..Len(chan[t]) /\ j + 1 \in 1..Len(chan[t])
      BY <1>4, <2>2
    <3>2. SameRequest(Parse(chan[t][i + 1]), Parse(chan[t][j + 1]))
      BY <1>4, <1>12, <2>2
    <3>3. i + 1 = j + 1
      BY <1>1, <3>1, <3>2 DEF IInv, OnceOK
    <3> QED
      BY <3>3
  <2> QED
    BY <2>1, <2>2
<1>13. ASSUME NEW q \in Sides, NEW m \in Queue(q)', NEW k \in spawned'[Peer(q)]
       PROVE  ~SameRequest(m, k)
  <2>1. CASE q = s
    BY <1>1, <1>4, <1>7, <1>13, <2>1 DEF IInv, OnceOK, t
  <2>2. CASE q = t /\ k \in spawned[s]
    BY <1>1, <1>4, <1>13, <2>2 DEF IInv, OnceOK
  <2>3. CASE q = t /\ k = n
    <3>1. PICK i \in 1..Len(chan'[t]) : m = Parse(chan'[t][i])
      BY <1>13, <2>3 DEF Queue
    <3>2. m = Parse(chan[t][i + 1]) /\ i + 1 \in 1..Len(chan[t]) /\ i + 1 # 1
      BY <1>4, <3>1
    <3>3. k = Parse(chan[t][1]) /\ 1 \in 1..Len(chan[t])
      BY <1>4, <2>3 DEF n
    <3> QED
      BY <1>1, <3>2, <3>3 DEF IInv, OnceOK
  <2> QED
    BY <1>1, <1>7, <1>13, <2>1, <2>2, <2>3
<1>14. ASSUME NEW q \in Sides, NEW m \in spawned'[q], NEW k \in spawned'[q], SameRequest(m, k)
       PROVE  m = k
  <2>1. CASE m \in spawned[q] /\ k \in spawned[q]
    BY <1>14, <2>1 DEF IInv, OnceOK
  <2>2. CASE q = s /\ m = n /\ k \in spawned[s]
    BY <1>1, <1>4, <1>14, <2>2 DEF IInv, OnceOK, n
  <2>3. CASE q = s /\ k = n /\ m \in spawned[s]
    BY <1>1, <1>4, <1>14, <2>3 DEF IInv, OnceOK, n, SameRequest
  <2> QED
    BY <1>1, <1>7, <1>14, <2>1, <2>2, <2>3
<1>15. OnceOK'
  BY <1>12, <1>13, <1>14 DEF OnceOK, SameRequest
<1>16. Types'
  BY <1>2, <1>4, <1>7 DEF IInv, Types, TypeOK
<1>17. ServeOK' /\ CallOK'
  BY <1>2, <1>4, Unserved
<1> QED
  BY <1>2, <1>10, <1>11, <1>15, <1>16, <1>17 DEF IInv

LEMMA Taken ==
  ASSUME IInv, NEW s \in Sides, NEW m \in spawned[s], UNCHANGED chan,
         spawned' = [spawned EXCEPT ![s] = @ \ {m}], Keep,
         \A r \in Reqs : serve[r] = "none" =>
           serve'[r] = "none" \/ (m.type = "request" /\ r = m.id)
  PROVE  AcceptedOK' /\ FlightOK' /\ OnceOK' /\ spawned' \in [Sides -> SUBSET Msg]
<1> DEFINE t == Peer(s)
<1>1. /\ t \in Sides /\ Peer(t) = s /\ s # t
      /\ \A q \in Sides : q = s \/ q = t
  BY DEF Sides, Peer
<1>2. /\ spawned \in [Sides -> SUBSET Msg] /\ spawned' \in [Sides -> SUBSET Msg]
      /\ spawned'[s] = spawned[s] \ {m} /\ spawned'[t] = spawned[t]
  BY <1>1 DEF IInv, Types
<1> HIDE DEF t
<1>3. \A q \in Sides : Queue(q)' = Queue(q) /\ spawned'[Peer(q)] \subseteq spawned[Peer(q)]
  BY <1>1, <1>2 DEF Queue, t
<1>4. AcceptedOK'
  BY DEF IInv, AcceptedOK
<1>5. OnceOK'
  BY <1>1, <1>2, <1>3 DEF IInv, OnceOK
<1>6. m \in InFlight(t) /\ Meant(t, m)
  BY <1>1 DEF InFlight, IInv, FlightOK
<1>7. ASSUME NEW q \in Sides, NEW n \in InFlight(q)', n.type = "request"
      PROVE  serve'[n.id] = "none"
  <2>1. n \in InFlight(q) /\ Meant(q, n) /\ Fresh(n)
    BY <1>3, <1>7 DEF InFlight, IInv, FlightOK
  <2>2. n.id \in Reqs /\ serve[n.id] = "none"
    BY <1>7, <2>1 DEF Meant, Fresh
  <2>3. ASSUME m.type = "request", n.id = m.id PROVE FALSE
    <3>1. q = t
      BY <1>6, <1>7, <2>1, <2>3 DEF Meant
    <3>2. SameRequest(n, m)
      BY <1>7, <2>3 DEF SameRequest
    <3>3. n \notin Queue(t)
      BY <1>1, <3>2 DEF IInv, OnceOK
    <3>4. n \in spawned[s] \ {m}
      BY <1>1, <1>2, <1>3, <1>7, <3>1, <3>3 DEF InFlight
    <3> QED
      BY <3>2, <3>4 DEF IInv, OnceOK
  <2> QED
    BY <2>2, <2>3
<1>8. \A q \in Sides : InFlight(q)' \subseteq InFlight(q)
  BY <1>3 DEF InFlight
<1>9. FlightOK'
  BY <1>7, <1>8, Flight DEF IInv
<1> QED
  BY <1>2, <1>4, <1>5, <1>9
LEMMA ResolveStep ==
  ASSUME IInv, NEW s \in Sides, NEW m \in spawned[s], Resolve(s, m)
  PROVE  IInv'
<1> DEFINE r == m.id
           l == IF m.error = NoError THEN "ok" ELSE "err"
<1>1. /\ UNCHANGED <<chan, closed, phase, reader, serve, failure, answers, performed, event>>
      /\ spawned' = [spawned EXCEPT ![s] = @ \ {m}] /\ m.type = "response"
      /\ IF call[r] = "wait"
           THEN call' = [call EXCEPT ![r] = l] /\ result' = [result EXCEPT ![r] = m.error]
           ELSE UNCHANGED <<call, result>>
  BY DEF Resolve, CallTo, transportVars, sessionVars, serveVars
<1>2. m \in InFlight(Peer(s)) /\ Peer(s) \in Sides
  BY DEF InFlight, Sides, Peer
<1>3. m \in Msg /\ Meant(Peer(s), m) /\ True(m)
  BY <1>2 DEF IInv, FlightOK
<1>4. /\ r \in Reqs /\ m.error \in Errors
      /\ l \in {"ok", "err"} /\ (l = "ok" => r \in performed)
      /\ l = "err" => serve[r] \in Refusing /\ m.error \in ResponseError
  <2>1. m.error \in Errors
    BY <1>3 DEF Msg
  <2> QED
    BY <1>1, <1>3, <2>1 DEF Meant, True, Errors
<1> HIDE DEF l
<1>5. /\ call \in [Reqs -> {"idle", "invalid", "write", "wait"} \cup Outcomes]
      /\ result \in [Reqs -> ResponseError \cup {NoError}]
  BY DEF IInv, Types, TypeOK
<1>6. CASE call[r] = "wait"
  <2>1. /\ call' \in [Reqs -> {"idle", "invalid", "write", "wait"} \cup Outcomes]
        /\ call'[r] = l /\ \A q \in Reqs : q # r => call'[q] = call[q]
    BY <1>1, <1>4, <1>5, <1>6 DEF Outcomes
  <2>2. /\ result' \in [Reqs -> ResponseError \cup {NoError}]
        /\ result'[r] = m.error /\ \A q \in Reqs : q # r => result'[q] = result[q]
    BY <1>1, <1>4, <1>5, <1>6 DEF Errors
  <2>3. /\ CallOf(r)' /\ (call'[r] = "ok" => r \in performed)
        /\ call[r] \in Written => call'[r] \in Written
    BY <1>1, <1>4, <2>1, <2>2 DEF CallOf, Written
  <2> HIDE DEF r
  <2>4. ServeOK' /\ CallOK' /\ Keep /\ StillFresh
    BY <1>1, <1>4, <2>1, <2>2, <2>3, CalledOne
  <2>5. AcceptedOK' /\ FlightOK' /\ OnceOK' /\ spawned' \in [Sides -> SUBSET Msg]
    BY <1>1, <2>4, Taken DEF StillFresh
  <2>6. Types'
    BY <1>1, <2>1, <2>2, <2>5 DEF IInv, Types, TypeOK
  <2> QED
    BY <2>4, <2>5, <2>6 DEF IInv
<1>7. CASE call[r] # "wait"
  <2>1. ServeOK' /\ CallOK' /\ Keep /\ StillFresh
    BY <1>1, <1>7, Unserved
  <2>2. AcceptedOK' /\ FlightOK' /\ OnceOK' /\ spawned' \in [Sides -> SUBSET Msg]
    BY <1>1, <2>1, Taken DEF StillFresh
  <2>3. Types'
    BY <1>1, <1>7, <2>2 DEF IInv, Types, TypeOK
  <2> QED
    BY <2>1, <2>2, <2>3 DEF IInv
<1> QED
  BY <1>6, <1>7

LEMMA DispatchStep ==
  ASSUME IInv, NEW s \in Sides, NEW m \in spawned[s], Dispatch(s, m)
  PROVE  /\ IInv'
         /\ m.id \in Reqs /\ call[m.id] \in Written /\ serve[m.id] = "none"
         /\ \A q \in Reqs : q # m.id => serve'[q] = serve[q]
         /\ serve'[m.id] \in {"handle", "refuse"}
         /\ UNCHANGED <<call, performed>>
<1> DEFINE r == m.id
<1>1. /\ UNCHANGED <<chan, closed, phase, reader, call, result, answers, performed, event>>
      /\ spawned' = [spawned EXCEPT ![s] = @ \ {m}] /\ m.type = "request"
  BY DEF Dispatch, transportVars, sessionVars, callVars
<1>2. m \in InFlight(Peer(s)) /\ Peer(s) \in Sides
  BY DEF InFlight, Sides, Peer
<1>3. r \in Reqs /\ call[r] \in Written /\ serve[r] = "none"
  BY <1>1, <1>2 DEF IInv, FlightOK, Meant, Fresh
<1>4. PICK e \in ResponseError \cup {NoError}, l \in {"handle", "refuse"} :
        /\ serve' = [serve EXCEPT ![r] = l] /\ failure' = [failure EXCEPT ![r] = e]
        /\ l = "handle" => e = failure[r]
        /\ l = "refuse" => e \in ResponseError
  <2>1. failure \in [Reqs -> ResponseError \cup {NoError}]
    BY DEF IInv, Types, TypeOK
  <2>2. ASSUME NEW err, Fails(r, err), ToResponseError(err) \in ResponseError
        PROVE  \E e \in ResponseError : serve' = [serve EXCEPT ![r] = "refuse"]
                                        /\ failure' = [failure EXCEPT ![r] = e]
    BY <2>2 DEF Fails, ServeTo
  <2>3. ASSUME serve' = [serve EXCEPT ![r] = "handle"], UNCHANGED failure
        PROVE  \E e \in ResponseError \cup {NoError} :
                 failure' = [failure EXCEPT ![r] = e] /\ e = failure[r]
    BY <1>3, <2>1, <2>3
  <2>4. \/ Fails(r, NotImplemented) \/ \E err \in HandlerErrors : Fails(r, err)
        \/ Fails(r, PlainError(TRUE)) \/ Fails(r, BadRequest)
        \/ serve' = [serve EXCEPT ![r] = "handle"] /\ UNCHANGED failure
    BY DEF Dispatch, ServeTo
  <2>5. PlainError(TRUE) \in HandlerErrors
    BY DEF HandlerErrors
  <2> QED
    BY <2>2, <2>3, <2>4, <2>5, ErrorForms
<1>5. /\ serve \in [Reqs -> {"none", "handle", "reply", "hook", "refuse"} \cup Ends]
      /\ failure \in [Reqs -> ResponseError \cup {NoError}]
  BY DEF IInv, Types, TypeOK
<1>6. /\ serve' \in [Reqs -> {"none", "handle", "reply", "hook", "refuse"} \cup Ends]
      /\ failure' \in [Reqs -> ResponseError \cup {NoError}]
      /\ serve'[r] = l /\ failure'[r] = e
      /\ \A q \in Reqs : q # r => serve'[q] = serve[q] /\ failure'[q] = failure[q]
  BY <1>3, <1>4, <1>5
<1>7. ServeOf(r)
  BY <1>3 DEF IInv, ServeOK
<1>8. ServeOf(r)'
  BY <1>1, <1>3, <1>4, <1>6, <1>7 DEF ServeOf, Refusing
<1>9. OtherServed(r) /\ serve[r] \notin Refusing
  BY <1>1, <1>3, <1>6 DEF OtherServed, Refusing
<1>10. \A q \in Reqs : serve[q] = "none" => serve'[q] = "none" \/ (m.type = "request" /\ q = m.id)
  BY <1>1, <1>6
<1>11. serve'[r] \in {"handle", "refuse"}
  BY <1>6
<1> HIDE DEF r
<1>12. ServeOK' /\ CallOK' /\ Keep
  BY <1>1, <1>3, <1>8, <1>9, ServedOne
<1>13. AcceptedOK' /\ FlightOK' /\ OnceOK' /\ spawned' \in [Sides -> SUBSET Msg]
  BY <1>1, <1>10, <1>12, Taken
<1>14. Types'
  BY <1>1, <1>6, <1>13 DEF IInv, Types, TypeOK
<1> QED
  BY <1>1, <1>3, <1>6, <1>11, <1>12, <1>13, <1>14 DEF IInv, r

LEMMA OnEventStep ==
  ASSUME IInv, NEW s \in Sides, NEW m \in spawned[s], OnEvent(s, m)
  PROVE  IInv' /\ UNCHANGED <<call, result, serve, failure, answers, performed>>
<1>1. /\ UNCHANGED <<chan, closed, phase, reader, call, result>>
      /\ UNCHANGED <<serve, failure, answers, performed, event>>
      /\ spawned' = [spawned EXCEPT ![s] = @ \ {m}]
  BY DEF OnEvent, transportVars, sessionVars, callVars, serveVars
<1>2. ServeOK' /\ CallOK' /\ Keep /\ StillFresh
  BY <1>1, Unserved
<1>3. AcceptedOK' /\ FlightOK' /\ OnceOK' /\ spawned' \in [Sides -> SUBSET Msg]
  BY <1>1, <1>2, Taken DEF StillFresh
<1>4. Types'
  BY <1>1, <1>3 DEF IInv, Types, TypeOK
<1> QED
  BY <1>1, <1>2, <1>3, <1>4 DEF IInv
-----------------------------------------------------------------------------
(* The invariant, and what follows from it                                 *)

LEMMA StepIInv == IInv /\ [Next]_vars => IInv'
<1> SUFFICES ASSUME IInv, [Next]_vars PROVE IInv'
  OBVIOUS
<1>1. ASSUME NEW s \in Sides, Stop(s) \/ Finalize(s) \/ ReaderEnds(s) PROVE IInv'
  BY <1>1, IdleStep
<1>2. ASSUME NEW e \in Events, Notify(e) \/ NotifyFails(e) PROVE IInv'
  BY <1>2, IdleStep
<1>3. CASE UNCHANGED vars
  BY <1>3, IdleStep
<1>4. ASSUME NEW s \in Sides, NEW m \in spawned[s], Incoming(s, m) PROVE IInv'
  BY <1>4, ResolveStep, DispatchStep, OnEventStep DEF Incoming
<1>5. ASSUME NEW r \in Reqs, Call(r) \/ Caller(r) PROVE IInv'
  BY <1>5, CallStep, CallWritesStep DEF Caller
<1>6. ASSUME NEW r \in Reqs, Answer(r) PROVE IInv'
  BY <1>6, AnswerStep, ReplyStep DEF Answer
<1> QED
  BY <1>1, <1>2, <1>3, <1>4, <1>5, <1>6, ReaderReadsStep, NotifyWritesStep, HandlerStep
     DEF Next, Progress, Start, Reader, Notifier

\* IInv holds of every behaviour of the two sessions.
THEOREM Invariance == Spec => []IInv
<1> QED
  BY InitIInv, StepIInv, PTL DEF Spec

\* The variables keep their types and the channels their capacity
\* (channel.go:33, 51).
THEOREM TypeCorrect == Spec => []TypeOK
<1>1. IInv => TypeOK
  BY DEF IInv, Types
<1> QED
  BY <1>1, Invariance, PTL

\* Whatever is read from a channel parses, validates and is what its sender
\* meant (message.go:66, 96 against session.go:56).
THEOREM Understands == Spec => []Understood
<1>1. ASSUME IInv PROVE Understood
  <2> SUFFICES ASSUME NEW s \in Sides, NEW i \in 1..Len(chan[s])
               PROVE  Accepted(chan[s][i]) /\ Meant(s, Parse(chan[s][i]))
    BY DEF Understood, Meant
  <2>1. Parse(chan[s][i]) \in InFlight(s)
    BY DEF InFlight, Queue
  <2> QED
    BY <1>1, <2>1 DEF IInv, AcceptedOK, FlightOK
<1> QED
  BY <1>1, Invariance, PTL

\* The answers to a request tell what happened to it, and there is one unless
\* none can be sent (session.go:136, handler_request.go:34).
THEOREM AnswersAreTrue == Spec => []AnswersTell
<1>1. ASSUME IInv, NEW r \in Reqs
      PROVE  /\ serve[r] \in Ends /\ answers[r] = <<>> =>
                  closed \/ (failure[r] # NoError /\ ~ErrorValid(failure[r]))
             /\ \A i \in 1..Len(answers[r]) :
                  /\ i > 1 => answers[r][1] = "ok"
                  /\ answers[r][i] = "ok" => i = 1 /\ r \in performed
                  /\ answers[r][i] \in {"400", "501"} => r \notin performed
  <2> DEFINE a == answers[r]
             f == failure[r]
  <2>1. ServeOf(r)
    BY <1>1 DEF IInv, ServeOK
  <2>2. serve[r] \in {"none", "handle", "reply", "hook", "refuse"} \cup Ends
    BY <1>1 DEF IInv, Types, TypeOK
  <2>3. serve[r] \in Refusing => f \in ResponseError /\ f # NoError /\ f.code \in Codes
    BY <2>1, NoResponseError DEF ServeOf, ResponseError
  <2>4. serve[r] \in Ends /\ a = <<>> => closed \/ (f # NoError /\ ~ErrorValid(f))
    BY <2>1, <2>3 DEF ServeOf, Ends, Refusing
  <2>5. \/ a = <<>>
        \/ a = <<"ok">> /\ r \in performed
        \/ serve[r] = "refused" /\ a = <<f.code>>
        \/ serve[r] = "refused" /\ a = <<"ok", f.code>> /\ r \in performed
    BY <2>1, <2>2 DEF ServeOf, Ends, Refusing
  <2>6. serve[r] = "refused" => f.code # "ok" /\ (r \in performed => f.code \notin {"400", "501"})
    BY <2>1, <2>3 DEF ServeOf, Refusing, Codes
  <2> HIDE DEF a, f
  <2>7. ASSUME NEW i \in 1..Len(a)
        PROVE  /\ i > 1 => a[1] = "ok"
               /\ a[i] = "ok" => i = 1 /\ r \in performed
               /\ a[i] \in {"400", "501"} => r \notin performed
    <3>1. CASE a = <<>>
      BY <3>1
    <3>2. CASE a = <<"ok">> /\ r \in performed
      BY <3>2
    <3>3. CASE serve[r] = "refused" /\ a = <<f.code>>
      BY <2>6, <3>3
    <3>4. CASE serve[r] = "refused" /\ a = <<"ok", f.code>> /\ r \in performed
      <4>1. i = 1 \/ i = 2
        BY <3>4
      <4>2. a[1] = "ok" /\ a[2] = f.code
        BY <3>4
      <4> QED
        BY <2>6, <3>4, <4>1, <4>2
    <3> QED
      BY <2>5, <3>1, <3>2, <3>3, <3>4
  <2> QED
    BY <2>4, <2>7 DEF a, f
<1>2. IInv => AnswersTell
  BY <1>1 DEF AnswersTell
<1> QED
  BY <1>2, Invariance, PTL
-----------------------------------------------------------------------------
(* The refinement                                                          *)

Waiting == {"invalid", "write", "wait"}
SeenAs(l) == IF l \in Waiting THEN "open" ELSE l
Seen == [r \in Reqs |-> SeenAs(call[r])]
Failed == {r \in Reqs : serve[r] \in Refusing}

LEMMA InitPromise == Init => Promise!PInit
<1> SUFFICES ASSUME Init PROVE Promise!PInit
  OBVIOUS
<1>1. /\ \A r \in Reqs : call[r] = "idle" /\ serve[r] = "none"
      /\ performed = {}
  BY DEF Init
<1>2. Seen = [r \in Reqs |-> "idle"] /\ Failed = {}
  BY <1>1 DEF Seen, SeenAs, Waiting, Failed, Refusing
<1> QED
  BY <1>1, <1>2 DEF Promise!PInit, Seen, SeenAs, Waiting, Failed, Refusing

\* One request is seen to change, or none.
LEMMA SeenChange ==
  ASSUME IInv, NEW r \in Reqs
  PROVE  /\ \A l : call' = [call EXCEPT ![r] = l] => Seen' = [Seen EXCEPT ![r] = SeenAs(l)]
         /\ \A l : call' = [call EXCEPT ![r] = l] /\ SeenAs(l) = SeenAs(call[r]) => Seen' = Seen
         /\ Seen[r] = SeenAs(call[r])
         /\ call' = call => Seen' = Seen
<1>1. call \in [Reqs -> {"idle", "invalid", "write", "wait"} \cup Outcomes]
  BY DEF IInv, Types, TypeOK
<1> QED
  BY <1>1 DEF Seen

LEMMA FailedChange ==
  ASSUME IInv, NEW r \in Reqs, \A q \in Reqs : q # r => serve'[q] = serve[q]
  PROVE  /\ serve'[r] \in Refusing => Failed' = Failed \cup {r}
         /\ (serve'[r] \in Refusing <=> serve[r] \in Refusing) => Failed' = Failed
BY DEF Failed
\* The steps of the promise, in terms of what is seen.
LEMMA PromiseSteps ==
  ASSUME NEW r \in Reqs
  PROVE  /\ Seen[r] = "idle" /\ Seen' = [Seen EXCEPT ![r] = "open"]
              /\ UNCHANGED <<performed, Failed>> => Promise!Call(r)
         /\ Seen[r] \notin {"idle", "sendfail"} /\ r \notin performed
              /\ performed' = performed \cup {r} /\ UNCHANGED <<Seen, Failed>> => Promise!Perform(r)
         /\ Seen[r] \notin {"idle", "sendfail"} /\ r \notin Failed
              /\ Failed' = Failed \cup {r} /\ UNCHANGED <<Seen, performed>> => Promise!Fail(r)
         /\ \A outcome :
              Seen[r] = "open" /\ (outcome = "ok" => r \in performed)
              /\ (outcome = "err" => r \in Failed)
              /\ (outcome = "sendfail" => r \notin performed \cup Failed)
              /\ Seen' = [Seen EXCEPT ![r] = outcome]
              /\ UNCHANGED <<performed, Failed>> => Promise!Finish(r, outcome)
         /\ UNCHANGED <<Seen, performed, Failed>> => UNCHANGED Promise!pvars
BY DEF Promise!Call, Promise!Perform, Promise!Fail, Promise!Finish, Promise!pvars,
       Seen, SeenAs, Waiting, Failed, Refusing
\* A call that is waiting becomes one with another label: unseen, or its end.
LEMMA CallSeen ==
  ASSUME IInv, NEW r \in Reqs, Call(r) \/ Caller(r)
  PROVE  [Promise!PNext]_(Promise!pvars)
<1> USE DEF Call, CallWrites, CallFails, CallTimesOut, CallTo
<1>1. UNCHANGED <<performed, serve>>
  BY DEF Caller, serveVars
<1>2. UNCHANGED <<performed, Failed>>
  BY <1>1 DEF Failed
<1>3. CASE Call(r)
  <2>1. PICK l \in {"write", "invalid"} : call' = [call EXCEPT ![r] = l]
    BY <1>3
  <2>2. SeenAs(l) = "open" /\ SeenAs(call[r]) = "idle"
    BY <1>3 DEF SeenAs, Waiting
  <2>3. Seen[r] = "idle" /\ Seen' = [Seen EXCEPT ![r] = "open"]
    BY <2>1, <2>2, SeenChange
  <2> QED
    BY <1>2, <2>3, PromiseSteps DEF Promise!PNext
<1>4. CASE CallWrites(r)
  <2>1. call' = [call EXCEPT ![r] = "wait"] /\ SeenAs("wait") = SeenAs(call[r])
    BY <1>4 DEF SeenAs, Waiting
  <2>2. Seen' = Seen
    BY <2>1, SeenChange
  <2> QED
    BY <1>2, <2>2, PromiseSteps
<1>5. CASE CallFails(r)
  <2>1. call[r] \in {"invalid", "write"} /\ call' = [call EXCEPT ![r] = "sendfail"]
    BY <1>5
  <2>2. SeenAs("sendfail") = "sendfail" /\ SeenAs(call[r]) = "open"
    BY <2>1 DEF SeenAs, Waiting
  <2>3. Seen[r] = "open" /\ Seen' = [Seen EXCEPT ![r] = "sendfail"]
    BY <2>1, <2>2, SeenChange
  <2>4. serve[r] = "none" /\ r \notin performed
    BY <2>1 DEF IInv, ServeOK, ServeOf, Written
  <2>5. r \notin performed \cup Failed
    BY <2>4 DEF Failed, Refusing
  <2> QED
    BY <1>2, <2>3, <2>5, PromiseSteps DEF Promise!PNext, Promise!Outcomes
<1>6. CASE CallTimesOut(r)
  <2>1. call[r] = "wait" /\ call' = [call EXCEPT ![r] = "timeout"]
    BY <1>6
  <2>2. SeenAs("timeout") = "timeout" /\ SeenAs(call[r]) = "open"
    BY <2>1 DEF SeenAs, Waiting
  <2>3. Seen[r] = "open" /\ Seen' = [Seen EXCEPT ![r] = "timeout"]
    BY <2>1, <2>2, SeenChange
  <2> QED
    BY <1>2, <2>3, PromiseSteps DEF Promise!PNext, Promise!Outcomes
<1> QED
  BY <1>3, <1>4, <1>5, <1>6 DEF Caller

LEMMA ResolveSeen ==
  ASSUME IInv, NEW s \in Sides, NEW m \in spawned[s], Resolve(s, m)
  PROVE  [Promise!PNext]_(Promise!pvars)
<1> DEFINE r == m.id
           l == IF m.error = NoError THEN "ok" ELSE "err"
<1>1. /\ UNCHANGED <<performed, serve>> /\ m.type = "response"
      /\ call[r] = "wait" => call' = [call EXCEPT ![r] = l]
      /\ call[r] # "wait" => call' = call
  BY DEF Resolve, CallTo, serveVars
<1>2. m \in InFlight(Peer(s)) /\ Peer(s) \in Sides
  BY DEF InFlight, Sides, Peer
<1>3. r \in Reqs /\ True(m)
  BY <1>1, <1>2 DEF IInv, FlightOK, Meant
<1>4. l \in {"ok", "err"} /\ (l = "ok" => r \in performed) /\ (l = "err" => r \in Failed)
  BY <1>1, <1>3 DEF True, Failed
<1>5. UNCHANGED <<performed, Failed>>
  BY <1>1 DEF Failed
<1> HIDE DEF l, r
<1>6. CASE call[r] = "wait"
  <2>1. call' = [call EXCEPT ![r] = l] /\ SeenAs(l) = l /\ SeenAs(call[r]) = "open"
    BY <1>1, <1>4, <1>6 DEF SeenAs, Waiting
  <2>2. Seen[r] = "open" /\ Seen' = [Seen EXCEPT ![r] = l]
    BY <1>3, <2>1, SeenChange
  <2> QED
    BY <1>3, <1>4, <1>5, <2>2, PromiseSteps DEF Promise!PNext, Promise!Outcomes
<1>7. CASE call[r] # "wait"
  BY <1>1, <1>3, <1>5, <1>7, SeenChange, PromiseSteps
<1> QED
  BY <1>6, <1>7

\* A request fails, seen for the first time.
LEMMA FailsSeen ==
  ASSUME IInv, NEW r \in Reqs, UNCHANGED <<call, performed>>, call[r] \in Written,
         \A q \in Reqs : q # r => serve'[q] = serve[q],
         serve[r] \notin Refusing, serve'[r] \in Refusing
  PROVE  [Promise!PNext]_(Promise!pvars)
<1>1. Seen' = Seen /\ Seen[r] \notin {"idle", "sendfail"}
  BY SeenChange DEF SeenAs, Written, Waiting
<1>2. r \notin Failed /\ Failed' = Failed \cup {r}
  BY FailedChange DEF Failed
<1> QED
  BY <1>1, <1>2, PromiseSteps DEF Promise!PNext

LEMMA ServeSeen ==
  ASSUME IInv, NEW r \in Reqs, Handler(r) \/ Answer(r)
  PROVE  [Promise!PNext]_(Promise!pvars)
<1>1. PICK l \in {"reply", "hook", "refuse", "done", "refused"} :
        /\ serve' = [serve EXCEPT ![r] = l] /\ UNCHANGED call
        /\ l = "refuse" => serve[r] \in {"handle", "reply", "hook"}
        /\ l = "refused" <=> serve[r] = "refuse"
        /\ l = "reply" => serve[r] = "handle" /\ performed' = performed \cup {r}
        /\ l # "reply" => performed' = performed
        /\ serve[r] # "none" /\ serve[r] # "refused"
  BY DEF Handler, Answer, HandlerFails, PassesOn, HandlerReturns, Reply, ReplyFails, HookReturns,
         HookFails, Refuse, RefuseFails, Fails, ServeTo, callVars
<1>2. serve \in [Reqs -> {"none", "handle", "reply", "hook", "refuse"} \cup Ends]
  BY DEF IInv, Types, TypeOK
<1>3. serve'[r] = l /\ \A q \in Reqs : q # r => serve'[q] = serve[q]
  BY <1>1, <1>2
<1>4. call[r] \in Written /\ (serve[r] = "handle" => r \notin performed)
  BY <1>1 DEF IInv, ServeOK, ServeOf
<1>5. CASE l = "refuse"
  BY <1>1, <1>3, <1>4, <1>5, FailsSeen DEF Refusing
<1>6. CASE l # "refuse"
  <2>1. serve'[r] \in Refusing <=> serve[r] \in Refusing
    BY <1>1, <1>3, <1>6 DEF Refusing
  <2>2. Failed' = Failed
    BY <1>3, <2>1, FailedChange
  <2>3. Seen' = Seen /\ Seen[r] \notin {"idle", "sendfail"}
    BY <1>1, <1>4, SeenChange DEF SeenAs, Written, Waiting
  <2> QED
    BY <1>1, <1>4, <2>2, <2>3, PromiseSteps DEF Promise!PNext
<1> QED
  BY <1>5, <1>6

LEMMA DispatchSeen ==
  ASSUME IInv, NEW s \in Sides, NEW m \in spawned[s], Dispatch(s, m)
  PROVE  [Promise!PNext]_(Promise!pvars)
<1> DEFINE r == m.id
<1>1. /\ r \in Reqs /\ call[r] \in Written /\ serve[r] = "none"
      /\ \A q \in Reqs : q # r => serve'[q] = serve[q]
      /\ serve'[r] \in {"handle", "refuse"} /\ UNCHANGED <<call, performed>>
  BY DispatchStep
<1> HIDE DEF r
<1>2. CASE serve'[r] = "refuse"
  BY <1>1, <1>2, FailsSeen DEF Refusing
<1>3. CASE serve'[r] = "handle"
  <2>1. Failed' = Failed
    BY <1>1, <1>3, FailedChange DEF Refusing
  <2> QED
    BY <1>1, <2>1, SeenChange, PromiseSteps
<1> QED
  BY <1>1, <1>2, <1>3

LEMMA StepPromise == IInv /\ [Next]_vars => [Promise!PNext]_(Promise!pvars)
<1> SUFFICES ASSUME IInv, [Next]_vars PROVE [Promise!PNext]_(Promise!pvars)
  OBVIOUS
<1>1. ASSUME UNCHANGED <<call, serve, performed>> PROVE [Promise!PNext]_(Promise!pvars)
  BY <1>1 DEF Promise!pvars
<1>2. ASSUME NEW s \in Sides, Stop(s) \/ Finalize(s) \/ ReaderEnds(s)
      PROVE  [Promise!PNext]_(Promise!pvars)
  BY <1>1, <1>2, IdleStep
<1>3. ASSUME NEW e \in Events, Notify(e) \/ NotifyFails(e) PROVE [Promise!PNext]_(Promise!pvars)
  BY <1>1, <1>3, IdleStep
<1>4. CASE UNCHANGED vars
  BY <1>1, <1>4, IdleStep
<1>5. ASSUME NEW s \in Sides, ReaderReads(s) PROVE [Promise!PNext]_(Promise!pvars)
  BY <1>1, <1>5, ReaderReadsStep
<1>6. ASSUME NEW e \in Events, NotifyWrites(e) PROVE [Promise!PNext]_(Promise!pvars)
  BY <1>1, <1>6, NotifyWritesStep
<1>7. ASSUME NEW s \in Sides, NEW m \in spawned[s], Incoming(s, m)
      PROVE  [Promise!PNext]_(Promise!pvars)
  <2>1. CASE OnEvent(s, m)
    BY <1>1, <1>7, <2>1, OnEventStep
  <2> QED
    BY <1>7, <2>1, ResolveSeen, DispatchSeen DEF Incoming
<1> QED
  BY <1>2, <1>3, <1>4, <1>5, <1>6, <1>7, CallSeen, ServeSeen
     DEF Next, Progress, Start, Reader, Notifier

\* A request is performed at most once and ends once, and what its caller is
\* told is so: two sessions keep the promise of RpcPromise (request.go:46,
\* session.go:136).
THEOREM Implements == Spec => KeepsPromise
<1>1. Init => Promise!PInit
  BY InitPromise
<1>2. IInv /\ [Next]_vars => [Promise!PNext]_(Promise!pvars)
  BY StepPromise
<1> QED
  BY <1>1, <1>2, Invariance, PTL DEF Spec, KeepsPromise, Promise!PSpec
-----------------------------------------------------------------------------
(* Nothing blocks                                                          *)

\* A reader that has gone has a reason, and who is over has closed the
\* transport of both.
RestOK ==
  \A s \in Sides :
    /\ phase[s] \in {"up", "closing", "over"} /\ reader[s] \in {"read", "end"}
    /\ reader[s] = "end" => phase[s] # "up"
    /\ phase[s] = "over" => closed

\* A write to the channel of side s has to wait.
Full(s) == ~closed /\ Len(chan[s]) >= ChanCap

\* No goroutine has a step: no session has to be finalized, no reader has
\* something to read or a context that is cancelled, no message waits for its
\* goroutine, and who has not come to its end waits for room or for a request
\* of its own.
Stalled ==
  /\ \A s \in Sides : phase[s] # "closing" /\ spawned[s] = {}
  /\ \A s \in Sides : reader[s] = "read" => phase[s] = "up" /\ chan[Peer(s)] = <<>>
  /\ \A r \in Reqs :
       /\ call[r] \notin {"invalid", "wait"} /\ (call[r] = "write" => Full(From[r]))
       /\ serve[r] \notin {"reply", "hook"} /\ (serve[r] = "handle" => Waits(r))
       /\ serve[r] = "refuse" => Full(To(r)) /\ Validate(NotOk(Request(r), failure[r]))
  /\ \A e \in Events : event[e] = "write" => Full(EFrom[e])

\* However full the channels are, whoever writes into both of them while
\* handlers send requests of their own, and whichever side has stopped first
\* (channel.go:33; session.go:208, 237): when no goroutine has a step then
\* nobody is left in Request, EventDispatch or a handler.
NothingBlocks == Stalled => AtRest

LEMMA StepRest == RestOK /\ [Next]_vars => RestOK'
<1> SUFFICES ASSUME RestOK, [Next]_vars PROVE RestOK'
  OBVIOUS
<1>1. CASE UNCHANGED <<phase, reader>> /\ (closed => closed')
  BY <1>1 DEF RestOK
<1>2. ASSUME NEW s \in Sides, Stop(s) PROVE RestOK'
  BY <1>2 DEF Stop, RestOK, transportVars
<1>3. ASSUME NEW s \in Sides, Finalize(s) PROVE RestOK'
  BY <1>3 DEF Finalize, TransportClose, RestOK
<1>4. ASSUME NEW s \in Sides, ReaderEnds(s) PROVE RestOK'
  BY <1>4 DEF ReaderEnds, RestOK, transportVars
<1>5. ASSUME NEW s \in Sides, ReaderReads(s) PROVE RestOK'
  BY <1>1, <1>5 DEF ReaderReads, TransportRead, sessionVars
<1>6. ASSUME NEW r \in Reqs, Call(r) \/ Caller(r) PROVE RestOK'
  BY <1>1, <1>6 DEF Call, Caller, CallWrites, CallFails, CallTimesOut, TransportWrite,
                    sessionVars, transportVars
<1>7. ASSUME NEW s \in Sides, NEW m \in spawned[s], Incoming(s, m) PROVE RestOK'
  BY <1>1, <1>7 DEF Incoming, Resolve, Dispatch, OnEvent, sessionVars, transportVars
<1>8. ASSUME NEW r \in Reqs, Handler(r) PROVE RestOK'
  BY <1>1, <1>8 DEF Handler, HandlerFails, PassesOn, HandlerReturns, sessionVars, transportVars
<1>9. ASSUME NEW r \in Reqs, Answer(r) PROVE RestOK'
  BY <1>1, <1>9 DEF Answer, Reply, ReplyFails, HookReturns, HookFails, Refuse, RefuseFails,
                    Respond, TransportWrite, sessionVars, transportVars
<1>10. ASSUME NEW e \in Events, Notify(e) \/ Notifier(e) PROVE RestOK'
  BY <1>1, <1>10 DEF Notify, Notifier, NotifyWrites, NotifyFails, TransportWrite,
                     sessionVars, transportVars
<1>11. CASE UNCHANGED vars
  BY <1>1, <1>11 DEF vars, sessionVars, transportVars
<1> QED
  BY <1>2, <1>3, <1>4, <1>5, <1>6, <1>7, <1>8, <1>9, <1>10, <1>11
  DEF Next, Progress, Start, Reader

\* The safe half of Returns.
THEOREM NobodyBlocks == Spec => []NothingBlocks
<1>1. Init => RestOK
  BY DEF Init, RestOK
<1>2. IInv /\ RestOK => NothingBlocks
  <2> SUFFICES ASSUME IInv, RestOK, Stalled PROVE AtRest
    BY DEF NothingBlocks
  <2>1. ASSUME NEW s \in Sides PROVE ~Full(s)
    <3>1. Peer(s) \in Sides /\ Peer(Peer(s)) = s
      BY DEF Sides, Peer
    <3>2. CASE reader[Peer(s)] = "read"
      <4>1. chan[s] = <<>> /\ Len(<<>>) = 0
        BY <3>1, <3>2 DEF Stalled
      <4> QED
        BY <4>1, ChanCapAssumption DEF Full
    <3>3. CASE reader[Peer(s)] = "end"
      <4>1. closed
        BY <3>1, <3>3 DEF Stalled, RestOK
      <4> QED
        BY <4>1 DEF Full
    <3> QED
      BY <3>1, <3>2, <3>3 DEF RestOK
  <2>2. \A r \in Reqs : From[r] \in Sides /\ To(r) \in Sides
    BY SideOf
  <2>3. \A e \in Events : EFrom[e] \in Sides
    BY SideOf
  <2>4. \A r \in Reqs : call[r] \notin {"invalid", "write", "wait"}
    BY <2>1, <2>2 DEF Stalled
  <2>5. \A r \in Reqs : ~Waits(r)
    BY <2>4 DEF Waits, Reqs
  <2>6. \A r \in Reqs : serve[r] \notin {"handle", "reply", "hook", "refuse"}
    BY <2>1, <2>2, <2>5 DEF Stalled
  <2>7. \A e \in Events : event[e] # "write"
    BY <2>1, <2>3 DEF Stalled
  <2>8. /\ \A r \in Reqs : /\ call[r] \in {"idle", "invalid", "write", "wait"} \cup Outcomes
                           /\ serve[r] \in {"none", "handle", "reply", "hook", "refuse"} \cup Ends
        /\ \A e \in Events : event[e] \in {"idle", "write", "sent", "sendfail"}
    BY DEF IInv, Types, TypeOK
  <2> QED
    BY <2>4, <2>6, <2>7, <2>8 DEF AtRest
<1> QED
  BY <1>1, <1>2, StepRest, Invariance, PTL DEF Spec
-----------------------------------------------------------------------------
(* No way back                                                             *)

\* The places of each goroutine, in their order; of a session and its reader.
CallPlace == [idle |-> 0, invalid |-> 1, write |-> 1, wait |-> 2,
              ok |-> 3, err |-> 3, timeout |-> 3, sendfail |-> 3]
ServePlace == [none |-> 0, handle |-> 1, reply |-> 2, hook |-> 3, refuse |-> 4,
               done |-> 5, refused |-> 5]
EventPlace == [idle |-> 0, write |-> 1, sent |-> 2, sendfail |-> 2]
PhasePlace == [up |-> 0, closing |-> 1, over |-> 2]
ReaderPlace == [read |-> 0, end |-> 1]

\* From f to g, what has changed has moved on.
Onward(f, g, S, place) == \A x \in S : g[x] # f[x] => place[f[x]] < place[g[x]]

OnwardAll ==
  /\ Onward(call, call', Reqs, CallPlace) /\ Onward(serve, serve', Reqs, ServePlace)
  /\ Onward(event, event', Events, EventPlace)
  /\ Onward(phase, phase', Sides, PhasePlace) /\ Onward(reader, reader', Sides, ReaderPlace)

Moved == call' # call \/ serve' # serve \/ event' # event \/ phase' # phase \/ reader' # reader

\* Nobody comes back to a place, and a step in which nobody moves takes a
\* message out of a channel, or one that was taken out to its end.
Advance ==
  /\ OnwardAll
  /\ \/ Moved
     \/ \E s \in Sides : chan[s] # <<>> /\ chan' = [chan EXCEPT ![s] = Tail(@)]
     \/ /\ chan' = chan /\ spawned' # spawned
        /\ \A s \in Sides : spawned'[s] \subseteq spawned[s]

LEMMA PlaceIs ==
  /\ CallPlace["idle"] = 0 /\ CallPlace["invalid"] = 1 /\ CallPlace["write"] = 1
  /\ CallPlace["wait"] = 2 /\ \A o \in Outcomes : CallPlace[o] = 3
  /\ ServePlace["none"] = 0 /\ ServePlace["handle"] = 1 /\ ServePlace["reply"] = 2
  /\ ServePlace["hook"] = 3 /\ ServePlace["refuse"] = 4 /\ \A e \in Ends : ServePlace[e] = 5
  /\ EventPlace["idle"] = 0 /\ EventPlace["write"] = 1
  /\ EventPlace["sent"] = 2 /\ EventPlace["sendfail"] = 2
  /\ PhasePlace["up"] = 0 /\ PhasePlace["closing"] = 1 /\ PhasePlace["over"] = 2
  /\ ReaderPlace["read"] = 0 /\ ReaderPlace["end"] = 1
  BY DEF CallPlace, ServePlace, EventPlace, PhasePlace, ReaderPlace, Outcomes, Ends

LEMMA OneOnward ==
  ASSUME NEW S, NEW T, NEW f \in [S -> T], NEW x \in S, NEW label, NEW place,
         place[f[x]] < place[label], f[x] # label
  PROVE  LET g == [f EXCEPT ![x] = label] IN g # f /\ Onward(f, g, S, place)
<1> DEFINE g == [f EXCEPT ![x] = label]
<1>1. g[x] = label /\ \A y \in S : y # x => g[y] = f[y]
  OBVIOUS
<1> HIDE DEF g
<1>2. g # f /\ Onward(f, g, S, place)
  BY <1>1 DEF Onward
<1> QED
  BY <1>2 DEF g

LEMMA NoneOnward ==
  ASSUME NEW f, NEW S, NEW place
  PROVE  Onward(f, f, S, place)
  BY DEF Onward

\* One goroutine moves on.
LEMMA CallMoves ==
  ASSUME IInv, NEW r \in Reqs, NEW label, CallTo(r, label), CallPlace[call[r]] < CallPlace[label],
         call[r] # label, UNCHANGED <<serve, event, phase, reader>>
  PROVE  Advance
<1>1. call \in [Reqs -> {"idle", "invalid", "write", "wait"} \cup Outcomes]
  BY DEF IInv, Types, TypeOK
<1>2. call' # call /\ Onward(call, call', Reqs, CallPlace)
  BY ONLY <1>1, CallTo(r, label), CallPlace[call[r]] < CallPlace[label], call[r] # label, r \in Reqs,
          OneOnward DEF CallTo
<1> QED
  BY <1>2, NoneOnward DEF Advance, OnwardAll, Moved

LEMMA ServeMoves ==
  ASSUME IInv, NEW r \in Reqs, NEW label, ServeTo(r, label),
         ServePlace[serve[r]] < ServePlace[label], serve[r] # label,
         UNCHANGED <<call, event, phase, reader>>
  PROVE  Advance
<1>1. serve \in [Reqs -> {"none", "handle", "reply", "hook", "refuse"} \cup Ends]
  BY DEF IInv, Types, TypeOK
<1>2. serve' # serve /\ Onward(serve, serve', Reqs, ServePlace)
  BY ONLY <1>1, ServeTo(r, label), ServePlace[serve[r]] < ServePlace[label], serve[r] # label,
          r \in Reqs, OneOnward DEF ServeTo
<1> QED
  BY <1>2, NoneOnward DEF Advance, OnwardAll, Moved

LEMMA EventMoves ==
  ASSUME IInv, NEW e \in Events, NEW label, EventTo(e, label),
         EventPlace[event[e]] < EventPlace[label], event[e] # label,
         UNCHANGED <<call, serve, phase, reader>>
  PROVE  Advance
<1>1. event \in [Events -> {"idle", "write", "sent", "sendfail"}]
  BY DEF IInv, Types, TypeOK
<1>2. event' # event /\ Onward(event, event', Events, EventPlace)
  BY ONLY <1>1, EventTo(e, label), EventPlace[event[e]] < EventPlace[label], event[e] # label,
          e \in Events, OneOnward DEF EventTo
<1> QED
  BY <1>2, NoneOnward DEF Advance, OnwardAll, Moved

\* The sessions: closing, closing the transport, the end of the reader.
LEMMA SessionAdvances ==
  ASSUME IInv, NEW s \in Sides, Stop(s) \/ Finalize(s) \/ ReaderEnds(s)
  PROVE  Advance
<1>1. phase \in [Sides -> {"up", "closing", "over"}] /\ reader \in [Sides -> {"read", "end"}]
  BY DEF IInv, Types, TypeOK
<1>2. CASE Stop(s) \/ Finalize(s)
  <2>1. PICK label : /\ phase' = [phase EXCEPT ![s] = label] /\ phase[s] # label
                     /\ PhasePlace[phase[s]] < PhasePlace[label]
                     /\ UNCHANGED <<call, serve, event, reader>>
    BY <1>2, PlaceIs DEF Stop, Finalize, callVars, serveVars
  <2>2. phase' # phase /\ Onward(phase, phase', Sides, PhasePlace)
    BY ONLY <1>1, <2>1, s \in Sides, OneOnward
  <2> QED
    BY <2>1, <2>2, NoneOnward DEF Advance, OnwardAll, Moved
<1>3. CASE ReaderEnds(s)
  <2>1. /\ reader' = [reader EXCEPT ![s] = "end"] /\ reader[s] # "end"
        /\ ReaderPlace[reader[s]] < ReaderPlace["end"]
        /\ UNCHANGED <<call, serve, event, phase>>
    BY <1>3, PlaceIs DEF ReaderEnds, callVars, serveVars
  <2>2. reader' # reader /\ Onward(reader, reader', Sides, ReaderPlace)
    BY ONLY <1>1, <2>1, s \in Sides, OneOnward
  <2> QED
    BY <2>1, <2>2, NoneOnward DEF Advance, OnwardAll, Moved
<1> QED
  BY <1>2, <1>3

\* Reading a message, and handling it.
LEMMA IncomingAdvances ==
  ASSUME IInv, NEW s \in Sides, NEW m \in spawned[s], Incoming(s, m)
  PROVE  Advance
<1>1. m \in InFlight(Peer(s)) /\ Peer(s) \in Sides
  BY DEF InFlight, Peer, Sides
<1>2. (m.type # "event" => m.id \in Reqs) /\ (m.type = "request" => serve[m.id] = "none")
  BY <1>1 DEF IInv, FlightOK, Fresh, Meant, Msg
<1>3. spawned \in [Sides -> SUBSET Msg]
  BY DEF IInv, Types
<1>4. ASSUME UNCHANGED <<chan, call, serve, event, phase, reader>>,
             spawned' = [spawned EXCEPT ![s] = @ \ {m}]
      PROVE  Advance
  <2>1. spawned'[s] = spawned[s] \ {m} /\ \A t \in Sides : t # s => spawned'[t] = spawned[t]
    BY ONLY <1>3, <1>4
  <2>2. spawned' # spawned /\ \A t \in Sides : spawned'[t] \subseteq spawned[t]
    BY <2>1
  <2> QED
    BY <1>4, <2>2, NoneOnward DEF Advance, OnwardAll
<1>5. CASE OnEvent(s, m)
  BY <1>4, <1>5 DEF OnEvent, transportVars, sessionVars, callVars, serveVars
<1>6. CASE Resolve(s, m)
  <2>1. CASE call[m.id] = "wait"
    <3>1. PICK o \in {"ok", "err"} : CallTo(m.id, o)
      BY <1>6, <2>1 DEF Resolve
    <3> QED
      BY <1>2, <1>6, <2>1, <3>1, CallMoves, PlaceIs DEF Resolve, sessionVars, serveVars, Outcomes
  <2>2. CASE call[m.id] # "wait"
    BY <1>4, <1>6, <2>2 DEF Resolve, transportVars, sessionVars, serveVars
  <2> QED
    BY <2>1, <2>2
<1>7. CASE Dispatch(s, m)
  <2>1. PICK label \in {"refuse", "handle"} : ServeTo(m.id, label)
    BY <1>7 DEF Dispatch, Fails
  <2>2. m.id \in Reqs /\ serve[m.id] = "none" /\ UNCHANGED <<call, event, phase, reader>>
    BY <1>2, <1>7 DEF Dispatch, sessionVars, callVars
  <2> QED
    BY <2>1, <2>2, ServeMoves, PlaceIs
<1> QED
  BY <1>5, <1>6, <1>7 DEF Incoming

LEMMA ReadAdvances ==
  ASSUME NEW s \in Sides, ReaderReads(s)
  PROVE  Advance
<1>1. /\ chan[Peer(s)] # <<>> /\ chan' = [chan EXCEPT ![Peer(s)] = Tail(@)] /\ Peer(s) \in Sides
      /\ UNCHANGED <<call, serve, event, phase, reader>>
  BY DEF ReaderReads, TransportRead, sessionVars, callVars, serveVars, Peer, Sides
<1> QED
  BY <1>1, NoneOnward DEF Advance, OnwardAll

\* The goroutines of the applications and of the handlers.
LEMMA CallerAdvances ==
  ASSUME IInv, NEW r \in Reqs, Call(r) \/ Caller(r)
  PROVE  Advance
<1>1. PICK label : /\ CallTo(r, label) /\ CallPlace[call[r]] < CallPlace[label] /\ call[r] # label
                   /\ UNCHANGED <<serve, event, phase, reader>>
  BY PlaceIs DEF Call, Caller, CallWrites, CallFails, CallTimesOut, sessionVars, serveVars, Outcomes
<1> QED
  BY <1>1, CallMoves

LEMMA HandlerAdvances ==
  ASSUME IInv, NEW r \in Reqs, Handler(r) \/ Answer(r)
  PROVE  Advance
<1>1. UNCHANGED <<call, event, phase, reader>>
  BY DEF Handler, HandlerFails, PassesOn, HandlerReturns, Answer, Reply, ReplyFails, HookReturns,
         HookFails, Refuse, RefuseFails, sessionVars, callVars
<1>2. \/ serve[r] = "handle" /\ (ServeTo(r, "refuse") \/ ServeTo(r, "reply"))
      \/ serve[r] = "reply" /\ (ServeTo(r, "refuse") \/ ServeTo(r, "hook"))
      \/ serve[r] = "hook" /\ (ServeTo(r, "refuse") \/ ServeTo(r, "done"))
      \/ serve[r] = "refuse" /\ ServeTo(r, "refused")
  BY DEF Handler, HandlerFails, PassesOn, HandlerReturns, Answer, Reply, ReplyFails, HookReturns,
         HookFails, Refuse, RefuseFails, Fails
<1>3. ServePlace["done"] = 5 /\ ServePlace["refused"] = 5
  BY PlaceIs DEF Ends
<1>4. PICK label : /\ ServeTo(r, label) /\ serve[r] # label
                   /\ ServePlace[serve[r]] < ServePlace[label]
  BY <1>2, <1>3, PlaceIs
<1> QED
  BY <1>1, <1>4, ServeMoves

LEMMA NotifierAdvances ==
  ASSUME IInv, NEW e \in Events, Notify(e) \/ Notifier(e)
  PROVE  Advance
<1>1. PICK label : /\ EventTo(e, label) /\ EventPlace[event[e]] < EventPlace[label] /\ event[e] # label
                   /\ UNCHANGED <<call, serve, phase, reader>>
  BY PlaceIs DEF Notify, Notifier, NotifyWrites, NotifyFails, sessionVars, callVars, serveVars
<1> QED
  BY <1>1, EventMoves

\* Two sessions do not keep each other busy: a request is called, served and
\* answered going forward only, a reader's goroutine takes each message once,
\* and nothing is written without a caller, a handler or a notifier moving on.
\* So finitely many requests and events leave finitely many steps, and with
\* NobodyBlocks the two sessions come to rest.
THEOREM OnlyForward == Spec => [][Advance]_vars
<1>1. IInv /\ [Next]_vars => [Advance]_vars
  BY SessionAdvances, IncomingAdvances, ReadAdvances, CallerAdvances, HandlerAdvances,
     NotifierAdvances
  DEF Next, Progress, Start, Reader
<1> QED
  BY <1>1, Invariance, PTL DEF Spec
=============================================================================
