------------------------------ MODULE Messages ------------------------------
(***************************************************************************)
(* The wire format (proto/message.go, request.go, response.go, event.go,   *)
(* error.go): what a message must have to be sent or accepted, how a JSON  *)
(* object is told to be an event, a request or a response, and how a       *)
(* handler's error becomes an answer.                                      *)
(*                                                                         *)
(* A payload (params, result, data) is "fine", "invalid": its type has a   *)
(* Validate that refuses it, or "alien": it cannot be decoded into the     *)
(* type the handler wants.  typed: it is a Go value that may have such a   *)
(* Validate, not the generic value JSON is decoded into.  The absent value *)
(* of a field is "".                                                       *)
(***************************************************************************)

Version == "1"

\* A ResponseError: its code, and whether its message is not empty.
Codes == {"0", "400", "500", "501"}
ResponseError == [code : Codes, text : BOOLEAN]
NoError == [code |-> "nil", text |-> FALSE]

ErrorValid(e) == e.code # "0" /\ e.text

NewError(code, text) == [code |-> code, text |-> text]

\* A Go error: kind is "response" for one that wraps a ResponseError.
PlainError(text) == [kind |-> "plain", code |-> "0", text |-> text]

ToResponseError(err) ==
  IF err.kind = "response" THEN NewError(err.code, err.text) ELSE NewError("500", err.text)
-----------------------------------------------------------------------------
Message(type, version, id, name, payload, typed, error) ==
  [type |-> type, version |-> version, id |-> id, name |-> name,
   payload |-> payload, typed |-> typed, error |-> error]

NewRequest(id, method, payload, typed) ==
  Message("request", Version, id, method, payload, typed, NoError)
NewEvent(id, name, payload, typed) ==
  Message("event", Version, id, name, payload, typed, NoError)

\* The answers to a request carry its version and its ID.
Ok(req, result) == Message("response", req.version, req.id, "", result, TRUE, NoError)
NotOk(req, err) == Message("response", req.version, req.id, "", "fine", TRUE, err)

Validate(m) ==
  /\ m.version = Version
  /\ m.id # ""
  /\ m.type # "response" => m.name # ""
  /\ m.error # NoError => ErrorValid(m.error)
  /\ m.typed => m.payload # "invalid"

\* json.Marshal: the fields of the message's own type, empty ones left out.
Encode(m) ==
  [version |-> m.version, payload |-> m.payload, error |-> m.error,
   id |-> IF m.type = "response" THEN "" ELSE m.id,
   response |-> IF m.type = "response" THEN m.id ELSE "",
   event |-> IF m.type = "event" THEN m.name ELSE "",
   method |-> IF m.type = "request" THEN m.name ELSE ""]

Unparsable == Message("none", "", "", "", "fine", FALSE, NoError)

\* parseMessage: an object with several of the three names is what the first
\* of them says.
Parse(raw) ==
  IF raw.event # "" THEN
    Message("event", raw.version, raw.id, raw.event, raw.payload, FALSE, NoError)
  ELSE IF raw.method # "" THEN
    Message("request", raw.version, raw.id, raw.method, raw.payload, FALSE, NoError)
  ELSE IF raw.response # "" THEN
    Message("response", raw.version, raw.response, "", raw.payload, FALSE, raw.error)
  ELSE Unparsable

\* ParseValidMessage accepts it.
Accepted(raw) == Parse(raw).type # "none" /\ Validate(Parse(raw))
=============================================================================
