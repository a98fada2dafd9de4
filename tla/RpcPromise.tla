----------------------------- MODULE RpcPromise -----------------------------
(***************************************************************************)
(* What Session.Request promises its caller, and a request handler its     *)
(* author: each request is performed at most once, possibly after the      *)
(* caller has given up; it ends once, with one of four outcomes.  "ok"     *)
(* means that it was performed, "err" that the peer reported an error,     *)
(* before or after performing it, "sendfail" that it never will be         *)
(* performed.  "timeout" leaves everything open.                           *)
(***************************************************************************)
CONSTANT Reqs

VARIABLES
  phase,     \* of each request: "idle", "open" or its outcome
  performed, \* the requests whose handler function has succeeded
  failed     \* the requests whose handling has produced an error

pvars == <<phase, performed, failed>>

Outcomes == {"ok", "err", "timeout", "sendfail"}

PInit == phase = [r \in Reqs |-> "idle"] /\ performed = {} /\ failed = {}

Call(r) ==
  /\ phase[r] = "idle"
  /\ phase' = [phase EXCEPT ![r] = "open"]
  /\ UNCHANGED <<performed, failed>>

Perform(r) ==
  /\ phase[r] \notin {"idle", "sendfail"} /\ r \notin performed
  /\ performed' = performed \cup {r}
  /\ UNCHANGED <<phase, failed>>

Fail(r) ==
  /\ phase[r] \notin {"idle", "sendfail"} /\ r \notin failed
  /\ failed' = failed \cup {r}
  /\ UNCHANGED <<phase, performed>>

Finish(r, outcome) ==
  /\ phase[r] = "open"
  /\ outcome = "ok" => r \in performed
  /\ outcome = "err" => r \in failed
  /\ outcome = "sendfail" => r \notin performed \cup failed
  /\ phase' = [phase EXCEPT ![r] = outcome]
  /\ UNCHANGED <<performed, failed>>

PNext == \E r \in Reqs : \/ Call(r) \/ Perform(r) \/ Fail(r)
                         \/ \E outcome \in Outcomes : Finish(r, outcome)

PSpec == PInit /\ [][PNext]_pvars
=============================================================================
