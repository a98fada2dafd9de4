--------------------------- MODULE SessionPromise ---------------------------
(***************************************************************************)
(* What a session promises its owner and those who close it: once started  *)
(* and asked to end, by whomever, it closes the audio channel and the      *)
(* transport and is over.  Nobody is told that it is over before that: not *)
(* a caller of Close that gets no error, not the owner that gets nil from  *)
(* the channel of Run.  A caller may give up at any time; the owner may be *)
(* told of an error at any time; each is told once.                        *)
(***************************************************************************)
CONSTANT Callers  \* of Close

VARIABLES
  phase,    \* of the session: "new", "up" or "over"
  asked,    \* somebody asked it to end
  torn,     \* what has been closed
  outcome,  \* of each Close: "idle", "open", "ok" or "timeout"
  told      \* what the owner heard: "none", "nil" or "err"

pvars == <<phase, asked, torn, outcome, told>>

Resources == {"audio", "transport"}

PInit ==
  /\ phase = "new" /\ asked = FALSE /\ torn = {}
  /\ outcome = [c \in Callers |-> "idle"] /\ told = "none"

Start ==
  /\ phase = "new"
  /\ phase' = "up"
  /\ UNCHANGED <<asked, torn, outcome, told>>

Ask ==
  /\ ~asked
  /\ asked' = TRUE
  /\ UNCHANGED <<phase, torn, outcome, told>>

TearDown(r) ==
  /\ phase = "up" /\ asked /\ r \notin torn
  /\ torn' = torn \cup {r}
  /\ UNCHANGED <<phase, asked, outcome, told>>

Finish ==
  /\ phase = "up" /\ torn = Resources
  /\ phase' = "over"
  /\ UNCHANGED <<asked, torn, outcome, told>>

Call(c) ==
  /\ outcome[c] = "idle"
  /\ outcome' = [outcome EXCEPT ![c] = "open"]
  /\ UNCHANGED <<phase, asked, torn, told>>

Return(c, how) ==
  /\ outcome[c] = "open"
  /\ how = "ok" => phase = "over"
  /\ outcome' = [outcome EXCEPT ![c] = how]
  /\ UNCHANGED <<phase, asked, torn, told>>

Tell(what) ==
  /\ told = "none"
  /\ what = "nil" => phase = "over"
  /\ told' = what
  /\ UNCHANGED <<phase, asked, torn, outcome>>

PNext ==
  \/ Start \/ Ask \/ Finish
  \/ \E r \in Resources : TearDown(r)
  \/ \E c \in Callers : Call(c) \/ \E how \in {"ok", "timeout"} : Return(c, how)
  \/ \E what \in {"nil", "err"} : Tell(what)

PSpec == PInit /\ [][PNext]_pvars
=============================================================================
