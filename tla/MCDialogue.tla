----------------------------- MODULE MCDialogue -----------------------------
(* A request whose handler sends one back, and an event that competes with  *)
(* it for the channel.                                                      *)
EXTENDS Dialogue

CONSTANTS r1, r2, e1

MCTop == {r1}
MCNested == {r2}
MCWithin == [n \in {r2} |-> r1]
MCFrom == [r \in {r1, r2} |-> IF r = r1 THEN "a" ELSE "b"]
MCEvents == {e1}
MCEFrom == [e \in {e1} |-> "b"]
=============================================================================
