---------------------------- MODULE OneDecision ----------------------------
(***************************************************************************)
(* What an approval inbox promises to a requester, without its handlers:   *)
(* a request is submitted, then decided once, and a decision is final.     *)
(***************************************************************************)
CONSTANTS Requests, Outcomes

VARIABLE outcome

Open == {"NONE", "PENDING"}

Init == outcome \in [Requests -> Open]

Submit(r) ==
    /\ outcome[r] = "NONE"
    /\ outcome' = [outcome EXCEPT ![r] = "PENDING"]

Decide(r, o) ==
    /\ outcome[r] = "PENDING"
    /\ outcome' = [outcome EXCEPT ![r] = o]

Next == \E r \in Requests : Submit(r) \/ \E o \in Outcomes : Decide(r, o)

Spec == Init /\ [][Next]_outcome
=============================================================================
