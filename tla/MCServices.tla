----------------------------- MODULE MCServices -----------------------------
(***************************************************************************)
(* Small instances of the services that share no table: the helpdesk,      *)
(* password resets, attendance and the paging of a list.  Since no action  *)
(* of one reads what another writes, their interleavings show nothing new: *)
(* a behaviour is one of one service, which the initial state chooses, and *)
(* the others rest.                                                        *)
(***************************************************************************)
EXTENDS Helpdesk, Credentials, Attendance, Paging, TLC

CONSTANTS r1, x1, x2, x3, x4, x5

VARIABLE service

restVars == <<deskVars, credVars, attVars, pageVars>>
vars == <<service, restVars>>

\* A regularization of the first day: the whole of it.
MorningIn == r1 :> 0
EveningOut == r1 :> 1

\* A day that a script has filled in.
AbsentDay == {Seeded("ABSENT", "VALIDATED")}

ThreeUsers == <<x3, x2, x1>>

\* The first state of a service at rest is one of its first states.
Init ==
    /\ service \in {"helpdesk", "credentials", "attendance", "paging"}
    /\ DeskInit
    /\ CredInit /\ (service # "credentials" => enabled = [u \in UserIds |-> TRUE])
    /\ AttInit /\ (service # "attendance" => daily = [d \in Days |-> NoRow])
    /\ PageInit /\ (service # "paging" => asked = DefaultLimit)

Next ==
    \/ service = "helpdesk" /\ DeskNext /\ UNCHANGED <<service, credVars, attVars, pageVars>>
    \/ service = "credentials" /\ CredNext /\ UNCHANGED <<service, deskVars, attVars, pageVars>>
    \/ service = "attendance" /\ AttNext /\ UNCHANGED <<service, deskVars, credVars, pageVars>>
    \/ service = "paging" /\ PageNext /\ UNCHANGED <<service, deskVars, credVars, attVars>>

Spec == Init /\ [][Next]_vars

\* Requests in flight are interchangeable.
RequestSymmetry ==
    Permutations(Desks) \cup Permutations(AuthRequests) \cup Permutations(Punches)
=============================================================================
