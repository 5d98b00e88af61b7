--------------------------- MODULE PayrollStages ---------------------------
(***************************************************************************)
(* What the payroll engine promises of a period, without its requests and  *)
(* statements: payslips are written while the run is open, one at a time;  *)
(* its totals change only when a pass over the employees is completed,     *)
(* which makes it VALIDATED; and a run that is LOCKED keeps its payslips   *)
(* and totals, and can only be PUBLISHED.                                  *)
(***************************************************************************)
CONSTANTS People, NoPay, NoTotals

VARIABLES stage, paid, totals

stages == <<stage, paid, totals>>

Open == {"PROCESSING", "VALIDATED", "APPROVED"}

Init ==
    /\ stage = "NONE"
    /\ paid = [p \in People |-> NoPay]
    /\ totals = NoTotals

\* The first pass over the period begins.
Begin ==
    /\ stage = "NONE"
    /\ stage' = "PROCESSING"
    /\ UNCHANGED <<paid, totals>>

\* A pass writes the payslip of p, with any amounts.
Pay(p) ==
    /\ stage \in Open
    /\ paid' = [paid EXCEPT ![p] = paid'[p]]
    /\ UNCHANGED <<stage, totals>>

\* A pass is complete and stores its totals.
Complete ==
    /\ stage \in Open
    /\ stage' = "VALIDATED"
    /\ UNCHANGED paid

\* An administrator moves an open run, to whatever stage is asked for.
Move ==
    /\ stage \in Open
    /\ stage' \in {"VALIDATED", "APPROVED", "LOCKED"}
    /\ UNCHANGED <<paid, totals>>

Publish ==
    /\ stage \in Open \cup {"LOCKED"}
    /\ stage' = "PUBLISHED"
    /\ UNCHANGED <<paid, totals>>

Next == Begin \/ (\E p \in People : Pay(p)) \/ Complete \/ Move \/ Publish

Spec == Init /\ [][Next]_stages
=============================================================================
