----------------------------- MODULE MCOverlap ------------------------------
(***************************************************************************)
(* Overlapping requests that keep running: small instances of the payroll  *)
(* engine and of the background jobs, which share no state.  A behaviour   *)
(* is one of one of them, which the initial state chooses, and the other   *)
(* rests.                                                                  *)
(***************************************************************************)
EXTENDS Payroll, Jobs

VARIABLE part

allVars == <<part, vars, jobVars>>

OverlapInit == part \in {"payroll", "jobs"} /\ Init /\ JobInit

OverlapNext ==
    \/ part = "payroll" /\ Next /\ UNCHANGED <<part, jobVars>>
    \/ part = "jobs" /\ JobNext /\ UNCHANGED <<part, vars>>

\* The fairness of Payroll and of Jobs: the part that rests has no steps, so that
\* one condition for each request covers both.
StepOf(w) ==
    \/ part = "payroll" /\ w \in Workers /\ Step(w) /\ UNCHANGED <<part, jobVars>>
    \/ part = "jobs" /\ w \in Triggers /\ JobStep(w) /\ UNCHANGED <<part, vars>>
LockOf(w) == part = "jobs" /\ Lock(w) /\ UNCHANGED <<part, vars>>

OverlapSpec ==
    /\ OverlapInit /\ [][OverlapNext]_allVars
    /\ \A w \in Workers \cup Triggers : WF_allVars(StepOf(w))
    /\ \A w \in Triggers : SF_allVars(LockOf(w))
=============================================================================
