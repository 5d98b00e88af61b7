------------------------------ MODULE MCPayroll ------------------------------
(***************************************************************************)
(* Small instances of Payroll for TLC, and what the documents of the       *)
(* repository claim of it.                                                 *)
(***************************************************************************)
EXTENDS Payroll, TLC

-----------------------------------------------------------------------------
\* What the documents of the repository say of the engine; TLC refutes each.

\* TC-PAY-09: the locked state is preserved, only PUBLISH leaves it.
LockedStatePreserved ==
    [][run.status = "LOCKED" => run'.status \in {"LOCKED", "PUBLISHED"}]_vars

\* TC-PAY-06: SUM(payslips.net_pay) = payroll_runs.total_net_pay.
PayslipsReconcile ==
    Quiescent /\ run.status \notin {"NONE", "PROCESSING"} =>
        AddsUp(Employees, run.totals.net)

\* TC-PAY-05: an advance with status DEDUCTED is deducted on a payslip.
DeductedAdvanceOnPayslip ==
    Quiescent => \A a \in Advances :
        advances[a].status = "DEDUCTED" => slips[advances[a].emp].advance = a

-----------------------------------------------------------------------------
\* Overlapping requests are interchangeable.
WorkerSymmetry == Permutations(Workers)

==============================================================================
