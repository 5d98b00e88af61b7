------------------------------- MODULE Payroll -------------------------------
(***************************************************************************)
(* The payroll engine (backend/internal/payroll) for one payroll period.   *)
(*                                                                         *)
(* Every HTTP request runs in its own goroutine and talks to PostgreSQL    *)
(* with one autocommitted statement at a time: no handler opens a          *)
(* transaction.  A step of the model is one SQL statement together with    *)
(* the Go code that runs before the next one, and steps of different       *)
(* requests interleave freely.                                             *)
(*                                                                         *)
(* The database is run (the period's row of payroll_runs), slips (its rows *)
(* of payslips), advances (payroll_advances of the period), structures     *)
(* (the active rows of employee_salary_structures), active (employees with *)
(* status ACTIVE and not deleted), and absent and unvalidated (what        *)
(* payroll reads of attendance_daily_status).  A request is in pc[w] with  *)
(* the local variables ctx[w].                                             *)
(***************************************************************************)
EXTENDS Integers, Sequences, FiniteSetsExt, SalaryMatrix

CONSTANTS
    Employees,      \* employees of the organization
    Advances,       \* identities of salary advances for the period
    NoAdvance,      \* the empty advanceID
    NoEmployee,     \* no employee selected yet
    Workers,        \* requests that can be in flight at the same time
    Salaries,       \* base salaries HR may store, in 5 paise (0: an input below half a paisa)
    Amounts,        \* amounts of advances as stored, in units of 1/3000 rupee
    MaxAbsent,      \* bound: LOP days of an employee in the period
    MaxActive,      \* bound: rows of active structures of one employee
    Faults          \* may a request be cut off, or a statement fail?

ASSUME ConstantsAssumption ==
    /\ IsFiniteSet(Employees)
    /\ NoAdvance \notin Advances
    /\ NoEmployee \notin Employees
    /\ Salaries \subseteq Nat
    /\ Amounts \subseteq Nat \ {0}
    /\ MaxAbsent \in Nat
    /\ MaxActive \in Nat \ {0}
    /\ Faults \in BOOLEAN

VARIABLES
    run, slips, advances, structures, active, absent, unvalidated,
    pc, ctx,
    last            \* auxiliary: what the latest completed pass covered

db == <<run, slips, advances, structures, active, absent, unvalidated>>
vars == <<db, pc, ctx, last>>

-----------------------------------------------------------------------------
\* Rows

\* What the approval inbox stores as status: the verdict of a single approval,
\* the raw action of a bulk request.
Decisions == {"APPROVED", "REJECTED", "APPROVE", "REJECT"}

RunStatus == {"NONE", "PROCESSING", "VALIDATED", "APPROVED", "LOCKED", "PUBLISHED"}
AdvanceStatus == {"NONE", "PENDING", "APPROVED", "REJECTED", "DEDUCTED"} \cup Decisions
Actions == {"VALIDATE", "APPROVE", "LOCK", "PUBLISH"}

Totals == [employees : Nat, gross : Nat, ded : Nat, net : Nat, lop : Nat, adv : Nat]
NoTotals == [employees |-> 0, gross |-> 0, ded |-> 0, net |-> 0, lop |-> 0, adv |-> 0]

Run == [status : RunStatus, totals : Totals]

\* advance is auxiliary: payslips has no column for it.
Slip == [status : {"NONE", "GENERATED", "PUBLISHED"},
         gross : Nat, ded : Nat, net : Nat, advance : Advances \cup {NoAdvance}]
NoSlip == [status |-> "NONE", gross |-> 0, ded |-> 0, net |-> 0, advance |-> NoAdvance]

Advance == [status : AdvanceStatus, emp : Employees, amount : Nat]

\* A row of the employees LEFT JOIN employee_salary_structures query; k tells
\* apart two active structures of one employee.
EmpRow == [emp : Employees, k : Nat, base : Nat]

Row(e) ==
    IF structures[e] = << >>
      THEN {[emp |-> e, k |-> 0, base |-> DefaultBaseSalary]}
      ELSE {[emp |-> e, k |-> i, base |-> structures[e][i]] : i \in DOMAIN structures[e]}

EmpList == UNION {Row(e) : e \in active}

\* Local variables of a request.  todo: rows not processed yet; emp, base: the
\* row being processed, or the structure being saved; done, taken: employees
\* processed and advances marked in this pass (auxiliary).
Local == [todo : SUBSET EmpRow, emp : Employees \cup {NoEmployee}, base : Nat, lop : Nat,
          advance : Advances \cup {NoAdvance}, amount : Nat, totals : Totals,
          action : Actions, done : SUBSET Employees, taken : SUBSET Advances]
NoLocal == [todo |-> {}, emp |-> NoEmployee, base |-> 0, lop |-> 0,
            advance |-> NoAdvance, amount |-> 0, totals |-> NoTotals,
            action |-> "VALIDATE", done |-> {}, taken |-> {}]

PC == {"idle", "fetch", "insert", "employees", "rows", "advance", "mark",
       "slip", "transition", "publish", "structure"}

\* A request that has passed its last check of the run's status and will
\* still write to the run or to its payslips.
InFlight(w) ==
    pc[w] \in {"employees", "rows", "advance", "mark", "slip", "transition", "publish"}

Quiescent == \A w \in Workers : ~InFlight(w)

TypeOK ==
    /\ run \in Run
    /\ slips \in [Employees -> Slip]
    /\ advances \in [Advances -> Advance]
    /\ structures \in [Employees -> Seq(Salaries)]
    /\ active \in SUBSET Employees
    /\ absent \in [Employees -> Nat]
    /\ unvalidated \in SUBSET Employees
    /\ pc \in [Workers -> PC]
    /\ ctx \in [Workers -> Local]
    /\ last \in [emps : SUBSET Employees, advances : SUBSET Advances]

\* The local variables a request is about to use have been set on the way.
RequestOK ==
    \A w \in Workers :
        /\ pc[w] \in {"advance", "mark", "slip", "structure"} => ctx[w].emp \in Employees
        /\ pc[w] = "mark" => ctx[w].advance \in Advances
        /\ pc[w] = "structure" => ctx[w].base \in Salaries

\* The period before payroll: employees and attendance exist, some advances
\* may already be pending (the column default of payroll_advances.status).
Init ==
    /\ run = [status |-> "NONE", totals |-> NoTotals]
    /\ slips = [e \in Employees |-> NoSlip]
    /\ advances \in [Advances -> [status : {"NONE", "PENDING"}, emp : Employees,
                                  amount : Amounts]]
    /\ structures = [e \in Employees |-> << >>]
    /\ active = Employees
    /\ absent = [e \in Employees |-> 0]
    /\ unvalidated = {}
    /\ pc = [w \in Workers |-> "idle"]
    /\ ctx = [w \in Workers |-> NoLocal]
    /\ last = [emps |-> {}, advances |-> {}]

-----------------------------------------------------------------------------
\* Control helpers

Goto(w, label) == pc' = [pc EXCEPT ![w] = label]

\* The response is sent: the goroutine and its local variables are gone.
Return(w) ==
    /\ pc' = [pc EXCEPT ![w] = "idle"]
    /\ ctx' = [ctx EXCEPT ![w] = NoLocal]

-----------------------------------------------------------------------------
\* HandleProcessPayroll

\* checkPayrollReadiness: attendance waiting for validation blocks the period;
\* its other queries only produce warnings and statistics.  The error of the
\* attendance query is ignored, and no records means no objection.
checkPayrollReadiness == unvalidated = {} \/ Faults

ProcessCheck(w) ==
    /\ pc[w] = "idle"
    /\ checkPayrollReadiness
    /\ Goto(w, "fetch")
    /\ UNCHANGED <<db, ctx, last>>

\* Mutant: the check refuses PUBLISHED runs only.
ProcessFetchLocked(w) ==
    /\ pc[w] = "fetch"
    /\ \/ /\ run.status = "PUBLISHED"
          /\ Return(w)
       \/ /\ run.status # "PUBLISHED"
          /\ Goto(w, IF run.status = "NONE" THEN "insert" ELSE "employees")
          /\ UNCHANGED ctx
    /\ UNCHANGED <<db, last>>

\* SELECT id, status FROM payroll_runs: a locked or published run is refused.
\* Any error, not only "no rows", is taken for a period without a run.
ProcessFetch(w) ==
    /\ pc[w] = "fetch"
    /\ \/ /\ run.status = "NONE"
          /\ Goto(w, "insert")
          /\ UNCHANGED ctx
       \/ /\ run.status \in {"LOCKED", "PUBLISHED"}
          /\ Return(w)
       \/ /\ run.status \notin {"NONE", "LOCKED", "PUBLISHED"}
          /\ Goto(w, "employees")
          /\ UNCHANGED ctx
       \/ /\ Faults
          /\ Goto(w, "insert")
          /\ UNCHANGED ctx
    /\ UNCHANGED <<db, last>>

\* Mutant: an upsert, which returns the run that exists, whatever its status is.
ProcessInsertUpsert(w) ==
    /\ pc[w] = "insert"
    /\ run' = IF run.status = "NONE" THEN [run EXCEPT !.status = "PROCESSING"] ELSE run
    /\ Goto(w, "employees")
    /\ UNCHANGED <<ctx, slips, advances, structures, active, absent, unvalidated, last>>

\* INSERT INTO payroll_runs: UNIQUE(organization_id, month, year) makes the
\* later of two racing inserts fail, and its request answers 500.
ProcessInsert(w) ==
    /\ pc[w] = "insert"
    /\ \/ /\ run.status = "NONE"
          /\ run' = [run EXCEPT !.status = "PROCESSING"]
          /\ Goto(w, "employees")
          /\ UNCHANGED ctx
       \/ /\ run.status # "NONE"
          /\ Return(w)
          /\ UNCHANGED run
    /\ UNCHANGED <<slips, advances, structures, active, absent, unvalidated, last>>

\* SELECT ... FROM employees LEFT JOIN employee_salary_structures.  rows.Err is
\* not looked at: after a read that broke off the pass runs on some of the rows.
ProcessEmployees(w) ==
    /\ pc[w] = "employees"
    /\ \E todo \in SUBSET EmpList :
         /\ todo = EmpList \/ Faults
         /\ ctx' = [ctx EXCEPT ![w].todo = todo]
    /\ Goto(w, "rows")
    /\ UNCHANGED <<db, last>>

\* The loop takes the next row (the query has no ORDER BY) and counts the
\* employee's LOP days; they are 0 when the query fails.
RowLop(w) ==
    /\ pc[w] = "rows"
    /\ \E r \in ctx[w].todo, lop \in 0 .. MaxAbsent :
         /\ lop = absent[r.emp] \/ (Faults /\ lop = 0)
         /\ ctx' = [ctx EXCEPT ![w].todo = @ \ {r}, ![w].emp = r.emp, ![w].base = r.base,
                               ![w].lop = lop]
    /\ Goto(w, "advance")
    /\ UNCHANGED <<db, last>>

\* The outstanding advances of employee e.
Outstanding(e) ==
    {a \in Advances : advances[a].emp = e /\ advances[a].status \in {"PENDING", "APPROVED"}}

\* SELECT id, amount FROM payroll_advances ... LIMIT 1; an error counts as none.
RowAdvance(w) ==
    /\ pc[w] = "advance"
    /\ \/ \E a \in Outstanding(ctx[w].emp) :
            /\ ctx' = [ctx EXCEPT ![w].advance = a, ![w].amount = advances[a].amount]
            /\ Goto(w, "mark")
       \/ /\ Outstanding(ctx[w].emp) = {} \/ Faults
          /\ ctx' = [ctx EXCEPT ![w].advance = NoAdvance, ![w].amount = 0]
          /\ Goto(w, "slip")
    /\ UNCHANGED <<db, last>>

\* UPDATE payroll_advances SET status = 'DEDUCTED': by id alone, error ignored.
RowMarkAdvance(w) ==
    /\ pc[w] = "mark"
    /\ \/ advances' = [advances EXCEPT ![ctx[w].advance].status = "DEDUCTED"]
       \/ Faults /\ UNCHANGED advances
    /\ ctx' = [ctx EXCEPT ![w].taken = @ \cup {ctx[w].advance}]
    /\ Goto(w, "slip")
    /\ UNCHANGED <<run, slips, structures, active, absent, unvalidated, last>>

\* Mutant: the net total is computed from gross and deductions, without the
\* floor at zero of the payslips.
AddTotalsWithoutFloor(t, s, lop, amount) ==
    [employees |-> t.employees + 1, gross |-> t.gross + s.gross, ded |-> t.ded + s.ded,
     net |-> t.net + s.gross - s.ded, lop |-> t.lop + lop, adv |-> t.adv + amount]

\* The totals of a pass after one more row.
AddTotals(t, s, lop, amount) ==
    [employees |-> t.employees + 1, gross |-> t.gross + s.gross, ded |-> t.ded + s.ded,
     net |-> t.net + s.net, lop |-> t.lop + lop, adv |-> t.adv + amount]

\* INSERT INTO payslips ... ON CONFLICT DO UPDATE, error ignored, and the
\* grand totals.  A base salary of 0 has no components: Earnings[0] panics,
\* and the recovery middleware ends the request.
RowPayslip(w) ==
    LET c == ctx[w]
        s == SlipAmounts(c.base, c.lop, c.amount)
    IN  /\ pc[w] = "slip"
        /\ \/ /\ CalculateSalaryBreakdown(c.base).components
              /\ \/ slips' = [slips EXCEPT ![c.emp] =
                                [status |-> "GENERATED", gross |-> ToPaise(s.gross),
                                 ded |-> ToPaise(s.ded), net |-> ToPaise(s.net),
                                 advance |-> c.advance]]
                 \/ Faults /\ UNCHANGED slips
              /\ ctx' = [ctx EXCEPT ![w].totals = AddTotals(@, s, c.lop, c.amount),
                                    ![w].done = @ \cup {c.emp}]
              /\ Goto(w, "rows")
           \/ /\ ~CalculateSalaryBreakdown(c.base).components
              /\ Return(w)
              /\ UNCHANGED slips
        /\ UNCHANGED <<run, advances, structures, active, absent, unvalidated, last>>

\* Mutant: the update stores the totals but leaves the status alone.
ProcessFinishKeepingStatus(w) ==
    /\ pc[w] = "rows"
    /\ ctx[w].todo = {}
    /\ run' = [run EXCEPT !.totals = ctx[w].totals]
    /\ last' = [emps |-> ctx[w].done, advances |-> ctx[w].taken]
    /\ Return(w)
    /\ UNCHANGED <<slips, advances, structures, active, absent, unvalidated>>

\* The totals as payroll_runs keeps them.
StoredTotals(t) ==
    [t EXCEPT !.gross = ToPaise(@), !.ded = ToPaise(@), !.net = ToPaise(@), !.adv = ToPaise(@)]

\* The loop is over: UPDATE payroll_runs SET status = 'VALIDATED' and the
\* totals, by id alone, error ignored.
ProcessFinish(w) ==
    /\ pc[w] = "rows"
    /\ ctx[w].todo = {}
    /\ \/ /\ run' = [status |-> "VALIDATED", totals |-> StoredTotals(ctx[w].totals)]
          /\ last' = [emps |-> ctx[w].done, advances |-> ctx[w].taken]
       \/ Faults /\ UNCHANGED <<run, last>>
    /\ Return(w)
    /\ UNCHANGED <<slips, advances, structures, active, absent, unvalidated>>

-----------------------------------------------------------------------------
\* HandleTransitionState

\* Mutant: the check of PUBLISHED is missing.
TransitionReadPublished(w, a) ==
    /\ pc[w] = "idle"
    /\ run.status # "NONE"
    /\ run.status = "LOCKED" => a = "PUBLISH"
    /\ ctx' = [ctx EXCEPT ![w].action = a]
    /\ Goto(w, "transition")
    /\ UNCHANGED <<db, last>>

\* SELECT status, then the two immutability checks; the requested action
\* itself is not compared with the current status.
TransitionRead(w, a) ==
    /\ pc[w] = "idle"
    /\ run.status \notin {"NONE", "PUBLISHED"}
    /\ run.status = "LOCKED" => a = "PUBLISH"
    /\ ctx' = [ctx EXCEPT ![w].action = a]
    /\ Goto(w, "transition")
    /\ UNCHANGED <<db, last>>

\* Mutant: the action of the request is stored as the status.
NextStatusRaw(a) == a

NextStatus(a) ==
    CASE a = "VALIDATE" -> "VALIDATED"
      [] a = "APPROVE" -> "APPROVED"
      [] a = "LOCK" -> "LOCKED"
      [] a = "PUBLISH" -> "PUBLISHED"

\* UPDATE payroll_runs SET status, error ignored; PUBLISH goes on.
TransitionWrite(w) ==
    /\ pc[w] = "transition"
    /\ \/ run' = [run EXCEPT !.status = NextStatus(ctx[w].action)]
       \/ Faults /\ UNCHANGED run
    /\ \/ /\ ctx[w].action = "PUBLISH"
          /\ Goto(w, "publish")
          /\ UNCHANGED ctx
       \/ /\ ctx[w].action # "PUBLISH"
          /\ Return(w)
    /\ UNCHANGED <<slips, advances, structures, active, absent, unvalidated, last>>

\* Mutant: the payslips are left alone.
TransitionSlipsForgotten(w) ==
    /\ pc[w] = "publish"
    /\ Return(w)
    /\ UNCHANGED <<db, last>>

\* UPDATE payslips SET status = 'PUBLISHED' of every payslip of the run.
TransitionSlips(w) ==
    /\ pc[w] = "publish"
    /\ \/ slips' = [e \in Employees |->
                      IF slips[e].status = "NONE" THEN slips[e]
                      ELSE [slips[e] EXCEPT !.status = "PUBLISHED"]]
       \/ Faults /\ UNCHANGED slips
    /\ Return(w)
    /\ UNCHANGED <<run, advances, structures, active, absent, unvalidated, last>>

-----------------------------------------------------------------------------
\* HandleSaveStructure

\* Mutant: the current structure is not deactivated.
SaveDeactivateForgotten(w, e, b) ==
    /\ pc[w] = "idle"
    /\ ctx' = [ctx EXCEPT ![w].emp = e, ![w].base = b]
    /\ Goto(w, "structure")
    /\ UNCHANGED <<db, last>>

\* UPDATE employee_salary_structures SET is_active = false, error ignored.
SaveDeactivate(w, e, b) ==
    /\ pc[w] = "idle"
    /\ \/ structures' = [structures EXCEPT ![e] = << >>]
       \/ Faults /\ UNCHANGED structures
    /\ ctx' = [ctx EXCEPT ![w].emp = e, ![w].base = b]
    /\ Goto(w, "structure")
    /\ UNCHANGED <<run, slips, advances, active, absent, unvalidated, last>>

\* INSERT INTO employee_salary_structures ... is_active = true.
SaveInsert(w) ==
    /\ pc[w] = "structure"
    /\ Len(structures[ctx[w].emp]) < MaxActive
    /\ structures' = [structures EXCEPT ![ctx[w].emp] = Append(@, ctx[w].base)]
    /\ Return(w)
    /\ UNCHANGED <<run, slips, advances, active, absent, unvalidated, last>>

-----------------------------------------------------------------------------
\* Requests of one statement, and the rest of the system

\* HandleCreateAdvance stores a new advance as APPROVED.
CreateAdvance(a, e, amt) ==
    /\ advances[a].status = "NONE"
    /\ advances' = [advances EXCEPT ![a] = [status |-> "APPROVED", emp |-> e, amount |-> amt]]
    /\ UNCHANGED <<run, slips, structures, active, absent, unvalidated, pc, ctx, last>>

\* HandleApproveAdvance: UPDATE by id, whatever the status is.
ApproveAdvance(a) ==
    /\ advances[a].status # "NONE"
    /\ advances' = [advances EXCEPT ![a].status = "APPROVED"]
    /\ UNCHANGED <<run, slips, structures, active, absent, unvalidated, pc, ctx, last>>

\* The universal approval inbox (workflow.updateTaskStatus) decides an advance
\* only while it is PENDING, and stores the status it is given.
DecideAdvance(a, status) ==
    /\ advances[a].status = "PENDING"
    /\ advances' = [advances EXCEPT ![a].status = status]
    /\ UNCHANGED <<run, slips, structures, active, absent, unvalidated, pc, ctx, last>>

\* Attendance of the period reaches the database from outside the API (device
\* import, seeding), validated or not.
AttendanceImported(e) ==
    /\ \E n \in 0 .. MaxAbsent : absent' = [absent EXCEPT ![e] = n]
    /\ unvalidated' \in {unvalidated \cup {e}, unvalidated \ {e}}
    /\ UNCHANGED <<run, slips, advances, structures, active, pc, ctx, last>>

\* HandlePunch, IN: a new day waits for validation; a day recorded as absent
\* becomes PRESENT and keeps its validation status; other days stay as they are.
Punch(e) ==
    /\ \/ /\ unvalidated' = unvalidated \cup {e}
          /\ UNCHANGED absent
       \/ /\ absent[e] > 0
          /\ absent' = [absent EXCEPT ![e] = @ - 1]
          /\ UNCHANGED unvalidated
    /\ UNCHANGED <<run, slips, advances, structures, active, pc, ctx, last>>

\* HandleApproveRequest: the day becomes PRESENT and VALIDATED; it may have been
\* an absence, and the last day of e that waited for validation.
ApproveRegularization(e) ==
    /\ \/ UNCHANGED absent
       \/ absent[e] > 0 /\ absent' = [absent EXCEPT ![e] = @ - 1]
    /\ unvalidated' \in {unvalidated, unvalidated \ {e}}
    /\ UNCHANGED <<run, slips, advances, structures, active, pc, ctx, last>>

\* HandleBatchValidation decides the last day of e that waited for validation.
BatchValidation(e) ==
    /\ unvalidated' = unvalidated \ {e}
    /\ UNCHANGED <<run, slips, advances, structures, active, absent, pc, ctx, last>>

\* An employee leaves or comes back (employee and lifecycle services).
EmployeeChanges(e) ==
    /\ active' \in {active \cup {e}, active \ {e}}
    /\ UNCHANGED <<run, slips, advances, structures, absent, unvalidated, pc, ctx, last>>

\* The request's context is cancelled (60 s timeout, client gone) or the
\* process dies: no later statement of the request takes effect.
Cancel(w) ==
    /\ Faults
    /\ pc[w] # "idle"
    /\ Return(w)
    /\ UNCHANGED <<db, last>>

-----------------------------------------------------------------------------
\* One step of an in-flight request.
Step(w) ==
    \/ ProcessFetch(w) \/ ProcessInsert(w) \/ ProcessEmployees(w)
    \/ RowLop(w) \/ RowAdvance(w) \/ RowMarkAdvance(w) \/ RowPayslip(w)
    \/ ProcessFinish(w)
    \/ TransitionWrite(w) \/ TransitionSlips(w) \/ SaveInsert(w)

Next ==
    \/ \E w \in Workers :
         \/ Step(w)
         \/ ProcessCheck(w)
         \/ \E a \in Actions : TransitionRead(w, a)
         \/ \E e \in Employees, b \in Salaries : SaveDeactivate(w, e, b)
         \/ Cancel(w)
    \/ \E a \in Advances :
         \/ \E e \in Employees, amt \in Amounts : CreateAdvance(a, e, amt)
         \/ ApproveAdvance(a)
         \/ \E s \in Decisions : DecideAdvance(a, s)
    \/ \E e \in Employees :
         \/ AttendanceImported(e) \/ Punch(e) \/ ApproveRegularization(e)
         \/ BatchValidation(e) \/ EmployeeChanges(e)

Spec == Init /\ [][Next]_vars

\* A goroutine whose request is not cut off keeps running.
FairSpec == Spec /\ \A w \in Workers : WF_vars(Step(w))

-----------------------------------------------------------------------------
\* Properties

\* The run is finalized: HandleProcessPayroll and HandleTransitionState refuse it.
Finalized == run.status \in {"LOCKED", "PUBLISHED"}

\* Every request that may still write to the run or to its payslips is a PUBLISH.
OnlyPublishing ==
    \A w \in Workers :
        InFlight(w) => \/ pc[w] = "publish"
                       \/ pc[w] = "transition" /\ ctx[w].action = "PUBLISH"

\* What a step may do to a finalized run: move LOCKED to PUBLISHED and mark
\* payslips as published, never change an amount or a total.
KeepsFinal ==
    /\ run'.totals = run.totals
    /\ run'.status \in {run.status, "PUBLISHED"}
    /\ \A e \in Employees :
         slips'[e] \in {slips[e], [slips[e] EXCEPT !.status = "PUBLISHED"]}

\* However many requests overlap and whatever fails: a finalized run on which
\* at most PUBLISH requests are in flight is final for good.  The status checks
\* of HandleProcessPayroll and HandleTransitionState admit nothing else, so a
\* lock can only be broken by a request that passed its check before the lock.
FinalizedStaysFinal ==
    [][Finalized /\ OnlyPublishing => KeepsFinal /\ Finalized' /\ OnlyPublishing']_vars

\* When requests do not overlap, a finalized run is immutable (the errors of
\* payroll.go:568 and 574 say so), also if requests are cut off or statements fail.
FinalizedIsImmutable == [][Finalized => KeepsFinal]_vars

\* A run never stays in PROCESSING: HandleProcessPayroll always reaches the
\* update that makes it VALIDATED, or another request moves it on.
ProcessingEnds == run.status = "PROCESSING" ~> run.status # "PROCESSING"

\* When requests do not overlap and nothing fails: publishing a run publishes
\* all its payslips (TransitionSlips follows TransitionWrite).
PublishedRunHasPublishedSlips ==
    Quiescent /\ run.status = "PUBLISHED" =>
        \A e \in Employees : slips[e].status # "GENERATED"

\* When requests do not overlap and nothing fails: every advance the latest
\* pass marked DEDUCTED is deducted on the payslip of its employee.  This needs
\* HandleSaveStructure to leave one active structure: an employee with two rows
\* in the pass would lose the advance taken by the first.
PassDeductionsOnSlips ==
    Quiescent => \A a \in last.advances : slips[advances[a].emp].advance = a

\* When structures are saved one after the other, an employee has at most one
\* active structure, so the join gives one row per employee.
OneActiveStructure == \A e \in Employees : Len(structures[e]) <= 1

\* The stored net pay of every employee, and what a set of them is paid together.
NetPay == [e \in Employees |-> slips[e].net]
TotalPay(pay, S) == MapThenSumSet(LAMBDA e : pay[e], S)

\* The stored payslips of S add up to the stored total t, but for the rounding:
\* half a paisa for each payslip and half a paisa for the total.
AddsUp(S, t) ==
    LET slack == (Cardinality(S) + 1) * (Paisa \div 2)
    IN  TotalPay(NetPay, S) - t \in -slack .. slack

\* When requests do not overlap and nothing fails: the totals that
\* HandleProcessPayroll stores are those of the payslips it wrote in that pass,
\* to the paisa, although it sums the amounts before they are rounded.
PassReconciles ==
    Quiescent => /\ AddsUp(last.emps, run.totals.net)
                 /\ run.totals.employees = Cardinality(last.emps)

\* The amounts of a payslip, without the status that PUBLISH changes.
Pay(s) == [gross |-> s.gross, ded |-> s.ded, net |-> s.net, advance |-> s.advance]

\* When requests do not overlap, also if requests are cut off or statements fail,
\* the statements of HandleProcessPayroll and HandleTransitionState add up to the
\* stages of a period: no payslip without a run, totals only from a completed
\* pass, nothing but PUBLISH after LOCKED.
Period == INSTANCE PayrollStages WITH
    People <- Employees,
    NoPay <- Pay(NoSlip),
    stage <- run.status,
    paid <- [e \in Employees |-> Pay(slips[e])],
    totals <- run.totals

ImplementsStages == Period!Spec
=============================================================================
