---------------------------- MODULE SalaryMatrix ----------------------------
(***************************************************************************)
(* The pure arithmetic of the payroll engine: the salary breakdown of      *)
(* payroll/matrix.go and the per-employee deductions of payroll/payroll.go.*)
(*                                                                         *)
(* The code computes in float64.  The model computes exactly, in integers  *)
(* counting 1/3000 of a rupee; base salaries are given in steps of five    *)
(* paise, for which every factor of the code (0.50, 0.40, 0.12, 0.10,      *)
(* 1/30) leaves a whole number.                                            *)
(* What the database keeps is NUMERIC(12,2): ToPaise is the rounding that  *)
(* happens when an amount is stored.                                       *)
(***************************************************************************)
EXTENDS Integers

\* One rupee, one paisa, and the step of base salaries, in units of 1/3000 rupee.
Rupee == 3000
Paisa == 30
BaseStep == 150

\* The base salary that applies to an employee without an active structure:
\* 60000 rupees.
DefaultBaseSalary == 60000 * 20

\* The parts of CalculateSalaryBreakdown, for a positive base salary.
Basic(base) == (base * BaseStep) \div 2
Hra(base) == (Basic(base) * 2) \div 5
SpecialAllowance(base) ==
    LET rest == base * BaseStep - (Basic(base) + Hra(base))
    IN  IF rest < 0 THEN 0 ELSE rest
Gross(base) == Basic(base) + Hra(base) + SpecialAllowance(base)
ProfTax(base) == IF Gross(base) < 15000 * Rupee THEN 0 ELSE 200 * Rupee
Statutory(base) ==
    (Basic(base) * 12) \div 100 + Gross(base) \div 10 + ProfTax(base)

\* CalculateSalaryBreakdown: all zero, and without components, for a base
\* salary that is not positive.
CalculateSalaryBreakdown(base) ==
    IF base <= 0
      THEN [gross |-> 0, ded |-> 0, components |-> FALSE]
      ELSE [gross |-> Gross(base), ded |-> Statutory(base), components |-> TRUE]

\* LOP deduction: (gross / 30) * days.
LopDeduction(base, days) ==
    (CalculateSalaryBreakdown(base).gross \div 30) * days

\* The amounts of one payslip: net pay is floored at zero.
SlipAmounts(base, days, advance) ==
    LET b   == CalculateSalaryBreakdown(base)
        ded == b.ded + LopDeduction(base, days) + advance
    IN  [gross |-> b.gross,
         ded   |-> ded,
         net   |-> IF b.gross - ded < 0 THEN 0 ELSE b.gross - ded]

\* Storing a non-negative amount: whole paise, halves rounded up.
ToPaise(amount) == ((amount + Paisa \div 2) \div Paisa) * Paisa
=============================================================================
