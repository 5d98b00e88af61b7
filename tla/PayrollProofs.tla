---------------------------- MODULE PayrollProofs ----------------------------
(***************************************************************************)
(* Proofs about Payroll, for any number of employees, advances, salaries   *)
(* and requests in flight, with and without faults.                        *)
(***************************************************************************)
EXTENDS Payroll, SequenceTheorems, FiniteSetTheorems, TLAPS

-----------------------------------------------------------------------------
\* The arithmetic of payslips stays within the natural numbers.

\* The parts of CalculateSalaryBreakdown are natural numbers.
LEMMA BreakdownTypes ==
    ASSUME NEW base \in Nat
    PROVE  /\ CalculateSalaryBreakdown(base).gross \in Nat
           /\ CalculateSalaryBreakdown(base).ded \in Nat
<1>1. Basic(base) \in Nat
  BY DEF Basic, BaseStep
<1>2. Hra(base) \in Nat
  BY <1>1 DEF Hra
<1>3. SpecialAllowance(base) \in Nat
  BY <1>1, <1>2 DEF SpecialAllowance, BaseStep
<1>4. Gross(base) \in Nat
  BY <1>1, <1>2, <1>3 DEF Gross
<1>5. ProfTax(base) \in Nat
  BY DEF ProfTax, Rupee
<1>6. Statutory(base) \in Nat
  BY <1>1, <1>4, <1>5 DEF Statutory
<1> QED
  BY <1>4, <1>6 DEF CalculateSalaryBreakdown

\* The deduction for LOP days is a natural number.
LEMMA LopTypes ==
    ASSUME NEW base \in Nat, NEW days \in Nat
    PROVE  LopDeduction(base, days) \in Nat
<1> DEFINE g == CalculateSalaryBreakdown(base).gross
<1>1. g \div 30 \in Nat
  BY BreakdownTypes
<1>2. ASSUME NEW m \in Nat PROVE m * days \in Nat
  OBVIOUS
<1> QED
  BY <1>1, <1>2 DEF LopDeduction

\* The amounts of a payslip are natural numbers: net pay is floored at zero.
LEMMA SlipTypes ==
    ASSUME NEW base \in Nat, NEW days \in Nat, NEW adv \in Nat
    PROVE  /\ SlipAmounts(base, days, adv).gross \in Nat
           /\ SlipAmounts(base, days, adv).ded \in Nat
           /\ SlipAmounts(base, days, adv).net \in Nat
<1> DEFINE b == CalculateSalaryBreakdown(base)
           d == b.ded + LopDeduction(base, days) + adv
<1>1. b.gross \in Nat /\ b.ded \in Nat /\ LopDeduction(base, days) \in Nat
  BY BreakdownTypes, LopTypes
<1>2. d \in Nat
  BY <1>1
<1>3. SlipAmounts(base, days, adv) =
        [gross |-> b.gross, ded |-> d, net |-> IF b.gross - d < 0 THEN 0 ELSE b.gross - d]
  BY DEF SlipAmounts
<1> HIDE DEF b, d
<1> QED
  BY <1>1, <1>2, <1>3

\* A stored amount is a natural number.
LEMMA PaiseTypes == \A amount \in Nat : ToPaise(amount) \in Nat
<1>1. ASSUME NEW amount \in Nat PROVE (amount + 15) \div 30 \in Nat
  OBVIOUS
<1>2. ASSUME NEW n \in Nat PROVE n * 30 \in Nat
  OBVIOUS
<1>3. 30 \div 2 = 15
  OBVIOUS
<1> QED
  BY <1>1, <1>2, <1>3 DEF ToPaise, Paisa

\* Storing an amount moves it by half a paisa at most: the slack of the sums of
\* stored payslips.
LEMMA PaiseError ==
    ASSUME NEW amount \in Nat
    PROVE  /\ ToPaise(amount) - amount <= Paisa \div 2
           /\ amount - ToPaise(amount) <= Paisa \div 2
BY DEF ToPaise, Paisa

\* One more row keeps the totals of a pass well-typed.
LEMMA TotalsTypes ==
    ASSUME NEW t \in Totals, NEW lop \in Nat, NEW amount \in Nat, NEW s,
           s.gross \in Nat, s.ded \in Nat, s.net \in Nat
    PROVE  AddTotals(t, s, lop, amount) \in Totals
BY DEF AddTotals, Totals

\* Stored totals are well-typed.
LEMMA StoredTypes == \A t \in Totals : StoredTotals(t) \in Totals
BY PaiseTypes DEF StoredTotals, Totals

\* The employee list of a pass is well-typed.
LEMMA EmpListTypes ==
    ASSUME TypeOK
    PROVE  EmpList \in SUBSET EmpRow
<1>1. SUFFICES ASSUME NEW e \in active PROVE Row(e) \in SUBSET EmpRow
  BY DEF EmpList
<1>2. e \in Employees /\ structures[e] \in Seq(Salaries) /\ Salaries \subseteq Nat
  BY <1>1, ConstantsAssumption DEF TypeOK
<1>3. CASE structures[e] = << >>
  BY <1>2, <1>3 DEF Row, EmpRow, DefaultBaseSalary
<1>4. CASE structures[e] # << >>
  <2>1. ASSUME NEW i \in DOMAIN structures[e]
        PROVE  i \in Nat /\ structures[e][i] \in Nat
    <3>1. DOMAIN structures[e] = 1 .. Len(structures[e]) /\ Len(structures[e]) \in Nat
      BY <1>2, LenProperties
    <3>2. i \in 1 .. Len(structures[e]) /\ i \in Nat
      BY <2>1, <3>1
    <3>3. structures[e][i] \in Salaries
      BY <1>2, <3>2, ElementOfSeq
    <3> QED
      BY <1>2, <3>2, <3>3
  <2> QED
    BY <1>2, <1>4, <2>1 DEF Row, EmpRow
<1> QED
  BY <1>3, <1>4

-----------------------------------------------------------------------------
\* Sums over sets of payslips

\* Induction over the subsets of a finite set, as the search for a smallest
\* counterexample.
LEMMA SmallestSubset ==
    ASSUME NEW S, IsFiniteSet(S), NEW Bad \in SUBSET (SUBSET S), Bad # {}
    PROVE  \E T \in Bad : \A U \in Bad : U \subseteq T => U = T
<1>1. IsWellFoundedOn(StrictSubsetOrdering(S), SUBSET S)
  BY FS_StrictSubsetOrderingWellFounded, FS_FiniteSubsetsOfFinite
<1>2. PICK T \in Bad : \A U \in Bad : ~ (<<U, T>> \in StrictSubsetOrdering(S))
  BY <1>1, WFMin
<1>3. ASSUME NEW U \in Bad, U \subseteq T, U # T PROVE FALSE
  BY <1>2, <1>3 DEF StrictSubsetOrdering
<1> QED
  BY <1>2, <1>3

\* sum gives what every part of S is paid: the way TotalPay is meant, without
\* the order in which it takes the employees.
Additive(sum, pay, S) ==
    /\ sum \in [SUBSET S -> Int]
    /\ sum[{}] = 0
    /\ \A T \in SUBSET S : \A e \in S \ T : sum[T \cup {e}] = sum[T] + pay[e]

\* Such a sum exists for every finite set.
LEMMA AdditiveExists ==
    ASSUME NEW S, IsFiniteSet(S), NEW pay, \A e \in S : pay[e] \in Int
    PROVE  \E sum : Additive(sum, pay, S)
<1> DEFINE Bad == {T \in SUBSET S : ~ \E sum : Additive(sum, pay, T)}
<1>1. SUFFICES ASSUME Bad # {} PROVE FALSE
  OBVIOUS
<1>2. PICK T \in Bad : \A U \in Bad : U \subseteq T => U = T
  <2>1. Bad \in SUBSET (SUBSET S)
    OBVIOUS
  <2> HIDE DEF Bad
  <2> QED
    BY <1>1, <2>1, SmallestSubset
<1>3. CASE T = {}
  <2>1. Additive([X \in SUBSET T |-> 0], pay, T)
    BY <1>3 DEF Additive
  <2> QED
    BY <1>2, <2>1
<1>4. CASE T # {}
  <2>1. PICK e \in T : TRUE
    BY <1>4
  <2> DEFINE R == T \ {e}
  <2>2. R \notin Bad /\ R \in SUBSET S /\ e \in S /\ pay[e] \in Int
    BY <1>2, <2>1
  <2>3. PICK old : Additive(old, pay, R)
    BY <2>2
  <2> DEFINE sum == [X \in SUBSET T |-> IF e \in X THEN old[X \ {e}] + pay[e] ELSE old[X]]
  <2>4. sum \in [SUBSET T -> Int]
    <3>1. \A X \in SUBSET R : old[X] \in Int
      BY <2>3 DEF Additive
    <3>2. ASSUME NEW X \in SUBSET T
          PROVE  X \ {e} \in SUBSET R /\ (e \notin X => X \in SUBSET R)
      OBVIOUS
    <3> QED
      BY <2>2, <3>1, <3>2
  <2>5. sum[{}] = 0
    BY <2>3 DEF Additive
  <2>6. ASSUME NEW X \in SUBSET T, NEW x \in T \ X
        PROVE  sum[X \cup {x}] = sum[X] + pay[x]
    <3>0. pay[x] \in Int
      BY <1>2
    <3>1. CASE x = e
      <4>1. (X \cup {x}) \ {e} = X /\ e \in X \cup {x} /\ e \notin X /\ X \cup {x} \in SUBSET T
        BY <2>6, <3>1
      <4> QED
        BY <3>1, <4>1
    <3>2. CASE x # e /\ e \in X
      <4>1. (X \cup {x}) \ {e} = (X \ {e}) \cup {x} /\ X \ {e} \in SUBSET R /\ x \in R \ (X \ {e})
        BY <2>6, <3>2
      <4>2. old[(X \ {e}) \cup {x}] = old[X \ {e}] + pay[x] /\ old[X \ {e}] \in Int
        BY <2>3, <4>1 DEF Additive
      <4>3. /\ sum[X \cup {x}] = old[(X \ {e}) \cup {x}] + pay[e]
            /\ sum[X] = old[X \ {e}] + pay[e]
        BY <3>2, <4>1
      <4> HIDE DEF sum
      <4> QED
        BY <2>2, <3>0, <4>2, <4>3
    <3>3. CASE x # e /\ e \notin X
      <4>1. X \in SUBSET R /\ x \in R \ X
        BY <2>6, <3>3
      <4>2. old[X \cup {x}] = old[X] + pay[x]
        BY <2>3, <4>1 DEF Additive
      <4> QED
        BY <3>3, <4>2
    <3> QED
      BY <3>1, <3>2, <3>3
  <2>7. Additive(sum, pay, T)
    <3> HIDE DEF sum
    <3> QED
      BY <2>4, <2>5, <2>6 DEF Additive
  <2> QED
    BY <1>2, <2>7
<1> QED
  BY <1>3, <1>4

\* TotalPay, which takes the employees one by one in an order it chooses, is
\* that sum.
LEMMA TotalPayIsSum ==
    ASSUME NEW S, IsFiniteSet(S), NEW pay, \A e \in S : pay[e] \in Int,
           NEW sum, Additive(sum, pay, S)
    PROVE  TotalPay(pay, S) = sum[S]
<1> DEFINE first(s) == CHOOSE x \in s : TRUE
           Folds(g) == g = [s \in SUBSET S |-> IF s = {} THEN 0
                                               ELSE pay[first(s)] + g[s \ {first(s)}]]
           iter == CHOOSE g : Folds(g)
<1>1. TotalPay(pay, S) = iter[S]
  BY DEF TotalPay, MapThenSumSet, MapThenFoldSet
<1>2. ASSUME NEW s \in SUBSET S, s # {}
      PROVE  first(s) \in s /\ sum[s] = pay[first(s)] + sum[s \ {first(s)}]
  <2>1. first(s) \in s
    BY <1>2
  <2> HIDE DEF first
  <2>2. s \ {first(s)} \in SUBSET S /\ first(s) \in S \ (s \ {first(s)})
    BY <2>1
  <2>3. (s \ {first(s)}) \cup {first(s)} = s
    BY <2>1
  <2>4. sum[s] = sum[s \ {first(s)}] + pay[first(s)]
    BY <2>2, <2>3 DEF Additive
  <2>5. sum[s \ {first(s)}] \in Int /\ pay[first(s)] \in Int
    BY <2>2 DEF Additive
  <2> QED
    BY <2>1, <2>4, <2>5
<1>3. Folds(sum)
  <2> HIDE DEF first
  <2>1. sum = [s \in SUBSET S |-> sum[s]] /\ sum[{}] = 0
    BY DEF Additive
  <2> QED
    BY <1>2, <2>1
<1>4. Folds(iter)
  <2> HIDE DEF Folds
  <2> QED
    BY <1>3
<1> DEFINE Bad == {s \in SUBSET S : iter[s] # sum[s]}
<1>5. Bad = {}
  <2>1. SUFFICES ASSUME Bad # {} PROVE FALSE
    OBVIOUS
  <2>2. PICK s \in Bad : \A U \in Bad : U \subseteq s => U = s
    <3>1. Bad \in SUBSET (SUBSET S)
      OBVIOUS
    <3> HIDE DEF Bad
    <3> QED
      BY <2>1, <3>1, SmallestSubset
  <2> HIDE DEF iter
  <2>3. s # {}
    BY <1>4, <2>2 DEF Additive
  <2>4. first(s) \in s /\ sum[s] = pay[first(s)] + sum[s \ {first(s)}]
    BY <1>2, <2>2, <2>3
  <2> HIDE DEF first
  <2>5. iter[s] = pay[first(s)] + iter[s \ {first(s)}]
    BY <1>4, <2>2, <2>3
  <2>6. s \ {first(s)} \in SUBSET S /\ s \ {first(s)} # s
    BY <2>2, <2>4
  <2>7. iter[s \ {first(s)}] = sum[s \ {first(s)}]
    BY <2>2, <2>6
  <2> QED
    BY <2>2, <2>4, <2>5, <2>7
<1> HIDE DEF iter
<1> QED
  BY <1>1, <1>5

\* Nobody is paid nothing.
LEMMA TotalPayOfNone == ASSUME NEW pay PROVE TotalPay(pay, {}) = 0
<1>1. IsFiniteSet({})
  BY FS_EmptySet
<1>2. PICK sum : Additive(sum, pay, {})
  BY <1>1, AdditiveExists
<1> QED
  BY <1>1, <1>2, TotalPayIsSum DEF Additive

\* One more employee adds one more net pay.
LEMMA TotalPayOfOneMore ==
    ASSUME NEW S, IsFiniteSet(S), NEW e, e \notin S, NEW pay, \A x \in S \cup {e} : pay[x] \in Int
    PROVE  /\ TotalPay(pay, S) \in Int
           /\ TotalPay(pay, S \cup {e}) = TotalPay(pay, S) + pay[e]
<1>1. IsFiniteSet(S \cup {e})
  BY FS_AddElement
<1>2. PICK sum : Additive(sum, pay, S \cup {e})
  BY <1>1, AdditiveExists
<1> DEFINE part == [X \in SUBSET S |-> sum[X]]
<1>3. Additive(part, pay, S)
  <2>1. \A X \in SUBSET S : X \in SUBSET (S \cup {e}) /\ sum[X] \in Int
    BY <1>2 DEF Additive
  <2>2. part \in [SUBSET S -> Int] /\ part[{}] = 0
    BY <1>2, <2>1 DEF Additive
  <2>3. ASSUME NEW T \in SUBSET S, NEW x \in S \ T
        PROVE  part[T \cup {x}] = part[T] + pay[x]
    <3>1. T \cup {x} \in SUBSET S /\ x \in (S \cup {e}) \ T
      OBVIOUS
    <3>2. sum[T \cup {x}] = sum[T] + pay[x]
      BY <1>2, <2>1, <3>1 DEF Additive
    <3> QED
      BY <3>1, <3>2
  <2> HIDE DEF part
  <2> QED
    BY <2>2, <2>3 DEF Additive
<1>4. TotalPay(pay, S) = sum[S]
  <2>1. TotalPay(pay, S) = part[S]
    <3> HIDE DEF part
    <3> QED
      BY <1>3, TotalPayIsSum
  <2> QED
    BY <2>1
<1>5. TotalPay(pay, S \cup {e}) = sum[S \cup {e}]
  BY <1>1, <1>2, TotalPayIsSum
<1>6. sum[S \cup {e}] = sum[S] + pay[e] /\ sum[S] \in Int
  BY <1>2 DEF Additive
<1> QED
  BY <1>4, <1>5, <1>6

\* What a set of employees is paid depends on their payslips only.
LEMMA TotalPayOfSame ==
    ASSUME NEW S, IsFiniteSet(S), NEW pay, NEW other,
           \A e \in S : pay[e] \in Int /\ other[e] = pay[e]
    PROVE  TotalPay(other, S) = TotalPay(pay, S)
<1>1. PICK sum : Additive(sum, pay, S)
  BY AdditiveExists
<1>2. Additive(sum, other, S)
  BY <1>1 DEF Additive
<1> QED
  BY <1>1, <1>2, TotalPayIsSum

\* What a set of employees is paid is an integer.
LEMMA TotalPayTypes ==
    ASSUME NEW S, IsFiniteSet(S), NEW pay, \A e \in S : pay[e] \in Int
    PROVE  TotalPay(pay, S) \in Int
<1>1. PICK sum : Additive(sum, pay, S)
  BY AdditiveExists
<1>2. TotalPay(pay, S) = sum[S]
  BY <1>1, TotalPayIsSum
<1>3. sum[S] \in Int
  BY <1>1 DEF Additive
<1> QED
  BY <1>2, <1>3

-----------------------------------------------------------------------------
\* Type correctness

\* A response leaves well-typed control state and no local variables.
LEMMA ReturnTypes ==
    ASSUME TypeOK, NEW w \in Workers, Return(w)
    PROVE  pc' \in [Workers -> PC] /\ ctx' \in [Workers -> Local]
<1>1. NoLocal \in Local
  BY DEF NoLocal, Local, NoTotals, Totals, Actions
<1> QED
  BY <1>1 DEF TypeOK, Return, PC

\* TypeOK alone is not inductive: a pass adds ctx[w].emp and ctx[w].advance to
\* what it has covered, and SaveInsert stores ctx[w].base.
TypeInv == TypeOK /\ RequestOK

\* The steps of HandleProcessPayroll before the loop.
LEMMA ProcessTypes ==
    ASSUME TypeInv, NEW w \in Workers,
           \/ ProcessCheck(w) \/ ProcessFetch(w) \/ ProcessInsert(w) \/ ProcessEmployees(w)
    PROVE  TypeInv'
<1> USE DEF TypeInv
<1>1. CASE ProcessCheck(w)
  BY <1>1 DEF ProcessCheck, TypeOK, RequestOK, Goto, PC, db
<1>2. CASE ProcessFetch(w)
  <2>1. TypeOK'
    BY <1>2, ReturnTypes DEF ProcessFetch, TypeOK, Goto, PC, db
  <2>2. RequestOK'
    BY <1>2 DEF ProcessFetch, TypeOK, RequestOK, Goto, Return
  <2> QED
    BY <2>1, <2>2
<1>3. CASE ProcessInsert(w)
  <2>1. TypeOK'
    BY <1>3, ReturnTypes DEF ProcessInsert, TypeOK, Goto, PC, Run, RunStatus
  <2>2. RequestOK'
    BY <1>3 DEF ProcessInsert, TypeOK, RequestOK, Goto, Return
  <2> QED
    BY <2>1, <2>2
<1>4. CASE ProcessEmployees(w)
  <2>1. EmpList \in SUBSET EmpRow
    BY EmpListTypes
  <2>2. ctx' \in [Workers -> Local]
    <3>1. PICK todo \in SUBSET EmpList : ctx' = [ctx EXCEPT ![w].todo = todo]
      BY <1>4 DEF ProcessEmployees
    <3> DEFINE l == [ctx[w] EXCEPT !.todo = todo]
    <3>2. l \in Local
      BY <2>1 DEF TypeOK, Local
    <3>3. ctx' = [ctx EXCEPT ![w] = l]
      BY <3>1
    <3> QED
      BY <3>2, <3>3 DEF TypeOK
  <2>3. TypeOK'
    BY <1>4, <2>2 DEF ProcessEmployees, TypeOK, Goto, PC, db
  <2>4. RequestOK'
    BY <1>4 DEF ProcessEmployees, TypeOK, RequestOK, Goto
  <2> QED
    BY <2>3, <2>4
<1> QED
  BY <1>1, <1>2, <1>3, <1>4

\* The steps of the loop over employees.
LEMMA RowTypes ==
    ASSUME TypeInv, NEW w \in Workers,
           RowLop(w) \/ RowAdvance(w) \/ RowMarkAdvance(w) \/ RowPayslip(w)
    PROVE  TypeInv'
<1> USE DEF TypeInv
<1>0. ctx[w] \in Local
  BY DEF TypeOK
<1>1. CASE RowLop(w)
  <2>1. PICK r \in ctx[w].todo, lop \in 0 .. MaxAbsent :
          ctx' = [ctx EXCEPT ![w].todo = @ \ {r}, ![w].emp = r.emp, ![w].base = r.base,
                             ![w].lop = lop]
    BY <1>1 DEF RowLop
  <2>2. /\ ctx[w].todo \in SUBSET EmpRow
        /\ r.emp \in Employees /\ r.base \in Nat /\ lop \in Nat
    BY <1>0, <2>1, ConstantsAssumption DEF Local, EmpRow
  <2>3. ctx' \in [Workers -> Local]
    BY <1>0, <2>1, <2>2 DEF TypeOK, Local
  <2>4. TypeOK'
    BY <1>1, <2>3 DEF RowLop, TypeOK, Goto, PC, db
  <2>5. RequestOK'
    <3>1. ctx'[w].emp \in Employees /\ pc'[w] = "advance"
      BY <1>0, <1>1, <2>1, <2>2 DEF RowLop, TypeOK, Local, Goto
    <3>2. \A v \in Workers \ {w} : ctx'[v] = ctx[v] /\ pc'[v] = pc[v]
      BY <1>1, <2>1 DEF RowLop, TypeOK, Goto
    <3> QED
      BY <3>1, <3>2 DEF RequestOK
  <2> QED
    BY <2>4, <2>5
<1>2. CASE RowAdvance(w)
  <2>1. CASE \E a \in Outstanding(ctx[w].emp) :
               /\ ctx' = [ctx EXCEPT ![w].advance = a, ![w].amount = advances[a].amount]
               /\ Goto(w, "mark")
    <3>1. PICK a \in Outstanding(ctx[w].emp) :
               /\ ctx' = [ctx EXCEPT ![w].advance = a, ![w].amount = advances[a].amount]
               /\ Goto(w, "mark")
      BY <2>1
    <3>2. a \in Advances /\ advances[a].amount \in Nat
      BY DEF Outstanding, TypeOK, Advance
    <3>3. ctx' \in [Workers -> Local]
      BY <1>0, <3>1, <3>2 DEF TypeOK, Local
    <3>4. TypeOK'
      BY <1>2, <3>1, <3>3 DEF RowAdvance, TypeOK, Goto, PC, db
    <3>5. RequestOK'
      <4>1. ctx'[w].emp = ctx[w].emp /\ ctx'[w].advance = a /\ pc'[w] = "mark"
        BY <1>0, <3>1 DEF TypeOK, Local, Goto
      <4>2. \A v \in Workers \ {w} : ctx'[v] = ctx[v] /\ pc'[v] = pc[v]
        BY <3>1 DEF TypeOK, Goto
      <4> QED
        BY <1>2, <3>2, <4>1, <4>2 DEF RowAdvance, RequestOK
    <3> QED
      BY <3>4, <3>5
  <2>2. CASE /\ ctx' = [ctx EXCEPT ![w].advance = NoAdvance, ![w].amount = 0]
             /\ Goto(w, "slip")
    <3>1. ctx' \in [Workers -> Local]
      BY <1>0, <2>2 DEF TypeOK, Local
    <3>2. TypeOK'
      BY <1>2, <2>2, <3>1 DEF RowAdvance, TypeOK, Goto, PC, db
    <3>3. RequestOK'
      <4>1. ctx'[w].emp = ctx[w].emp /\ pc'[w] = "slip"
        BY <1>0, <2>2 DEF TypeOK, Local, Goto
      <4>2. \A v \in Workers \ {w} : ctx'[v] = ctx[v] /\ pc'[v] = pc[v]
        BY <2>2 DEF TypeOK, Goto
      <4> QED
        BY <1>2, <4>1, <4>2 DEF RowAdvance, RequestOK
    <3> QED
      BY <3>2, <3>3
  <2> QED
    BY <1>2, <2>1, <2>2 DEF RowAdvance
<1>3. CASE RowMarkAdvance(w)
  <2>1. ctx[w].advance \in Advances
    BY <1>3 DEF RowMarkAdvance, RequestOK
  <2>2. advances' \in [Advances -> Advance]
    <3>1. \/ advances' = [advances EXCEPT ![ctx[w].advance].status = "DEDUCTED"]
          \/ advances' = advances
      BY <1>3 DEF RowMarkAdvance
    <3>2. [advances[ctx[w].advance] EXCEPT !.status = "DEDUCTED"] \in Advance
      BY <2>1 DEF TypeOK, Advance, AdvanceStatus
    <3> QED
      BY <3>1, <3>2 DEF TypeOK
  <2>3. ctx' \in [Workers -> Local]
    BY <1>0, <1>3, <2>1 DEF RowMarkAdvance, TypeOK, Local
  <2>4. TypeOK'
    BY <1>3, <2>2, <2>3 DEF RowMarkAdvance, TypeOK, Goto, PC
  <2>5. RequestOK'
    BY <1>3 DEF RowMarkAdvance, TypeOK, RequestOK, Goto
  <2> QED
    BY <2>4, <2>5
<1>4. CASE RowPayslip(w)
  <2> DEFINE c == ctx[w]
             s == SlipAmounts(c.base, c.lop, c.amount)
  <2>1. /\ c.emp \in Employees
        /\ c.base \in Nat /\ c.lop \in Nat /\ c.amount \in Nat /\ c.totals \in Totals
        /\ c.advance \in Advances \cup {NoAdvance}
    BY <1>0, <1>4 DEF RowPayslip, RequestOK, Local
  <2>2. s.gross \in Nat /\ s.ded \in Nat /\ s.net \in Nat
    BY <2>1, SlipTypes
  <2>3. AddTotals(c.totals, s, c.lop, c.amount) \in Totals
    BY <2>1, <2>2, TotalsTypes
  <2>4. CASE CalculateSalaryBreakdown(c.base).components
    <3>1. \/ slips' = [slips EXCEPT ![c.emp] =
                         [status |-> "GENERATED", gross |-> ToPaise(s.gross),
                          ded |-> ToPaise(s.ded), net |-> ToPaise(s.net),
                          advance |-> c.advance]]
          \/ slips' = slips
      BY <1>4, <2>4 DEF RowPayslip
    <3>2. slips' \in [Employees -> Slip]
      <4> HIDE DEF s
      <4>1. [status |-> "GENERATED", gross |-> ToPaise(s.gross), ded |-> ToPaise(s.ded),
             net |-> ToPaise(s.net), advance |-> c.advance] \in Slip
        BY <2>1, <2>2, PaiseTypes DEF Slip
      <4> QED
        BY <3>1, <4>1 DEF TypeOK
    <3>3. ctx' = [ctx EXCEPT ![w].totals = AddTotals(c.totals, s, c.lop, c.amount),
                             ![w].done = c.done \cup {c.emp}]
      BY <1>4, <2>4 DEF RowPayslip, TypeOK
    <3>4. ctx' \in [Workers -> Local]
      <4> HIDE DEF s
      <4> QED
        BY <1>0, <2>1, <2>3, <3>3 DEF TypeOK, Local
    <3>5. Goto(w, "rows") /\ UNCHANGED <<run, advances, structures, active, absent, unvalidated, last>>
      BY <1>4, <2>4 DEF RowPayslip
    <3>6. TypeOK'
      BY <3>2, <3>4, <3>5 DEF TypeOK, Goto, PC
    <3>7. RequestOK'
      BY <3>3, <3>5 DEF TypeOK, RequestOK, Goto
    <3> QED
      BY <3>6, <3>7
  <2>5. CASE ~CalculateSalaryBreakdown(c.base).components
    <3>1. Return(w) /\ UNCHANGED <<run, slips, advances, structures, active, absent, unvalidated, last>>
      BY <1>4, <2>5 DEF RowPayslip
    <3>2. TypeOK'
      BY <3>1, ReturnTypes DEF TypeOK
    <3>3. RequestOK'
      BY <3>1 DEF TypeOK, RequestOK, Return
    <3> QED
      BY <3>2, <3>3
  <2> QED
    BY <2>4, <2>5
<1> QED
  BY <1>1, <1>2, <1>3, <1>4

\* The final update of a pass, and HandleTransitionState.
LEMMA TransitionTypes ==
    ASSUME TypeInv, NEW w \in Workers,
           \/ ProcessFinish(w) \/ TransitionWrite(w) \/ TransitionSlips(w) \/ Cancel(w)
           \/ \E a \in Actions : TransitionRead(w, a)
    PROVE  TypeInv'
<1> USE DEF TypeInv
<1>0. ctx[w] \in Local
  BY DEF TypeOK
<1>1. CASE ProcessFinish(w)
  <2>1. Return(w) /\ UNCHANGED <<slips, advances, structures, active, absent, unvalidated>>
    BY <1>1 DEF ProcessFinish
  <2>2. \/ /\ run' = [status |-> "VALIDATED", totals |-> StoredTotals(ctx[w].totals)]
           /\ last' = [emps |-> ctx[w].done, advances |-> ctx[w].taken]
        \/ UNCHANGED <<run, last>>
    BY <1>1 DEF ProcessFinish
  <2>3. run' \in Run
    BY <1>0, <2>2, StoredTypes DEF TypeOK, Run, RunStatus, Local
  <2>4. last' \in [emps : SUBSET Employees, advances : SUBSET Advances]
    BY <1>0, <2>2 DEF TypeOK, Local
  <2>5. TypeOK'
    BY <2>1, <2>3, <2>4, ReturnTypes DEF TypeOK
  <2>6. RequestOK'
    BY <2>1 DEF TypeOK, RequestOK, Return
  <2> QED
    BY <2>5, <2>6
<1>2. CASE TransitionWrite(w)
  <2>1. ctx[w].action \in Actions
    BY <1>0 DEF Local
  <2>2. NextStatus(ctx[w].action) \in RunStatus
    BY <2>1 DEF NextStatus, Actions, RunStatus
  <2>3. run' = [run EXCEPT !.status = NextStatus(ctx[w].action)] \/ run' = run
    BY <1>2 DEF TransitionWrite
  <2>4. run' \in Run
    BY <2>2, <2>3 DEF TypeOK, Run
  <2>5. Return(w) \/ (Goto(w, "publish") /\ ctx' = ctx)
    BY <1>2 DEF TransitionWrite
  <2>6. UNCHANGED <<slips, advances, structures, active, absent, unvalidated, last>>
    BY <1>2 DEF TransitionWrite
  <2>7. TypeOK'
    BY <2>4, <2>5, <2>6, ReturnTypes DEF TypeOK, Goto, PC
  <2>8. RequestOK'
    BY <2>5 DEF TypeOK, RequestOK, Return, Goto
  <2> QED
    BY <2>7, <2>8
<1>3. CASE TransitionSlips(w)
  <2>1. Return(w) /\ UNCHANGED <<run, advances, structures, active, absent, unvalidated, last>>
    BY <1>3 DEF TransitionSlips
  <2>2. \/ slips' = [e \in Employees |-> IF slips[e].status = "NONE" THEN slips[e]
                                         ELSE [slips[e] EXCEPT !.status = "PUBLISHED"]]
        \/ slips' = slips
    BY <1>3 DEF TransitionSlips
  <2>3. ASSUME NEW e \in Employees
        PROVE  slips[e] \in Slip /\ [slips[e] EXCEPT !.status = "PUBLISHED"] \in Slip
    BY DEF TypeOK, Slip
  <2>4. slips' \in [Employees -> Slip]
    BY <2>2, <2>3 DEF TypeOK
  <2>5. TypeOK'
    BY <2>1, <2>4, ReturnTypes DEF TypeOK
  <2>6. RequestOK'
    BY <2>1 DEF TypeOK, RequestOK, Return
  <2> QED
    BY <2>5, <2>6
<1>4. CASE Cancel(w)
  <2>1. TypeOK'
    BY <1>4, ReturnTypes DEF Cancel, TypeOK, db
  <2>2. RequestOK'
    BY <1>4 DEF Cancel, TypeOK, RequestOK, Return
  <2> QED
    BY <2>1, <2>2
<1>5. ASSUME NEW a \in Actions, TransitionRead(w, a) PROVE TypeInv'
  <2>1. ctx' \in [Workers -> Local]
    BY <1>0, <1>5 DEF TransitionRead, TypeOK, Local
  <2>2. TypeOK'
    BY <1>5, <2>1 DEF TransitionRead, TypeOK, Goto, PC, db
  <2>3. RequestOK'
    BY <1>5 DEF TransitionRead, TypeOK, RequestOK, Goto
  <2> QED
    BY <2>2, <2>3
<1> QED
  BY <1>1, <1>2, <1>3, <1>4, <1>5

\* HandleSaveStructure.
LEMMA StructureTypes ==
    ASSUME TypeInv, NEW w \in Workers,
           \/ SaveInsert(w)
           \/ \E e \in Employees, b \in Salaries : SaveDeactivate(w, e, b)
    PROVE  TypeInv'
<1> USE DEF TypeInv
<1>0. ctx[w] \in Local
  BY DEF TypeOK
<1>1. CASE SaveInsert(w)
  <2>1. ctx[w].emp \in Employees /\ ctx[w].base \in Salaries
    BY <1>1 DEF SaveInsert, RequestOK
  <2>2. Append(structures[ctx[w].emp], ctx[w].base) \in Seq(Salaries)
    BY <2>1, AppendProperties DEF TypeOK
  <2>3. structures' \in [Employees -> Seq(Salaries)]
    BY <1>1, <2>1, <2>2 DEF SaveInsert, TypeOK
  <2>4. TypeOK'
    BY <1>1, <2>3, ReturnTypes DEF SaveInsert, TypeOK
  <2>5. RequestOK'
    BY <1>1 DEF SaveInsert, TypeOK, RequestOK, Return
  <2> QED
    BY <2>4, <2>5
<1>2. ASSUME NEW e \in Employees, NEW b \in Salaries, SaveDeactivate(w, e, b)
      PROVE  TypeInv'
  <2>1. b \in Nat
    BY ConstantsAssumption
  <2>2. /\ pc[w] = "idle" /\ Goto(w, "structure")
        /\ ctx' = [ctx EXCEPT ![w].emp = e, ![w].base = b]
        /\ UNCHANGED <<run, slips, advances, active, absent, unvalidated, last>>
    BY <1>2 DEF SaveDeactivate
  <2>3. structures' = [structures EXCEPT ![e] = << >>] \/ structures' = structures
    BY <1>2 DEF SaveDeactivate
  <2>4. << >> \in Seq(Salaries)
    BY EmptySeq
  <2>5. structures' \in [Employees -> Seq(Salaries)]
    BY <2>3, <2>4 DEF TypeOK
  <2>6. ctx' \in [Workers -> Local]
    BY <1>0, <2>1, <2>2 DEF TypeOK, Local
  <2>7. TypeOK'
    BY <2>2, <2>5, <2>6 DEF TypeOK, Goto, PC
  <2>8. RequestOK'
    <3>1. ctx'[w].emp = e /\ ctx'[w].base = b /\ pc'[w] = "structure"
      BY <1>0, <2>2 DEF TypeOK, Local, Goto
    <3>2. \A v \in Workers \ {w} : ctx'[v] = ctx[v] /\ pc'[v] = pc[v]
      BY <2>2 DEF TypeOK, Goto
    <3> QED
      BY <3>1, <3>2 DEF RequestOK
  <2> QED
    BY <2>7, <2>8
<1> QED
  BY <1>1, <1>2

\* The steps that leave the requests alone: advances, attendance, employees.
LEMMA EnvironmentTypes ==
    ASSUME TypeInv,
           \/ \E a \in Advances :
                \/ \E e \in Employees, amt \in Amounts : CreateAdvance(a, e, amt)
                \/ ApproveAdvance(a)
                \/ \E s \in Decisions : DecideAdvance(a, s)
           \/ \E e \in Employees :
                \/ AttendanceImported(e) \/ Punch(e) \/ ApproveRegularization(e)
                \/ BatchValidation(e) \/ EmployeeChanges(e)
    PROVE  TypeInv'
<1> USE DEF TypeInv
<1>1. ASSUME NEW a \in Advances, NEW e \in Employees, NEW amt \in Amounts,
             CreateAdvance(a, e, amt)
      PROVE  TypeInv'
  <2>1. [status |-> "APPROVED", emp |-> e, amount |-> amt] \in Advance
    BY ConstantsAssumption DEF Advance, AdvanceStatus
  <2> QED
    BY <1>1, <2>1 DEF CreateAdvance, TypeOK, RequestOK
<1>2. ASSUME NEW a \in Advances, NEW s \in AdvanceStatus
      PROVE  [advances EXCEPT ![a].status = s] \in [Advances -> Advance]
  <2>1. [advances[a] EXCEPT !.status = s] \in Advance
    BY DEF TypeOK, Advance
  <2> QED
    BY <2>1 DEF TypeOK
<1>3. ASSUME NEW a \in Advances, ApproveAdvance(a) PROVE TypeInv'
  <2>1. "APPROVED" \in AdvanceStatus
    BY DEF AdvanceStatus
  <2> QED
    BY <1>2, <1>3, <2>1 DEF ApproveAdvance, TypeOK, RequestOK
<1>4. ASSUME NEW a \in Advances, NEW s \in Decisions, DecideAdvance(a, s) PROVE TypeInv'
  <2>1. s \in AdvanceStatus
    BY DEF AdvanceStatus
  <2> QED
    BY <1>2, <1>4, <2>1 DEF DecideAdvance, TypeOK, RequestOK
<1>5. ASSUME NEW e \in Employees,
             \/ AttendanceImported(e) \/ Punch(e) \/ ApproveRegularization(e)
             \/ BatchValidation(e)
      PROVE  TypeInv'
  <2>1. \/ \E n \in 0 .. MaxAbsent : absent' = [absent EXCEPT ![e] = n]
        \/ absent[e] > 0 /\ absent' = [absent EXCEPT ![e] = @ - 1]
        \/ absent' = absent
    BY <1>5 DEF AttendanceImported, Punch, ApproveRegularization, BatchValidation
  <2>2. absent' \in [Employees -> Nat]
    <3>1. CASE absent[e] > 0 /\ absent' = [absent EXCEPT ![e] = @ - 1]
      <4>1. absent[e] - 1 \in Nat
        BY <3>1 DEF TypeOK
      <4> QED
        BY <3>1, <4>1 DEF TypeOK
    <3>2. CASE \E n \in 0 .. MaxAbsent : absent' = [absent EXCEPT ![e] = n]
      BY <3>2, ConstantsAssumption DEF TypeOK
    <3> QED
      BY <2>1, <3>1, <3>2 DEF TypeOK
  <2>3. unvalidated' \in SUBSET Employees
    BY <1>5 DEF AttendanceImported, Punch, ApproveRegularization, BatchValidation, TypeOK
  <2>4. UNCHANGED <<run, slips, advances, structures, active, pc, ctx, last>>
    BY <1>5 DEF AttendanceImported, Punch, ApproveRegularization, BatchValidation
  <2> QED
    BY <2>2, <2>3, <2>4 DEF TypeOK, RequestOK
<1>6. ASSUME NEW e \in Employees, EmployeeChanges(e) PROVE TypeInv'
  BY <1>6 DEF EmployeeChanges, TypeOK, RequestOK
<1> QED
  BY <1>1, <1>3, <1>4, <1>5, <1>6

\* The initial states are well-typed.
LEMMA InitTypes == Init => TypeInv
<1> SUFFICES ASSUME Init PROVE TypeInv
  OBVIOUS
<1>1. NoLocal \in Local /\ NoSlip \in Slip /\ NoTotals \in Totals
  BY DEF NoLocal, Local, NoSlip, Slip, NoTotals, Totals, Actions
<1>2. advances \in [Advances -> Advance]
  BY ConstantsAssumption DEF Init, Advance, AdvanceStatus
<1>3. run \in Run /\ slips \in [Employees -> Slip]
  BY <1>1 DEF Init, Run, RunStatus
<1>4. structures \in [Employees -> Seq(Salaries)]
  BY EmptySeq DEF Init
<1>5. pc \in [Workers -> PC] /\ ctx \in [Workers -> Local]
  BY <1>1 DEF Init, PC
<1>6. TypeOK
  BY <1>2, <1>3, <1>4, <1>5 DEF Init, TypeOK
<1> QED
  BY <1>6 DEF Init, TypeInv, RequestOK

\* Every step keeps the strengthened type invariant.
LEMMA TypeStep == TypeInv /\ [Next]_vars => TypeInv'
<1> SUFFICES ASSUME TypeInv, [Next]_vars PROVE TypeInv'
  OBVIOUS
<1>1. CASE UNCHANGED vars
  BY <1>1 DEF TypeInv, TypeOK, RequestOK, vars, db
<1>2. CASE Next
  BY <1>2, ProcessTypes, RowTypes, TransitionTypes, StructureTypes, EnvironmentTypes
     DEF Next, Step
<1> QED
  BY <1>1, <1>2

\* Type correctness: whatever requests overlap and whatever fails, the rows the
\* payroll handlers write and their local variables stay within their types;
\* in particular no amount is negative and no other run status is stored.
THEOREM TypeCorrect == Spec => []TypeOK
<1>1. TypeInv => TypeOK
  BY DEF TypeInv
<1> QED
  BY InitTypes, TypeStep, <1>1, PTL DEF Spec

-----------------------------------------------------------------------------
\* A finalized run

\* A step that writes neither the run nor its payslips keeps a finalized run
\* final, if the request w that takes it does not come into flight by it.
LEMMA QuietStep ==
    ASSUME TypeInv, Finalized, OnlyPublishing, UNCHANGED <<run, slips>>, NEW w \in Workers,
           \A v \in Workers \ {w} : pc'[v] = pc[v] /\ ctx'[v] = ctx[v],
           pc'[w] \in {"idle", "fetch", "insert", "structure"}
    PROVE  KeepsFinal /\ Finalized' /\ OnlyPublishing'
<1>1. KeepsFinal /\ Finalized'
  BY DEF KeepsFinal, Finalized
<1>2. OnlyPublishing'
  BY DEF OnlyPublishing, InFlight
<1> QED
  BY <1>1, <1>2

\* The step from the finalized run: only PUBLISH requests are in flight, and no
\* other request gets past the status checks.
LEMMA FinalStep ==
    ASSUME TypeInv, Next, Finalized, OnlyPublishing
    PROVE  KeepsFinal /\ Finalized' /\ OnlyPublishing'
<1> DEFINE Goal == KeepsFinal /\ Finalized' /\ OnlyPublishing'
<1> USE DEF TypeInv
<1>0. ASSUME NEW w \in Workers
      PROVE  /\ pc[w] \notin {"employees", "rows", "advance", "mark", "slip"}
             /\ pc[w] = "transition" => ctx[w].action = "PUBLISH"
  BY <1>0 DEF OnlyPublishing, InFlight
<1>1. ASSUME NEW w \in Workers, ProcessCheck(w) \/ ProcessFetch(w) \/ ProcessInsert(w) PROVE Goal
  <2>1. UNCHANGED <<run, slips>>
    BY <1>1 DEF ProcessCheck, ProcessFetch, ProcessInsert, Finalized, db
  <2>2. \A v \in Workers \ {w} : pc'[v] = pc[v] /\ ctx'[v] = ctx[v]
    BY <1>1 DEF ProcessCheck, ProcessFetch, ProcessInsert, Goto, Return, TypeOK
  <2>3. pc'[w] \in {"idle", "fetch", "insert", "structure"}
    BY <1>1 DEF ProcessCheck, ProcessFetch, ProcessInsert, Goto, Return, TypeOK, Finalized
  <2> QED
    BY <2>1, <2>2, <2>3, QuietStep
<1>2. ASSUME NEW w \in Workers,
             \/ ProcessEmployees(w) \/ RowLop(w) \/ RowAdvance(w) \/ RowMarkAdvance(w)
             \/ RowPayslip(w) \/ ProcessFinish(w)
      PROVE  Goal
  BY <1>0, <1>2
     DEF ProcessEmployees, RowLop, RowAdvance, RowMarkAdvance, RowPayslip, ProcessFinish
<1>3. ASSUME NEW w \in Workers, NEW a \in Actions, TransitionRead(w, a) PROVE Goal
  <2>1. a = "PUBLISH" /\ UNCHANGED <<run, slips>>
    BY <1>3 DEF TransitionRead, Finalized, db
  <2>2. pc'[w] = "transition" /\ ctx'[w].action = "PUBLISH"
    BY <1>3, <2>1 DEF TransitionRead, Goto, TypeOK, Local
  <2>3. \A v \in Workers \ {w} : pc'[v] = pc[v] /\ ctx'[v] = ctx[v]
    BY <1>3 DEF TransitionRead, Goto, TypeOK
  <2>4. OnlyPublishing'
    BY <2>2, <2>3 DEF OnlyPublishing, InFlight
  <2> QED
    BY <2>1, <2>4 DEF KeepsFinal, Finalized
<1>4. ASSUME NEW w \in Workers, TransitionWrite(w) PROVE Goal
  <2>1. ctx[w].action = "PUBLISH" /\ slips' = slips
    BY <1>0, <1>4 DEF TransitionWrite
  <2>2. Goto(w, "publish") /\ ctx' = ctx
    BY <1>4, <2>1 DEF TransitionWrite
  <2>3. run' = [run EXCEPT !.status = "PUBLISHED"] \/ run' = run
    BY <1>4, <2>1 DEF TransitionWrite, NextStatus
  <2>4. KeepsFinal /\ Finalized'
    BY <2>1, <2>3 DEF KeepsFinal, Finalized, TypeOK, Run
  <2>5. OnlyPublishing'
    BY <2>2 DEF OnlyPublishing, InFlight, Goto, TypeOK
  <2> QED
    BY <2>4, <2>5
<1>5. ASSUME NEW w \in Workers, TransitionSlips(w) PROVE Goal
  <2>1. Return(w) /\ run' = run
    BY <1>5 DEF TransitionSlips
  <2>2. \/ slips' = [e \in Employees |-> IF slips[e].status = "NONE" THEN slips[e]
                                         ELSE [slips[e] EXCEPT !.status = "PUBLISHED"]]
        \/ slips' = slips
    BY <1>5 DEF TransitionSlips
  <2>3. KeepsFinal /\ Finalized'
    BY <2>1, <2>2 DEF KeepsFinal, Finalized
  <2>4. OnlyPublishing'
    BY <2>1 DEF OnlyPublishing, InFlight, Return, TypeOK
  <2> QED
    BY <2>3, <2>4
<1>6. ASSUME NEW w \in Workers,
             \/ SaveInsert(w) \/ Cancel(w)
             \/ \E e \in Employees, b \in Salaries : SaveDeactivate(w, e, b)
      PROVE  Goal
  <2>1. UNCHANGED <<run, slips>>
    BY <1>6 DEF SaveInsert, Cancel, SaveDeactivate, db
  <2>2. \A v \in Workers \ {w} : pc'[v] = pc[v] /\ ctx'[v] = ctx[v]
    BY <1>6 DEF SaveInsert, Cancel, SaveDeactivate, Goto, Return, TypeOK
  <2>3. pc'[w] \in {"idle", "fetch", "insert", "structure"}
    BY <1>6 DEF SaveInsert, Cancel, SaveDeactivate, Goto, Return, TypeOK
  <2> QED
    BY <2>1, <2>2, <2>3, QuietStep
<1>7. ASSUME UNCHANGED <<run, slips, pc, ctx>> PROVE Goal
  BY <1>7 DEF KeepsFinal, Finalized, OnlyPublishing, InFlight
<1>8. CASE \E w \in Workers :
             \/ Step(w)
             \/ ProcessCheck(w)
             \/ \E a \in Actions : TransitionRead(w, a)
             \/ \E e \in Employees, b \in Salaries : SaveDeactivate(w, e, b)
             \/ Cancel(w)
  BY <1>1, <1>2, <1>3, <1>4, <1>5, <1>6, <1>8 DEF Step
<1>9. CASE \/ \E a \in Advances :
                \/ \E e \in Employees, amt \in Amounts : CreateAdvance(a, e, amt)
                \/ ApproveAdvance(a)
                \/ \E s \in Decisions : DecideAdvance(a, s)
           \/ \E e \in Employees :
                \/ AttendanceImported(e) \/ Punch(e) \/ ApproveRegularization(e)
                \/ BatchValidation(e) \/ EmployeeChanges(e)
  BY <1>7, <1>9
     DEF CreateAdvance, ApproveAdvance, DecideAdvance, AttendanceImported, Punch,
         ApproveRegularization, BatchValidation, EmployeeChanges
<1> QED
  BY <1>8, <1>9 DEF Next

\* A finalized run on which at most PUBLISH requests are in flight is final for
\* good, for any number of overlapping requests and with any fault: the status
\* checks of HandleProcessPayroll and HandleTransitionState admit nothing else.
THEOREM FinalStaysFinal == Spec => FinalizedStaysFinal
<1>1. TypeInv /\ [Next]_vars =>
        [Finalized /\ OnlyPublishing => KeepsFinal /\ Finalized' /\ OnlyPublishing']_vars
  BY FinalStep
<1> QED
  BY InitTypes, TypeStep, <1>1, PTL DEF Spec, FinalizedStaysFinal

-----------------------------------------------------------------------------
\* Requests that do not overlap

Serial == \A v, w \in Workers : v = w

\* What serial requests add: at the moment the run becomes final nothing but
\* its own PUBLISH is in flight.
SerialInv == TypeInv /\ (Finalized => OnlyPublishing)

\* Only TransitionWrite finalizes a run.
LEMMA OnlyTransitionFinalizes ==
    ASSUME TypeInv, Next, ~Finalized, Finalized'
    PROVE  \E w \in Workers : TransitionWrite(w)
<1>1. run' # run
  BY DEF Finalized
<1>2. ASSUME NEW w \in Workers, ProcessInsert(w) PROVE FALSE
  BY <1>2 DEF ProcessInsert, Finalized, TypeInv, TypeOK, Run
<1>3. ASSUME NEW w \in Workers, ProcessFinish(w) PROVE FALSE
  BY <1>1, <1>3 DEF ProcessFinish, Finalized
<1> QED
  BY <1>1, <1>2, <1>3
     DEF Next, Step, ProcessFetch, ProcessEmployees, RowLop, RowAdvance, RowMarkAdvance,
         RowPayslip, TransitionSlips, SaveInsert, ProcessCheck, TransitionRead, SaveDeactivate,
         Cancel, CreateAdvance, ApproveAdvance, DecideAdvance, AttendanceImported,
         Punch, ApproveRegularization, BatchValidation, EmployeeChanges, db

\* Serial requests keep it: the PUBLISH that finalizes a run is alone.
LEMMA SerialStep ==
    ASSUME Serial, SerialInv, [Next]_vars
    PROVE  SerialInv'
<1>1. TypeInv'
  BY TypeStep DEF SerialInv
<1>2. CASE UNCHANGED vars
  BY <1>1, <1>2 DEF SerialInv, Finalized, OnlyPublishing, InFlight, vars, db
<1>3. CASE Next /\ Finalized
  BY <1>1, <1>3, FinalStep DEF SerialInv
<1>4. CASE Next /\ ~Finalized
  <2>1. SUFFICES ASSUME Finalized' PROVE OnlyPublishing'
    BY <1>1 DEF SerialInv
  <2>2. PICK w \in Workers : TransitionWrite(w)
    BY <1>4, <2>1, OnlyTransitionFinalizes DEF SerialInv
  <2>3. pc'[w] \in {"idle", "publish"}
    BY <2>2 DEF TransitionWrite, Goto, Return, SerialInv, TypeInv, TypeOK
  <2>4. \A v \in Workers : v = w
    BY <2>2 DEF Serial
  <2> QED
    BY <2>3, <2>4 DEF OnlyPublishing, InFlight
<1> QED
  BY <1>2, <1>3, <1>4

\* When requests do not overlap, a finalized run is immutable, also if requests
\* are cut off or statements fail: the promise of the errors that
\* HandleTransitionState returns for LOCKED and PUBLISHED runs.
THEOREM SerialFinalIsImmutable ==
    ASSUME Serial
    PROVE  Spec => FinalizedIsImmutable
<1>1. Init => SerialInv
  BY InitTypes DEF Init, SerialInv, Finalized
<1>2. SerialInv /\ [Next]_vars => SerialInv'
  BY SerialStep
<1>3. SerialInv /\ [Next]_vars => [Finalized => KeepsFinal]_vars
  BY FinalStep DEF SerialInv
<1> QED
  BY <1>1, <1>2, <1>3, PTL DEF Spec, FinalizedIsImmutable

\* A request in flight has found or inserted the run, and no request removes it.
RunExists == \A w \in Workers : InFlight(w) => run.status # "NONE"

StagesInv == SerialInv /\ RunExists

\* No transition writes "NONE", which stands for a missing row.
LEMMA StatusWritten == \A a \in Actions : NextStatus(a) # "NONE"
  BY DEF Actions, NextStatus

\* A request comes into flight only with a run, and the run stays.
LEMMA RunExistsStep ==
    ASSUME TypeInv, RunExists, [Next]_vars
    PROVE  RunExists'
<1> USE DEF TypeInv
<1> DEFINE Idle == {"idle", "fetch", "insert", "structure"}
<1>1. ASSUME run.status # "NONE" => run'.status # "NONE",
             NEW w \in Workers, \A v \in Workers \ {w} : pc'[v] = pc[v],
             pc'[w] \in Idle \/ run'.status # "NONE"
      PROVE  RunExists'
  BY <1>1 DEF RunExists, InFlight
<1>2. ASSUME NEW w \in Workers, ProcessCheck(w) \/ ProcessFetch(w) PROVE RunExists'
  <2>1. run' = run
    BY <1>2 DEF ProcessCheck, ProcessFetch, db
  <2>2. \A v \in Workers \ {w} : pc'[v] = pc[v]
    BY <1>2 DEF ProcessCheck, ProcessFetch, Goto, Return, TypeOK
  <2>3. pc'[w] \in Idle \/ run.status # "NONE"
    BY <1>2 DEF ProcessCheck, ProcessFetch, Goto, Return, TypeOK
  <2> QED
    BY <1>1, <2>1, <2>2, <2>3
<1>3. ASSUME NEW w \in Workers, ProcessInsert(w) PROVE RunExists'
  <2>1. run'.status # "NONE"
    BY <1>3 DEF ProcessInsert, TypeOK, Run
  <2>2. \A v \in Workers \ {w} : pc'[v] = pc[v]
    BY <1>3 DEF ProcessInsert, Goto, Return, TypeOK
  <2> QED
    BY <1>1, <2>1, <2>2
<1>4. ASSUME NEW w \in Workers,
             \/ ProcessEmployees(w) \/ RowLop(w) \/ RowAdvance(w) \/ RowMarkAdvance(w)
             \/ RowPayslip(w) \/ TransitionSlips(w)
      PROVE  RunExists'
  <2>1. run' = run
    BY <1>4 DEF ProcessEmployees, RowLop, RowAdvance, RowMarkAdvance, RowPayslip,
                TransitionSlips, db
  <2>2. \A v \in Workers \ {w} : pc'[v] = pc[v]
    BY <1>4 DEF ProcessEmployees, RowLop, RowAdvance, RowMarkAdvance, RowPayslip,
                TransitionSlips, Goto, Return, TypeOK
  <2>3. run.status # "NONE"
    BY <1>4 DEF ProcessEmployees, RowLop, RowAdvance, RowMarkAdvance, RowPayslip,
                TransitionSlips, RunExists, InFlight
  <2> QED
    BY <1>1, <2>1, <2>2, <2>3
<1>5. ASSUME NEW w \in Workers, ProcessFinish(w) PROVE RunExists'
  <2>1. run.status # "NONE"
    BY <1>5 DEF ProcessFinish, RunExists, InFlight
  <2>2. run'.status # "NONE"
    BY <1>5, <2>1 DEF ProcessFinish
  <2>3. \A v \in Workers \ {w} : pc'[v] = pc[v]
    BY <1>5 DEF ProcessFinish, Return, TypeOK
  <2> QED
    BY <1>1, <2>2, <2>3
<1>6. ASSUME NEW w \in Workers, NEW a \in Actions, TransitionRead(w, a) PROVE RunExists'
  <2>1. run' = run /\ run.status # "NONE"
    BY <1>6 DEF TransitionRead, db
  <2>2. \A v \in Workers \ {w} : pc'[v] = pc[v]
    BY <1>6 DEF TransitionRead, Goto, TypeOK
  <2> QED
    BY <1>1, <2>1, <2>2
<1>7. ASSUME NEW w \in Workers, TransitionWrite(w) PROVE RunExists'
  <2>1. run.status # "NONE"
    BY <1>7 DEF TransitionWrite, RunExists, InFlight
  <2>2. NextStatus(ctx[w].action) # "NONE"
    BY StatusWritten DEF TypeOK, Local
  <2>3. run' = [run EXCEPT !.status = NextStatus(ctx[w].action)] \/ run' = run
    BY <1>7 DEF TransitionWrite
  <2>4. run'.status # "NONE"
    BY <2>1, <2>2, <2>3 DEF TypeOK, Run
  <2>5. \A v \in Workers \ {w} : pc'[v] = pc[v]
    BY <1>7 DEF TransitionWrite, Goto, Return, TypeOK
  <2> QED
    BY <1>1, <2>4, <2>5
<1>8. ASSUME NEW w \in Workers,
             \/ SaveInsert(w) \/ Cancel(w)
             \/ \E e \in Employees, b \in Salaries : SaveDeactivate(w, e, b)
      PROVE  RunExists'
  <2>1. run' = run
    BY <1>8 DEF SaveInsert, Cancel, SaveDeactivate, db
  <2>2. pc'[w] \in Idle /\ \A v \in Workers \ {w} : pc'[v] = pc[v]
    BY <1>8 DEF SaveInsert, Cancel, SaveDeactivate, Goto, Return, TypeOK
  <2> QED
    BY <1>1, <2>1, <2>2
<1>9. ASSUME UNCHANGED <<run, pc>> PROVE RunExists'
  BY <1>9 DEF RunExists, InFlight
<1>10. CASE \E w \in Workers :
              \/ Step(w)
              \/ ProcessCheck(w)
              \/ \E a \in Actions : TransitionRead(w, a)
              \/ \E e \in Employees, b \in Salaries : SaveDeactivate(w, e, b)
              \/ Cancel(w)
  BY <1>2, <1>3, <1>4, <1>5, <1>6, <1>7, <1>8, <1>10 DEF Step
<1>11. CASE \/ UNCHANGED vars
            \/ \E a \in Advances :
                 \/ \E e \in Employees, amt \in Amounts : CreateAdvance(a, e, amt)
                 \/ ApproveAdvance(a)
                 \/ \E s \in Decisions : DecideAdvance(a, s)
            \/ \E e \in Employees :
                 \/ AttendanceImported(e) \/ Punch(e) \/ ApproveRegularization(e)
                 \/ BatchValidation(e) \/ EmployeeChanges(e)
  BY <1>9, <1>11
     DEF CreateAdvance, ApproveAdvance, DecideAdvance, AttendanceImported, Punch,
         ApproveRegularization, BatchValidation, EmployeeChanges, vars, db
<1> QED
  BY <1>10, <1>11 DEF Next

\* When requests do not overlap, a pass works on an open run only.
LEMMA OpenDuringPass ==
    ASSUME StagesInv, NEW w \in Workers,
           pc[w] \in {"employees", "rows", "advance", "mark", "slip"}
    PROVE  run.status \in Period!Open
<1>1. run.status \in RunStatus
  BY DEF StagesInv, SerialInv, TypeInv, TypeOK, Run
<1>2. run.status # "NONE"
  BY DEF StagesInv, RunExists, InFlight
<1>3. ~Finalized
  BY DEF StagesInv, SerialInv, OnlyPublishing, InFlight
<1> QED
  BY <1>1, <1>2, <1>3 DEF RunStatus, Finalized, Period!Open

\* When requests do not overlap, every statement is a step of PayrollStages or
\* leaves the run, its totals and the amounts of its payslips alone.
LEMMA StagesStep ==
    ASSUME StagesInv, [Next]_vars
    PROVE  [Period!Next]_(Period!stages)
<1> USE DEF StagesInv, SerialInv, TypeInv
<1> DEFINE paid == [e \in Employees |-> Pay(slips[e])]
           Goal == Period!Next \/ UNCHANGED <<run.status, paid, run.totals>>
<1>0. SUFFICES Goal
  BY DEF Period!stages
<1>1. ASSUME NEW w \in Workers, ProcessInsert(w) PROVE Goal
  <2>1. CASE run' = run
    BY <1>1, <2>1 DEF ProcessInsert
  <2>2. CASE run' # run
    <3>1. run.status = "NONE" /\ run' = [run EXCEPT !.status = "PROCESSING"] /\ slips' = slips
      BY <1>1, <2>2 DEF ProcessInsert
    <3>2. run'.status = "PROCESSING" /\ run'.totals = run.totals
      BY <3>1 DEF TypeOK, Run
    <3>3. Period!Begin
      BY <3>1, <3>2 DEF Period!Begin
    <3> QED
      BY <3>3 DEF Period!Next
  <2> QED
    BY <2>1, <2>2
<1>2. ASSUME NEW w \in Workers, RowPayslip(w) PROVE Goal
  <2>1. run' = run
    BY <1>2 DEF RowPayslip
  <2>2. run.status \in Period!Open
    BY <1>2, OpenDuringPass DEF RowPayslip
  <2>3. ctx[w].emp \in Employees
    BY <1>2 DEF RowPayslip, RequestOK
  <2>4. \A e \in Employees \ {ctx[w].emp} : slips'[e] = slips[e]
    BY <1>2 DEF RowPayslip, TypeOK
  <2>5. paid' = [paid EXCEPT ![ctx[w].emp] = paid'[ctx[w].emp]]
    BY <2>3, <2>4
  <2>6. Period!Pay(ctx[w].emp)
    BY <2>1, <2>2, <2>5 DEF Period!Pay
  <2> QED
    BY <2>3, <2>6 DEF Period!Next
<1>3. ASSUME NEW w \in Workers, ProcessFinish(w) PROVE Goal
  <2>1. run.status \in Period!Open
    BY <1>3, OpenDuringPass DEF ProcessFinish
  <2>2. slips' = slips /\ (run' = run \/ run'.status = "VALIDATED")
    BY <1>3 DEF ProcessFinish
  <2>3. CASE run'.status = "VALIDATED"
    BY <2>1, <2>2, <2>3 DEF Period!Complete, Period!Next
  <2> QED
    BY <2>2, <2>3
<1>4. ASSUME NEW w \in Workers, TransitionWrite(w) PROVE Goal
  <2>1. run.status \in RunStatus \ {"NONE"}
    BY <1>4 DEF TransitionWrite, RunExists, InFlight, TypeOK, Run
  <2>2. Finalized => ctx[w].action = "PUBLISH"
    BY <1>4 DEF TransitionWrite, OnlyPublishing, InFlight
  <2>3. slips' = slips
    BY <1>4 DEF TransitionWrite
  <2>4. run' = run \/ run' = [run EXCEPT !.status = NextStatus(ctx[w].action)]
    BY <1>4 DEF TransitionWrite
  <2>5. CASE run' = [run EXCEPT !.status = NextStatus(ctx[w].action)]
    <3>1. run'.status = NextStatus(ctx[w].action) /\ run'.totals = run.totals
      BY <2>5 DEF TypeOK, Run
    <3>2. CASE ctx[w].action = "PUBLISH" /\ run.status # "PUBLISHED"
      <4>1. run.status \in Period!Open \cup {"LOCKED"} /\ run'.status = "PUBLISHED"
        BY <2>1, <3>1, <3>2 DEF RunStatus, Period!Open, NextStatus
      <4>2. Period!Publish
        BY <2>3, <3>1, <4>1 DEF Period!Publish
      <4> QED
        BY <4>2 DEF Period!Next
    <3>3. CASE ctx[w].action = "PUBLISH" /\ run.status = "PUBLISHED"
      BY <2>3, <3>1, <3>3 DEF NextStatus
    <3>4. CASE ctx[w].action # "PUBLISH"
      <4>1. ctx[w].action \in {"VALIDATE", "APPROVE", "LOCK"}
        BY <3>4 DEF TypeOK, Local, Actions
      <4>2. run'.status \in {"VALIDATED", "APPROVED", "LOCKED"}
        BY <3>1, <4>1 DEF NextStatus
      <4>3. run.status \in Period!Open
        BY <2>1, <2>2, <3>4 DEF RunStatus, Finalized, Period!Open
      <4>4. Period!Move
        BY <2>3, <3>1, <4>2, <4>3 DEF Period!Move
      <4> QED
        BY <4>4 DEF Period!Next
    <3> QED
      BY <3>2, <3>3, <3>4
  <2> QED
    BY <2>3, <2>4, <2>5
<1>5. ASSUME NEW w \in Workers, TransitionSlips(w) PROVE Goal
  <2>1. run' = run
    BY <1>5 DEF TransitionSlips
  <2>2. \A e \in Employees :
          slips'[e] = slips[e] \/ slips'[e] = [slips[e] EXCEPT !.status = "PUBLISHED"]
    BY <1>5 DEF TransitionSlips
  <2>3. ASSUME NEW e \in Employees PROVE Pay(slips'[e]) = Pay(slips[e])
    <3>1. CASE slips'[e] = [slips[e] EXCEPT !.status = "PUBLISHED"]
      <4>1. slips[e] \in Slip
        BY DEF TypeOK
      <4>2. /\ slips'[e].gross = slips[e].gross /\ slips'[e].ded = slips[e].ded
            /\ slips'[e].net = slips[e].net /\ slips'[e].advance = slips[e].advance
        BY <3>1, <4>1 DEF Slip
      <4> QED
        BY <4>2 DEF Pay
    <3> QED
      BY <2>2, <3>1
  <2> QED
    BY <2>1, <2>3
<1>6. ASSUME UNCHANGED <<run, slips>> PROVE Goal
  BY <1>6
<1>7. CASE \E w \in Workers :
             ProcessInsert(w) \/ RowPayslip(w) \/ ProcessFinish(w) \/ TransitionWrite(w)
             \/ TransitionSlips(w)
  BY <1>1, <1>2, <1>3, <1>4, <1>5, <1>7
<1>8. CASE ~ \E w \in Workers :
             ProcessInsert(w) \/ RowPayslip(w) \/ ProcessFinish(w) \/ TransitionWrite(w)
             \/ TransitionSlips(w)
  <2>1. UNCHANGED <<run, slips>>
    BY <1>8
       DEF Next, Step, ProcessFetch, ProcessEmployees, RowLop, RowAdvance, RowMarkAdvance,
           SaveInsert, ProcessCheck, TransitionRead, SaveDeactivate, Cancel, CreateAdvance,
           ApproveAdvance, DecideAdvance, AttendanceImported, Punch, ApproveRegularization,
           BatchValidation, EmployeeChanges, vars, db
  <2> QED
    BY <1>6, <2>1
<1> QED
  BY <1>7, <1>8

\* When requests do not overlap, the engine implements PayrollStages, also if
\* requests are cut off or statements fail: HandleProcessPayroll writes payslips
\* and totals of an open run only, and HandleTransitionState leads from LOCKED
\* to PUBLISHED and nowhere else.
THEOREM SerialImplementsStages ==
    ASSUME Serial
    PROVE  Spec => ImplementsStages
<1>1. Init => StagesInv
  BY InitTypes DEF Init, StagesInv, SerialInv, Finalized, RunExists, InFlight
<1>2. StagesInv /\ [Next]_vars => StagesInv'
  BY SerialStep, RunExistsStep DEF StagesInv, SerialInv
<1>3. Init => Period!Init
  <2> SUFFICES ASSUME Init PROVE Period!Init
    OBVIOUS
  <2>1. \A e \in Employees : slips[e] = NoSlip
    BY DEF Init
  <2> QED
    BY <2>1 DEF Init, Period!Init
<1>4. StagesInv /\ [Next]_vars => [Period!Next]_(Period!stages)
  BY StagesStep
<1> QED
  BY <1>1, <1>2, <1>3, <1>4, PTL DEF Spec, ImplementsStages, Period!Spec
-----------------------------------------------------------------------------
\* Requests that do not overlap, when nothing fails

Calm == Serial /\ ~Faults

\* Between the two statements of HandleSaveStructure the employee has no active
\* structure.
SavingOK == \A w \in Workers : pc[w] = "structure" => structures[ctx[w].emp] = << >>

StructureInv == TypeInv /\ OneActiveStructure /\ SavingOK

\* Only HandleSaveStructure touches structures or comes to its second statement.
LEMMA OnlySaveTouchesStructures ==
    ASSUME TypeInv, [Next]_vars,
           ~ \E w \in Workers :
               SaveInsert(w) \/ \E e \in Employees, b \in Salaries : SaveDeactivate(w, e, b)
    PROVE  /\ structures' = structures
           /\ \A w \in Workers :
                pc'[w] = "structure" => pc[w] = "structure" /\ ctx'[w] = ctx[w]
<1> DEFINE Goal == /\ structures' = structures
                   /\ \A w \in Workers :
                        pc'[w] = "structure" => pc[w] = "structure" /\ ctx'[w] = ctx[w]
<1> USE DEF TypeInv, TypeOK
<1>1. CASE UNCHANGED vars
  BY <1>1 DEF vars, db
<1>2. ASSUME NEW w \in Workers, ProcessFetch(w) PROVE Goal
  BY <1>2 DEF ProcessFetch, Goto, Return, db
<1>3. ASSUME NEW w \in Workers, ProcessInsert(w) PROVE Goal
  BY <1>3 DEF ProcessInsert, Goto, Return
<1>4. ASSUME NEW w \in Workers, ProcessEmployees(w) \/ ProcessCheck(w) PROVE Goal
  BY <1>4 DEF ProcessEmployees, ProcessCheck, Goto, db
<1>5. ASSUME NEW w \in Workers, RowLop(w) \/ RowAdvance(w) PROVE Goal
  BY <1>5 DEF RowLop, RowAdvance, Goto, db
<1>6. ASSUME NEW w \in Workers, RowMarkAdvance(w) PROVE Goal
  BY <1>6 DEF RowMarkAdvance, Goto
<1>7. ASSUME NEW w \in Workers, RowPayslip(w) PROVE Goal
  BY <1>7 DEF RowPayslip, Goto, Return
<1>8. ASSUME NEW w \in Workers, ProcessFinish(w) \/ TransitionSlips(w) \/ Cancel(w) PROVE Goal
  BY <1>8 DEF ProcessFinish, TransitionSlips, Cancel, Return, db
<1>9. ASSUME NEW w \in Workers, TransitionWrite(w) PROVE Goal
  BY <1>9 DEF TransitionWrite, Goto, Return
<1>10. ASSUME NEW w \in Workers, NEW a \in Actions, TransitionRead(w, a) PROVE Goal
  BY <1>10 DEF TransitionRead, Goto, db
<1>11. ASSUME UNCHANGED <<structures, pc, ctx>> PROVE Goal
  BY <1>11
<1>12. CASE \E w \in Workers :
              \/ Step(w)
              \/ ProcessCheck(w)
              \/ \E a \in Actions : TransitionRead(w, a)
              \/ \E e \in Employees, b \in Salaries : SaveDeactivate(w, e, b)
              \/ Cancel(w)
  BY <1>2, <1>3, <1>4, <1>5, <1>6, <1>7, <1>8, <1>9, <1>10, <1>12 DEF Step
<1>13. CASE \/ \E a \in Advances :
                 \/ \E e \in Employees, amt \in Amounts : CreateAdvance(a, e, amt)
                 \/ ApproveAdvance(a)
                 \/ \E s \in Decisions : DecideAdvance(a, s)
            \/ \E e \in Employees :
                 \/ AttendanceImported(e) \/ Punch(e) \/ ApproveRegularization(e)
                 \/ BatchValidation(e) \/ EmployeeChanges(e)
  BY <1>11, <1>13
     DEF CreateAdvance, ApproveAdvance, DecideAdvance, AttendanceImported, Punch,
         ApproveRegularization, BatchValidation, EmployeeChanges
<1> QED
  BY <1>1, <1>12, <1>13 DEF Next

\* An employee never has a second active structure: SaveInsert finds none left.
LEMMA StructureStep ==
    ASSUME Calm, StructureInv, [Next]_vars
    PROVE  StructureInv'
<1> USE DEF Calm
<1>0. TypeInv /\ TypeInv'
  BY TypeStep DEF StructureInv
<1>1. ASSUME NEW w \in Workers, SaveInsert(w) PROVE StructureInv'
  <2>1. ctx[w].emp \in Employees /\ structures[ctx[w].emp] = << >>
    BY <1>1 DEF SaveInsert, StructureInv, SavingOK, TypeInv, RequestOK
  <2>2. Len(Append(<< >>, ctx[w].base)) = 1
    OBVIOUS
  <2>3. structures' = [structures EXCEPT ![ctx[w].emp] = Append(<< >>, ctx[w].base)]
    BY <1>1, <2>1 DEF SaveInsert
  <2>4. OneActiveStructure'
    BY <1>0, <2>1, <2>2, <2>3 DEF StructureInv, OneActiveStructure, TypeInv, TypeOK
  <2>5. \A v \in Workers : v = w
    BY DEF Serial
  <2>6. pc'[w] = "idle"
    BY <1>0, <1>1 DEF SaveInsert, Return, TypeInv, TypeOK
  <2> QED
    BY <1>0, <2>4, <2>5, <2>6 DEF StructureInv, SavingOK
<1>2. ASSUME NEW w \in Workers, NEW e \in Employees, NEW b \in Salaries, SaveDeactivate(w, e, b)
      PROVE  StructureInv'
  <2>1. structures' = [structures EXCEPT ![e] = << >>]
    BY <1>2 DEF SaveDeactivate
  <2>2. OneActiveStructure'
    BY <1>0, <2>1 DEF StructureInv, OneActiveStructure, TypeInv, TypeOK
  <2>3. \A v \in Workers : v = w
    BY DEF Serial
  <2>4. ctx'[w].emp = e
    BY <1>0, <1>2 DEF SaveDeactivate, TypeInv, TypeOK, Local
  <2>5. structures'[e] = << >>
    BY <1>0, <2>1 DEF TypeInv, TypeOK
  <2> QED
    BY <1>0, <2>2, <2>3, <2>4, <2>5 DEF StructureInv, SavingOK
<1>3. CASE ~ \E w \in Workers :
             SaveInsert(w) \/ \E e \in Employees, b \in Salaries : SaveDeactivate(w, e, b)
  <2>1. /\ structures' = structures
        /\ \A w \in Workers :
             pc'[w] = "structure" => pc[w] = "structure" /\ ctx'[w] = ctx[w]
    BY <1>0, <1>3, OnlySaveTouchesStructures
  <2> QED
    BY <1>0, <2>1 DEF StructureInv, OneActiveStructure, SavingOK
<1> QED
  BY <1>1, <1>2, <1>3

\* No structure and no request at the start.
LEMMA StructureInit == Init => StructureInv
BY InitTypes DEF Init, StructureInv, OneActiveStructure, SavingOK

\* When requests do not overlap and nothing fails, an employee has at most one
\* active structure after any sequence of HandleSaveStructure calls, although
\* it deactivates and inserts in two statements.
THEOREM SerialOneActiveStructure ==
    ASSUME Calm
    PROVE  Spec => []OneActiveStructure
<1>1. StructureInv /\ [Next]_vars => StructureInv'
  BY StructureStep
<1>2. StructureInv => OneActiveStructure
  BY DEF StructureInv
<1> QED
  BY StructureInit, <1>1, <1>2, PTL DEF Spec

-----------------------------------------------------------------------------
\* A PUBLISHED run still has GENERATED payslips only while the request that
\* published it is about to update them.
PublishOK ==
    run.status = "PUBLISHED" =>
        \/ \A e \in Employees : slips[e].status # "GENERATED"
        \/ \E w \in Workers : pc[w] = "publish"

PublishInv == SerialInv /\ PublishOK

\* Only the statements of PUBLISH matter to a published run: the others leave
\* its payslips and the request at "publish" alone.
LEMMA PublishStep ==
    ASSUME Calm, PublishInv, [Next]_vars
    PROVE  PublishInv'
<1> USE DEF Calm
<1>0. TypeInv /\ SerialInv /\ SerialInv'
  BY SerialStep DEF PublishInv, SerialInv
<1>1. SUFFICES ASSUME run'.status = "PUBLISHED" PROVE PublishOK'
  BY <1>0 DEF PublishInv, PublishOK
<1>2. ASSUME NEW w \in Workers, TransitionWrite(w) PROVE PublishOK'
  <2>1. ctx[w].action = "PUBLISH"
    <3>1. ctx[w].action \in Actions
      BY <1>0 DEF TypeInv, TypeOK, Local
    <3>2. run' = [run EXCEPT !.status = NextStatus(ctx[w].action)]
      BY <1>2 DEF TransitionWrite
    <3>3. NextStatus(ctx[w].action) = "PUBLISHED"
      BY <1>0, <1>1, <3>2 DEF TypeInv, TypeOK, Run
    <3> QED
      BY <3>1, <3>3 DEF NextStatus, Actions
  <2>2. pc'[w] = "publish"
    BY <1>0, <1>2, <2>1 DEF TransitionWrite, Goto, TypeInv, TypeOK
  <2> QED
    BY <2>2 DEF PublishOK
<1>3. ASSUME NEW w \in Workers, TransitionSlips(w) PROVE PublishOK'
  <2>1. slips' = [e \in Employees |-> IF slips[e].status = "NONE" THEN slips[e]
                                      ELSE [slips[e] EXCEPT !.status = "PUBLISHED"]]
    BY <1>3 DEF TransitionSlips
  <2>2. ASSUME NEW e \in Employees PROVE slips'[e].status # "GENERATED"
    BY <1>0, <2>1 DEF TypeInv, TypeOK, Slip
  <2> QED
    BY <2>2 DEF PublishOK
<1>4. CASE /\ ~ \E w \in Workers : TransitionWrite(w) \/ TransitionSlips(w)
           /\ Next
  <2>1. Finalized
    BY <1>0, <1>1, <1>4, OnlyTransitionFinalizes DEF Finalized
  <2>2. KeepsFinal
    BY <1>0, <1>4, <2>1, FinalStep DEF SerialInv
  <2>3. run.status = "PUBLISHED"
    <3>1. ASSUME run' # run PROVE FALSE
      <4>1. \E w \in Workers : ProcessInsert(w) \/ ProcessFinish(w)
        BY <1>4, <3>1
           DEF Next, Step, ProcessFetch, ProcessEmployees, RowLop, RowAdvance, RowMarkAdvance,
               RowPayslip, SaveInsert, ProcessCheck, TransitionRead, SaveDeactivate,
               Cancel, CreateAdvance, ApproveAdvance, DecideAdvance, AttendanceImported,
               Punch, ApproveRegularization, BatchValidation, EmployeeChanges, db
      <4>2. ASSUME NEW w \in Workers, ProcessInsert(w) PROVE FALSE
        BY <2>1, <3>1, <4>2 DEF ProcessInsert, Finalized
      <4>3. ASSUME NEW w \in Workers, ProcessFinish(w) PROVE FALSE
        BY <1>1, <4>3 DEF ProcessFinish, Calm
      <4> QED
        BY <4>1, <4>2, <4>3
    <3> QED
      BY <1>1, <3>1
  <2>4. CASE \A e \in Employees : slips[e].status # "GENERATED"
    <3>1. ASSUME NEW e \in Employees PROVE slips'[e].status # "GENERATED"
      BY <1>0, <2>2, <2>4 DEF KeepsFinal, TypeInv, TypeOK, Slip
    <3> QED
      BY <3>1 DEF PublishOK
  <2>5. CASE \E w \in Workers : pc[w] = "publish"
    <3>1. PICK w \in Workers : pc[w] = "publish"
      BY <2>5
    <3>2. \A v \in Workers : v = w
      BY DEF Serial
    <3>3. pc' = pc
      BY <1>4, <3>1, <3>2
         DEF Next, Step, ProcessFetch, ProcessInsert, ProcessFinish, TransitionWrite,
             ProcessEmployees, RowLop, RowAdvance, RowMarkAdvance,
             RowPayslip, SaveInsert, ProcessCheck, TransitionRead, SaveDeactivate,
             Cancel, CreateAdvance, ApproveAdvance, DecideAdvance, AttendanceImported,
             Punch, ApproveRegularization, BatchValidation, EmployeeChanges, db
    <3> QED
      BY <3>1, <3>3 DEF PublishOK
  <2> QED
    BY <2>3, <2>4, <2>5 DEF PublishInv, PublishOK
<1>5. CASE UNCHANGED vars
  BY <1>5 DEF PublishInv, PublishOK, vars, db
<1> QED
  BY <1>2, <1>3, <1>4, <1>5

\* When requests do not overlap and nothing fails, a PUBLISHED run has no
\* payslip that is still GENERATED once its request is answered: TransitionSlips
\* follows TransitionWrite, and no pass gets past the status check again.
THEOREM SerialPublishedSlips ==
    ASSUME Calm
    PROVE  Spec => []PublishedRunHasPublishedSlips
<1>1. Init => PublishInv
  BY InitTypes DEF Init, PublishInv, SerialInv, PublishOK, Finalized
<1>2. PublishInv /\ [Next]_vars => PublishInv'
  BY PublishStep
<1>3. PublishInv => PublishedRunHasPublishedSlips
  BY DEF PublishInv, PublishOK, PublishedRunHasPublishedSlips, Quiescent, InFlight
<1> QED
  BY <1>1, <1>2, <1>3, PTL DEF Spec
-----------------------------------------------------------------------------
\* One pass of HandleProcessPayroll, undisturbed: also no salary that makes the
\* pass panic (a base of 0, which has no components).
Undisturbed == Calm /\ \A b \in Salaries : CalculateSalaryBreakdown(b).components

InPass(w) == pc[w] \in {"employees", "rows", "advance", "mark", "slip"}
Looping(w) == pc[w] \in {"rows", "advance", "mark", "slip"}

\* A request starts its pass without local variables.
FreshOK ==
    \A w \in Workers : pc[w] \in {"idle", "fetch", "insert", "employees"} => ctx[w] = NoLocal

\* No employee comes up twice in a pass, and no row makes it panic.
RowsOK(w) ==
    /\ \A r \in ctx[w].todo :
         r.emp \notin ctx[w].done /\ CalculateSalaryBreakdown(r.base).components
    /\ \A r, q \in ctx[w].todo : r.emp = q.emp => r = q
    /\ pc[w] # "rows" => /\ ctx[w].emp \notin ctx[w].done
                         /\ \A r \in ctx[w].todo : r.emp # ctx[w].emp
                         /\ CalculateSalaryBreakdown(ctx[w].base).components

\* The advance that is about to be marked is one of the employee at hand.
MarkOK(w) ==
    pc[w] = "mark" => /\ advances[ctx[w].advance].emp = ctx[w].emp
                      /\ advances[ctx[w].advance].status # "NONE"

\* Every advance marked so far is on the payslip of its employee, or on its way
\* there.
TakenOK(w) ==
    \A a \in ctx[w].taken :
        /\ advances[a].status # "NONE"
        /\ \/ /\ advances[a].emp \in ctx[w].done
              /\ slips[advances[a].emp].advance = a
           \/ /\ pc[w] = "slip"
              /\ ctx[w].advance = a
              /\ advances[a].emp = ctx[w].emp

\* The payslips of S add up to t but for half a paisa each.
Within(S, t) ==
    LET slack == Cardinality(S) * (Paisa \div 2)
    IN  TotalPay(NetPay, S) - t \in -slack .. slack

\* The totals of the pass so far are those of the payslips it has written.
SumsOK(w) ==
    /\ Within(ctx[w].done, ctx[w].totals.net)
    /\ ctx[w].totals.employees = Cardinality(ctx[w].done)

PassOK(w) == RowsOK(w) /\ MarkOK(w) /\ TakenOK(w) /\ SumsOK(w)

\* What the latest pass left behind, until the next one overwrites payslips.
LastKept == \A a \in last.advances : advances[a].status # "NONE"
LastOK ==
    /\ \A a \in last.advances : slips[advances[a].emp].advance = a
    /\ AddsUp(last.emps, run.totals.net)
    /\ run.totals.employees = Cardinality(last.emps)

PassInv ==
    /\ StructureInv
    /\ FreshOK
    /\ \A w \in Workers : Looping(w) => PassOK(w)
    /\ LastKept
    /\ (\A w \in Workers : ~InPass(w)) => LastOK

\* The join gives one row per employee.
LEMMA OneRowPerEmployee ==
    ASSUME Undisturbed, StructureInv
    PROVE  /\ \A r \in EmpList : CalculateSalaryBreakdown(r.base).components
           /\ \A r, q \in EmpList : r.emp = q.emp => r = q
<1>1. ASSUME NEW e \in active, NEW r \in Row(e)
      PROVE  /\ r.emp = e
             /\ CalculateSalaryBreakdown(r.base).components
             /\ \A q \in Row(e) : q = r
  <2>0. e \in Employees /\ structures[e] \in Seq(Salaries) /\ Len(structures[e]) <= 1
    BY <1>1 DEF StructureInv, OneActiveStructure, TypeInv, TypeOK
  <2>1. CASE structures[e] = << >>
    <3>1. Row(e) = {[emp |-> e, k |-> 0, base |-> DefaultBaseSalary]}
      BY <2>1 DEF Row
    <3>2. CalculateSalaryBreakdown(DefaultBaseSalary).components
      BY DEF CalculateSalaryBreakdown, DefaultBaseSalary
    <3> QED
      BY <1>1, <3>1, <3>2
  <2>2. CASE structures[e] # << >>
    <3>1. DOMAIN structures[e] = {1}
      <4> DEFINE s == structures[e]
      <4>1. Len(s) \in Nat \ {0}
        <5>1. s \in Seq(Salaries) /\ s # << >>
          BY <2>0, <2>2
        <5> HIDE DEF s
        <5> QED
          BY <5>1, EmptySeq
      <4>2. Len(s) = 1
        <5> DEFINE n == Len(s)
        <5>1. n \in Nat \ {0} /\ n <= 1
          BY <2>0, <4>1
        <5> HIDE DEF n
        <5>2. n = 1
          BY <5>1
        <5> QED
          BY <5>2 DEF n
      <4> QED
        BY <2>0, <4>2, LenProperties
    <3>2. structures[e][1] \in Salaries
      BY <2>0, <3>1, ElementOfSeq, LenProperties
    <3>3. Row(e) = {[emp |-> e, k |-> i, base |-> structures[e][i]] : i \in {1}}
      BY <2>2, <3>1 DEF Row
    <3>4. Row(e) = {[emp |-> e, k |-> 1, base |-> structures[e][1]]}
      BY <3>3
    <3> QED
      BY <1>1, <3>2, <3>4 DEF Undisturbed
  <2> QED
    BY <2>1, <2>2
<1> QED
  BY <1>1 DEF EmpList

\* Net pays are natural numbers, and the sets of employees finite.
LEMMA PayTypes ==
    ASSUME TypeOK
    PROVE  /\ \A e \in Employees : NetPay[e] \in Int
           /\ \A S \in SUBSET Employees : IsFiniteSet(S) /\ Cardinality(S) \in Nat
<1>1. \A e \in Employees : NetPay[e] \in Int
  BY DEF TypeOK, Slip, NetPay
<1>2. \A S \in SUBSET Employees : IsFiniteSet(S) /\ Cardinality(S) \in Nat
  BY ConstantsAssumption, FS_Subset, FS_CardinalityType
<1> QED
  BY <1>1, <1>2

\* Sums of payslips whose net pay stays the same stay the same.
LEMMA SameSums ==
    ASSUME TypeOK, NEW S \in SUBSET Employees,
           \A e \in S : slips'[e].net = slips[e].net
    PROVE  TotalPay(NetPay', S) = TotalPay(NetPay, S)
<1>1. \A e \in S : NetPay[e] \in Int /\ NetPay'[e] = NetPay[e]
  BY PayTypes DEF NetPay
<1>2. IsFiniteSet(S)
  BY PayTypes
<1> DEFINE old == NetPay  new == NetPay'
<1> HIDE DEF old, new
<1>3. \A e \in S : old[e] \in Int /\ new[e] = old[e]
  BY <1>1 DEF old, new
<1>4. TotalPay(new, S) = TotalPay(old, S)
  BY <1>2, <1>3, TotalPayOfSame
<1> QED
  BY <1>4 DEF old, new
\* Totals and payslips that a step leaves alone still add up.
LEMMA SumsKept ==
    ASSUME NEW w, SumsOK(w), slips' = slips,
           ctx'[w].done = ctx[w].done, ctx'[w].totals = ctx[w].totals
    PROVE  SumsOK(w)'
<1>1. NetPay' = NetPay
  BY DEF NetPay
<1> QED
  BY <1>1 DEF SumsOK, Within

\* What the latest pass left stays right while amounts and deductions stay.
LEMMA LastStays ==
    ASSUME TypeOK, LastKept, LastOK, last' = last, run'.totals = run.totals,
           \A e \in Employees : /\ slips'[e].net = slips[e].net
                                /\ slips'[e].advance = slips[e].advance,
           \A a \in Advances : advances[a].status # "NONE" => advances'[a].emp = advances[a].emp
    PROVE  LastOK'
<1>1. last.advances \in SUBSET Advances /\ last.emps \in SUBSET Employees
  BY DEF TypeOK
<1>2. \A a \in last.advances : advances'[a].emp = advances[a].emp /\ advances[a].emp \in Employees
  BY <1>1 DEF LastKept, TypeOK, Advance
<1>3. \A a \in last'.advances : slips'[advances'[a].emp].advance = a
  BY <1>2 DEF LastOK
<1>4. TotalPay(NetPay', last.emps) = TotalPay(NetPay, last.emps)
  BY <1>1, SameSums
<1>5. AddsUp(last.emps, run.totals.net)'
  BY <1>4 DEF LastOK, AddsUp
<1>6. (run.totals.employees = Cardinality(last.emps))'
  BY DEF LastOK
<1> QED
  BY <1>3, <1>5, <1>6 DEF LastOK

\* A step outside of any pass that leaves amounts, deductions and advances alone.
LEMMA OutsidePass ==
    ASSUME Serial, PassInv, StructureInv', NEW w \in Workers,
           ~InPass(w), ~Looping(w)',
           pc'[w] \in {"idle", "fetch", "insert", "employees"} => ctx'[w] = NoLocal,
           UNCHANGED <<advances, last>>, run'.totals = run.totals,
           \A e \in Employees : /\ slips'[e].net = slips[e].net
                                /\ slips'[e].advance = slips[e].advance
    PROVE  PassInv'
<1>1. \A v \in Workers : v = w
  BY DEF Serial
<1>2. TypeOK /\ LastKept /\ LastOK
  BY <1>1 DEF PassInv, StructureInv, TypeInv
<1>3. LastOK'
  BY <1>2, LastStays
<1>4. LastKept'
  BY <1>2 DEF LastKept
<1>5. FreshOK'
  BY <1>1 DEF FreshOK
<1>6. \A v \in Workers : ~Looping(v)'
  BY <1>1
<1> QED
  BY <1>3, <1>4, <1>5, <1>6 DEF PassInv

\* A step of the rest of the system: advances may be created and decided.
LEMMA AroundPass ==
    ASSUME PassInv, StructureInv', UNCHANGED <<run, slips, pc, ctx, last>>,
           \A a \in Advances :
               advances[a].status # "NONE" =>
                   advances'[a].emp = advances[a].emp /\ advances'[a].status # "NONE"
    PROVE  PassInv'
<1>0. TypeInv /\ TypeOK /\ LastKept
  BY DEF PassInv, StructureInv, TypeInv
<1>1. LastKept'
  BY <1>0 DEF LastKept, TypeOK
<1>2. ASSUME LastOK PROVE LastOK'
  BY <1>0, <1>2, LastStays
<1>3. ASSUME NEW w \in Workers, Looping(w) PROVE PassOK(w)'
  <2>1. PassOK(w) /\ ctx[w] \in Local
    BY <1>0, <1>3 DEF PassInv, TypeOK
  <2>2. RowsOK(w)'
    BY <2>1 DEF PassOK, RowsOK
  <2>3. MarkOK(w)'
    BY <1>0, <2>1 DEF PassOK, MarkOK, TypeInv, RequestOK
  <2>4. TakenOK(w)'
    <3>1. ctx[w].taken \in SUBSET Advances
      BY <2>1 DEF Local
    <3>2. ASSUME NEW a \in ctx[w].taken
          PROVE  /\ advances'[a].status # "NONE"
                 /\ \/ /\ advances'[a].emp \in ctx[w].done
                       /\ slips[advances'[a].emp].advance = a
                    \/ /\ pc[w] = "slip"
                       /\ ctx[w].advance = a
                       /\ advances'[a].emp = ctx[w].emp
      BY <2>1, <3>1 DEF PassOK, TakenOK
    <3> QED
      BY <3>2 DEF TakenOK
  <2>5. SumsOK(w)'
    BY <2>1, SumsKept DEF PassOK
  <2> QED
    BY <2>2, <2>3, <2>4, <2>5 DEF PassOK
<1>4. FreshOK'
  BY DEF PassInv, FreshOK
<1> QED
  BY <1>1, <1>2, <1>3, <1>4 DEF PassInv, Looping, InPass

\* A step of the loop: what it has to establish for the request at hand.
LEMMA InsidePass ==
    ASSUME Serial, PassInv, StructureInv', NEW w \in Workers, Looping(w)', PassOK(w)',
           last' = last,
           \A a \in Advances : advances[a].status # "NONE" => advances'[a].status # "NONE"
    PROVE  PassInv'
<1>1. \A v \in Workers : v = w
  BY DEF Serial
<1>2. LastKept'
  BY DEF PassInv, LastKept, StructureInv, TypeInv, TypeOK
<1>3. FreshOK'
  BY <1>1 DEF FreshOK, Looping
<1>4. InPass(w)'
  BY DEF Looping, InPass
<1> QED
  BY <1>1, <1>2, <1>3, <1>4 DEF PassInv
\* ProcessEmployees: the pass begins with one row per employee and nothing done.
LEMMA PassBegins ==
    ASSUME Undisturbed, PassInv, StructureInv', NEW w \in Workers, ProcessEmployees(w)
    PROVE  PassInv'
<1>0. TypeOK /\ StructureInv
  BY DEF PassInv, StructureInv, TypeInv
<1>1. ctx[w] = NoLocal
  BY DEF ProcessEmployees, PassInv, FreshOK
<1>2. /\ pc'[w] = "rows" /\ ctx'[w].todo = EmpList
      /\ ctx'[w].done = {} /\ ctx'[w].taken = {} /\ ctx'[w].totals = NoTotals
  <2>1. ctx'[w] = [ctx[w] EXCEPT !.todo = EmpList] /\ pc'[w] = "rows"
    BY <1>0 DEF ProcessEmployees, Goto, TypeOK, Undisturbed, Calm
  <2> QED
    BY <1>1, <2>1 DEF NoLocal
<1>3. UNCHANGED <<advances, slips, last>>
  BY DEF ProcessEmployees, db
<1>4. RowsOK(w)'
  BY <1>0, <1>2, OneRowPerEmployee DEF RowsOK
<1>5. MarkOK(w)' /\ TakenOK(w)'
  BY <1>2 DEF MarkOK, TakenOK
<1>6. SumsOK(w)'
  <2>1. Cardinality({}) = 0
    BY FS_EmptySet
  <2>2. TotalPay(NetPay', {}) = 0
    BY TotalPayOfNone
  <2>3. Within({}, 0)'
    BY <2>1, <2>2 DEF Within, Paisa
  <2> QED
    BY <1>2, <2>1, <2>3 DEF SumsOK, NoTotals
<1>7. PassOK(w)' /\ Looping(w)'
  BY <1>2, <1>4, <1>5, <1>6 DEF PassOK, Looping
<1> QED
  BY <1>3, <1>7, InsidePass DEF Undisturbed, Calm

\* RowLop: the row leaves todo and becomes the employee at hand.
LEMMA PassTakesRow ==
    ASSUME Undisturbed, PassInv, StructureInv', NEW w \in Workers, RowLop(w)
    PROVE  PassInv'
<1>0. TypeOK /\ ctx[w] \in Local /\ pc[w] = "rows"
  BY DEF PassInv, StructureInv, TypeInv, TypeOK, RowLop
<1>1. PassOK(w)
  BY <1>0 DEF PassInv, Looping
<1>2. PICK r \in ctx[w].todo, lop \in 0 .. MaxAbsent :
        ctx' = [ctx EXCEPT ![w].todo = @ \ {r}, ![w].emp = r.emp, ![w].base = r.base,
                           ![w].lop = lop]
  BY DEF RowLop
<1>3. /\ pc'[w] = "advance"
      /\ ctx'[w].todo = ctx[w].todo \ {r} /\ ctx'[w].emp = r.emp /\ ctx'[w].base = r.base
      /\ ctx'[w].done = ctx[w].done /\ ctx'[w].taken = ctx[w].taken
      /\ ctx'[w].totals = ctx[w].totals
  BY <1>0, <1>2 DEF RowLop, Goto, TypeOK, Local
<1>4. UNCHANGED <<advances, slips, last>>
  BY DEF RowLop, db
<1>5. RowsOK(w)'
  BY <1>1, <1>3 DEF PassOK, RowsOK
<1>6. MarkOK(w)' /\ TakenOK(w)'
  BY <1>0, <1>1, <1>3, <1>4 DEF PassOK, MarkOK, TakenOK
<1>7. SumsOK(w)'
  BY <1>1, <1>3, <1>4, SumsKept DEF PassOK
<1>8. PassOK(w)' /\ Looping(w)'
  BY <1>3, <1>5, <1>6, <1>7 DEF PassOK, Looping
<1> QED
  BY <1>4, <1>8, InsidePass DEF Undisturbed, Calm

\* RowAdvance: the advance it finds is one of the employee at hand.
LEMMA PassFindsAdvance ==
    ASSUME Undisturbed, PassInv, StructureInv', NEW w \in Workers, RowAdvance(w)
    PROVE  PassInv'
<1>0. TypeOK /\ ctx[w] \in Local /\ pc[w] = "advance"
  BY DEF PassInv, StructureInv, TypeInv, TypeOK, RowAdvance
<1>1. PassOK(w)
  BY <1>0 DEF PassInv, Looping
<1>2. UNCHANGED <<advances, slips, last>>
  BY DEF RowAdvance, db
<1>3. /\ pc'[w] \in {"mark", "slip"}
      /\ ctx'[w].todo = ctx[w].todo /\ ctx'[w].emp = ctx[w].emp /\ ctx'[w].base = ctx[w].base
      /\ ctx'[w].done = ctx[w].done /\ ctx'[w].taken = ctx[w].taken
      /\ ctx'[w].totals = ctx[w].totals
      /\ pc'[w] = "mark" => ctx'[w].advance \in Outstanding(ctx[w].emp)
  <2>1. CASE \E a \in Outstanding(ctx[w].emp) :
               /\ ctx' = [ctx EXCEPT ![w].advance = a, ![w].amount = advances[a].amount]
               /\ Goto(w, "mark")
    BY <1>0, <2>1 DEF Goto, TypeOK, Local
  <2>2. CASE /\ ctx' = [ctx EXCEPT ![w].advance = NoAdvance, ![w].amount = 0]
             /\ Goto(w, "slip")
    BY <1>0, <2>2 DEF Goto, TypeOK, Local
  <2> QED
    BY <2>1, <2>2 DEF RowAdvance
<1>4. RowsOK(w)'
  BY <1>0, <1>1, <1>3 DEF PassOK, RowsOK
<1>5. MarkOK(w)'
  BY <1>2, <1>3 DEF MarkOK, Outstanding
<1>6. TakenOK(w)'
  BY <1>0, <1>1, <1>2, <1>3 DEF PassOK, TakenOK
<1>7. SumsOK(w)'
  BY <1>1, <1>2, <1>3, SumsKept DEF PassOK
<1>8. PassOK(w)' /\ Looping(w)'
  BY <1>3, <1>4, <1>5, <1>6, <1>7 DEF PassOK, Looping
<1> QED
  BY <1>2, <1>8, InsidePass DEF Undisturbed, Calm

\* RowMarkAdvance: the advance is taken, and its payslip is the next statement.
LEMMA PassMarksAdvance ==
    ASSUME Undisturbed, PassInv, StructureInv', NEW w \in Workers, RowMarkAdvance(w)
    PROVE  PassInv'
<1>0. TypeOK /\ ctx[w] \in Local /\ pc[w] = "mark" /\ ctx[w].advance \in Advances
  BY DEF PassInv, StructureInv, TypeInv, TypeOK, RequestOK, RowMarkAdvance
<1>1. PassOK(w)
  BY <1>0 DEF PassInv, Looping
<1>2. /\ advances' = [advances EXCEPT ![ctx[w].advance].status = "DEDUCTED"]
      /\ UNCHANGED <<slips, last>>
  BY DEF RowMarkAdvance, Undisturbed, Calm
<1>3. /\ pc'[w] = "slip"
      /\ ctx'[w].todo = ctx[w].todo /\ ctx'[w].emp = ctx[w].emp /\ ctx'[w].base = ctx[w].base
      /\ ctx'[w].done = ctx[w].done /\ ctx'[w].advance = ctx[w].advance
      /\ ctx'[w].taken = ctx[w].taken \cup {ctx[w].advance}
      /\ ctx'[w].totals = ctx[w].totals
  BY <1>0 DEF RowMarkAdvance, Goto, TypeOK, Local
<1>4. ASSUME NEW a \in Advances
      PROVE  /\ advances'[a].emp = advances[a].emp
             /\ advances[a].status # "NONE" => advances'[a].status # "NONE"
  BY <1>0, <1>2 DEF TypeOK, Advance
<1>5. RowsOK(w)'
  BY <1>0, <1>1, <1>3 DEF PassOK, RowsOK
<1>6. TakenOK(w)'
  <2>1. ctx[w].taken \in SUBSET Advances
    BY <1>0 DEF Local
  <2>2. ASSUME NEW a \in ctx[w].taken
        PROVE  /\ advances'[a].status # "NONE"
               /\ advances'[a].emp \in ctx'[w].done
               /\ slips'[advances'[a].emp].advance = a
    BY <1>0, <1>1, <1>2, <1>3, <1>4, <2>1 DEF PassOK, TakenOK
  <2>3. /\ advances'[ctx[w].advance].status # "NONE"
        /\ advances'[ctx[w].advance].emp = ctx'[w].emp
    BY <1>0, <1>1, <1>3, <1>4 DEF PassOK, MarkOK
  <2> QED
    BY <1>3, <2>2, <2>3 DEF TakenOK
<1>7. MarkOK(w)'
  BY <1>3 DEF MarkOK
<1>8. SumsOK(w)'
  BY <1>1, <1>2, <1>3, SumsKept DEF PassOK
<1>9. PassOK(w)' /\ Looping(w)'
  BY <1>3, <1>5, <1>6, <1>7, <1>8 DEF PassOK, Looping
<1> QED
  BY <1>2, <1>4, <1>9, InsidePass DEF Undisturbed, Calm
\* RowPayslip: the payslip of the employee at hand carries the advance, and
\* its net pay joins the totals.
LEMMA PassWritesSlip ==
    ASSUME Undisturbed, PassInv, StructureInv', NEW w \in Workers, RowPayslip(w)
    PROVE  PassInv'
<1> DEFINE c == ctx[w]
           s == SlipAmounts(c.base, c.lop, c.amount)
           slip == [status |-> "GENERATED", gross |-> ToPaise(s.gross),
                    ded |-> ToPaise(s.ded), net |-> ToPaise(s.net), advance |-> c.advance]
<1>0. /\ TypeOK /\ c \in Local /\ pc[w] = "slip" /\ c.emp \in Employees
      /\ c.done \in SUBSET Employees
  BY DEF PassInv, StructureInv, TypeInv, TypeOK, RequestOK, RowPayslip, Local
<1>1. PassOK(w)
  BY <1>0 DEF PassInv, Looping
<1>2. c.emp \notin c.done /\ CalculateSalaryBreakdown(c.base).components
  BY <1>0, <1>1 DEF PassOK, RowsOK
<1>3. /\ slips' = [slips EXCEPT ![c.emp] = slip]
      /\ ctx' = [ctx EXCEPT ![w].totals = AddTotals(c.totals, s, c.lop, c.amount),
                            ![w].done = c.done \cup {c.emp}]
      /\ Goto(w, "rows")
      /\ UNCHANGED <<advances, last>>
  BY <1>0, <1>2 DEF RowPayslip, Undisturbed, Calm, TypeOK
<1>4. s.net \in Nat /\ c.totals \in Totals
  <2>1. c.base \in Nat /\ c.lop \in Nat /\ c.amount \in Nat /\ c.totals \in Totals
    BY <1>0 DEF Local
  <2> QED
    BY <2>1, SlipTypes
<1> HIDE DEF s
<1>5. slip.net = ToPaise(s.net) /\ slip.advance = c.advance
  OBVIOUS
<1> HIDE DEF slip
<1>6. /\ pc'[w] = "rows"
      /\ ctx'[w].todo = c.todo /\ ctx'[w].taken = c.taken
      /\ ctx'[w].done = c.done \cup {c.emp}
      /\ ctx'[w].totals = AddTotals(c.totals, s, c.lop, c.amount)
  BY <1>0, <1>3 DEF Goto, TypeOK, Local
<1>7. slips'[c.emp] = slip /\ \A e \in Employees \ {c.emp} : slips'[e] = slips[e]
  BY <1>0, <1>3 DEF TypeOK
<1>8. RowsOK(w)'
  BY <1>0, <1>1, <1>6 DEF PassOK, RowsOK
<1>9. MarkOK(w)'
  BY <1>6 DEF MarkOK
<1>10. TakenOK(w)'
  <2>1. ASSUME NEW a \in c.taken
        PROVE  /\ advances[a].status # "NONE"
               /\ advances[a].emp \in ctx'[w].done
               /\ slips'[advances[a].emp].advance = a
    <3>1. a \in Advances /\ advances[a].status # "NONE"
      BY <1>0, <1>1 DEF PassOK, TakenOK, Local
    <3>2. CASE advances[a].emp \in c.done /\ slips[advances[a].emp].advance = a
      <4>1. advances[a].emp \in Employees \ {c.emp}
        BY <1>0, <1>2, <3>2
      <4> QED
        BY <1>6, <1>7, <3>1, <3>2, <4>1
    <3>3. CASE c.advance = a /\ advances[a].emp = c.emp
      BY <1>5, <1>6, <1>7, <3>1, <3>3
    <3> QED
      BY <1>1, <3>2, <3>3 DEF PassOK, TakenOK
  <2> QED
    BY <1>3, <1>6, <2>1 DEF TakenOK
<1>11. SumsOK(w)'
  <2> DEFINE old == TotalPay(NetPay, c.done)
             new == TotalPay(NetPay', c.done \cup {c.emp})
             n == Cardinality(c.done)
             t == c.totals.net
             paid == ToPaise(s.net)
  <2>1. TypeOK'
    BY DEF StructureInv, TypeInv
  <2>2. IsFiniteSet(c.done) /\ n \in Nat /\ Cardinality(c.done \cup {c.emp}) = n + 1
    BY <1>0, <1>2, PayTypes, FS_AddElement
  <2>3. TotalPay(NetPay', c.done) = old
    BY <1>0, <1>2, <1>7, SameSums
  <2>4. new = TotalPay(NetPay', c.done) + paid /\ TotalPay(NetPay', c.done) \in Int
    <3> DEFINE pay == NetPay'
    <3>1. \A x \in c.done \cup {c.emp} : pay[x] \in Int
      BY <1>0, <2>1 DEF NetPay, TypeOK, Slip
    <3>2. pay[c.emp] = paid
      BY <1>0, <1>5, <1>7 DEF NetPay
    <3> HIDE DEF pay
    <3>3. /\ TotalPay(pay, c.done) \in Int
          /\ TotalPay(pay, c.done \cup {c.emp}) = TotalPay(pay, c.done) + pay[c.emp]
      BY <1>2, <2>2, <3>1, TotalPayOfOneMore
    <3> QED
      BY <3>2, <3>3 DEF pay
  <2>5. ctx'[w].totals.net = t + s.net /\ ctx'[w].totals.employees = c.totals.employees + 1
    BY <1>6 DEF AddTotals
  <2>6. old - t <= n * 15 /\ t - old <= n * 15 /\ c.totals.employees = n
    BY <1>1, <1>4, <2>2, <2>3, <2>4 DEF PassOK, SumsOK, Within, Paisa, Totals
  <2>7. paid \in Nat /\ paid - s.net <= 15 /\ s.net - paid <= 15
    BY <1>4, PaiseTypes, PaiseError DEF Paisa
  <2>8. t \in Nat /\ old \in Int /\ new = old + paid
    BY <1>4, <2>3, <2>4 DEF Totals
  <2> HIDE DEF old, new, n, t, paid
  <2>9. new - (t + s.net) \in -((n + 1) * 15) .. (n + 1) * 15
    BY <1>4, <2>2, <2>6, <2>7, <2>8
  <2> QED
    BY <1>6, <2>2, <2>5, <2>6, <2>9 DEF SumsOK, Within, Paisa, new
<1>12. PassOK(w)' /\ Looping(w)'
  BY <1>6, <1>8, <1>9, <1>10, <1>11 DEF PassOK, Looping
<1> QED
  BY <1>3, <1>12, InsidePass DEF Undisturbed, Calm

\* ProcessFinish: what the pass has done becomes what the latest pass left.
LEMMA PassFinishes ==
    ASSUME Undisturbed, PassInv, StructureInv', NEW w \in Workers, ProcessFinish(w)
    PROVE  PassInv'
<1> DEFINE c == ctx[w]
<1>0. TypeOK /\ c \in Local /\ c.done \in SUBSET Employees /\ pc[w] = "rows" /\ c.totals \in Totals
  BY DEF PassInv, StructureInv, TypeInv, TypeOK, ProcessFinish, Local
<1>1. PassOK(w)
  BY <1>0 DEF PassInv, Looping
<1>2. /\ run' = [status |-> "VALIDATED", totals |-> StoredTotals(c.totals)]
      /\ last' = [emps |-> c.done, advances |-> c.taken]
      /\ UNCHANGED <<slips, advances>>
  BY DEF ProcessFinish, Undisturbed, Calm
<1>3. pc'[w] = "idle" /\ ctx'[w] = NoLocal
  BY <1>0 DEF ProcessFinish, Return, TypeOK
<1>4. \A v \in Workers : v = w
  BY DEF Undisturbed, Calm, Serial
<1>5. FreshOK' /\ \A v \in Workers : ~Looping(v)'
  BY <1>3, <1>4 DEF FreshOK, Looping
<1>6. LastKept' /\ \A a \in last'.advances : slips'[advances'[a].emp].advance = a
  BY <1>0, <1>1, <1>2 DEF PassOK, TakenOK, LastKept
<1>7. run'.totals.net = ToPaise(c.totals.net) /\ run'.totals.employees = c.totals.employees
  BY <1>0, <1>2 DEF StoredTotals, Totals
<1>8. AddsUp(last.emps, run.totals.net)' /\ run'.totals.employees = Cardinality(last'.emps)
  <2> DEFINE sum == TotalPay(NetPay, c.done)
             n == Cardinality(c.done)
             t == c.totals.net
             stored == ToPaise(t)
  <2>1. NetPay' = NetPay /\ last'.emps = c.done
    BY <1>2 DEF NetPay
  <2>2. n \in Nat /\ sum \in Int /\ t \in Nat
    <3>1. IsFiniteSet(c.done) /\ n \in Nat /\ \A e \in c.done : NetPay[e] \in Int
      BY <1>0, PayTypes
    <3> QED
      BY <1>0, <3>1, TotalPayTypes DEF Totals
  <2>3. sum - t <= n * 15 /\ t - sum <= n * 15 /\ c.totals.employees = n
    BY <1>1, <2>2 DEF PassOK, SumsOK, Within, Paisa
  <2>4. stored \in Nat /\ stored - t <= 15 /\ t - stored <= 15
    BY <2>2, PaiseTypes, PaiseError DEF Paisa
  <2> HIDE DEF sum, n, t, stored
  <2>5. sum - stored \in -((n + 1) * 15) .. (n + 1) * 15
    BY <2>2, <2>3, <2>4
  <2> QED
    BY <1>7, <2>1, <2>3, <2>5 DEF AddsUp, Paisa, sum, n, t, stored
<1> QED
  BY <1>5, <1>6, <1>7, <1>8 DEF PassInv, LastOK
\* Every step keeps the invariant of a pass.
LEMMA PassStep ==
    ASSUME Undisturbed, PassInv, [Next]_vars
    PROVE  PassInv'
<1> USE DEF Undisturbed, Calm
<1>0. TypeOK /\ StructureInv'
  BY StructureStep DEF PassInv, StructureInv, TypeInv
<1>1. ASSUME NEW w \in Workers, ProcessCheck(w) \/ ProcessFetch(w) \/ ProcessInsert(w)
      PROVE  PassInv'
  <2>1. pc[w] \in {"idle", "fetch", "insert"} /\ ctx[w] = NoLocal
    BY <1>1 DEF ProcessCheck, ProcessFetch, ProcessInsert, PassInv, FreshOK
  <2>2. pc'[w] \in {"idle", "fetch", "insert", "employees"} /\ ctx'[w] = NoLocal
    BY <1>0, <1>1, <2>1 DEF ProcessCheck, ProcessFetch, ProcessInsert, Goto, Return, TypeOK
  <2>3. UNCHANGED <<advances, last, slips>> /\ run'.totals = run.totals
    BY <1>0, <1>1 DEF ProcessCheck, ProcessFetch, ProcessInsert, db, TypeOK, Run
  <2>4. ~InPass(w) /\ ~Looping(w)'
    BY <2>1, <2>2 DEF InPass, Looping
  <2> QED
    BY <1>0, <2>2, <2>3, <2>4, OutsidePass
<1>2. ASSUME NEW w \in Workers, NEW a \in Actions, TransitionRead(w, a) PROVE PassInv'
  <2>1. pc[w] = "idle" /\ pc'[w] = "transition" /\ UNCHANGED <<run, advances, last, slips>>
    BY <1>0, <1>2 DEF TransitionRead, Goto, TypeOK, db
  <2>2. ~InPass(w) /\ ~Looping(w)'
    BY <2>1 DEF InPass, Looping
  <2> QED
    BY <1>0, <2>1, <2>2, OutsidePass
<1>3. ASSUME NEW w \in Workers, TransitionWrite(w) PROVE PassInv'
  <2>1. pc[w] = "transition" /\ UNCHANGED <<advances, last, slips>>
    BY <1>3 DEF TransitionWrite
  <2>2. pc'[w] = "publish" \/ (pc'[w] = "idle" /\ ctx'[w] = NoLocal)
    BY <1>0, <1>3 DEF TransitionWrite, Goto, Return, TypeOK
  <2>3. run'.totals = run.totals
    BY <1>0, <1>3 DEF TransitionWrite, TypeOK, Run
  <2>4. ~InPass(w) /\ ~Looping(w)'
    BY <2>1, <2>2 DEF InPass, Looping
  <2> QED
    BY <1>0, <2>1, <2>2, <2>3, <2>4, OutsidePass
<1>4. ASSUME NEW w \in Workers, TransitionSlips(w) PROVE PassInv'
  <2>1. pc[w] = "publish" /\ UNCHANGED <<run, advances, last>>
    BY <1>4 DEF TransitionSlips
  <2>2. pc'[w] = "idle" /\ ctx'[w] = NoLocal
    BY <1>0, <1>4 DEF TransitionSlips, Return, TypeOK
  <2>3. slips' = [e \in Employees |-> IF slips[e].status = "NONE" THEN slips[e]
                                      ELSE [slips[e] EXCEPT !.status = "PUBLISHED"]]
    BY <1>4 DEF TransitionSlips
  <2>4. \A e \in Employees : slips'[e].net = slips[e].net /\ slips'[e].advance = slips[e].advance
    BY <1>0, <2>3 DEF TypeOK, Slip
  <2>5. ~InPass(w) /\ ~Looping(w)'
    BY <2>1, <2>2 DEF InPass, Looping
  <2> QED
    BY <1>0, <2>1, <2>2, <2>4, <2>5, OutsidePass
<1>5. ASSUME NEW w \in Workers,
             \/ SaveInsert(w)
             \/ \E e \in Employees, b \in Salaries : SaveDeactivate(w, e, b)
      PROVE  PassInv'
  <2>1. pc[w] \in {"idle", "structure"} /\ UNCHANGED <<run, slips, advances, last>>
    BY <1>5 DEF SaveInsert, SaveDeactivate
  <2>2. pc'[w] = "structure" \/ (pc'[w] = "idle" /\ ctx'[w] = NoLocal)
    BY <1>0, <1>5 DEF SaveInsert, SaveDeactivate, Goto, Return, TypeOK
  <2>3. ~InPass(w) /\ ~Looping(w)'
    BY <2>1, <2>2 DEF InPass, Looping
  <2> QED
    BY <1>0, <2>1, <2>2, <2>3, OutsidePass
<1>6. ASSUME NEW w \in Workers, Cancel(w) PROVE PassInv'
  BY <1>6 DEF Cancel
<1>7. CASE \E w \in Workers :
             \/ Step(w)
             \/ ProcessCheck(w)
             \/ \E a \in Actions : TransitionRead(w, a)
             \/ \E e \in Employees, b \in Salaries : SaveDeactivate(w, e, b)
             \/ Cancel(w)
  <2> HIDE DEF Undisturbed, Calm
  <2> QED
    BY <1>0, <1>1, <1>2, <1>3, <1>4, <1>5, <1>6, <1>7, PassBegins, PassTakesRow,
       PassFindsAdvance, PassMarksAdvance, PassWritesSlip, PassFinishes DEF Step
<1>8. ASSUME NEW a \in Advances,
             \/ \E e \in Employees, amt \in Amounts : CreateAdvance(a, e, amt)
             \/ ApproveAdvance(a)
             \/ \E s \in Decisions : DecideAdvance(a, s)
      PROVE  PassInv'
  <2>1. UNCHANGED <<run, slips, pc, ctx, last>>
    BY <1>8 DEF CreateAdvance, ApproveAdvance, DecideAdvance
  <2>2. ASSUME NEW x \in Advances, advances[x].status # "NONE"
        PROVE  advances'[x].emp = advances[x].emp /\ advances'[x].status # "NONE"
    <3>1. ASSUME NEW e \in Employees, NEW amt \in Amounts, CreateAdvance(a, e, amt)
          PROVE  advances'[x] = advances[x]
      BY <1>0, <2>2, <3>1 DEF CreateAdvance, TypeOK
    <3>2. ASSUME NEW s, s # "NONE", advances' = [advances EXCEPT ![a].status = s]
          PROVE  advances'[x].emp = advances[x].emp /\ advances'[x].status # "NONE"
      BY <1>0, <2>2, <3>2 DEF TypeOK, Advance
    <3>3. \A s \in Decisions : s # "NONE"
      BY DEF Decisions
    <3> QED
      BY <1>8, <2>2, <3>1, <3>2, <3>3 DEF ApproveAdvance, DecideAdvance
  <2> QED
    BY <1>0, <2>1, <2>2, AroundPass
<1>9. ASSUME UNCHANGED <<run, slips, advances, pc, ctx, last>> PROVE PassInv'
  BY <1>0, <1>9, AroundPass
<1>10. CASE \E e \in Employees :
              \/ AttendanceImported(e) \/ Punch(e) \/ ApproveRegularization(e)
              \/ BatchValidation(e) \/ EmployeeChanges(e)
  BY <1>9, <1>10
     DEF AttendanceImported, Punch, ApproveRegularization, BatchValidation, EmployeeChanges
<1>11. CASE UNCHANGED vars
  BY <1>9, <1>11 DEF vars, db
<1> QED
  BY <1>7, <1>8, <1>10, <1>11 DEF Next

\* The invariant holds before the first request: no pass, no payslip, no total.
LEMMA PassInit == Init => PassInv
<1> SUFFICES ASSUME Init PROVE PassInv
  OBVIOUS
<1>1. StructureInv
  BY StructureInit
<1>2. FreshOK /\ \A w \in Workers : ~Looping(w)
  BY DEF Init, FreshOK, Looping
<1>3. last.emps = {} /\ last.advances = {} /\ run.totals.net = 0 /\ run.totals.employees = 0
  BY DEF Init, NoTotals
<1>4. Cardinality({}) = 0
  BY FS_EmptySet
<1>5. TotalPay(NetPay, {}) = 0
  BY TotalPayOfNone
<1>6. AddsUp({}, 0)
  BY <1>4, <1>5 DEF AddsUp, Paisa
<1>7. LastKept /\ LastOK
  BY <1>3, <1>4, <1>6 DEF LastKept, LastOK
<1> QED
  BY <1>1, <1>2, <1>7 DEF PassInv

\* When nothing disturbs a pass, every advance that the latest pass marked
\* DEDUCTED is deducted on the payslip of its employee, whatever is created,
\* decided or published after it.
THEOREM UndisturbedDeductions ==
    ASSUME Undisturbed
    PROVE  Spec => []PassDeductionsOnSlips
<1>1. PassInv /\ [Next]_vars => PassInv'
  BY PassStep
<1>2. PassInv => PassDeductionsOnSlips
  BY DEF PassInv, LastOK, PassDeductionsOnSlips, Quiescent, InFlight, InPass
<1> QED
  BY PassInit, <1>1, <1>2, PTL DEF Spec

\* When nothing disturbs a pass, the totals it stores are those of the payslips
\* it wrote, to half a paisa per payslip and one for the total, for any number
\* of employees: HandleProcessPayroll counts nobody twice and adds up what it
\* stores, although it rounds only when it stores.
THEOREM UndisturbedReconciles ==
    ASSUME Undisturbed
    PROVE  Spec => []PassReconciles
<1>1. PassInv /\ [Next]_vars => PassInv'
  BY PassStep
<1>2. PassInv => PassReconciles
  BY DEF PassInv, LastOK, PassReconciles, Quiescent, InFlight, InPass
<1> QED
  BY PassInit, <1>1, <1>2, PTL DEF Spec
=============================================================================
