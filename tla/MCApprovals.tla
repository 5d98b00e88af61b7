---------------------------- MODULE MCApprovals ----------------------------
(***************************************************************************)
(* A small instance of Approvals for TLC.                                  *)
(***************************************************************************)
EXTENDS Approvals, TLC

CONSTANTS e1, e2, t1, t2, t3

\* A task that only the inbox decides, and two that other endpoints decide too.
ThreeKinds == t1 :> "LEAVE" @@ t2 :> "REGULARIZATION" @@ t3 :> "ADVANCE"
TwoRequesters == t1 :> e1 @@ t2 :> e2 @@ t3 :> e1

\* A manager, an administrator, and an administrator without an employee row.
ThreeCallers == {[emp |-> e1, admin |-> FALSE], [emp |-> e2, admin |-> TRUE],
                 [emp |-> NoEmployee, admin |-> TRUE]}

\* Nothing, a task twice, and lists that overlap at either end.
FewLists == {<< >>, <<t1, t1>>, <<t1, t2>>, <<t3, t1>>}

\* Requests in flight are interchangeable.
WorkerSymmetry == Permutations(Workers)
=============================================================================
