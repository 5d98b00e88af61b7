-------------------------- MODULE ApprovalsProofs --------------------------
(***************************************************************************)
(* Proofs about the approval inbox, for any number of overlapping          *)
(* requests, any tasks and callers, any length of bulk actions, and with   *)
(* faults.                                                                 *)
(*                                                                         *)
(* ApprovalsInv strengthens the properties with what the loop of           *)
(* HandleBulkAction carries from one statement to the next: its cursor     *)
(* stays in the list (CursorOK), what the checks of the current task found *)
(* holds until its update unless the manager is replaced (Cleared), and a  *)
(* row the inbox decided has left PENDING (DecidedIsClosed).               *)
(***************************************************************************)
EXTENDS Approvals, SequenceTheorems, TLAPS

Active(w) == pc[w] \in {"check", "decide", "sync"}

CursorOK ==
    \A w \in Workers :
        /\ Active(w) => ctx[w].next \in DOMAIN ctx[w].list
        /\ pc[w] = "sync" => ctx[w].next = 1 /\ Task(w) \notin InboxTasks

DecidedIsClosed ==
    \A t \in Tasks :
        \/ decided[t] = << >>
        \/ Len(decided[t]) = 1 /\ status[t] \notin {"NONE", "PENDING"}

MayDecide(emp, admin, t, boss, late) ==
    /\ emp \in Employees \ {Requester[t]}
    /\ admin \/ emp = boss \/ late

Cleared ==
    \A w \in Workers : pc[w] = "decide" =>
        MayDecide(ctx[w].emp, ctx[w].admin, Task(w), manager[Requester[Task(w)]], w \in moved)

ApprovalsInv ==
    /\ TypeOK /\ CursorOK /\ DecidedIsClosed /\ Cleared
    /\ DecisionsAuthorized /\ AnswersTrue

PCs == {"idle", "check", "decide", "sync", "ok", "error"}

-----------------------------------------------------------------------------
\* A task that is still in the model's tables: what a cursor in the list reads.
LEMMA TaskInTasks ==
    ASSUME TypeOK, CursorOK, NEW w \in Workers, Active(w)
    PROVE  Task(w) \in Tasks
<1>1. ctx[w].list \in Seq(Tasks) /\ ctx[w].next \in DOMAIN ctx[w].list
  BY DEF TypeOK, Request, CursorOK
<1> QED
  BY <1>1 DEF Task

\* The first decision recorded on a task.
LEMMA FirstDecision ==
    ASSUME NEW S, NEW d \in S
    PROVE  /\ Append(<< >>, d) \in Seq(S) /\ Len(Append(<< >>, d)) = 1
           /\ \A i \in DOMAIN Append(<< >>, d) : Append(<< >>, d)[i] = d
OBVIOUS

\* The inbox starts without a request and without a decision.
LEMMA InitApprovalsInv == Init => ApprovalsInv
<1> SUFFICES ASSUME Init PROVE ApprovalsInv
  OBVIOUS
<1> USE ApprovalsAssumption
<1>1. \A w \in Workers : pc[w] = "idle" /\ ctx[w].list = << >>
  BY DEF Init
<1>2. \A t \in Tasks : decided[t] = << >>
  BY DEF Init
<1> DOMAIN << >> = {}
  OBVIOUS
<1>3. TypeOK
  <2>1. status \in [Tasks -> Status]
    BY DEF Init, Status
  <2>2. [emp |-> NoEmployee, admin |-> FALSE, action |-> "APPROVED", list |-> << >>, next |-> 1]
          \in Request
    BY DEF Request, Decisions, SingleActions
  <2>3. ctx \in [Workers -> Request]
    BY <2>2 DEF Init
  <2>4. decided \in [Tasks -> Seq(Decision)]
    BY DEF Init
  <2> QED
    BY <2>1, <2>3, <2>4 DEF Init, TypeOK
<1>4. CursorOK /\ Cleared /\ AnswersTrue
  BY <1>1 DEF CursorOK, Cleared, AnswersTrue, Active
<1>5. DecidedIsClosed /\ DecisionsAuthorized
  BY <1>2 DEF DecidedIsClosed, DecisionsAuthorized
<1> QED
  BY <1>3, <1>4, <1>5 DEF ApprovalsInv

-----------------------------------------------------------------------------
\* A step that only gives rows a status other than NONE and PENDING, and leaves
\* the decided rows of the inbox alone, keeps every part of ApprovalsInv.
LEMMA StatusStep ==
    ASSUME ApprovalsInv, status' \in [Tasks -> Status],
           UNCHANGED <<manager, synced, pc, ctx, decided, moved>>,
           \A t \in Tasks : status[t] \notin {"NONE", "PENDING"} =>
                              status'[t] \notin {"NONE", "PENDING"},
           \A t \in InboxTasks : status[t] \in Decisions => status'[t] = status[t]
    PROVE  ApprovalsInv'
<1>1. TypeOK'
  BY DEF ApprovalsInv, TypeOK
<1>2. CursorOK' /\ Cleared'
  BY DEF ApprovalsInv, CursorOK, Cleared, MayDecide, Active, Task
<1>3. DecidedIsClosed'
  BY DEF ApprovalsInv, DecidedIsClosed
<1>4. DecisionsAuthorized'
  BY DEF ApprovalsInv, DecisionsAuthorized
<1>5. AnswersTrue'
  <2>1. \A w \in Workers : ctx[w].action \in Decisions
    BY DEF ApprovalsInv, TypeOK, Request
  <2> QED
    BY <2>1 DEF ApprovalsInv, AnswersTrue
<1> QED
  BY <1>1, <1>2, <1>3, <1>4, <1>5 DEF ApprovalsInv

\* Submitted leave, and the endpoints of attendance and payroll that are one
\* statement.
LEMMA StatusActions ==
    ASSUME ApprovalsInv, NEW t \in Tasks,
           \/ SubmitLeave(t) \/ HandleRejectRequest(t)
           \/ HandleApproveAdvance(t) \/ DeductAdvance(t)
    PROVE  ApprovalsInv'
<1>1. CASE SubmitLeave(t)
  <2>1. status[t] = "NONE" /\ status' = [status EXCEPT ![t] = "PENDING"]
    BY <1>1 DEF SubmitLeave
  <2>2. UNCHANGED <<manager, synced, pc, ctx, decided, moved>>
    BY <1>1 DEF SubmitLeave
  <2> QED
    BY <2>1, <2>2, StatusStep
       DEF ApprovalsInv, TypeOK, Status, Decisions, SingleActions, BulkActions, InboxTasks
<1>2. CASE HandleRejectRequest(t) \/ HandleApproveAdvance(t) \/ DeductAdvance(t)
  <2>1. /\ t \notin InboxTasks
        /\ \E s \in {"REJECTED", "APPROVED", "DEDUCTED"} : status' = [status EXCEPT ![t] = s]
    BY <1>2 DEF HandleRejectRequest, HandleApproveAdvance, DeductAdvance, InboxTasks
  <2>2. UNCHANGED <<manager, synced, pc, ctx, decided, moved>>
    BY <1>2 DEF HandleRejectRequest, HandleApproveAdvance, DeductAdvance
  <2> QED
    BY <2>1, <2>2, StatusStep
       DEF ApprovalsInv, TypeOK, Status, Decisions, SingleActions, BulkActions, InboxTasks
<1> QED
  BY <1>1, <1>2

\* A request reaches the inbox: its cursor is at the first task.
LEMMA ReceivePreserves ==
    ASSUME ApprovalsInv, NEW w \in Workers, NEW c \in Callers, NEW action \in Decisions,
           NEW list \in Seq(Tasks), Receive(w, c, action, list)
    PROVE  ApprovalsInv'
<1> USE ApprovalsAssumption
<1> DEFINE req == [emp |-> c.emp, admin |-> c.admin, action |-> action, list |-> list, next |-> 1]
<1>1. req \in Request
  BY DEF Request
<1>2. /\ ctx'[w] = req
      /\ \/ list = << >> /\ pc'[w] = "ok"
         \/ list # << >> /\ pc'[w] = "check"
      /\ \A v \in Workers \ {w} : ctx'[v] = ctx[v] /\ pc'[v] = pc[v]
  BY DEF ApprovalsInv, TypeOK, Receive
<1>3. UNCHANGED <<status, manager, synced, decided, moved>>
  BY DEF Receive
<1>4. TypeOK'
  <2>1. ctx' \in [Workers -> Request]
    BY <1>1 DEF ApprovalsInv, TypeOK, Receive
  <2>2. pc' \in [Workers -> PCs]
    BY DEF ApprovalsInv, TypeOK, Receive, PCs
  <2> QED
    BY <1>3, <2>1, <2>2 DEF ApprovalsInv, TypeOK, PCs
<1>5. list # << >> => 1 \in DOMAIN list
  OBVIOUS
<1>6. CursorOK'
  <2>1. ctx'[w].next = 1 /\ ctx'[w].list = list
    BY <1>2
  <2>2. (Active(w) => ctx[w].next \in DOMAIN ctx[w].list)' /\ pc'[w] # "sync"
    BY <1>2, <1>5, <2>1 DEF Active
  <2> QED
    BY <1>2, <2>2 DEF ApprovalsInv, CursorOK, Active, Task
<1>7. Cleared'
  BY <1>2, <1>3 DEF ApprovalsInv, Cleared, MayDecide, Task
<1>8. DecidedIsClosed' /\ DecisionsAuthorized'
  BY <1>3 DEF ApprovalsInv, DecidedIsClosed, DecisionsAuthorized
<1>9. AnswersTrue'
  <2>1. ctx'[w].next = 1 /\ ctx'[w].list = list /\ \A i \in DOMAIN list : ~(i < 1)
    BY <1>2
  <2> QED
    BY <1>2, <1>3, <2>1 DEF ApprovalsInv, AnswersTrue
<1> QED
  BY <1>4, <1>6, <1>7, <1>8, <1>9 DEF ApprovalsInv

\* A request moves on without touching a row: the checks, their refusals, a
\* failed update, a change of the daily status.
LEMMA ControlStep ==
    ASSUME ApprovalsInv, NEW w \in Workers,
           synced' \in SUBSET Tasks, UNCHANGED <<status, manager, ctx, decided>>,
           moved' = moved \/ moved' = moved \ {w},
           NEW q \in PCs, pc' = [pc EXCEPT ![w] = q],
           \/ q = "error"
           \/ /\ q = "decide" /\ Active(w)
              /\ MayDecide(ctx[w].emp, ctx[w].admin, Task(w), manager[Requester[Task(w)]], FALSE)
           \/ q = "ok" /\ pc[w] = "sync"
    PROVE  ApprovalsInv'
<1>1. pc'[w] = q /\ \A v \in Workers \ {w} : pc'[v] = pc[v]
  BY DEF ApprovalsInv, TypeOK
<1>2. pc' \in [Workers -> PCs]
  BY DEF ApprovalsInv, TypeOK, PCs
<1>3. TypeOK'
  BY <1>2 DEF ApprovalsInv, TypeOK, PCs
<1>4. CursorOK'
  BY <1>1 DEF ApprovalsInv, CursorOK, Active, Task
<1>5. Cleared'
  BY <1>1 DEF ApprovalsInv, Cleared, MayDecide, Task
<1>6. DecidedIsClosed' /\ DecisionsAuthorized'
  BY DEF ApprovalsInv, DecidedIsClosed, DecisionsAuthorized
<1>7. AnswersTrue'
  <2>1. q = "ok" => ctx[w].list[1] \notin InboxTasks
    BY DEF ApprovalsInv, CursorOK, Task
  <2> QED
    BY <1>1, <2>1 DEF ApprovalsInv, AnswersTrue
<1> QED
  BY <1>3, <1>4, <1>5, <1>6, <1>7 DEF ApprovalsInv

LEMMA CheckPreserves ==
    ASSUME ApprovalsInv, NEW w \in Workers, Check(w)
    PROVE  ApprovalsInv'
<1> USE ApprovalsAssumption
<1>1. pc[w] = "check" /\ UNCHANGED <<status, manager, synced, ctx, decided, moved>>
  BY DEF Check
<1>2. \/ /\ ~isSelfApproval(ctx[w].emp, Task(w))
         /\ isAuthorizedToApprove(ctx[w].emp, ctx[w].admin, Task(w))
         /\ pc' = [pc EXCEPT ![w] = "decide"]
      \/ pc' = [pc EXCEPT ![w] = "error"]
  BY Zenon DEF Check
<1>3. synced' \in SUBSET Tasks
  BY <1>1 DEF ApprovalsInv, TypeOK
<1>4. CASE pc' = [pc EXCEPT ![w] = "error"]
  BY <1>1, <1>3, <1>4, ControlStep DEF PCs
<1>5. CASE /\ ~isSelfApproval(ctx[w].emp, Task(w))
           /\ isAuthorizedToApprove(ctx[w].emp, ctx[w].admin, Task(w))
           /\ pc' = [pc EXCEPT ![w] = "decide"]
  <2>1. Active(w)
    BY <1>1 DEF Active
  <2>2. Task(w) \in Tasks
    BY <2>1, TaskInTasks DEF ApprovalsInv
  <2>3. ctx[w].emp \in Employees \cup {NoEmployee}
    BY DEF ApprovalsInv, TypeOK, Request
  <2>4. Requester[Task(w)] \in Employees
    BY <2>2
  <2>5. ctx[w].emp \in Employees /\ ctx[w].emp # Requester[Task(w)] /\ ctx[w].emp # NoEmployee
    BY <1>5, <2>3 DEF isSelfApproval
  <2>6. ctx[w].admin \/ manager[Requester[Task(w)]] = ctx[w].emp
    BY <1>5, Zenon DEF isAuthorizedToApprove
  <2>7. MayDecide(ctx[w].emp, ctx[w].admin, Task(w), manager[Requester[Task(w)]], FALSE)
    BY <2>5, <2>6, Zenon DEF MayDecide
  <2> QED
    BY <1>1, <1>3, <1>5, <2>1, <2>7, ControlStep DEF PCs
<1> QED
  BY <1>2, <1>4, <1>5

\* The update of updateTaskStatus, followed by the next task, the answer or an
\* error: the row leaves PENDING with its first decision.
LEMMA UpdatePreserves ==
    ASSUME ApprovalsInv, NEW w \in Workers, pc[w] = "decide", updateTaskStatus(w, Task(w)),
           UNCHANGED <<manager, synced>>, moved' = moved \ {w},
           Proceed(w) \/ (pc' = [pc EXCEPT ![w] = "error"] /\ UNCHANGED ctx)
    PROVE  ApprovalsInv'
<1> USE ApprovalsAssumption
<1> DEFINE t == Task(w)
           d == DecisionOf(w, t)
<1>1. /\ ctx[w] \in Request /\ ctx[w].list \in Seq(Tasks) /\ ctx[w].next \in Nat \ {0}
      /\ ctx[w].action \in Decisions
  BY DEF ApprovalsInv, TypeOK, Request
<1>2. Active(w) /\ ctx[w].next \in DOMAIN ctx[w].list /\ t = ctx[w].list[ctx[w].next]
  BY DEF ApprovalsInv, CursorOK, Active, Task
<1>3. t \in Tasks /\ d \in Decision
  <2>1. t \in Tasks
    BY <1>2, TaskInTasks DEF ApprovalsInv
  <2>2. manager[Requester[t]] \in Employees \cup {NoEmployee}
    BY <2>1 DEF ApprovalsInv, TypeOK
  <2>3. ctx[w].emp \in Employees \cup {NoEmployee} /\ ctx[w].admin \in BOOLEAN
    BY <1>1 DEF Request
  <2>4. (w \in moved) \in BOOLEAN
    OBVIOUS
  <2> QED
    BY <2>1, <2>2, <2>3, <2>4 DEF Decision, DecisionOf
<1>4. /\ status[t] = "PENDING" /\ status' = [status EXCEPT ![t] = ctx[w].action]
      /\ decided' = [decided EXCEPT ![t] = Append(decided[t], d)]
  BY DEF updateTaskStatus
<1>5. decided[t] = << >>
  BY <1>3, <1>4 DEF ApprovalsInv, DecidedIsClosed
<1>6. /\ status'[t] = ctx[w].action
      /\ \A u \in Tasks \ {t} : status'[u] = status[u] /\ decided'[u] = decided[u]
  BY <1>3, <1>4 DEF ApprovalsInv, TypeOK
<1>7. decided'[t] = Append(<< >>, d)
  BY <1>3, <1>4, <1>5 DEF ApprovalsInv, TypeOK
<1>8. /\ decided'[t] \in Seq(Decision) /\ Len(decided'[t]) = 1
      /\ \A i \in DOMAIN decided'[t] : decided'[t][i] = d
  BY <1>3, <1>7, FirstDecision
<1>9. /\ \/ /\ ctx'[w].next = ctx[w].next + 1
            /\ \/ pc'[w] = "ok" /\ ctx[w].next = Len(ctx[w].list)
               \/ pc'[w] = "check" /\ ctx[w].next # Len(ctx[w].list)
         \/ ctx'[w].next = ctx[w].next /\ pc'[w] = "error"
      /\ ctx'[w].list = ctx[w].list /\ ctx'[w].action = ctx[w].action
      /\ \A v \in Workers \ {w} : ctx'[v] = ctx[v] /\ pc'[v] = pc[v]
  <2>1. CASE Proceed(w)
    BY <1>1, <2>1 DEF Proceed, ApprovalsInv, TypeOK, Request
  <2>2. CASE pc' = [pc EXCEPT ![w] = "error"] /\ UNCHANGED ctx
    BY <2>2 DEF ApprovalsInv, TypeOK
  <2> QED
    BY <2>1, <2>2
<1>10. TypeOK'
  <2>1. ctx' \in [Workers -> Request]
    <3>1. CASE Proceed(w)
      <4>1. [ctx[w] EXCEPT !.next = @ + 1] \in Request
        BY <1>1 DEF Request
      <4> QED
        BY <3>1, <4>1 DEF Proceed, ApprovalsInv, TypeOK
    <3>2. CASE UNCHANGED ctx
      BY <3>2 DEF ApprovalsInv, TypeOK
    <3> QED
      BY <3>1, <3>2
  <2>2. pc' \in [Workers -> PCs]
    BY DEF Proceed, ApprovalsInv, TypeOK, PCs
  <2>3. status' \in [Tasks -> Status]
    BY <1>1, <1>4 DEF ApprovalsInv, TypeOK, Status
  <2>4. decided' \in [Tasks -> Seq(Decision)]
    <3>1. decided' \in [Tasks -> Seq(Decision) \cup {Append(decided[t], d)}]
      BY <1>4 DEF ApprovalsInv, TypeOK
    <3> QED
      BY <1>5, <1>7, <1>8, <3>1
  <2> QED
    BY <2>1, <2>2, <2>3, <2>4 DEF ApprovalsInv, TypeOK, PCs
<1>11. CursorOK'
  <2>1. Len(ctx[w].list) \in Nat /\ DOMAIN ctx[w].list = 1 .. Len(ctx[w].list)
    BY <1>1
  <2>2. pc'[w] = "check" => ctx'[w].next \in DOMAIN ctx'[w].list
    BY <1>1, <1>2, <1>9, <2>1
  <2>3. pc'[w] \notin {"decide", "sync"}
    BY <1>9
  <2> QED
    BY <1>9, <2>2, <2>3 DEF ApprovalsInv, CursorOK, Active, Task
<1>12. DecidedIsClosed'
  <2>1. ctx[w].action \notin {"NONE", "PENDING"}
    BY <1>1 DEF Decisions, SingleActions, BulkActions
  <2> QED
    BY <1>6, <1>8, <2>1 DEF ApprovalsInv, DecidedIsClosed
<1>13. Cleared'
  BY <1>9 DEF ApprovalsInv, Cleared, MayDecide, Task
<1>14. DecisionsAuthorized'
  <2>1. /\ d.by \in Employees \ {Requester[t]}
        /\ d.admin \/ d.by = d.boss \/ d.moved
    BY DEF ApprovalsInv, Cleared, MayDecide, DecisionOf
  <2>2. ASSUME NEW u \in Tasks, NEW i \in DOMAIN decided'[u]
        PROVE  /\ decided'[u][i].by \in Employees \ {Requester[u]}
               /\ \/ decided'[u][i].admin
                  \/ decided'[u][i].by = decided'[u][i].boss
                  \/ decided'[u][i].moved
    <3>1. CASE u = t
      <4>1. decided'[u][i] = d
        BY <1>8, <3>1
      <4> QED
        BY <2>1, <3>1, <4>1
    <3>2. CASE u # t
      BY <1>6, <3>2 DEF ApprovalsInv, DecisionsAuthorized
    <3> QED
      BY <3>1, <3>2
  <2> QED
    BY <2>2 DEF DecisionsAuthorized
<1>15. AnswersTrue'
  <2>1. \A u \in InboxTasks : status[u] # "PENDING" => status'[u] = status[u]
    BY <1>4, <1>6 DEF InboxTasks
  <2>2. \A v \in Workers : ctx[v].action # "PENDING" /\ ctx[v].action \in Decisions
    BY DEF ApprovalsInv, TypeOK, Request, Decisions, SingleActions, BulkActions
  <2>3. ASSUME NEW v \in Workers, NEW i \in DOMAIN ctx[v].list, i < ctx[v].next,
               ctx[v].list[i] \in InboxTasks
        PROVE  status'[ctx[v].list[i]] = ctx[v].action
    BY <2>1, <2>2, <2>3 DEF ApprovalsInv, AnswersTrue
  <2>4. ASSUME NEW i \in DOMAIN ctx[w].list, i < ctx'[w].next, ctx[w].list[i] \in InboxTasks
        PROVE  status'[ctx[w].list[i]] = ctx[w].action
    <3>1. DOMAIN ctx[w].list \subseteq Nat
      BY <1>1
    <3>2. i = ctx[w].next \/ i < ctx[w].next
      BY <1>1, <1>9, <2>4, <3>1
    <3> QED
      BY <1>2, <1>6, <2>3, <2>4, <3>2
  <2>5. pc'[w] = "ok" => ctx'[w].next > Len(ctx'[w].list)
    BY <1>1, <1>9
  <2> QED
    BY <1>9, <2>3, <2>4, <2>5 DEF ApprovalsInv, AnswersTrue
<1> QED
  BY <1>10, <1>11, <1>12, <1>13, <1>14, <1>15 DEF ApprovalsInv

LEMMA DecidePreserves ==
    ASSUME ApprovalsInv, NEW w \in Workers, Decide(w)
    PROVE  ApprovalsInv'
<1>1. pc[w] = "decide" /\ UNCHANGED <<manager, synced>> /\ moved' = moved \ {w}
  BY DEF Decide
<1>2. \/ updateTaskStatus(w, Task(w)) /\ Proceed(w)
      \/ updateTaskStatus(w, Task(w)) /\ pc' = [pc EXCEPT ![w] = "error"] /\ UNCHANGED ctx
      \/ pc' = [pc EXCEPT ![w] = "error"] /\ UNCHANGED <<status, ctx, decided>>
  BY Zenon DEF Decide
<1>3. CASE updateTaskStatus(w, Task(w)) /\ (Proceed(w) \/ (pc' = [pc EXCEPT ![w] = "error"] /\ UNCHANGED ctx))
  BY <1>1, <1>3, UpdatePreserves
<1>4. CASE pc' = [pc EXCEPT ![w] = "error"] /\ UNCHANGED <<status, ctx, decided>>
  <2>1. synced' \in SUBSET Tasks
    BY <1>1 DEF ApprovalsInv, TypeOK
  <2> QED
    BY <1>1, <1>4, <2>1, ControlStep DEF PCs
<1> QED
  BY <1>2, <1>3, <1>4

LEMMA SyncPreserves ==
    ASSUME ApprovalsInv, NEW w \in Workers, Sync(w)
    PROVE  ApprovalsInv'
<1>1. /\ pc[w] = "sync" /\ pc' = [pc EXCEPT ![w] = "ok"]
      /\ UNCHANGED <<status, manager, ctx, decided, moved>>
  BY DEF Sync
<1>2. synced' = synced \cup {Task(w)} \/ synced' = synced
  BY Zenon DEF Sync
<1>3. Task(w) \in Tasks
  BY <1>1, TaskInTasks DEF ApprovalsInv, Active
<1>4. synced' \in SUBSET Tasks
  BY <1>2, <1>3 DEF ApprovalsInv, TypeOK
<1> QED
  BY <1>1, <1>4, ControlStep DEF PCs

\* The first statement of HandleApproveRequest, on a row of another table.
LEMMA ApproveRequestPreserves ==
    ASSUME ApprovalsInv, NEW w \in Workers, NEW e \in Employees \cup {NoEmployee},
           NEW t \in Tasks, HandleApproveRequest(w, e, t)
    PROVE  ApprovalsInv'
<1> USE ApprovalsAssumption
<1> DEFINE req == [emp |-> e, admin |-> FALSE, action |-> "APPROVED", list |-> <<t>>, next |-> 1]
<1>1. /\ t \notin InboxTasks /\ pc[w] = "idle"
      /\ status' = [status EXCEPT ![t] = "APPROVED"]
      /\ UNCHANGED <<manager, synced, decided, moved>>
  BY DEF HandleApproveRequest, InboxTasks
<1>2. req \in Request
  BY DEF Request, Decisions, SingleActions
<1>3. /\ ctx'[w] = req /\ pc'[w] = "sync"
      /\ \A v \in Workers \ {w} : ctx'[v] = ctx[v] /\ pc'[v] = pc[v]
  BY DEF ApprovalsInv, TypeOK, HandleApproveRequest
<1>4. /\ status'[t] = "APPROVED"
      /\ \A u \in Tasks \ {t} : status'[u] = status[u]
  BY <1>1 DEF ApprovalsInv, TypeOK
<1>5. TypeOK'
  <2>1. ctx' \in [Workers -> Request]
    BY <1>2 DEF ApprovalsInv, TypeOK, HandleApproveRequest
  <2>2. pc' \in [Workers -> PCs]
    BY DEF ApprovalsInv, TypeOK, HandleApproveRequest, PCs
  <2>3. status' \in [Tasks -> Status]
    BY <1>1 DEF ApprovalsInv, TypeOK, Status, Decisions, SingleActions
  <2> QED
    BY <1>1, <2>1, <2>2, <2>3 DEF ApprovalsInv, TypeOK, PCs
<1>6. /\ ctx'[w].next = 1 /\ ctx'[w].list = <<t>> /\ DOMAIN <<t>> = {1} /\ <<t>>[1] = t
  BY <1>3
<1>7. CursorOK'
  <2>1. ctx'[w].list[ctx'[w].next] = t /\ ctx'[w].next \in DOMAIN ctx'[w].list
    BY <1>6
  <2> QED
    BY <1>1, <1>3, <1>6, <2>1 DEF ApprovalsInv, CursorOK, Active, Task
<1>8. Cleared'
  BY <1>1, <1>3 DEF ApprovalsInv, Cleared, MayDecide, Task
<1>9. DecidedIsClosed'
  BY <1>1, <1>4 DEF ApprovalsInv, DecidedIsClosed
<1>10. DecisionsAuthorized'
  BY <1>1 DEF ApprovalsInv, DecisionsAuthorized
<1>11. AnswersTrue'
  <2>1. \A u \in InboxTasks : status'[u] = status[u]
    BY <1>1, <1>4 DEF InboxTasks
  <2>2. \A i \in DOMAIN ctx'[w].list : ~(i < ctx'[w].next)
    BY <1>6
  <2> QED
    BY <1>3, <2>1, <2>2 DEF ApprovalsInv, AnswersTrue
<1> QED
  BY <1>5, <1>7, <1>8, <1>9, <1>10, <1>11 DEF ApprovalsInv

\* A change of manager is noted for the requests that have checked before it.
LEMMA UpdateEmployeePreserves ==
    ASSUME ApprovalsInv, NEW e \in Employees, NEW m \in Employees, HandleUpdateEmployee(e, m)
    PROVE  ApprovalsInv'
<1> USE ApprovalsAssumption
<1>1. UNCHANGED <<status, synced, pc, ctx, decided>>
  BY DEF HandleUpdateEmployee
<1>2. \A f \in Employees : f # e \/ m = manager[e] => manager'[f] = manager[f]
  BY DEF ApprovalsInv, TypeOK, HandleUpdateEmployee
<1>3. TypeOK'
  BY DEF ApprovalsInv, TypeOK, HandleUpdateEmployee
<1>4. Cleared'
  <2> SUFFICES ASSUME NEW w \in Workers, pc[w] = "decide"
               PROVE  MayDecide(ctx[w].emp, ctx[w].admin, Task(w),
                                manager'[Requester[Task(w)]], w \in moved')
    BY <1>1 DEF Cleared, Task, MayDecide
  <2>1. Task(w) \in Tasks /\ Requester[Task(w)] \in Employees
    BY TaskInTasks DEF ApprovalsInv, Active
  <2>2. MayDecide(ctx[w].emp, ctx[w].admin, Task(w), manager[Requester[Task(w)]], w \in moved)
    BY DEF ApprovalsInv, Cleared
  <2>3. w \in moved => w \in moved'
    BY DEF HandleUpdateEmployee
  <2>4. manager'[Requester[Task(w)]] = manager[Requester[Task(w)]] \/ w \in moved'
    BY <1>2, <2>1 DEF HandleUpdateEmployee
  <2> QED
    BY <2>2, <2>3, <2>4 DEF MayDecide
<1>5. CursorOK' /\ DecidedIsClosed' /\ DecisionsAuthorized' /\ AnswersTrue'
  BY <1>1 DEF ApprovalsInv, CursorOK, DecidedIsClosed, DecisionsAuthorized, AnswersTrue,
              Active, Task
<1> QED
  BY <1>3, <1>4, <1>5 DEF ApprovalsInv

LEMMA ApprovalsInvInvariant == Spec => []ApprovalsInv
<1>1. ApprovalsInv /\ [Next]_vars => ApprovalsInv'
  <2> SUFFICES ASSUME ApprovalsInv, [Next]_vars PROVE ApprovalsInv'
    OBVIOUS
  <2>1. ASSUME NEW w \in Workers, NEW c \in Callers, HandleTask(w, c) \/ HandleBulkAction(w, c)
        PROVE  ApprovalsInv'
    <3>1. CASE HandleTask(w, c)
      <4>1. PICK action \in SingleActions, t \in Tasks : Receive(w, c, action, <<t>>)
        BY <3>1 DEF HandleTask
      <4>2. action \in Decisions /\ <<t>> \in Seq(Tasks)
        BY DEF Decisions
      <4> QED
        BY <4>1, <4>2, ReceivePreserves
    <3>2. CASE HandleBulkAction(w, c)
      <4>1. PICK action \in BulkActions, list \in BulkLists : Receive(w, c, action, list)
        BY <3>2 DEF HandleBulkAction
      <4>2. action \in Decisions
        BY DEF Decisions
      <4>3. list \in Seq(Tasks)
        BY ApprovalsAssumption
      <4> QED
        BY <4>1, <4>2, <4>3, ReceivePreserves
    <3> QED
      BY <2>1, <3>1, <3>2
  <2>2. CASE UNCHANGED vars
    BY <2>2 DEF vars, ApprovalsInv, TypeOK, CursorOK, DecidedIsClosed, Cleared,
                DecisionsAuthorized, AnswersTrue, MayDecide, Active, Task
  <2> QED
    BY <2>1, <2>2, CheckPreserves, DecidePreserves, SyncPreserves, ApproveRequestPreserves,
       StatusActions, UpdateEmployeePreserves DEF Next
<1> QED
  BY <1>1, InitApprovalsInv, PTL DEF Spec

-----------------------------------------------------------------------------
\* The rows and the requests of the inbox keep their types.
THEOREM ApprovalsTypeCorrect == Spec => []TypeOK
<1>1. ApprovalsInv => TypeOK
  BY DEF ApprovalsInv
<1> QED
  BY <1>1, ApprovalsInvInvariant, PTL

\* updateTaskStatus decides a task at most once, for any number of overlapping
\* requests and whatever the other endpoints do.
THEOREM DecidedOnce == Spec => []InboxDecidesOnce
<1>1. ApprovalsInv => InboxDecidesOnce
  <2>1. Len(<< >>) <= 1
    OBVIOUS
  <2>2. \A n : n = 1 => n <= 1
    OBVIOUS
  <2> QED
    BY <2>1, <2>2, Zenon DEF ApprovalsInv, DecidedIsClosed, InboxDecidesOnce
<1> QED
  BY <1>1, ApprovalsInvInvariant, PTL

\* Through the inbox, in single and bulk actions, nobody decides a request of
\* their own, and only administrators and the requester's manager of that moment
\* decide, unless that manager was replaced between the check and the UPDATE.
THEOREM OnlyAuthorizedDecide == Spec => []DecisionsAuthorized
<1>1. ApprovalsInv => DecisionsAuthorized
  BY DEF ApprovalsInv
<1> QED
  BY <1>1, ApprovalsInvInvariant, PTL

\* What the inbox answers is true of the rows, and stays true.
THEOREM AnswersStayTrue == Spec => []AnswersTrue
<1>1. ApprovalsInv => AnswersTrue
  BY DEF ApprovalsInv
<1> QED
  BY <1>1, ApprovalsInvInvariant, PTL

\* The rows only the inbox decides are submitted and decided as OneDecision says:
\* every step of every handler is one of its steps or leaves them alone.
THEOREM InboxImplementsOneDecision == Spec => ImplementsOneDecision
<1> USE ApprovalsAssumption
<1> DEFINE row == [t \in InboxTasks |-> status[t]]
<1>1. Init => Inbox!Init
  BY DEF Init, Inbox!Init, Inbox!Open, InboxTasks
<1>2. ApprovalsInv /\ [Next]_vars => [Inbox!Next]_row
  <2> SUFFICES ASSUME ApprovalsInv, [Next]_vars PROVE Inbox!Next \/ row' = row
    OBVIOUS
  <2>1. ASSUME NEW t \in Tasks, NEW s, status' = [status EXCEPT ![t] = s]
        PROVE  /\ t \in InboxTasks => row' = [row EXCEPT ![t] = s]
               /\ t \notin InboxTasks => row' = row
    BY <2>1 DEF InboxTasks, ApprovalsInv, TypeOK
  <2>2. ASSUME NEW w \in Workers, Decide(w) PROVE Inbox!Next \/ row' = row
    <3>1. \/ updateTaskStatus(w, Task(w))
          \/ status' = status
      BY <2>2, Zenon DEF Decide
    <3>2. CASE updateTaskStatus(w, Task(w))
      <4>1. pc[w] = "decide"
        BY <2>2 DEF Decide
      <4>2. Task(w) \in Tasks
        BY <4>1, TaskInTasks DEF ApprovalsInv, Active
      <4>3. ctx[w].action \in Decisions
        BY DEF ApprovalsInv, TypeOK, Request
      <4>4. status[Task(w)] = "PENDING" /\ status' = [status EXCEPT ![Task(w)] = ctx[w].action]
        BY <3>2 DEF updateTaskStatus
      <4>5. CASE Task(w) \in InboxTasks
        <5>1. PICK t \in InboxTasks, o \in Decisions : t = Task(w) /\ o = ctx[w].action
          BY <4>3, <4>5
        <5>2. row[t] = "PENDING" /\ row' = [row EXCEPT ![t] = o]
          BY <2>1, <4>2, <4>4, <4>5, <5>1
        <5>3. Inbox!Decide(t, o)
          BY <5>2 DEF Inbox!Decide
        <5> QED
          BY <5>1, <5>3 DEF Inbox!Next
      <4>6. CASE Task(w) \notin InboxTasks
        BY <2>1, <4>2, <4>4, <4>6
      <4> QED
        BY <4>5, <4>6
    <3>3. CASE status' = status
      BY <3>3
    <3> QED
      BY <3>1, <3>2, <3>3
  <2>3. ASSUME NEW t \in Tasks, SubmitLeave(t) PROVE Inbox!Next \/ row' = row
    <3>1. t \in InboxTasks
      BY <2>3 DEF SubmitLeave, InboxTasks
    <3>2. Inbox!Submit(t)
      BY <2>1, <2>3, <3>1 DEF SubmitLeave, Inbox!Submit
    <3> QED
      BY <3>1, <3>2 DEF Inbox!Next
  <2>4. ASSUME NEW t \in Tasks,
               \/ HandleRejectRequest(t) \/ HandleApproveAdvance(t) \/ DeductAdvance(t)
               \/ \E w \in Workers, e \in Employees \cup {NoEmployee} : HandleApproveRequest(w, e, t)
        PROVE  row' = row
    BY <2>1, <2>4 DEF HandleRejectRequest, HandleApproveAdvance, DeductAdvance,
                      HandleApproveRequest, InboxTasks
  <2>5. ASSUME status' = status PROVE row' = row
    BY <2>5
  <2>6. ASSUME NEW w \in Workers, Check(w) \/ Sync(w) PROVE status' = status
    BY <2>6 DEF Check, Sync
  <2>7. ASSUME NEW w \in Workers, NEW c \in Callers, HandleTask(w, c) \/ HandleBulkAction(w, c)
        PROVE  status' = status
    BY <2>7 DEF HandleTask, HandleBulkAction, Receive
  <2>8. ASSUME NEW e \in Employees, NEW m \in Employees, HandleUpdateEmployee(e, m)
        PROVE  status' = status
    BY <2>8 DEF HandleUpdateEmployee
  <2>9. UNCHANGED vars => status' = status
    BY DEF vars
  <2> QED
    BY <2>2, <2>3, <2>4, <2>5, <2>6, <2>7, <2>8, <2>9 DEF Next
<1> QED
  BY <1>1, <1>2, ApprovalsInvInvariant, PTL DEF Spec, ImplementsOneDecision, Inbox!Spec
=============================================================================
