----------------------------- MODULE Approvals -----------------------------
(***************************************************************************)
(* The universal approval inbox (backend/internal/workflow) and the other  *)
(* handlers that decide the same rows: the regularization endpoints of     *)
(* attendance and the advance endpoints of payroll.                        *)
(*                                                                         *)
(* HandleApproveTask, HandleRejectTask and HandleBulkAction are one loop   *)
(* over a list of tasks.  For each task it first reads the requester, the  *)
(* caller and the manager ("check"), then updates the row if it is still   *)
(* PENDING ("decide"), each in a statement of its own; the first failure   *)
(* ends the request and keeps what was already decided.                    *)
(***************************************************************************)
EXTENDS Integers, Sequences

CONSTANTS
    Workers,        \* the requests of a behaviour; all may overlap
    Employees,
    NoEmployee,     \* no manager; a user account without an employee row
    Callers,        \* users with a role the inbox admits
    Tasks,
    Kind,           \* the table a task is a row of
    Requester,      \* the employee who asked
    BulkLists,      \* the lists of tasks a bulk action may name
    Faults          \* statements may fail, and answers may be lost

Kinds == {"LEAVE", "REGULARIZATION", "OD", "WFH", "ADVANCE", "EXIT"}

ASSUME ApprovalsAssumption ==
    /\ NoEmployee \notin Employees
    /\ Callers \subseteq [emp : Employees \cup {NoEmployee}, admin : BOOLEAN]
    /\ Kind \in [Tasks -> Kinds]
    /\ Requester \in [Tasks -> Employees]
    /\ BulkLists \subseteq Seq(Tasks)
    /\ Faults \in BOOLEAN

VARIABLES
    status,         \* the status column of each row; NONE: not submitted yet
    manager,        \* employees.manager_id
    synced,         \* regularizations written to attendance_daily_status
    pc, ctx,
    decided,        \* history: the decisions the inbox made on each task
    moved           \* history: requests whose requester got another manager since
                    \* they checked the task they are about to decide

vars == <<status, manager, synced, pc, ctx, decided, moved>>

-----------------------------------------------------------------------------
\* The single endpoints store these, the bulk endpoint stores its action as the
\* client sent it; the inbox page sends APPROVE or REJECT.
SingleActions == {"APPROVED", "REJECTED"}
BulkActions == {"APPROVE", "REJECT"}
Decisions == SingleActions \cup BulkActions

Status == {"NONE", "PENDING", "DEDUCTED"} \cup Decisions

\* The caller's claims and employee row, the tasks, and the next one.
Request == [emp : Employees \cup {NoEmployee}, admin : BOOLEAN, action : Decisions,
            list : Seq(Tasks), next : Nat \ {0}]

\* Who decided a task, its requester's manager at that moment, and whether the
\* manager had changed since the check.
Decision == [by : Employees \cup {NoEmployee}, admin : BOOLEAN,
             boss : Employees \cup {NoEmployee}, moved : BOOLEAN]

\* Tasks that only the inbox decides: leave, on duty, work from home, exits.
InboxTasks == {t \in Tasks : Kind[t] \notin {"REGULARIZATION", "ADVANCE"}}

TypeOK ==
    /\ status \in [Tasks -> Status]
    /\ manager \in [Employees -> Employees \cup {NoEmployee}]
    /\ synced \in SUBSET Tasks
    /\ pc \in [Workers -> {"idle", "check", "decide", "sync", "ok", "error"}]
    /\ ctx \in [Workers -> Request]
    /\ decided \in [Tasks -> Seq(Decision)]
    /\ moved \in SUBSET Workers

\* Leave applications are submitted through the API; the rows of the other
\* tables are written outside of it (HandleSubmitRequest leaves out a NOT NULL
\* column, the exit endpoints are stubs) with the column's default PENDING.
Init ==
    /\ status = [t \in Tasks |-> IF Kind[t] = "LEAVE" THEN "NONE" ELSE "PENDING"]
    /\ manager \in [Employees -> Employees \cup {NoEmployee}]
    /\ synced = {}
    /\ pc = [w \in Workers |-> "idle"]
    /\ ctx = [w \in Workers |->
                [emp |-> NoEmployee, admin |-> FALSE, action |-> "APPROVED", list |-> << >>, next |-> 1]]
    /\ decided = [t \in Tasks |-> << >>]
    /\ moved = {}

-----------------------------------------------------------------------------
\* HandleCreateApplication.
SubmitLeave(t) ==
    /\ Kind[t] = "LEAVE"
    /\ status[t] = "NONE"
    /\ status' = [status EXCEPT ![t] = "PENDING"]
    /\ UNCHANGED <<manager, synced, pc, ctx, decided, moved>>

\* A request reaches the inbox.  An empty bulk action succeeds at once.
Receive(w, c, action, list) ==
    /\ pc[w] = "idle"
    /\ ctx' = [ctx EXCEPT ![w] = [emp |-> c.emp, admin |-> c.admin, action |-> action,
                                  list |-> list, next |-> 1]]
    /\ pc' = [pc EXCEPT ![w] = IF list = << >> THEN "ok" ELSE "check"]
    /\ UNCHANGED <<status, manager, synced, decided, moved>>

\* HandleApproveTask, HandleRejectTask.
HandleTask(w, c) ==
    \E action \in SingleActions, t \in Tasks : Receive(w, c, action, <<t>>)

HandleBulkAction(w, c) ==
    \E action \in BulkActions, list \in BulkLists : Receive(w, c, action, list)

\* isSelfApproval: the task is unknown, the caller has no employee row, or the
\* caller is the requester.
isSelfApproval(emp, t) ==
    \/ status[t] = "NONE"
    \/ emp = NoEmployee
    \/ emp = Requester[t]

\* Mutant: any manager role may decide.
isAuthorizedAnyone(emp, admin, t) == TRUE

\* isAuthorizedToApprove: administrators, and the requester's manager.
isAuthorizedToApprove(emp, admin, t) == admin \/ manager[Requester[t]] = emp

Task(w) == ctx[w].list[ctx[w].next]

\* Mutant: the checks are made for the first task only.
CheckFirst(w) ==
    /\ pc[w] = "check"
    /\ \/ /\ \/ ctx[w].next > 1
             \/ /\ ~isSelfApproval(ctx[w].emp, Task(w))
                /\ isAuthorizedToApprove(ctx[w].emp, ctx[w].admin, Task(w))
          /\ pc' = [pc EXCEPT ![w] = "decide"]
       \/ /\ ctx[w].next = 1
          /\ \/ isSelfApproval(ctx[w].emp, Task(w))
             \/ ~isAuthorizedToApprove(ctx[w].emp, ctx[w].admin, Task(w))
             \/ Faults
          /\ pc' = [pc EXCEPT ![w] = "error"]
    /\ UNCHANGED <<status, manager, synced, ctx, decided, moved>>

\* The two checks of the next task.  A failing query refuses.
Check(w) ==
    /\ pc[w] = "check"
    /\ \/ /\ ~isSelfApproval(ctx[w].emp, Task(w))
          /\ isAuthorizedToApprove(ctx[w].emp, ctx[w].admin, Task(w))
          /\ pc' = [pc EXCEPT ![w] = "decide"]
       \/ /\ \/ isSelfApproval(ctx[w].emp, Task(w))
             \/ ~isAuthorizedToApprove(ctx[w].emp, ctx[w].admin, Task(w))
             \/ Faults
          /\ pc' = [pc EXCEPT ![w] = "error"]
    /\ UNCHANGED <<status, manager, synced, ctx, decided, moved>>

DecisionOf(w, t) ==
    [by |-> ctx[w].emp, admin |-> ctx[w].admin, boss |-> manager[Requester[t]], moved |-> w \in moved]

\* Mutant: the row is updated whatever its status is.
updateTaskStatusAlways(w, t) ==
    /\ status' = [status EXCEPT ![t] = ctx[w].action]
    /\ decided' = [decided EXCEPT ![t] = Append(@, DecisionOf(w, t))]

\* updateTaskStatus finds the row: UPDATE ... WHERE id = $2 AND status = 'PENDING'.
updateTaskStatus(w, t) ==
    /\ status[t] = "PENDING"
    /\ status' = [status EXCEPT ![t] = ctx[w].action]
    /\ decided' = [decided EXCEPT ![t] = Append(@, DecisionOf(w, t))]

\* The next task of the list, or the answer.
Proceed(w) ==
    /\ ctx' = [ctx EXCEPT ![w].next = @ + 1]
    /\ pc' = [pc EXCEPT ![w] = IF ctx[w].next = Len(ctx[w].list) THEN "ok" ELSE "check"]

\* Mutant: a task that is no longer PENDING is passed over.
DecideSkipping(w) ==
    /\ pc[w] = "decide"
    /\ \/ updateTaskStatus(w, Task(w)) /\ Proceed(w)
       \/ /\ status[Task(w)] # "PENDING"
          /\ Proceed(w)
          /\ UNCHANGED <<status, decided>>
    /\ moved' = moved \ {w}
    /\ UNCHANGED <<manager, synced>>

\* Mutant: the status to store is the name of the endpoint's task.
DecideRaw(w) ==
    /\ pc[w] = "decide"
    /\ status[Task(w)] = "PENDING"
    /\ status' = [status EXCEPT ![Task(w)] = Kind[Task(w)]]
    /\ Proceed(w)
    /\ UNCHANGED <<manager, synced, decided, moved>>

\* Decide the task.  An error of the update, and a row that is not PENDING any
\* more, end the request; the update may have happened although it reports an
\* error.
Decide(w) ==
    /\ pc[w] = "decide"
    /\ \/ updateTaskStatus(w, Task(w)) /\ Proceed(w)
       \/ /\ Faults
          /\ updateTaskStatus(w, Task(w))
          /\ pc' = [pc EXCEPT ![w] = "error"]
          /\ UNCHANGED ctx
       \/ /\ status[Task(w)] # "PENDING" \/ Faults
          /\ pc' = [pc EXCEPT ![w] = "error"]
          /\ UNCHANGED <<status, ctx, decided>>
    /\ moved' = moved \ {w}
    /\ UNCHANGED <<manager, synced>>

-----------------------------------------------------------------------------
\* HandleApproveRequest of attendance, for any user who is logged in, whatever
\* their role and also for the requester: APPROVED whatever the status was ...
HandleApproveRequest(w, e, t) ==
    /\ pc[w] = "idle"
    /\ Kind[t] = "REGULARIZATION"
    /\ status' = [status EXCEPT ![t] = "APPROVED"]
    /\ ctx' = [ctx EXCEPT ![w] = [emp |-> e, admin |-> FALSE, action |-> "APPROVED",
                                  list |-> <<t>>, next |-> 1]]
    /\ pc' = [pc EXCEPT ![w] = "sync"]
    /\ UNCHANGED <<manager, synced, decided, moved>>

\* ... then the day is written to attendance_daily_status; errors are ignored.
Sync(w) ==
    /\ pc[w] = "sync"
    /\ \/ synced' = synced \cup {Task(w)}
       \/ Faults /\ synced' = synced
    /\ pc' = [pc EXCEPT ![w] = "ok"]
    /\ UNCHANGED <<status, manager, ctx, decided, moved>>

\* HandleRejectRequest of attendance: likewise for any user, REJECTED whatever the
\* status was.
HandleRejectRequest(t) ==
    /\ Kind[t] = "REGULARIZATION"
    /\ status' = [status EXCEPT ![t] = "REJECTED"]
    /\ UNCHANGED <<manager, synced, pc, ctx, decided, moved>>

\* HandleApproveAdvance of payroll: payroll administrators, also for an advance of
\* their own, APPROVED whatever the status was.
HandleApproveAdvance(t) ==
    /\ Kind[t] = "ADVANCE"
    /\ status' = [status EXCEPT ![t] = "APPROVED"]
    /\ UNCHANGED <<manager, synced, pc, ctx, decided, moved>>

\* A payroll pass marks an advance it read while it was PENDING or APPROVED;
\* every advance was, once.
DeductAdvance(t) ==
    /\ Kind[t] = "ADVANCE"
    /\ status' = [status EXCEPT ![t] = "DEDUCTED"]
    /\ UNCHANGED <<manager, synced, pc, ctx, decided, moved>>

\* HandleUpdateEmployee changes the manager, to any employee.
HandleUpdateEmployee(e, m) ==
    /\ manager' = [manager EXCEPT ![e] = m]
    /\ moved' = IF m = manager[e] THEN moved
                ELSE moved \cup {w \in Workers : pc[w] = "decide" /\ Requester[Task(w)] = e}
    /\ UNCHANGED <<status, synced, pc, ctx, decided>>

-----------------------------------------------------------------------------
Next ==
    \/ \E w \in Workers : Check(w) \/ Decide(w) \/ Sync(w)
    \/ \E w \in Workers, c \in Callers : HandleTask(w, c) \/ HandleBulkAction(w, c)
    \/ \E w \in Workers, e \in Employees \cup {NoEmployee}, t \in Tasks :
         HandleApproveRequest(w, e, t)
    \/ \E t \in Tasks :
         SubmitLeave(t) \/ HandleRejectRequest(t) \/ HandleApproveAdvance(t) \/ DeductAdvance(t)
    \/ \E e, m \in Employees : HandleUpdateEmployee(e, m)

Spec == Init /\ [][Next]_vars

-----------------------------------------------------------------------------
\* Properties

\* The inbox decides a task at most once, however many requests, bulk actions
\* and other endpoints meet on it: updateTaskStatus moves a row out of PENDING,
\* and nothing moves it back.
InboxDecidesOnce == \A t \in Tasks : Len(decided[t]) <= 1

\* Through the inbox nobody decides a request of their own, and who decides is an
\* administrator or the requester's manager at that moment, also of the later
\* tasks of a bulk action; only a manager who was replaced between the checks of
\* this very task and its update still decides (isSelfApproval,
\* isAuthorizedToApprove, then updateTaskStatus, which does not look again).
DecisionsAuthorized ==
    \A t \in Tasks : \A i \in DOMAIN decided[t] :
        LET d == decided[t][i]
        IN  /\ d.by \in Employees \ {Requester[t]}
            /\ d.admin \/ d.by = d.boss \/ d.moved

\* The tasks a request has gone past have the outcome it asked for, although
\* other requests run at the same time, and a request that is answered with
\* success has gone past them all: a bulk action never reports a success that is
\* not true of each of its tasks.  (For the tasks only the inbox decides.)
AnswersTrue ==
    \A w \in Workers :
        /\ \A i \in DOMAIN ctx[w].list :
             i < ctx[w].next /\ ctx[w].list[i] \in InboxTasks =>
                 status[ctx[w].list[i]] = ctx[w].action
        /\ pc[w] = "ok" /\ ctx[w].list # << >> /\ ctx[w].list[1] \in InboxTasks =>
                 ctx[w].next > Len(ctx[w].list)

\* For the tasks only the inbox decides, the whole of it implements OneDecision:
\* submitted, decided once, final.
Inbox == INSTANCE OneDecision WITH
           Requests <- InboxTasks, Outcomes <- Decisions,
           outcome <- [t \in InboxTasks |-> status[t]]

ImplementsOneDecision == Inbox!Spec

-----------------------------------------------------------------------------
\* What the repository says of statuses, regularizations and requests of one's own.

\* The comments on the status columns and on UniversalApprovalTask.Status name
\* PENDING, APPROVED and REJECTED; HandleBulkAction stores the action it is sent.
KnownStatuses ==
    \A t \in InboxTasks : status[t] \in {"NONE", "PENDING", "APPROVED", "REJECTED"}

\* HandleApproveRequest writes an approved regularization to
\* attendance_daily_status; the inbox approves the same rows without doing it.
ApprovedIsSynced ==
    \A t \in Tasks :
        Kind[t] = "REGULARIZATION" /\ status[t] = "APPROVED" =>
            t \in synced \/ \E w \in Workers : pc[w] = "sync" /\ Task(w) = t

\* AUTHORIZATION_ARCHITECTURE.md: nobody approves a request of their own, through
\* whichever endpoint.  HandleApproveRequest does not look at who calls it.
NeverOwnRequest ==
    \A w \in Workers : \A i \in DOMAIN ctx[w].list :
        i < ctx[w].next \/ pc[w] = "sync" => Requester[ctx[w].list[i]] # ctx[w].emp
=============================================================================
