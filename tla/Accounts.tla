------------------------------ MODULE Accounts ------------------------------
(***************************************************************************)
(* User accounts, their roles and their links to employees: the user       *)
(* service, the creation of employees, and the importer, which creates     *)
(* accounts and employees from the rows of a batch.                        *)
(*                                                                         *)
(* The importer runs each row in statements of their own; the user service *)
(* creates an account in one transaction, replaces a role in another, and  *)
(* deletes an account in two autocommitted statements.  Constraints of the *)
(* database are guards: users.email and employees.user_id are UNIQUE,      *)
(* employees.user_id and import_batches.user_id reference users, and       *)
(* deleting a user deletes its rows in user_roles.  Bound: one batch.      *)
(***************************************************************************)
CONSTANTS
    Workers,        \* requests that can be in flight at the same time
    Users,          \* bound: the ids that users can get, each at most once
    Admin,          \* the user who sends the requests
    Employees,      \* bound: the employees that can exist
    Emails, Roles,
    Rows,           \* the data rows of one uploaded file
    EmailOf,        \* their e-mail column; rows may repeat one
    None,
    Faults          \* statements may fail, answers may be lost, requests be cut off

ASSUME AccountsAssumption ==
    /\ None \notin Users \cup Employees \cup Emails \cup Roles \cup Rows
    /\ Admin \in Users
    /\ EmailOf \in [Rows -> Emails]
    /\ Faults \in BOOLEAN

VARIABLES
    account,        \* users: the e-mail of each user; None: no such user
    used,           \* ids given to users so far
    roles,          \* user_roles
    emps, link,     \* employees, and their user_id
    batch, owner,   \* import_batches: status and user_id
    exact,          \* the header of the file is in lower case
    rows,           \* import_rows
    pc, ctx,
    source,         \* history: the row and the user an employee was imported with
    deleted,        \* history: e-mails of deleted users
    roleless,       \* history: users the importer or a cancelled request left without a role
    unmarked        \* history: rows that a read left out or an update failed to mark

people == <<account, used, roles, emps, link, source, deleted, roleless>>
import == <<batch, owner, exact, rows, unmarked>>
vars == <<people, import, pc, ctx>>

-----------------------------------------------------------------------------
RowStatus == {"NONE", "VALID", "ERROR", "COMPLETED"}
BatchStatus == {"NONE", "READY", "COMPLETED"}
PC == {"idle", "rows", "employee", "mark", "fail", "roleLock", "roleInsert", "delete"}

\* Local variables of a request.  held: the roles of user that HandleUpdateRole
\* sees when its DELETE starts, then those it has deleted and not committed.
Local == [todo : SUBSET Rows, row : Rows \cup {None}, user : Users \cup {None},
          emp : Employees \cup {None}, role : Roles \cup {None}, held : SUBSET Roles]
ForRow(todo, r, u, e) ==
    [todo |-> todo, row |-> r, user |-> u, emp |-> e, role |-> None, held |-> {}]
ForUser(u, r, held) ==
    [todo |-> {}, row |-> None, user |-> u, emp |-> None, role |-> r, held |-> held]
NoLocal == ForRow({}, None, None, None)

TypeOK ==
    /\ account \in [Users -> Emails \cup {None}]
    /\ used \in SUBSET Users
    /\ roles \in [Users -> SUBSET Roles]
    /\ emps \in SUBSET Employees
    /\ link \in [Employees -> Users \cup {None}]
    /\ batch \in BatchStatus
    /\ owner \in Users \cup {None}
    /\ exact \in BOOLEAN
    /\ rows \in [Rows -> [status : RowStatus, emp : Employees \cup {None}]]
    /\ pc \in [Workers -> PC]
    /\ ctx \in [Workers -> Local]
    /\ source \in [Employees -> [row : Rows \cup {None}, user : Users \cup {None}]]
    /\ deleted \in SUBSET Emails
    /\ roleless \in SUBSET Users
    /\ unmarked \in SUBSET Rows

\* The administrator's account, with any of the roles, and nothing else.
Init ==
    /\ \E m \in Emails : account = [u \in Users |-> IF u = Admin THEN m ELSE None]
    /\ used = {Admin}
    /\ \E r \in Roles : roles = [u \in Users |-> IF u = Admin THEN {r} ELSE {}]
    /\ emps = {}
    /\ link = [e \in Employees |-> None]
    /\ batch = "NONE"
    /\ owner = None
    /\ exact = TRUE
    /\ rows = [r \in Rows |-> [status |-> "NONE", emp |-> None]]
    /\ pc = [w \in Workers |-> "idle"]
    /\ ctx = [w \in Workers |-> NoLocal]
    /\ source = [e \in Employees |-> [row |-> None, user |-> None]]
    /\ deleted = {}
    /\ roleless = {}
    /\ unmarked = {}

Exists(u) == account[u] # None
Free(m) == \A u \in Users : account[u] # m

Goto(w, label) == pc' = [pc EXCEPT ![w] = label]

\* The response is sent, or the request's goroutine has panicked.
Return(w) ==
    /\ pc' = [pc EXCEPT ![w] = "idle"]
    /\ ctx' = [ctx EXCEPT ![w] = NoLocal]

\* The loop goes on to the next row.
NextRow(w) ==
    /\ pc' = [pc EXCEPT ![w] = "rows"]
    /\ ctx' = [ctx EXCEPT ![w] = ForRow(ctx[w].todo, None, None, None)]

\* INSERT INTO users: a new id, unless the e-mail is taken.
InsertUser(u, m) ==
    /\ u \notin used
    /\ Free(m)
    /\ account' = [account EXCEPT ![u] = m]
    /\ used' = used \cup {u}

-----------------------------------------------------------------------------
\* The importer

\* HandleUpload, one transaction: rows that lack an e-mail or a name are ERROR.
\* The header is compared in lower case but stored as it is.  user_id is the
\* first user of a query without ORDER BY.
HandleUpload(valid, lower, u) ==
    /\ batch = "NONE"
    /\ Exists(u)
    /\ batch' = "READY"
    /\ owner' = u
    /\ exact' = lower
    /\ rows' = [r \in Rows |-> [status |-> IF r \in valid THEN "VALID" ELSE "ERROR", emp |-> None]]
    /\ UNCHANGED <<people, unmarked, pc, ctx>>

Valid == {r \in Rows : rows[r].status = "VALID"}

\* HandleProcessBatch: the VALID rows are read once; the status of the batch
\* is not looked at.  Nor is rows.Err: a read that breaks off goes unnoticed, and
\* the rest of the rows are left out.
ProcessRead(w) ==
    /\ pc[w] = "idle"
    /\ batch # "NONE"
    /\ \E todo \in SUBSET Valid :
         /\ todo = Valid \/ Faults
         /\ ctx' = [ctx EXCEPT ![w] = ForRow(todo, None, None, None)]
         /\ unmarked' = unmarked \cup (Valid \ todo)
    /\ Goto(w, "rows")
    /\ UNCHANGED <<people, batch, owner, exact, rows>>

\* Mutant: an error of the insert is not noticed when the e-mail has an account.
RowUserTaken(w) ==
    /\ pc[w] = "rows"
    /\ exact
    /\ \E r \in ctx[w].todo, u \in Users :
         /\ \/ /\ InsertUser(u, EmailOf[r])
               /\ roleless' = roleless \cup {u}
            \/ /\ account[u] = EmailOf[r]
               /\ UNCHANGED <<account, used, roleless>>
         /\ ctx' = [ctx EXCEPT ![w] = ForRow(ctx[w].todo \ {r}, r, u, None)]
         /\ Goto(w, "employee")
    /\ UNCHANGED <<roles, emps, link, source, deleted, import>>

\* The next row: a panic when the columns are not found under their lower case
\* names; else INSERT INTO users.  The account may exist although the insert
\* reports an error.
RowUser(w) ==
    /\ pc[w] = "rows"
    /\ ctx[w].todo # {}
    /\ \/ /\ ~exact
          /\ Return(w)
          /\ UNCHANGED people
       \/ /\ exact
          /\ \E r \in ctx[w].todo, u \in Users :
               /\ InsertUser(u, EmailOf[r])
               /\ roleless' = roleless \cup {u}
               /\ ctx' = [ctx EXCEPT ![w] = ForRow(ctx[w].todo \ {r}, r, u, None)]
               /\ Goto(w, "employee") \/ (Faults /\ Goto(w, "fail"))
          /\ UNCHANGED <<roles, emps, link, source, deleted>>
       \/ /\ exact
          /\ \E r \in ctx[w].todo :
               /\ Faults \/ ~Free(EmailOf[r])
               /\ ctx' = [ctx EXCEPT ![w] = ForRow(ctx[w].todo \ {r}, r, None, None)]
          /\ Goto(w, "fail")
          /\ UNCHANGED people
    /\ UNCHANGED import

\* INSERT INTO employees.  It fails when the account is gone again, when the
\* joining date of the row is no date, or when the code made of the second and
\* the index is taken.
RowEmployee(w) ==
    /\ pc[w] = "employee"
    /\ \/ /\ Exists(ctx[w].user)
          /\ \A e \in Employees : link[e] # ctx[w].user
          /\ \E e \in Employees \ emps :
               /\ emps' = emps \cup {e}
               /\ link' = [link EXCEPT ![e] = ctx[w].user]
               /\ source' = [source EXCEPT ![e] = [row |-> ctx[w].row, user |-> ctx[w].user]]
               /\ ctx' = [ctx EXCEPT ![w] =
                    ForRow(ctx[w].todo, ctx[w].row, ctx[w].user, e)]
          /\ Goto(w, "mark") \/ (Faults /\ Goto(w, "fail"))
       \/ /\ Goto(w, "fail")
          /\ UNCHANGED <<emps, link, source, ctx>>
    /\ UNCHANGED <<account, used, roles, deleted, roleless, import>>

\* Mutant: the row is completed before its employee is known.
RowMarkEarly(w) ==
    /\ pc[w] = "mark"
    /\ rows' = [rows EXCEPT ![ctx[w].row] = [status |-> "COMPLETED", emp |-> None]]
    /\ NextRow(w)
    /\ UNCHANGED <<people, batch, owner, exact, unmarked>>

\* UPDATE import_rows SET status = 'COMPLETED', error ignored.
RowMark(w) ==
    /\ pc[w] = "mark"
    /\ \/ /\ rows' = [rows EXCEPT ![ctx[w].row] = [status |-> "COMPLETED", emp |-> ctx[w].emp]]
          /\ UNCHANGED unmarked
       \/ /\ Faults
          /\ unmarked' = unmarked \cup {ctx[w].row}
          /\ UNCHANGED rows
    /\ NextRow(w)
    /\ UNCHANGED <<people, batch, owner, exact>>

\* Mutant: the row is skipped without a trace.
RowFailSilently(w) ==
    /\ pc[w] = "fail"
    /\ NextRow(w)
    /\ UNCHANGED <<people, import>>

\* Mutant: a status the pages do not know.
RowFailUnknown(w) ==
    /\ pc[w] = "fail"
    /\ rows' = [rows EXCEPT ![ctx[w].row].status = "FAILED"]
    /\ NextRow(w)
    /\ UNCHANGED <<people, batch, owner, exact, unmarked>>

\* UPDATE import_rows SET status = 'ERROR', error ignored, and on with the loop.
RowFail(w) ==
    /\ pc[w] = "fail"
    /\ \/ /\ rows' = [rows EXCEPT ![ctx[w].row].status = "ERROR"]
          /\ UNCHANGED unmarked
       \/ /\ Faults
          /\ unmarked' = unmarked \cup {ctx[w].row}
          /\ UNCHANGED rows
    /\ NextRow(w)
    /\ UNCHANGED <<people, batch, owner, exact>>

\* After the last row the batch is COMPLETED.
ProcessFinish(w) ==
    /\ pc[w] = "rows"
    /\ ctx[w].todo = {}
    /\ batch' = "COMPLETED" \/ (Faults /\ UNCHANGED batch)
    /\ Return(w)
    /\ UNCHANGED <<people, owner, exact, rows, unmarked>>

-----------------------------------------------------------------------------
\* The user service and the employee master

\* HandleCreateEmployee, one transaction.
HandleCreateEmployee(e) ==
    /\ e \notin emps
    /\ emps' = emps \cup {e}
    /\ UNCHANGED <<account, used, roles, link, source, deleted, roleless, import, pc, ctx>>

\* createUserTx: the account, its role, and the link to an employee who has none.
\* The error of the role's INSERT is ignored.  When the database rejects it the
\* commit rolls back; when the request's context has been cancelled the INSERT is
\* not even sent, and the commit, under a context of its own, keeps an account
\* without a role.  The link's UPDATE is refused likewise, and its error is not
\* ignored, so that only an account without an employee can end up like this.
createUserTx(u, m, r, e) ==
    /\ InsertUser(u, m)
    /\ \/ /\ roles' = [roles EXCEPT ![u] = {r}]
          /\ \/ e = None /\ UNCHANGED link
             \/ /\ e \in emps
                /\ link[e] = None
                /\ link' = [link EXCEPT ![e] = u]
          /\ UNCHANGED roleless
       \/ /\ Faults
          /\ e = None
          /\ roleless' = roleless \cup {u}
          /\ UNCHANGED <<roles, link>>
    /\ UNCHANGED <<emps, source, deleted, import, pc, ctx>>

\* HandleInviteUser: the same transaction over again; the account is inactive
\* until its token is used, which is not modelled.
HandleInviteUser(u, m, r, e) == createUserTx(u, m, r, e)

\* HandleUpdateRole: the DELETE starts and sees the roles committed so far ...
UpdateRole(w, u, r) ==
    /\ pc[w] = "idle"
    /\ Exists(u)
    /\ ctx' = [ctx EXCEPT ![w] = ForUser(u, r, roles[u])]
    /\ Goto(w, "roleLock")
    /\ UNCHANGED <<people, import>>

\* Requests other than w that hold rows of user_roles of u.
Holding(w, u) ==
    {v \in Workers \ {w} : pc[v] = "roleInsert" /\ ctx[v].user = u /\ ctx[v].held # {}}

\* Mutant: the DELETE is committed on its own.
RoleLockCommitted(w) ==
    LET u == ctx[w].user
    IN  /\ pc[w] = "roleLock"
        /\ Holding(w, u) = {}
        /\ roles' = [roles EXCEPT ![u] = @ \ ctx[w].held]
        /\ ctx' = [ctx EXCEPT ![w] = ForUser(u, ctx[w].role, {})]
        /\ Goto(w, "roleInsert")
        /\ UNCHANGED <<account, used, emps, link, source, deleted, roleless, import>>

\* ... it waits for the rows that others hold and deletes those that are left,
\* without committing ...
RoleLock(w) ==
    LET u == ctx[w].user
    IN  /\ pc[w] = "roleLock"
        /\ \A v \in Holding(w, u) : ctx[v].held \cap ctx[w].held = {}
        /\ ctx' = [ctx EXCEPT ![w] = ForUser(u, ctx[w].role, ctx[w].held \cap roles[u])]
        /\ Goto(w, "roleInsert")
        /\ UNCHANGED <<people, import>>

\* The commit of a role change: the request is over, and a DELETE that waited for
\* the deleted rows does not see what took their place, not even the same role.
RoleCommitted(w) ==
    [v \in Workers |->
        IF v = w THEN NoLocal
        ELSE IF pc[v] = "roleLock" /\ ctx[v].user = ctx[w].user
             THEN [ctx[v] EXCEPT !.held = @ \ ctx[w].held]
             ELSE ctx[v]]

\* ... then, once nobody else holds that row, the INSERT and the commit, or a
\* rollback: the user is gone, the role is there, the INSERT fails in the
\* database, or a deadlock with the deletion of the user is resolved against
\* this transaction ...
RoleInsert(w) ==
    LET u == ctx[w].user
        rest == roles[u] \ ctx[w].held
    IN  /\ pc[w] = "roleInsert"
        /\ \A v \in Holding(w, u) : ctx[w].role \notin ctx[v].held
        /\ \/ /\ Exists(u)
              /\ ctx[w].role \notin rest
              /\ roles' = [roles EXCEPT ![u] = rest \cup {ctx[w].role}]
              /\ roleless' = roleless \ {u}
              /\ ctx' = RoleCommitted(w)
           \/ /\ \/ ~Exists(u) \/ ctx[w].role \in rest \/ Faults
                 \/ \E v \in Workers : pc[v] = "delete" /\ ctx[v].user = u
              /\ UNCHANGED <<roles, roleless>>
              /\ ctx' = [ctx EXCEPT ![w] = NoLocal]
        /\ Goto(w, "idle")
        /\ UNCHANGED <<account, used, emps, link, source, deleted, import>>

\* ... or the request's context has been cancelled since the DELETE: the INSERT is
\* not sent, its error is ignored like every other, and the commit, under a
\* context of its own, keeps the DELETE alone.
RoleRefused(w) ==
    LET u == ctx[w].user
        rest == roles[u] \ ctx[w].held
    IN  /\ Faults
        /\ pc[w] = "roleInsert"
        /\ roles' = [roles EXCEPT ![u] = rest]
        /\ roleless' = IF rest = {} /\ Exists(u) THEN roleless \cup {u} ELSE roleless
        /\ ctx' = RoleCommitted(w)
        /\ Goto(w, "idle")
        /\ UNCHANGED <<account, used, emps, link, source, deleted, import>>

\* HandleDeleteUser: unlink the employee, error ignored ...
DeleteUnlink(w, u) ==
    /\ pc[w] = "idle"
    /\ u # Admin
    /\ Exists(u)
    /\ \/ link' = [e \in Employees |-> IF link[e] = u THEN None ELSE link[e]]
       \/ Faults /\ UNCHANGED link
    /\ ctx' = [ctx EXCEPT ![w] = ForUser(u, None, {})]
    /\ Goto(w, "delete")
    /\ UNCHANGED <<account, used, roles, emps, source, deleted, roleless, import>>

\* ... and delete the user with its roles, error ignored: it fails while the
\* user is referenced, here or in a table that is not modelled (audit_logs), and
\* may be the victim of a deadlock with a role change.
DeleteUser(w) ==
    LET u == ctx[w].user
        referenced == u = owner \/ \E e \in Employees : link[e] = u
    IN  /\ pc[w] = "delete"
        /\ \/ /\ Exists(u)
              /\ ~referenced
              /\ Holding(w, u) = {}
              /\ account' = [account EXCEPT ![u] = None]
              /\ roles' = [roles EXCEPT ![u] = {}]
              /\ deleted' = deleted \cup {account[u]}
              /\ roleless' = roleless \ {u}
           \/ UNCHANGED <<account, roles, deleted, roleless>>
        /\ Return(w)
        /\ UNCHANGED <<used, emps, link, source, import>>

\* The request's context is cancelled while a statement runs, which closes the
\* connection, or the process dies: an open transaction is rolled back.
Cancel(w) ==
    /\ Faults
    /\ pc[w] # "idle"
    /\ Return(w)
    /\ UNCHANGED <<people, import>>

-----------------------------------------------------------------------------
Step(w) ==
    \/ RowUser(w) \/ RowEmployee(w) \/ RowMark(w) \/ RowFail(w) \/ ProcessFinish(w)
    \/ RoleLock(w) \/ RoleInsert(w) \/ RoleRefused(w) \/ DeleteUser(w)

Next ==
    \/ \E valid \in SUBSET Rows, lower \in BOOLEAN, u \in Users : HandleUpload(valid, lower, u)
    \/ \E w \in Workers : Step(w) \/ ProcessRead(w) \/ Cancel(w)
    \/ \E w \in Workers, u \in Users :
         DeleteUnlink(w, u) \/ \E r \in Roles : UpdateRole(w, u, r)
    \/ \E e \in Employees : HandleCreateEmployee(e)
    \/ \E u \in Users, m \in Emails, r \in Roles, e \in Employees \cup {None} :
         createUserTx(u, m, r, e) \/ HandleInviteUser(u, m, r, e)

Spec == Init /\ [][Next]_vars

-----------------------------------------------------------------------------
\* Properties

\* An account has a role, whatever overlaps, fails or dies, unless it was committed
\* without one: by the importer, which gives none, or by a request cancelled between
\* the statements of its transaction (roleless).  Neither two role changes nor the
\* deletion of the user come between the DELETE and the INSERT of a change, and the
\* next change that goes through ends the exception.
NeverWithoutRole ==
    \A u \in Users \ roleless : Exists(u) => roles[u] # {}

\* However often a batch is processed, and by however many requests at a time,
\* an e-mail becomes an employee once: the importer creates the account first,
\* and users.email is UNIQUE.  Only deleting the account makes room for another.
ImportedOnce ==
    \A e, f \in emps :
        /\ source[e].row # None /\ source[f].row # None
        /\ EmailOf[source[e].row] = EmailOf[source[f].row]
        /\ EmailOf[source[e].row] \notin deleted
        => e = f

\* A COMPLETED row names the employee that was imported from it, also when
\* another request processes the row at the same time.
CompletedHasEmployee ==
    \A r \in Rows : rows[r].status = "COMPLETED" =>
        rows[r].emp \in emps /\ source[rows[r].emp].row = r

\* In a COMPLETED batch every row is COMPLETED or ERROR, except those that a read
\* which broke off left out and those whose own update failed (unmarked), also when
\* two requests process the batch and one completes it while the other still runs.
BatchDecided ==
    batch = "COMPLETED" => \A r \in Rows \ unmarked : rows[r].status # "VALID"
=============================================================================
