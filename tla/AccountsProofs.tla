--------------------------- MODULE AccountsProofs ---------------------------
(***************************************************************************)
(* Proofs about Accounts, for every number of requests, users, employees,  *)
(* e-mails, roles and rows.                                                *)
(***************************************************************************)
EXTENDS Accounts, TLAPS

\* An e-mail belongs to one account, and an account has an id that was given.
UniqueEmails ==
    /\ \A u, v \in Users : Exists(u) /\ account[u] = account[v] => u = v
    /\ \A u \in Users : Exists(u) => u \in used

\* u was created for row r: it still has that e-mail, or was deleted.
CreatedFor(u, r) ==
    /\ u \in used
    /\ r \in Rows
    /\ account[u] = EmailOf[r] \/ EmailOf[r] \in deleted

\* An imported employee has a user of its own, created for its row.
Sources ==
    /\ \A e \in Employees : source[e].row # None =>
         CreatedFor(source[e].user, source[e].row)
    /\ \A e \in Employees : source[e].row = None => source[e].user = None
    /\ \A e, f \in Employees :
         source[e].user # None /\ source[e].user = source[f].user => e = f

\* A user without an employee belongs to the one request that created it.
Claims ==
    \A w \in Workers : pc[w] = "employee" =>
        /\ CreatedFor(ctx[w].user, ctx[w].row)
        /\ \A e \in Employees : source[e].user # ctx[w].user
        /\ \A v \in Workers \ {w} : pc[v] = "employee" => ctx[v].user # ctx[w].user

\* What a request works on.
Working ==
    \A w \in Workers :
        /\ pc[w] \in {"employee", "mark", "fail"} => ctx[w].row \in Rows
        /\ pc[w] \in {"employee", "roleLock", "roleInsert", "delete"} => ctx[w].user \in Users
        /\ pc[w] \in {"roleLock", "roleInsert"} => ctx[w].role \in Roles
        /\ pc[w] = "mark" => ctx[w].emp \in Employees

\* A row about to be COMPLETED has its employee.
Marking ==
    \A w \in Workers : pc[w] = "mark" =>
        ctx[w].emp \in emps /\ source[ctx[w].emp].row = ctx[w].row

\* What a request has read and not decided yet is in front of it.
Ahead ==
    /\ \A w \in Workers : pc[w] \in {"rows", "employee", "mark", "fail"} =>
         /\ batch # "NONE"
         /\ \A r \in Rows : rows[r].status = "VALID" =>
              r \in unmarked \/ r \in ctx[w].todo \/ (pc[w] # "rows" /\ r = ctx[w].row)
    /\ batch = "NONE" => \A r \in Rows : rows[r].status = "NONE"

IInv ==
    /\ TypeOK
    /\ Working
    /\ NeverWithoutRole
    /\ UniqueEmails
    /\ Sources
    /\ Claims
    /\ Marking
    /\ CompletedHasEmployee
    /\ Ahead
    /\ BatchDecided
-----------------------------------------------------------------------------
\* The locals of a request.
LEMMA LocalTypes ==
    /\ NoLocal \in Local
    /\ \A todo \in SUBSET Rows, r \in Rows \cup {None}, u \in Users \cup {None},
          e \in Employees \cup {None} : ForRow(todo, r, u, e) \in Local
    /\ \A u \in Users \cup {None}, r \in Roles \cup {None}, held \in SUBSET Roles :
          ForUser(u, r, held) \in Local
    /\ \A l \in Local, held \in SUBSET Roles : [l EXCEPT !.held = held] \in Local
BY DEF Local, NoLocal, ForRow, ForUser

\* The fields of a request.
LEMMA LocalFields ==
    ASSUME NEW l \in Local
    PROVE  /\ l.todo \in SUBSET Rows /\ l.row \in Rows \cup {None}
           /\ l.user \in Users \cup {None} /\ l.emp \in Employees \cup {None}
           /\ l.role \in Roles \cup {None} /\ l.held \in SUBSET Roles
BY DEF Local

\* Every step keeps the types.
LEMMA TypeStep ==
    ASSUME TypeOK, Working, [Next]_vars
    PROVE  TypeOK'
<1> USE AccountsAssumption, LocalTypes, LocalFields DEF people, import
<1>1. CASE UNCHANGED vars
    BY <1>1 DEF vars, TypeOK, Working
<1>2. ASSUME NEW valid \in SUBSET Rows, NEW lower \in BOOLEAN, NEW u \in Users, 
             HandleUpload(valid, lower, u)
      PROVE  TypeOK'
    BY <1>2 DEF HandleUpload, BatchStatus, RowStatus, TypeOK, Working
<1>3. ASSUME NEW w \in Workers, ProcessRead(w)
      PROVE  TypeOK'
    BY <1>3 DEF ProcessRead, Valid, Goto, PC, TypeOK, Working
<1>4. ASSUME NEW w \in Workers, RowUser(w)
      PROVE  TypeOK'
  <2>1. /\ ctx[w].todo \in SUBSET Rows /\ ctx[w].row \in Rows \cup {None}
        /\ ctx[w].user \in Users \cup {None} /\ ctx[w].role \in Roles \cup {None}
        /\ ctx[w].held \in SUBSET Roles
    BY LocalFields DEF TypeOK
  <2>2. CASE ~exact /\ Return(w) /\ UNCHANGED <<people, import>>
    BY <2>2 DEF Return, PC, TypeOK
  <2>3. ASSUME NEW r \in ctx[w].todo, NEW u \in Users,
               InsertUser(u, EmailOf[r]), roleless' = roleless \cup {u},
               ctx' = [ctx EXCEPT ![w] = ForRow(ctx[w].todo \ {r}, r, u, None)],
               Goto(w, "employee") \/ Goto(w, "fail"),
               UNCHANGED <<roles, emps, link, source, deleted, import>>
        PROVE  TypeOK'
    <3>1. r \in Rows /\ EmailOf[r] \in Emails
      BY <2>1
    <3>2. ForRow(ctx[w].todo \ {r}, r, u, None) \in Local
      BY <2>1, <3>1
    <3>3. ctx' \in [Workers -> Local] /\ pc' \in [Workers -> PC]
      BY <2>3, <3>2 DEF Goto, PC, TypeOK
    <3> QED
      BY <2>3, <3>1, <3>3 DEF InsertUser, TypeOK
  <2>4. ASSUME NEW r \in ctx[w].todo,
               ctx' = [ctx EXCEPT ![w] = ForRow(ctx[w].todo \ {r}, r, None, None)],
               Goto(w, "fail"), UNCHANGED <<people, import>>
        PROVE  TypeOK'
    <3>1. ForRow(ctx[w].todo \ {r}, r, None, None) \in Local
      BY <2>1
    <3> QED
      BY <2>4, <3>1 DEF Goto, PC, TypeOK
  <2> QED
    BY <1>4, <2>2, <2>3, <2>4 DEF RowUser
<1>5. ASSUME NEW w \in Workers, RowEmployee(w)
      PROVE  TypeOK'
  <2>1. /\ ctx[w].todo \in SUBSET Rows /\ ctx[w].row \in Rows \cup {None}
        /\ ctx[w].user \in Users \cup {None} /\ ctx[w].role \in Roles \cup {None}
        /\ ctx[w].held \in SUBSET Roles
    BY LocalFields DEF TypeOK
  <2>2. \A e \in Employees : ForRow(ctx[w].todo, ctx[w].row, ctx[w].user, e) \in Local
    BY <2>1
  <2> pc' \in [Workers -> PC]
    <3>1. Goto(w, "mark") \/ Goto(w, "fail")
      BY <1>5 DEF RowEmployee
    <3>2. pc \in [Workers -> PC]
      BY DEF TypeOK
    <3> QED
      BY <3>1, <3>2 DEF Goto, PC
  <2>3. ctx' \in [Workers -> Local]
    <3>1. ctx \in [Workers -> Local]
      BY DEF TypeOK
    <3> QED
      BY <1>5, <2>2, <3>1 DEF RowEmployee
  <2>4. emps' \in SUBSET Employees /\ link' \in [Employees -> Users \cup {None}]
    BY <1>5, <2>1 DEF RowEmployee, TypeOK
  <2>5. source' \in [Employees -> [row : Rows \cup {None}, user : Users \cup {None}]]
    BY <1>5, <2>1 DEF RowEmployee, TypeOK
  <2> QED
    BY <1>5, <2>3, <2>4, <2>5 DEF RowEmployee, TypeOK
<1>6. ASSUME NEW w \in Workers, RowMark(w)
      PROVE  TypeOK'
    BY <1>6 DEF RowMark, NextRow, PC, RowStatus, TypeOK, Working
<1>7. ASSUME NEW w \in Workers, RowFail(w)
      PROVE  TypeOK'
    BY <1>7 DEF RowFail, NextRow, PC, RowStatus, TypeOK, Working
<1>8. ASSUME NEW w \in Workers, ProcessFinish(w)
      PROVE  TypeOK'
    BY <1>8 DEF ProcessFinish, Return, PC, BatchStatus, TypeOK, Working
<1>9. ASSUME NEW e \in Employees, HandleCreateEmployee(e)
      PROVE  TypeOK'
    BY <1>9 DEF HandleCreateEmployee, TypeOK, Working
<1>10. ASSUME NEW u \in Users, NEW m \in Emails, NEW r \in Roles,
              NEW e \in Employees \cup {None}, createUserTx(u, m, r, e)
      PROVE  TypeOK'
    BY <1>10 DEF createUserTx, InsertUser, TypeOK, Working
<1>11. ASSUME NEW w \in Workers, NEW u \in Users, NEW r \in Roles, UpdateRole(w, u, r)
      PROVE  TypeOK'
    BY <1>11 DEF UpdateRole, Goto, PC, TypeOK, Working
<1>12. ASSUME NEW w \in Workers, RoleLock(w)
      PROVE  TypeOK'
    BY <1>12 DEF RoleLock, Goto, PC, TypeOK, Working
<1>13. ASSUME NEW w \in Workers, RoleInsert(w)
      PROVE  TypeOK'
  <2>1. /\ ctx[w].todo \in SUBSET Rows /\ ctx[w].row \in Rows \cup {None}
        /\ ctx[w].user \in Users \cup {None} /\ ctx[w].role \in Roles \cup {None}
        /\ ctx[w].held \in SUBSET Roles
    BY LocalFields DEF TypeOK
  <2>2. roles' \in [Users -> SUBSET Roles]
    <3>1. ctx[w].user \in Users /\ ctx[w].role \in Roles
      BY <1>13 DEF RoleInsert, RoleCommitted, Working
    <3> QED
      BY <1>13, <2>1, <3>1 DEF RoleInsert, RoleCommitted, TypeOK
  <2>3. \A v \in Workers : [ctx[v] EXCEPT !.held = @ \ ctx[w].held] \in Local
    <3>1. \A v \in Workers : ctx[v] \in Local /\ ctx[v].held \ ctx[w].held \in SUBSET Roles
      BY LocalFields DEF TypeOK
    <3> QED
      BY <3>1 DEF Local
  <2> pc' \in [Workers -> PC]
    BY <1>13 DEF RoleInsert, RoleCommitted, Goto, PC, TypeOK
  <2>4. ctx' \in [Workers -> Local]
    <3>1. ctx \in [Workers -> Local]
      BY DEF TypeOK
    <3> QED
      BY <1>13, <2>3, <3>1 DEF RoleInsert, RoleCommitted
  <2> QED
    BY <1>13, <2>2, <2>4 DEF RoleInsert, RoleCommitted, TypeOK
<1>14. ASSUME NEW w \in Workers, NEW u \in Users, DeleteUnlink(w, u)
      PROVE  TypeOK'
    BY <1>14 DEF DeleteUnlink, Goto, PC, TypeOK, Working
<1>15. ASSUME NEW w \in Workers, DeleteUser(w)
      PROVE  TypeOK'
  <2>1. ctx[w].user \in Users
    BY <1>15 DEF DeleteUser, Working
  <2>2. account' \in [Users -> Emails \cup {None}] /\ roles' \in [Users -> SUBSET Roles]
    BY <1>15, <2>1 DEF DeleteUser, TypeOK
  <2>3. deleted' \in SUBSET Emails
    BY <1>15, <2>1 DEF DeleteUser, Exists, TypeOK
  <2> QED
    BY <1>15, <2>2, <2>3 DEF DeleteUser, Return, PC, TypeOK
<1>16. ASSUME NEW w \in Workers, Cancel(w)
      PROVE  TypeOK'
    BY <1>16 DEF Cancel, Return, PC, TypeOK, Working
<1>17. ASSUME NEW w \in Workers, RoleRefused(w)
      PROVE  TypeOK'
  <2>1. /\ ctx[w].todo \in SUBSET Rows /\ ctx[w].row \in Rows \cup {None}
        /\ ctx[w].user \in Users \cup {None} /\ ctx[w].role \in Roles \cup {None}
        /\ ctx[w].held \in SUBSET Roles
    BY LocalFields DEF TypeOK
  <2>2. roles' \in [Users -> SUBSET Roles]
    <3>1. ctx[w].user \in Users /\ ctx[w].role \in Roles
      BY <1>17 DEF RoleRefused, RoleCommitted, Working
    <3> QED
      BY <1>17, <2>1, <3>1 DEF RoleRefused, RoleCommitted, TypeOK
  <2>3. \A v \in Workers : [ctx[v] EXCEPT !.held = @ \ ctx[w].held] \in Local
    <3>1. \A v \in Workers : ctx[v] \in Local /\ ctx[v].held \ ctx[w].held \in SUBSET Roles
      BY LocalFields DEF TypeOK
    <3> QED
      BY <3>1 DEF Local
  <2> pc' \in [Workers -> PC]
    BY <1>17 DEF RoleRefused, RoleCommitted, Goto, PC, TypeOK
  <2>4. ctx' \in [Workers -> Local]
    <3>1. ctx \in [Workers -> Local]
      BY DEF TypeOK
    <3> QED
      BY <1>17, <2>3, <3>1 DEF RoleRefused, RoleCommitted
  <2> QED
    BY <1>17, <2>2, <2>4 DEF RoleRefused, RoleCommitted, TypeOK
<1> QED
    BY <1>1, <1>2, <1>3, <1>4, <1>5, <1>6, <1>7, <1>8, <1>9, <1>10, <1>11, <1>12, <1>13,
       <1>14, <1>15, <1>16, <1>17 DEF Next, Step, HandleInviteUser

\* A role change that ends leaves other requests where they are, and what they
\* work on except for the rows of user_roles they wait for.
LEMMA RoleInsertLocals ==
    ASSUME TypeOK, NEW w \in Workers, RoleInsert(w) \/ RoleRefused(w),
           NEW v \in Workers, v # w
    PROVE  /\ pc'[v] = pc[v]
           /\ ctx'[v].todo = ctx[v].todo /\ ctx'[v].row = ctx[v].row
           /\ ctx'[v].user = ctx[v].user /\ ctx'[v].emp = ctx[v].emp
           /\ ctx'[v].role = ctx[v].role
<1>1. pc'[v] = pc[v]
    BY DEF RoleInsert, RoleRefused, Goto, TypeOK
<1>2. ctx[v] \in Local
    BY DEF TypeOK
<1>3. ctx'[v] = ctx[v] \/ ctx'[v] = [ctx[v] EXCEPT !.held = @ \ ctx[w].held]
    BY DEF RoleInsert, RoleRefused, RoleCommitted, TypeOK
<1> QED
    BY <1>1, <1>2, <1>3 DEF Local

\* Every request knows what it works on.
LEMMA WorkingStep ==
    ASSUME TypeOK, Working, [Next]_vars
    PROVE  Working'
<1> USE AccountsAssumption, LocalFields DEF people, import, ForRow, ForUser, NoLocal
<1>1. CASE UNCHANGED vars
    BY <1>1 DEF vars, TypeOK, Working
<1>2. ASSUME NEW valid \in SUBSET Rows, NEW lower \in BOOLEAN, NEW u \in Users, 
             HandleUpload(valid, lower, u)
      PROVE  Working'
    BY <1>2 DEF HandleUpload, TypeOK, Working
<1>3. ASSUME NEW w \in Workers, ProcessRead(w)
      PROVE  Working'
    BY <1>3 DEF ProcessRead, Valid, Goto, TypeOK, Working
<1>4. ASSUME NEW w \in Workers, RowUser(w)
      PROVE  Working'
    BY <1>4 DEF RowUser, InsertUser, Return, Goto, TypeOK, Working
<1>5. ASSUME NEW w \in Workers, RowEmployee(w)
      PROVE  Working'
    BY <1>5 DEF RowEmployee, Goto, Exists, TypeOK, Working
<1>6. ASSUME NEW w \in Workers, RowMark(w)
      PROVE  Working'
    BY <1>6 DEF RowMark, NextRow, TypeOK, Working
<1>7. ASSUME NEW w \in Workers, RowFail(w)
      PROVE  Working'
    BY <1>7 DEF RowFail, NextRow, TypeOK, Working
<1>8. ASSUME NEW w \in Workers, ProcessFinish(w)
      PROVE  Working'
    BY <1>8 DEF ProcessFinish, Return, TypeOK, Working
<1>9. ASSUME NEW e \in Employees, HandleCreateEmployee(e)
      PROVE  Working'
    BY <1>9 DEF HandleCreateEmployee, TypeOK, Working
<1>10. ASSUME NEW u \in Users, NEW m \in Emails, NEW r \in Roles,
              NEW e \in Employees \cup {None}, createUserTx(u, m, r, e)
      PROVE  Working'
    BY <1>10 DEF createUserTx, InsertUser, TypeOK, Working
<1>11. ASSUME NEW w \in Workers, NEW u \in Users, NEW r \in Roles, UpdateRole(w, u, r)
      PROVE  Working'
    BY <1>11 DEF UpdateRole, Goto, TypeOK, Working
<1>12. ASSUME NEW w \in Workers, RoleLock(w)
      PROVE  Working'
    BY <1>12 DEF RoleLock, Goto, TypeOK, Working
<1>13. ASSUME NEW w \in Workers, RoleInsert(w)
      PROVE  Working'
  <2>1. pc'[w] = "idle"
    BY <1>13 DEF RoleInsert, RoleCommitted, Goto, TypeOK
  <2> QED
    BY <1>13, <2>1, RoleInsertLocals DEF Working
<1>14. ASSUME NEW w \in Workers, NEW u \in Users, DeleteUnlink(w, u)
      PROVE  Working'
    BY <1>14 DEF DeleteUnlink, Goto, TypeOK, Working
<1>15. ASSUME NEW w \in Workers, DeleteUser(w)
      PROVE  Working'
    BY <1>15 DEF DeleteUser, Exists, Return, TypeOK, Working
<1>16. ASSUME NEW w \in Workers, Cancel(w)
      PROVE  Working'
    BY <1>16 DEF Cancel, Return, TypeOK, Working
<1>17. ASSUME NEW w \in Workers, RoleRefused(w)
      PROVE  Working'
  <2>1. pc'[w] = "idle"
    BY <1>17 DEF RoleRefused, RoleCommitted, Goto, TypeOK
  <2> QED
    BY <1>17, <2>1, RoleInsertLocals DEF Working
<1> QED
    BY <1>1, <1>2, <1>3, <1>4, <1>5, <1>6, <1>7, <1>8, <1>9, <1>10, <1>11, <1>12, <1>13,
       <1>14, <1>15, <1>16, <1>17 DEF Next, Step, HandleInviteUser

\* No step leaves an account without a role that is not recorded as roleless.
LEMMA RoleStep ==
    ASSUME TypeOK, Working, NeverWithoutRole, [Next]_vars
    PROVE  NeverWithoutRole'
<1> USE AccountsAssumption DEF people, import
<1>1. CASE UNCHANGED vars
    BY <1>1 DEF vars, TypeOK, Working, NeverWithoutRole, Exists
<1>2. ASSUME NEW valid \in SUBSET Rows, NEW lower \in BOOLEAN, NEW u \in Users, 
             HandleUpload(valid, lower, u)
      PROVE  NeverWithoutRole'
    BY <1>2 DEF HandleUpload, TypeOK, Working, NeverWithoutRole, Exists
<1>3. ASSUME NEW w \in Workers, ProcessRead(w)
      PROVE  NeverWithoutRole'
    BY <1>3 DEF ProcessRead, Valid, Goto, TypeOK, Working, NeverWithoutRole, Exists
<1>4. ASSUME NEW w \in Workers, RowUser(w)
      PROVE  NeverWithoutRole'
    BY <1>4 DEF RowUser, InsertUser, Return, Goto, TypeOK, Working, NeverWithoutRole, Exists
<1>5. ASSUME NEW w \in Workers, RowEmployee(w)
      PROVE  NeverWithoutRole'
    BY <1>5 DEF RowEmployee, Goto, TypeOK, Working, NeverWithoutRole, Exists
<1>6. ASSUME NEW w \in Workers, RowMark(w)
      PROVE  NeverWithoutRole'
    BY <1>6 DEF RowMark, NextRow, TypeOK, Working, NeverWithoutRole, Exists
<1>7. ASSUME NEW w \in Workers, RowFail(w)
      PROVE  NeverWithoutRole'
    BY <1>7 DEF RowFail, NextRow, TypeOK, Working, NeverWithoutRole, Exists
<1>8. ASSUME NEW w \in Workers, ProcessFinish(w)
      PROVE  NeverWithoutRole'
    BY <1>8 DEF ProcessFinish, Return, TypeOK, Working, NeverWithoutRole, Exists
<1>9. ASSUME NEW e \in Employees, HandleCreateEmployee(e)
      PROVE  NeverWithoutRole'
    BY <1>9 DEF HandleCreateEmployee, TypeOK, Working, NeverWithoutRole, Exists
<1>10. ASSUME NEW u \in Users, NEW m \in Emails, NEW r \in Roles,
              NEW e \in Employees \cup {None}, createUserTx(u, m, r, e)
      PROVE  NeverWithoutRole'
  <2>1. \A x \in Users \ {u} : account'[x] = account[x] /\ roles'[x] = roles[x]
    BY <1>10 DEF createUserTx, InsertUser, TypeOK
  <2>2. \/ roles'[u] = {r} /\ roleless' = roleless
        \/ roleless' = roleless \cup {u}
    BY <1>10 DEF createUserTx, TypeOK
  <2>3. CASE roles'[u] = {r} /\ roleless' = roleless
    BY <2>1, <2>3 DEF NeverWithoutRole, Exists
  <2>4. CASE roleless' = roleless \cup {u}
    BY <2>1, <2>4 DEF NeverWithoutRole, Exists
  <2> QED
    BY <2>2, <2>3, <2>4
<1>11. ASSUME NEW w \in Workers, NEW u \in Users, NEW r \in Roles, UpdateRole(w, u, r)
      PROVE  NeverWithoutRole'
    BY <1>11 DEF UpdateRole, Goto, TypeOK, Working, NeverWithoutRole, Exists
<1>12. ASSUME NEW w \in Workers, RoleLock(w)
      PROVE  NeverWithoutRole'
    BY <1>12 DEF RoleLock, Goto, TypeOK, Working, NeverWithoutRole, Exists
<1>13. ASSUME NEW w \in Workers, RoleInsert(w)
      PROVE  NeverWithoutRole'
    BY <1>13 DEF RoleInsert, RoleCommitted, Goto, TypeOK, Working, NeverWithoutRole, Exists
<1>14. ASSUME NEW w \in Workers, NEW u \in Users, DeleteUnlink(w, u)
      PROVE  NeverWithoutRole'
    BY <1>14 DEF DeleteUnlink, Goto, TypeOK, Working, NeverWithoutRole, Exists
<1>15. ASSUME NEW w \in Workers, DeleteUser(w)
      PROVE  NeverWithoutRole'
    BY <1>15 DEF DeleteUser, Return, TypeOK, Working, NeverWithoutRole, Exists
<1>16. ASSUME NEW w \in Workers, Cancel(w)
      PROVE  NeverWithoutRole'
    BY <1>16 DEF Cancel, Return, TypeOK, Working, NeverWithoutRole, Exists
<1>17. ASSUME NEW w \in Workers, RoleRefused(w)
      PROVE  NeverWithoutRole'
    BY <1>17 DEF RoleRefused, RoleCommitted, Goto, TypeOK, Working, NeverWithoutRole, Exists
<1> QED
    BY <1>1, <1>2, <1>3, <1>4, <1>5, <1>6, <1>7, <1>8, <1>9, <1>10, <1>11, <1>12, <1>13,
       <1>14, <1>15, <1>16, <1>17 DEF Next, Step, HandleInviteUser

\* INSERT INTO users keeps e-mails unique.
LEMMA InsertUserUnique ==
    ASSUME TypeOK, UniqueEmails, NEW u \in Users, NEW m \in Emails, InsertUser(u, m)
    PROVE  UniqueEmails'
BY AccountsAssumption DEF TypeOK, UniqueEmails, InsertUser, Exists, Free

\* No step gives an e-mail to two accounts.
LEMMA EmailStep ==
    ASSUME TypeOK, Working, UniqueEmails, [Next]_vars
    PROVE  UniqueEmails'
<1> USE AccountsAssumption DEF people, import
<1>1. CASE UNCHANGED vars
    BY <1>1 DEF vars, TypeOK, Working, UniqueEmails, Exists
<1>2. ASSUME NEW valid \in SUBSET Rows, NEW lower \in BOOLEAN, NEW u \in Users, 
             HandleUpload(valid, lower, u)
      PROVE  UniqueEmails'
    BY <1>2 DEF HandleUpload, TypeOK, Working, UniqueEmails, Exists
<1>3. ASSUME NEW w \in Workers, ProcessRead(w)
      PROVE  UniqueEmails'
    BY <1>3 DEF ProcessRead, Valid, Goto, TypeOK, Working, UniqueEmails, Exists
<1>4. ASSUME NEW w \in Workers, RowUser(w)
      PROVE  UniqueEmails'
  <2>1. \A r \in ctx[w].todo : EmailOf[r] \in Emails
    BY LocalFields DEF TypeOK
  <2>2. \/ UNCHANGED <<account, used>>
        \/ \E r \in ctx[w].todo, u \in Users :
             InsertUser(u, EmailOf[r])
    BY <1>4 DEF RowUser
  <2>3. CASE UNCHANGED <<account, used>>
    BY <2>3 DEF UniqueEmails, Exists
  <2> QED
    BY <2>1, <2>2, <2>3, InsertUserUnique
<1>5. ASSUME NEW w \in Workers, RowEmployee(w)
      PROVE  UniqueEmails'
    BY <1>5 DEF RowEmployee, Goto, TypeOK, Working, UniqueEmails, Exists
<1>6. ASSUME NEW w \in Workers, RowMark(w)
      PROVE  UniqueEmails'
    BY <1>6 DEF RowMark, NextRow, TypeOK, Working, UniqueEmails, Exists
<1>7. ASSUME NEW w \in Workers, RowFail(w)
      PROVE  UniqueEmails'
    BY <1>7 DEF RowFail, NextRow, TypeOK, Working, UniqueEmails, Exists
<1>8. ASSUME NEW w \in Workers, ProcessFinish(w)
      PROVE  UniqueEmails'
    BY <1>8 DEF ProcessFinish, Return, TypeOK, Working, UniqueEmails, Exists
<1>9. ASSUME NEW e \in Employees, HandleCreateEmployee(e)
      PROVE  UniqueEmails'
    BY <1>9 DEF HandleCreateEmployee, TypeOK, Working, UniqueEmails, Exists
<1>10. ASSUME NEW u \in Users, NEW m \in Emails, NEW r \in Roles,
              NEW e \in Employees \cup {None}, createUserTx(u, m, r, e)
      PROVE  UniqueEmails'
    BY <1>10, InsertUserUnique DEF createUserTx
<1>11. ASSUME NEW w \in Workers, NEW u \in Users, NEW r \in Roles, UpdateRole(w, u, r)
      PROVE  UniqueEmails'
    BY <1>11 DEF UpdateRole, Goto, TypeOK, Working, UniqueEmails, Exists
<1>12. ASSUME NEW w \in Workers, RoleLock(w)
      PROVE  UniqueEmails'
    BY <1>12 DEF RoleLock, Goto, TypeOK, Working, UniqueEmails, Exists
<1>13. ASSUME NEW w \in Workers, RoleInsert(w)
      PROVE  UniqueEmails'
    BY <1>13 DEF RoleInsert, RoleCommitted, Goto, TypeOK, Working, UniqueEmails, Exists
<1>14. ASSUME NEW w \in Workers, NEW u \in Users, DeleteUnlink(w, u)
      PROVE  UniqueEmails'
    BY <1>14 DEF DeleteUnlink, Goto, TypeOK, Working, UniqueEmails, Exists
<1>15. ASSUME NEW w \in Workers, DeleteUser(w)
      PROVE  UniqueEmails'
    BY <1>15 DEF DeleteUser, Return, TypeOK, Working, UniqueEmails, Exists
<1>16. ASSUME NEW w \in Workers, Cancel(w)
      PROVE  UniqueEmails'
    BY <1>16 DEF Cancel, Return, TypeOK, Working, UniqueEmails, Exists
<1>17. ASSUME NEW w \in Workers, RoleRefused(w)
      PROVE  UniqueEmails'
    BY <1>17 DEF RoleRefused, RoleCommitted, Goto, TypeOK, Working, UniqueEmails, Exists
<1> QED
    BY <1>1, <1>2, <1>3, <1>4, <1>5, <1>6, <1>7, <1>8, <1>9, <1>10, <1>11, <1>12, <1>13,
       <1>14, <1>15, <1>16, <1>17 DEF Next, Step, HandleInviteUser

\* A user created for a row stays so.
LEMMA CreatedForStep ==
    ASSUME TypeOK, Working, [Next]_vars
    PROVE  \A x \in Users, y \in Rows : CreatedFor(x, y) => CreatedFor(x, y)'
<1> USE AccountsAssumption DEF people, import
<1>1. CASE UNCHANGED vars
    BY <1>1 DEF vars, TypeOK, Working, CreatedFor
<1>2. ASSUME NEW valid \in SUBSET Rows, NEW lower \in BOOLEAN, NEW u \in Users, 
             HandleUpload(valid, lower, u)
      PROVE  \A x \in Users, y \in Rows : CreatedFor(x, y) => CreatedFor(x, y)'
    BY <1>2 DEF HandleUpload, TypeOK, Working, CreatedFor
<1>3. ASSUME NEW w \in Workers, ProcessRead(w)
      PROVE  \A x \in Users, y \in Rows : CreatedFor(x, y) => CreatedFor(x, y)'
    BY <1>3 DEF ProcessRead, Valid, Goto, TypeOK, Working, CreatedFor
<1>4. ASSUME NEW w \in Workers, RowUser(w)
      PROVE  \A x \in Users, y \in Rows : CreatedFor(x, y) => CreatedFor(x, y)'
    BY <1>4 DEF RowUser, InsertUser, Return, Goto, TypeOK, Working, CreatedFor
<1>5. ASSUME NEW w \in Workers, RowEmployee(w)
      PROVE  \A x \in Users, y \in Rows : CreatedFor(x, y) => CreatedFor(x, y)'
    BY <1>5 DEF RowEmployee, Goto, Exists, TypeOK, Working, CreatedFor
<1>6. ASSUME NEW w \in Workers, RowMark(w)
      PROVE  \A x \in Users, y \in Rows : CreatedFor(x, y) => CreatedFor(x, y)'
    BY <1>6 DEF RowMark, NextRow, TypeOK, Working, CreatedFor
<1>7. ASSUME NEW w \in Workers, RowFail(w)
      PROVE  \A x \in Users, y \in Rows : CreatedFor(x, y) => CreatedFor(x, y)'
    BY <1>7 DEF RowFail, NextRow, TypeOK, Working, CreatedFor
<1>8. ASSUME NEW w \in Workers, ProcessFinish(w)
      PROVE  \A x \in Users, y \in Rows : CreatedFor(x, y) => CreatedFor(x, y)'
    BY <1>8 DEF ProcessFinish, Return, TypeOK, Working, CreatedFor
<1>9. ASSUME NEW e \in Employees, HandleCreateEmployee(e)
      PROVE  \A x \in Users, y \in Rows : CreatedFor(x, y) => CreatedFor(x, y)'
    BY <1>9 DEF HandleCreateEmployee, TypeOK, Working, CreatedFor
<1>10. ASSUME NEW u \in Users, NEW m \in Emails, NEW r \in Roles,
              NEW e \in Employees \cup {None}, createUserTx(u, m, r, e)
      PROVE  \A x \in Users, y \in Rows : CreatedFor(x, y) => CreatedFor(x, y)'
    BY <1>10 DEF createUserTx, InsertUser, TypeOK, Working, CreatedFor
<1>11. ASSUME NEW w \in Workers, NEW u \in Users, NEW r \in Roles, UpdateRole(w, u, r)
      PROVE  \A x \in Users, y \in Rows : CreatedFor(x, y) => CreatedFor(x, y)'
    BY <1>11 DEF UpdateRole, Goto, TypeOK, Working, CreatedFor
<1>12. ASSUME NEW w \in Workers, RoleLock(w)
      PROVE  \A x \in Users, y \in Rows : CreatedFor(x, y) => CreatedFor(x, y)'
    BY <1>12 DEF RoleLock, Goto, TypeOK, Working, CreatedFor
<1>13. ASSUME NEW w \in Workers, RoleInsert(w)
      PROVE  \A x \in Users, y \in Rows : CreatedFor(x, y) => CreatedFor(x, y)'
    BY <1>13 DEF RoleInsert, RoleCommitted, Goto, TypeOK, Working, CreatedFor
<1>14. ASSUME NEW w \in Workers, NEW u \in Users, DeleteUnlink(w, u)
      PROVE  \A x \in Users, y \in Rows : CreatedFor(x, y) => CreatedFor(x, y)'
    BY <1>14 DEF DeleteUnlink, Goto, TypeOK, Working, CreatedFor
<1>15. ASSUME NEW w \in Workers, DeleteUser(w)
      PROVE  \A x \in Users, y \in Rows : CreatedFor(x, y) => CreatedFor(x, y)'
    BY <1>15 DEF DeleteUser, Exists, Return, TypeOK, Working, CreatedFor
<1>16. ASSUME NEW w \in Workers, Cancel(w)
      PROVE  \A x \in Users, y \in Rows : CreatedFor(x, y) => CreatedFor(x, y)'
    BY <1>16 DEF Cancel, Return, TypeOK, Working, CreatedFor
<1>17. ASSUME NEW w \in Workers, RoleRefused(w)
      PROVE  \A x \in Users, y \in Rows : CreatedFor(x, y) => CreatedFor(x, y)'
    BY <1>17 DEF RoleRefused, RoleCommitted, Goto, TypeOK, Working, CreatedFor
<1> QED
    BY <1>1, <1>2, <1>3, <1>4, <1>5, <1>6, <1>7, <1>8, <1>9, <1>10, <1>11, <1>12, <1>13,
       <1>14, <1>15, <1>16, <1>17 DEF Next, Step, HandleInviteUser

\* Only RowEmployee records where an employee comes from.
LEMMA SourceChanges ==
    ASSUME [Next]_vars
    PROVE  \/ UNCHANGED source
           \/ \E w \in Workers, e \in Employees \ emps :
                /\ pc[w] = "employee"
                /\ source' = [source EXCEPT ![e] =
                     [row |-> ctx[w].row, user |-> ctx[w].user]]
BY DEF Next, Step, vars, people, HandleUpload, ProcessRead, RowUser, RowEmployee, RowMark,
       RowFail, ProcessFinish, HandleCreateEmployee, createUserTx,
       HandleInviteUser, UpdateRole, RoleLock,
       RoleInsert, RoleRefused, DeleteUnlink, DeleteUser, Cancel

\* No step imports two employees with the same user.
LEMMA SourcesStep ==
    ASSUME TypeOK, Working, Sources, Claims, [Next]_vars
    PROVE  Sources'
<1> USE AccountsAssumption
<1> DEFINE Later(x, y) == x \in used' /\ y \in Rows
                          /\ (account'[x] = EmailOf[y] \/ EmailOf[y] \in deleted')
<1>1. \A x \in Users, y \in Rows : CreatedFor(x, y) => Later(x, y)
    BY CreatedForStep DEF CreatedFor
<1> HIDE DEF Later
<1>2. \A e \in Employees : source[e].row # None =>
        /\ source[e].row \in Rows /\ source[e].user \in Users
        /\ Later(source[e].user, source[e].row)
    <2>1. \A e \in Employees : source[e].row # None =>
            source[e].row \in Rows /\ source[e].user \in Users
        BY DEF Sources, CreatedFor, TypeOK
    <2> QED
        BY <1>1, <2>1 DEF Sources
<1>3. CASE UNCHANGED source
    BY <1>2, <1>3 DEF Sources, CreatedFor, Later
<1>4. ASSUME NEW w \in Workers, NEW e \in Employees \ emps, pc[w] = "employee",
             source' = [source EXCEPT ![e] = [row |-> ctx[w].row, user |-> ctx[w].user]]
      PROVE  Sources'
    <2>1. /\ ctx[w].row \in Rows /\ ctx[w].user \in Users
          /\ \A f \in Employees : source[f].user # ctx[w].user
        BY <1>4 DEF Working, Claims
    <2>2. Later(ctx[w].user, ctx[w].row)
        BY <1>1, <1>4, <2>1 DEF Claims
    <2>3. /\ source'[e].row = ctx[w].row /\ source'[e].user = ctx[w].user
          /\ \A f \in Employees \ {e} : source'[f] = source[f]
        BY <1>4 DEF TypeOK
    <2>4. \A f \in Employees : source'[f].row # None => Later(source'[f].user, source'[f].row)
        BY <1>2, <2>2, <2>3
    <2>5. \A f \in Employees : source'[f].row = None => source'[f].user = None
        BY <2>1, <2>3 DEF Sources
    <2>6. \A f, g \in Employees :
            source'[f].user # None /\ source'[f].user = source'[g].user => f = g
        BY <2>1, <2>3 DEF Sources
    <2> QED
        BY <2>4, <2>5, <2>6 DEF Sources, CreatedFor, Later
<1> QED
    BY <1>3, <1>4, SourceChanges

\* No step lets two requests create an employee for the same user.
LEMMA ClaimsStep ==
    ASSUME TypeOK, Working, UniqueEmails, Sources, Claims,
           \A x \in Users, y \in Rows : CreatedFor(x, y) => CreatedFor(x, y)', [Next]_vars
    PROVE  Claims'
<1> USE AccountsAssumption DEF people, import, ForRow, ForUser, NoLocal
<1>1. CASE UNCHANGED vars
    BY <1>1 DEF vars, TypeOK, Working, Claims
<1>2. ASSUME NEW valid \in SUBSET Rows, NEW lower \in BOOLEAN, NEW u \in Users, 
             HandleUpload(valid, lower, u)
      PROVE  Claims'
    BY <1>2 DEF HandleUpload, TypeOK, Working, Claims
<1>3. ASSUME NEW w \in Workers, ProcessRead(w)
      PROVE  Claims'
    BY <1>3 DEF ProcessRead, Valid, Goto, TypeOK, Working, Claims
<1>4. ASSUME NEW w \in Workers, RowUser(w)
      PROVE  Claims'
  <2>1. ASSUME NEW r \in ctx[w].todo, NEW u \in Users,
               InsertUser(u, EmailOf[r]), UNCHANGED source,
               ctx' = [ctx EXCEPT ![w] = ForRow(ctx[w].todo \ {r}, r, u, None)],
               Goto(w, "employee") \/ Goto(w, "fail")
        PROVE  Claims'
    <3>1. r \in Rows /\ u \notin used
        BY <2>1, LocalFields DEF TypeOK, InsertUser
    <3> DEFINE Later(x, y) == x \in used' /\ y \in Rows
                              /\ (account'[x] = EmailOf[y] \/ EmailOf[y] \in deleted')
    <3>2. Later(u, r)
        BY <2>1, <3>1 DEF InsertUser, TypeOK
    <3>3. /\ \A e \in Employees : source[e].user # u
          /\ \A v \in Workers : pc[v] = "employee" => ctx[v].user # u
        BY <3>1 DEF Sources, Claims, CreatedFor
    <3>4. /\ ctx'[w].row = r /\ ctx'[w].user = u
          /\ \A v \in Workers \ {w} : ctx'[v] = ctx[v] /\ pc'[v] = pc[v]
        BY <2>1 DEF Goto, TypeOK
    <3>5. \A x \in Users, y \in Rows : CreatedFor(x, y) => Later(x, y)
        BY DEF CreatedFor
    <3> HIDE DEF Later
    <3>6. \A v \in Workers : pc[v] = "employee" => Later(ctx[v].user, ctx[v].row)
        BY <3>5 DEF Claims, Working
    <3>7. \A v \in Workers : pc'[v] = "employee" => Later(ctx'[v].user, ctx'[v].row)
        BY <3>2, <3>4, <3>6
    <3>8. \A v \in Workers, e \in Employees :
            pc'[v] = "employee" => source'[e].user # ctx'[v].user
        BY <2>1, <3>3, <3>4 DEF Claims
    <3>9. \A v, x \in Workers : v # x /\ pc'[v] = "employee" /\ pc'[x] = "employee" =>
            ctx'[v].user # ctx'[x].user
        BY <3>3, <3>4 DEF Claims
    <3> QED
        BY <3>7, <3>8, <3>9 DEF Claims, CreatedFor, Later
  <2>2. CASE UNCHANGED <<people>> /\ pc'[w] # "employee"
             /\ \A v \in Workers \ {w} : ctx'[v] = ctx[v] /\ pc'[v] = pc[v]
    BY <2>2 DEF Claims, CreatedFor
  <2> QED
    BY <1>4, <2>1, <2>2 DEF RowUser, Return, Goto, TypeOK
<1>5. ASSUME NEW w \in Workers, RowEmployee(w)
      PROVE  Claims'
  <2>1. /\ pc'[w] # "employee"
        /\ \A v \in Workers \ {w} : ctx'[v] = ctx[v] /\ pc'[v] = pc[v]
    BY <1>5 DEF RowEmployee, Goto, TypeOK
  <2>2. \A e \in Employees : source'[e] = source[e] \/ source'[e].user = ctx[w].user
    BY <1>5 DEF RowEmployee, TypeOK
  <2>3. pc[w] = "employee" /\ UNCHANGED <<account, used, deleted>>
    BY <1>5 DEF RowEmployee
  <2> QED
    BY <2>1, <2>2, <2>3 DEF Claims, CreatedFor
<1>6. ASSUME NEW w \in Workers, RowMark(w)
      PROVE  Claims'
    BY <1>6 DEF RowMark, NextRow, TypeOK, Working, Claims
<1>7. ASSUME NEW w \in Workers, RowFail(w)
      PROVE  Claims'
    BY <1>7 DEF RowFail, NextRow, TypeOK, Working, Claims
<1>8. ASSUME NEW w \in Workers, ProcessFinish(w)
      PROVE  Claims'
    BY <1>8 DEF ProcessFinish, Return, TypeOK, Working, Claims
<1>9. ASSUME NEW e \in Employees, HandleCreateEmployee(e)
      PROVE  Claims'
    BY <1>9 DEF HandleCreateEmployee, TypeOK, Working, Claims
<1>10. ASSUME NEW u \in Users, NEW m \in Emails, NEW r \in Roles,
              NEW e \in Employees \cup {None}, createUserTx(u, m, r, e)
      PROVE  Claims'
    BY <1>10 DEF createUserTx, InsertUser, TypeOK, Working, Claims
<1>11. ASSUME NEW w \in Workers, NEW u \in Users, NEW r \in Roles, UpdateRole(w, u, r)
      PROVE  Claims'
    BY <1>11 DEF UpdateRole, Goto, TypeOK, Working, Claims
<1>12. ASSUME NEW w \in Workers, RoleLock(w)
      PROVE  Claims'
    BY <1>12 DEF RoleLock, Goto, TypeOK, Working, Claims
<1>13. ASSUME NEW w \in Workers, RoleInsert(w)
      PROVE  Claims'
    BY <1>13 DEF RoleInsert, RoleCommitted, Goto, TypeOK, Working, Claims
<1>14. ASSUME NEW w \in Workers, NEW u \in Users, DeleteUnlink(w, u)
      PROVE  Claims'
    BY <1>14 DEF DeleteUnlink, Goto, TypeOK, Working, Claims
<1>15. ASSUME NEW w \in Workers, DeleteUser(w)
      PROVE  Claims'
    BY <1>15 DEF DeleteUser, Exists, Return, TypeOK, Working, Claims
<1>16. ASSUME NEW w \in Workers, Cancel(w)
      PROVE  Claims'
    BY <1>16 DEF Cancel, Return, TypeOK, Working, Claims
<1>17. ASSUME NEW w \in Workers, RoleRefused(w)
      PROVE  Claims'
    BY <1>17 DEF RoleRefused, RoleCommitted, Goto, TypeOK, Working, Claims
<1> QED
    BY <1>1, <1>2, <1>3, <1>4, <1>5, <1>6, <1>7, <1>8, <1>9, <1>10, <1>11, <1>12, <1>13,
       <1>14, <1>15, <1>16, <1>17 DEF Next, Step, HandleInviteUser

\* An employee stays, with where it came from.
LEMMA EmployeesStay ==
    ASSUME TypeOK, [Next]_vars
    PROVE  emps \subseteq emps' /\ \A e \in emps : source'[e] = source[e]
<1>1. emps \subseteq emps'
    BY DEF Next, Step, vars, people, HandleUpload, ProcessRead, RowUser, RowEmployee, RowMark,
           RowFail, ProcessFinish, HandleCreateEmployee, createUserTx,
           HandleInviteUser, UpdateRole, RoleLock,
           RoleInsert, RoleRefused, DeleteUnlink, DeleteUser, Cancel
<1> QED
    BY <1>1, SourceChanges DEF TypeOK

\* A request that goes on to mark its row has created the row's employee.
LEMMA MarkingStep ==
    ASSUME TypeOK, Working, Marking, [Next]_vars
    PROVE  Marking'
<1> USE AccountsAssumption, EmployeesStay DEF people, import, ForRow, ForUser, NoLocal
<1>1. CASE UNCHANGED vars
    BY <1>1 DEF vars, TypeOK, Working, Marking
<1>2. ASSUME NEW valid \in SUBSET Rows, NEW lower \in BOOLEAN, NEW u \in Users, 
             HandleUpload(valid, lower, u)
      PROVE  Marking'
    BY <1>2 DEF HandleUpload, TypeOK, Working, Marking
<1>3. ASSUME NEW w \in Workers, ProcessRead(w)
      PROVE  Marking'
    BY <1>3 DEF ProcessRead, Valid, Goto, TypeOK, Working, Marking
<1>4. ASSUME NEW w \in Workers, RowUser(w)
      PROVE  Marking'
    BY <1>4 DEF RowUser, InsertUser, Return, Goto, TypeOK, Working, Marking
<1>5. ASSUME NEW w \in Workers, RowEmployee(w)
      PROVE  Marking'
    BY <1>5 DEF RowEmployee, Goto, Exists, TypeOK, Working, Marking
<1>6. ASSUME NEW w \in Workers, RowMark(w)
      PROVE  Marking'
    BY <1>6 DEF RowMark, NextRow, TypeOK, Working, Marking
<1>7. ASSUME NEW w \in Workers, RowFail(w)
      PROVE  Marking'
    BY <1>7 DEF RowFail, NextRow, TypeOK, Working, Marking
<1>8. ASSUME NEW w \in Workers, ProcessFinish(w)
      PROVE  Marking'
    BY <1>8 DEF ProcessFinish, Return, TypeOK, Working, Marking
<1>9. ASSUME NEW e \in Employees, HandleCreateEmployee(e)
      PROVE  Marking'
    BY <1>9 DEF HandleCreateEmployee, TypeOK, Working, Marking
<1>10. ASSUME NEW u \in Users, NEW m \in Emails, NEW r \in Roles,
              NEW e \in Employees \cup {None}, createUserTx(u, m, r, e)
      PROVE  Marking'
    BY <1>10 DEF createUserTx, InsertUser, TypeOK, Working, Marking
<1>11. ASSUME NEW w \in Workers, NEW u \in Users, NEW r \in Roles, UpdateRole(w, u, r)
      PROVE  Marking'
    BY <1>11 DEF UpdateRole, Goto, TypeOK, Working, Marking
<1>12. ASSUME NEW w \in Workers, RoleLock(w)
      PROVE  Marking'
    BY <1>12 DEF RoleLock, Goto, TypeOK, Working, Marking
<1>13. ASSUME NEW w \in Workers, RoleInsert(w)
      PROVE  Marking'
    BY <1>13 DEF RoleInsert, RoleCommitted, Goto, TypeOK, Working, Marking
<1>14. ASSUME NEW w \in Workers, NEW u \in Users, DeleteUnlink(w, u)
      PROVE  Marking'
    BY <1>14 DEF DeleteUnlink, Goto, TypeOK, Working, Marking
<1>15. ASSUME NEW w \in Workers, DeleteUser(w)
      PROVE  Marking'
    BY <1>15 DEF DeleteUser, Exists, Return, TypeOK, Working, Marking
<1>16. ASSUME NEW w \in Workers, Cancel(w)
      PROVE  Marking'
    BY <1>16 DEF Cancel, Return, TypeOK, Working, Marking
<1>17. ASSUME NEW w \in Workers, RoleRefused(w)
      PROVE  Marking'
    BY <1>17 DEF RoleRefused, RoleCommitted, Goto, TypeOK, Working, Marking
<1> QED
    BY <1>1, <1>2, <1>3, <1>4, <1>5, <1>6, <1>7, <1>8, <1>9, <1>10, <1>11, <1>12, <1>13,
       <1>14, <1>15, <1>16, <1>17 DEF Next, Step, HandleInviteUser

\* A row becomes COMPLETED with the employee imported from it, and keeps it.
LEMMA CompletedStep ==
    ASSUME TypeOK, Working, Marking, CompletedHasEmployee, [Next]_vars
    PROVE  CompletedHasEmployee'
<1> USE AccountsAssumption, EmployeesStay DEF people, import
<1>1. CASE UNCHANGED vars
    BY <1>1 DEF vars, TypeOK, Working, Marking, CompletedHasEmployee
<1>2. ASSUME NEW valid \in SUBSET Rows, NEW lower \in BOOLEAN, NEW u \in Users, 
             HandleUpload(valid, lower, u)
      PROVE  CompletedHasEmployee'
    BY <1>2 DEF HandleUpload, TypeOK, Working, Marking, CompletedHasEmployee
<1>3. ASSUME NEW w \in Workers, ProcessRead(w)
      PROVE  CompletedHasEmployee'
    BY <1>3 DEF ProcessRead, Valid, Goto, TypeOK, Working, Marking, CompletedHasEmployee
<1>4. ASSUME NEW w \in Workers, RowUser(w)
      PROVE  CompletedHasEmployee'
    BY <1>4 DEF RowUser, InsertUser, Return, Goto, TypeOK, Working, Marking, CompletedHasEmployee
<1>5. ASSUME NEW w \in Workers, RowEmployee(w)
      PROVE  CompletedHasEmployee'
    BY <1>5 DEF RowEmployee, Goto, Exists, TypeOK, Working, Marking, CompletedHasEmployee
<1>6. ASSUME NEW w \in Workers, RowMark(w)
      PROVE  CompletedHasEmployee'
  <2>1. \A r \in Rows : rows'[r] = rows[r]
          \/ (r = ctx[w].row /\ rows'[r].emp = ctx[w].emp)
    BY <1>6 DEF RowMark, TypeOK
  <2>2. ctx[w].emp \in emps /\ source[ctx[w].emp].row = ctx[w].row
    BY <1>6 DEF RowMark, Marking
  <2>3. emps' = emps /\ source' = source
    BY <1>6 DEF RowMark
  <2> QED
    BY <2>1, <2>2, <2>3 DEF CompletedHasEmployee
<1>7. ASSUME NEW w \in Workers, RowFail(w)
      PROVE  CompletedHasEmployee'
  <2>1. \A r \in Rows : rows'[r] = rows[r] \/ rows'[r].status = "ERROR"
    BY <1>7 DEF RowFail, TypeOK
  <2>2. emps' = emps /\ source' = source
    BY <1>7 DEF RowFail
  <2> QED
    BY <2>1, <2>2 DEF CompletedHasEmployee
<1>8. ASSUME NEW w \in Workers, ProcessFinish(w)
      PROVE  CompletedHasEmployee'
    BY <1>8 DEF ProcessFinish, Return, TypeOK, Working, Marking, CompletedHasEmployee
<1>9. ASSUME NEW e \in Employees, HandleCreateEmployee(e)
      PROVE  CompletedHasEmployee'
    BY <1>9 DEF HandleCreateEmployee, TypeOK, Working, Marking, CompletedHasEmployee
<1>10. ASSUME NEW u \in Users, NEW m \in Emails, NEW r \in Roles,
              NEW e \in Employees \cup {None}, createUserTx(u, m, r, e)
      PROVE  CompletedHasEmployee'
    BY <1>10 DEF createUserTx, InsertUser, TypeOK, Working, Marking, CompletedHasEmployee
<1>11. ASSUME NEW w \in Workers, NEW u \in Users, NEW r \in Roles, UpdateRole(w, u, r)
      PROVE  CompletedHasEmployee'
    BY <1>11 DEF UpdateRole, Goto, TypeOK, Working, Marking, CompletedHasEmployee
<1>12. ASSUME NEW w \in Workers, RoleLock(w)
      PROVE  CompletedHasEmployee'
    BY <1>12 DEF RoleLock, Goto, TypeOK, Working, Marking, CompletedHasEmployee
<1>13. ASSUME NEW w \in Workers, RoleInsert(w)
      PROVE  CompletedHasEmployee'
    BY <1>13 DEF RoleInsert, RoleCommitted, Goto, TypeOK, Working, Marking, CompletedHasEmployee
<1>14. ASSUME NEW w \in Workers, NEW u \in Users, DeleteUnlink(w, u)
      PROVE  CompletedHasEmployee'
    BY <1>14 DEF DeleteUnlink, Goto, TypeOK, Working, Marking, CompletedHasEmployee
<1>15. ASSUME NEW w \in Workers, DeleteUser(w)
      PROVE  CompletedHasEmployee'
    BY <1>15 DEF DeleteUser, Exists, Return, TypeOK, Working, Marking, CompletedHasEmployee
<1>16. ASSUME NEW w \in Workers, Cancel(w)
      PROVE  CompletedHasEmployee'
    BY <1>16 DEF Cancel, Return, TypeOK, Working, Marking, CompletedHasEmployee
<1>17. ASSUME NEW w \in Workers, RoleRefused(w)
      PROVE  CompletedHasEmployee'
    BY <1>17 DEF RoleRefused, RoleCommitted, Goto, TypeOK, Working, Marking, CompletedHasEmployee
<1> QED
    BY <1>1, <1>2, <1>3, <1>4, <1>5, <1>6, <1>7, <1>8, <1>9, <1>10, <1>11, <1>12, <1>13,
       <1>14, <1>15, <1>16, <1>17 DEF Next, Step, HandleInviteUser

\* No request passes over a row that it has read.
LEMMA AheadStep ==
    ASSUME TypeOK, Working, Ahead, [Next]_vars
    PROVE  Ahead'
<1> USE AccountsAssumption, LocalFields DEF people, import, ForRow, ForUser, NoLocal
<1>1. CASE UNCHANGED vars
    BY <1>1 DEF vars, TypeOK, Working, Ahead
<1>2. ASSUME NEW valid \in SUBSET Rows, NEW lower \in BOOLEAN, NEW u \in Users, 
             HandleUpload(valid, lower, u)
      PROVE  Ahead'
    BY <1>2 DEF HandleUpload, TypeOK, Working, Ahead
<1>3. ASSUME NEW w \in Workers, ProcessRead(w)
      PROVE  Ahead'
    BY <1>3 DEF ProcessRead, Valid, Goto, TypeOK, Working, Ahead
<1>4. ASSUME NEW w \in Workers, RowUser(w)
      PROVE  Ahead'
    BY <1>4 DEF RowUser, InsertUser, Return, Goto, TypeOK, Working, Ahead
<1>5. ASSUME NEW w \in Workers, RowEmployee(w)
      PROVE  Ahead'
    BY <1>5 DEF RowEmployee, Goto, Exists, TypeOK, Working, Ahead
<1>6. ASSUME NEW w \in Workers, RowMark(w)
      PROVE  Ahead'
    BY <1>6 DEF RowMark, NextRow, TypeOK, Working, Ahead
<1>7. ASSUME NEW w \in Workers, RowFail(w)
      PROVE  Ahead'
    BY <1>7 DEF RowFail, NextRow, TypeOK, Working, Ahead
<1>8. ASSUME NEW w \in Workers, ProcessFinish(w)
      PROVE  Ahead'
    BY <1>8 DEF ProcessFinish, Return, TypeOK, Working, Ahead
<1>9. ASSUME NEW e \in Employees, HandleCreateEmployee(e)
      PROVE  Ahead'
    BY <1>9 DEF HandleCreateEmployee, TypeOK, Working, Ahead
<1>10. ASSUME NEW u \in Users, NEW m \in Emails, NEW r \in Roles,
              NEW e \in Employees \cup {None}, createUserTx(u, m, r, e)
      PROVE  Ahead'
    BY <1>10 DEF createUserTx, InsertUser, TypeOK, Working, Ahead
<1>11. ASSUME NEW w \in Workers, NEW u \in Users, NEW r \in Roles, UpdateRole(w, u, r)
      PROVE  Ahead'
    BY <1>11 DEF UpdateRole, Goto, TypeOK, Working, Ahead
<1>12. ASSUME NEW w \in Workers, RoleLock(w)
      PROVE  Ahead'
    BY <1>12 DEF RoleLock, Goto, TypeOK, Working, Ahead
<1>13. ASSUME NEW w \in Workers, RoleInsert(w)
      PROVE  Ahead'
    BY <1>13 DEF RoleInsert, RoleCommitted, Goto, TypeOK, Working, Ahead
<1>14. ASSUME NEW w \in Workers, NEW u \in Users, DeleteUnlink(w, u)
      PROVE  Ahead'
    BY <1>14 DEF DeleteUnlink, Goto, TypeOK, Working, Ahead
<1>15. ASSUME NEW w \in Workers, DeleteUser(w)
      PROVE  Ahead'
    BY <1>15 DEF DeleteUser, Exists, Return, TypeOK, Working, Ahead
<1>16. ASSUME NEW w \in Workers, Cancel(w)
      PROVE  Ahead'
    BY <1>16 DEF Cancel, Return, TypeOK, Working, Ahead
<1>17. ASSUME NEW w \in Workers, RoleRefused(w)
      PROVE  Ahead'
    BY <1>17 DEF RoleRefused, RoleCommitted, Goto, TypeOK, Working, Ahead
<1> QED
    BY <1>1, <1>2, <1>3, <1>4, <1>5, <1>6, <1>7, <1>8, <1>9, <1>10, <1>11, <1>12, <1>13,
       <1>14, <1>15, <1>16, <1>17 DEF Next, Step, HandleInviteUser

\* A batch is COMPLETED only by a request that has no row in front of it.
LEMMA DecidedStep ==
    ASSUME TypeOK, Working, Ahead, BatchDecided, [Next]_vars
    PROVE  BatchDecided'
<1> USE AccountsAssumption DEF people, import
<1>1. CASE UNCHANGED vars
    BY <1>1 DEF vars, TypeOK, Working, Ahead, BatchDecided
<1>2. ASSUME NEW valid \in SUBSET Rows, NEW lower \in BOOLEAN, NEW u \in Users, 
             HandleUpload(valid, lower, u)
      PROVE  BatchDecided'
    BY <1>2 DEF HandleUpload, TypeOK, Working, Ahead, BatchDecided
<1>3. ASSUME NEW w \in Workers, ProcessRead(w)
      PROVE  BatchDecided'
    BY <1>3 DEF ProcessRead, Valid, Goto, TypeOK, Working, Ahead, BatchDecided
<1>4. ASSUME NEW w \in Workers, RowUser(w)
      PROVE  BatchDecided'
    BY <1>4 DEF RowUser, InsertUser, Return, Goto, TypeOK, Working, Ahead, BatchDecided
<1>5. ASSUME NEW w \in Workers, RowEmployee(w)
      PROVE  BatchDecided'
    BY <1>5 DEF RowEmployee, Goto, Exists, TypeOK, Working, Ahead, BatchDecided
<1>6. ASSUME NEW w \in Workers, RowMark(w)
      PROVE  BatchDecided'
    BY <1>6 DEF RowMark, NextRow, TypeOK, Working, Ahead, BatchDecided
<1>7. ASSUME NEW w \in Workers, RowFail(w)
      PROVE  BatchDecided'
    BY <1>7 DEF RowFail, NextRow, TypeOK, Working, Ahead, BatchDecided
<1>8. ASSUME NEW w \in Workers, ProcessFinish(w)
      PROVE  BatchDecided'
    BY <1>8 DEF ProcessFinish, Return, TypeOK, Working, Ahead, BatchDecided
<1>9. ASSUME NEW e \in Employees, HandleCreateEmployee(e)
      PROVE  BatchDecided'
    BY <1>9 DEF HandleCreateEmployee, TypeOK, Working, Ahead, BatchDecided
<1>10. ASSUME NEW u \in Users, NEW m \in Emails, NEW r \in Roles,
              NEW e \in Employees \cup {None}, createUserTx(u, m, r, e)
      PROVE  BatchDecided'
    BY <1>10 DEF createUserTx, InsertUser, TypeOK, Working, Ahead, BatchDecided
<1>11. ASSUME NEW w \in Workers, NEW u \in Users, NEW r \in Roles, UpdateRole(w, u, r)
      PROVE  BatchDecided'
    BY <1>11 DEF UpdateRole, Goto, TypeOK, Working, Ahead, BatchDecided
<1>12. ASSUME NEW w \in Workers, RoleLock(w)
      PROVE  BatchDecided'
    BY <1>12 DEF RoleLock, Goto, TypeOK, Working, Ahead, BatchDecided
<1>13. ASSUME NEW w \in Workers, RoleInsert(w)
      PROVE  BatchDecided'
    BY <1>13 DEF RoleInsert, RoleCommitted, Goto, TypeOK, Working, Ahead, BatchDecided
<1>14. ASSUME NEW w \in Workers, NEW u \in Users, DeleteUnlink(w, u)
      PROVE  BatchDecided'
    BY <1>14 DEF DeleteUnlink, Goto, TypeOK, Working, Ahead, BatchDecided
<1>15. ASSUME NEW w \in Workers, DeleteUser(w)
      PROVE  BatchDecided'
    BY <1>15 DEF DeleteUser, Exists, Return, TypeOK, Working, Ahead, BatchDecided
<1>16. ASSUME NEW w \in Workers, Cancel(w)
      PROVE  BatchDecided'
    BY <1>16 DEF Cancel, Return, TypeOK, Working, Ahead, BatchDecided
<1>17. ASSUME NEW w \in Workers, RoleRefused(w)
      PROVE  BatchDecided'
    BY <1>17 DEF RoleRefused, RoleCommitted, Goto, TypeOK, Working, Ahead, BatchDecided
<1> QED
    BY <1>1, <1>2, <1>3, <1>4, <1>5, <1>6, <1>7, <1>8, <1>9, <1>10, <1>11, <1>12, <1>13,
       <1>14, <1>15, <1>16, <1>17 DEF Next, Step, HandleInviteUser

\* The invariant holds at the start.
LEMMA InitIInv == Init => IInv
<1> SUFFICES ASSUME Init PROVE IInv
    OBVIOUS
<1> USE AccountsAssumption
<1>1. TypeOK
    BY LocalTypes DEF Init, TypeOK, BatchStatus, RowStatus, PC
<1>2. NeverWithoutRole /\ UniqueEmails
    BY DEF Init, NeverWithoutRole, UniqueEmails, Exists
<1>3. Working /\ Claims /\ Marking
    BY DEF Init, Working, Claims, Marking
<1>4. Sources
    BY DEF Init, Sources
<1>5. CompletedHasEmployee /\ Ahead /\ BatchDecided
    BY DEF Init, CompletedHasEmployee, Ahead, BatchDecided
<1> QED
    BY <1>1, <1>2, <1>3, <1>4, <1>5 DEF IInv

\* Every step keeps the invariant.
LEMMA NextIInv == IInv /\ [Next]_vars => IInv'
<1> SUFFICES ASSUME IInv, [Next]_vars PROVE IInv'
    OBVIOUS
<1> USE DEF IInv
<1>1. TypeOK' /\ Working'
    BY TypeStep, WorkingStep
<1>2. NeverWithoutRole' /\ UniqueEmails'
    BY RoleStep, EmailStep
<1>3. Sources' /\ Claims'
    BY SourcesStep, ClaimsStep, CreatedForStep
<1>4. Marking' /\ CompletedHasEmployee'
    BY MarkingStep, CompletedStep
<1>5. Ahead' /\ BatchDecided'
    BY AheadStep, DecidedStep
<1> QED
    BY <1>1, <1>2, <1>3, <1>4, <1>5

\* The inductive invariant of the user service and the importer.
THEOREM AccountsInductive == Spec => []IInv
BY InitIInv, NextIInv, PTL DEF Spec

-----------------------------------------------------------------------------
\* Every variable keeps its type, whatever requests overlap, fail or are cut off.
THEOREM AccountsTypes == Spec => []TypeOK
<1>1. IInv => TypeOK
    BY DEF IInv
<1> QED
    BY <1>1, AccountsInductive, PTL

\* An account without a role is one that the importer created, or that a request
\* cancelled between the statements of HandleUpdateRole, createUserTx or
\* HandleInviteUser committed like this, and that got no role since.
THEOREM AccountsRoles == Spec => []NeverWithoutRole
<1>1. IInv => NeverWithoutRole
    BY DEF IInv
<1> QED
    BY <1>1, AccountsInductive, PTL

\* HandleProcessBatch imports an e-mail once, however many requests process the
\* batch: two employees of one e-mail have the same account by UniqueEmails, and
\* an account has one employee by Sources.
THEOREM AccountsImportOnce == Spec => []ImportedOnce
<1>1. IInv => ImportedOnce
    <2> SUFFICES ASSUME IInv, NEW e \in emps, NEW f \in emps,
                        source[e].row # None, source[f].row # None,
                        EmailOf[source[e].row] = EmailOf[source[f].row],
                        EmailOf[source[e].row] \notin deleted
                 PROVE  e = f
        BY DEF ImportedOnce
    <2>1. e \in Employees /\ f \in Employees
        BY DEF IInv, TypeOK
    <2>2. CreatedFor(source[e].user, source[e].row) /\ CreatedFor(source[f].user, source[f].row)
        BY <2>1 DEF IInv, Sources
    <2>3. /\ account[source[e].user] = EmailOf[source[e].row]
          /\ account[source[f].user] = EmailOf[source[e].row]
          /\ source[e].user \in Users /\ source[f].user \in Users
          /\ source[e].row \in Rows
        BY <2>2 DEF IInv, TypeOK, CreatedFor
    <2>4. source[e].user = source[f].user /\ source[e].user # None
        BY <2>3, AccountsAssumption DEF IInv, UniqueEmails, Exists
    <2> QED
        BY <2>1, <2>4 DEF IInv, Sources
<1> QED
    BY <1>1, AccountsInductive, PTL

\* A COMPLETED row names the employee that was imported from it.
THEOREM AccountsCompleted == Spec => []CompletedHasEmployee
<1>1. IInv => CompletedHasEmployee
    BY DEF IInv
<1> QED
    BY <1>1, AccountsInductive, PTL

\* HandleProcessBatch sets a batch COMPLETED only when each of its rows is decided,
\* was left out by a read that broke off, or could not be marked.
THEOREM AccountsDecided == Spec => []BatchDecided
<1>1. IInv => BatchDecided
    BY DEF IInv
<1> QED
    BY <1>1, AccountsInductive, PTL
=============================================================================
