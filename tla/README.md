# HR portal: TLA+ models, checks and proofs

This directory holds TLA+ models of the backend of the HR portal, TLC
configurations that check them on small instances, and TLAPS proofs of the
results that matter most. `PROJECT.json` maps every definition to the source
lines it models.

    tlc -config PayrollSerial.cfg MCPayroll      # one run
    tlapm PayrollProofs.tla                      # one proof module

## 1. The system

A Go HTTP server (chi router, one goroutine per request, a 60 s timeout, panics
recovered by a middleware) over PostgreSQL through a pgx pool, and a React
frontend. Almost all state is in the database. **Nearly every handler runs its
SQL statements one by one, each committed by itself**, and ignores many of their
errors; transactions appear only in the creation of employees and users, in the
change of a role and in the upload of an import. Two requests can therefore interleave between any two
statements, and a request can end (timeout, client gone, panic, restart) between
any two of them. These are the hard behaviours of the system, more than its
arithmetic.

| Component | State | Operations | What makes it correct | Here |
|---|---|---|---|---|
| Payroll engine (`payroll/`) | `payroll_runs`, `payslips`, `payroll_advances`, `employee_salary_structures` | process a period, VALIDATE / APPROVE / LOCK / PUBLISH, save a structure, create and approve advances | a finalized run does not change; totals are those of the payslips; a deducted advance is on a payslip; publishing reaches every payslip | `SalaryMatrix`, `Payroll`, `PayrollStages`, `PayrollProofs` |
| Approval inbox (`workflow/`) | `status` of leave, regularization, on-duty, work-from-home, advance and exit rows | approve, reject, bulk action | a task is decided once, by somebody entitled; an answer is true of every task in it | `Approvals`, `OneDecision`, `ApprovalsProofs` |
| Background jobs (`jobs/`) | in-memory history and active keys under a mutex | trigger, history | one execution of a key at a time and per window; every trigger is answered | `Jobs`, `JobsProofs` |
| Attendance (`attendance/`) | raw logs, daily status, regularizations, exceptions, shift and geofence rules | punch, batch validation, decide regularizations, review exceptions | a day has one row; its hours follow from its times, its times from punches or requests; a settled day stays settled | `Attendance`, `AttendanceProofs`; what payroll and the inbox see of it in `Payroll` and `Approvals` |
| Leave (`leave/`) | applications, policies, balances, accrual log, encashments | apply, accrue, encash, review | the log accounts for the balance | applications, in `Approvals`; the rest in section 5 |
| Importer (`importer/`) | `import_batches`, `import_rows`, users, employees | upload, process | a person is imported once; a COMPLETED row has its employee; a COMPLETED batch is decided | `Accounts`, `AccountsProofs` |
| User accounts (`user/`) | users, roles, employee links | create, invite, change role, suspend, activate, delete, list | an account has a role; a suspension lasts; paging skips nobody | `Accounts`, `AccountsProofs`, `Credentials`, `Paging`, `PagingProofs` |
| Authentication (`auth/`) | reset tokens, `is_active`, signed session tokens | log in, request and confirm a reset | a link works once, and works; a suspension lasts; sessions of a suspended account run out | `Credentials`, `CredentialsProofs` |
| Helpdesk (`helpdesk/`) | tickets, comments, categories | create, comment, transition | numbers never block creation; an ended ticket has a resolution time | `Helpdesk`, `HelpdeskProofs` |
| Pagination (`common/`) | none | limit, offset and number of pages of every list | following `has_next` gives every row | `Paging`, `PagingProofs` |
| Employee master (`employee/`) | employees | create (one transaction), update | | creation, status and manager changes |
| Onboarding, recruitment, performance, organization, configuration, documents, reports, audit | rows written by single statements, or only read | | | not modelled |
| Lifecycle and exits | none: the handlers answer with constants | | | not modelled |

Interactions: payroll reads attendance (absences, days to validate), employees
and structures; the inbox and payroll both decide advances; the inbox and
attendance both decide regularizations, and the approval of one writes a day
payroll counts; changing an employee's manager changes who may decide; the
importer and the user service both create accounts, and deleting one makes room
for another of the same e-mail; a reset of a password and the suspension of an
account both write `is_active`. The helpdesk, the credentials, the daily
attendance and the paging of a list share no table with each other.

## 2. Modules

| Module | Content |
|---|---|
| `SalaryMatrix` | the salary arithmetic in exact units of 1/3000 rupee, and the rounding of the NUMERIC(12,2) columns |
| `Payroll` | the payroll handlers, one action per SQL statement |
| `PayrollStages` | abstract: the stages of a period, with passes that write payslips and totals of an open run |
| `MCPayroll` | instances, and what the documents claim |
| `PayrollProofs` | proofs about `Payroll` |
| `Jobs`, `JobsProofs` | the job service with its mutex and a clock |
| `MCOverlap` | overlapping requests under fairness: instances of `Payroll` and of `Jobs`, which share no state; a behaviour belongs to one of them, chosen by the initial state |
| `OneDecision` | abstract: a request is submitted, decided once, and the decision is final |
| `Approvals`, `MCApprovals`, `ApprovalsProofs` | the inbox and the other endpoints that decide the same rows |
| `Accounts`, `MCAccounts`, `AccountsProofs` | the user service and the importer over users, roles, employees and one import batch |
| `Helpdesk`, `HelpdeskProofs` | tickets: numbers by COUNT + 1, transitions |
| `Credentials`, `CredentialsProofs` | logins, password resets, suspension and activation |
| `Attendance`, `AttendanceProofs` | punches, the daily status, validation and corrections of one employee |
| `Paging`, `PagingProofs` | a client that pages through the list of users |
| `MCServices` | instances of the last four models, side by side: a behaviour belongs to one of them, chosen by the initial state |

Operators named `...` with the comment "Mutant:" before a definition are
deliberately wrong variants of the definition after it. No specification uses
them; each is put in place of its original to see that the property it is paired
with in `PROJECT.json` notices.

### Payroll

One period. `run`, `slips`, `advances`, `structures`, `active`, `absent` and
`unvalidated` are what the database holds of it; `pc[w]` and `ctx[w]` are the
program counter and the local variables of request `w`. `HandleProcessPayroll`
is the sequence `ProcessCheck` (readiness), `ProcessFetch` (status check),
`ProcessInsert` (new run; a UNIQUE constraint stops the loser of a race),
`ProcessEmployees`, then for each row `RowLop`, `RowAdvance`, `RowMarkAdvance`,
`RowPayslip`, and `ProcessFinish`. `HandleTransitionState` is `TransitionRead`,
`TransitionWrite` and, for PUBLISH, `TransitionSlips`. `HandleSaveStructure` is
`SaveDeactivate` and `SaveInsert`. Requests of a single statement are single
actions. Queries whose error the code ignores have a failing alternative under
the constant `Faults`; the employees are read without a look at `rows.Err()`, so
that with faults a pass may run on any part of them. `Cancel` ends a request
anywhere. `last` is a history
variable: the employees and advances of the latest pass that stored its totals.
Amounts are integers, because gross/30 per LOP day and the percentages of the
matrix are exact in 1/3000 rupee; what the code keeps in float64 is exact here,
so the reconciliation result is about the algorithm and the rounding of the
columns, not about floating-point noise. A structure stored as 0.00 makes
`Earnings[0]` panic, which ends the request.

### Jobs

`ExecuteJob` with `mu` explicit: `Lock`, `CheckHistory`, `Refuse` or `Start`
(which unlocks), `Finish` outside the mutex, `Lock` again, `Release`, `Record`.
The clock ticks at any time. Job bodies are constants that cannot fail, so
FAILED is unreachable and left out; the history is lost on a restart by design.

### Approvals

The three inbox handlers are one loop: `Receive`, then per task `Check` (reads)
and `Decide` (the conditional update). The update of a row found PENDING may
commit and still report an error. `HandleApproveRequest` of attendance is two
statements (`HandleApproveRequest`, `Sync`), the second with its error ignored; it
serves any caller who is logged in, so its caller is any employee or nobody.
`decided` and `moved` are history variables: who decided each task through the
inbox and in which capacity, and the requests whose current task got another
manager since they checked it. `DecisionsAuthorized` is about the inbox: its
decider is never the requester, and is an administrator or the manager at the
moment of the update, except in that one window. The endpoints of attendance and
payroll have no such checks; `NeverOwnRequest` states what the documents promise
of all of them, and a run refutes it. A task of kind LEAVE is
submitted through the API; the rows of the other tables exist from the start,
since nothing in the API inserts them successfully as PENDING.

### Accounts

The tables `users` (`account`: the e-mail of each id; ids are not used again),
`user_roles` and `employees` (with their `user_id`), one batch with its rows.
`HandleProcessBatch` is `ProcessRead`, then per row, in any order, `RowUser`,
`RowEmployee` and `RowMark` or `RowFail`, and `ProcessFinish`; each insert may
commit and still report an error. UNIQUE columns and foreign keys are guards.
`ProcessRead` does not look at `rows.Err()`, so that with faults it may read any
part of the VALID rows; those it leaves out go to `unmarked`, with those whose
update failed.
Creating an account is one transaction and one action. Changing a role is one
transaction and three actions, because READ COMMITTED lets others in: `UpdateRole`
(the snapshot its DELETE sees), `RoleLock` (the rows it could lock and delete once
nobody else holds them) and `RoleInsert` (the insert and the commit). Both
transactions ignore the error of the role's INSERT and commit under
`context.Background()`. What that does depends on the error, and the models take
it from how pgx v5 behaves (which is not in the repository): an INSERT that the
database rejects aborts the transaction, and one whose context is cancelled while
it runs closes the connection, so both end in a rollback (`RoleInsert`, `Cancel`);
but an INSERT whose context is cancelled *before* it starts is refused without
being sent, the transaction stays healthy, and the commit keeps the rest. That is
`RoleRefused`, which commits the DELETE alone, and the second alternative of
`createUserTx`, which commits an account without a role (`HandleInviteUser` is the
same transaction). `roleless` records the accounts committed like this, or by the
importer, until they get a role. `held` is
what the transaction has deleted and not committed; when it commits, requests that
wait for those rows lose them and do not see the new one. `source`, `deleted`,
`roleless` and `unmarked` are history variables.

### Helpdesk

`tickets` by number (year and sequence number). `HandleCreateTicket` is
`CreateCount` (an error of COUNT leaves 0) and `CreateInsert` or `CreateFail`;
the year of the number is read somewhere between them. `HandleTransitionTicket`
is `TransitionRead` (an error leaves the empty status) and `TransitionWrite` or
`TransitionFail`, whose error nobody looks at.

### Credentials

`enabled`, `link` and `expires` are columns of `users`; a session is a signed
token that no table keeps, so `session` is the time until which the last one of
an account is accepted. `HandleLogin` is `LoginCheck` (is_active and password)
and `LoginSign`; `HandleResetPassword` is `ResetLookup` and `ResetWrite`, with
the hashing of the password between them. The other handlers are one statement.
`newest`, `spent`, `overtaken` and `live` are history variables. An account may
start inactive: an invited one does. `docs/security/AUTHORIZATION_ARCHITECTURE.md:19`
lists the activation of the user among what every request is checked for;
`RequireAuth` (`auth/auth.go:134`) checks the token only, so a suspension does not
end a session, and `SessionsRunOut` says what is left: it ends with its token.

### Attendance

`HandlePunch` is `Punch` (raw log) and `PunchIn` or `PunchOut` on the row of
the date that the server's clock shows in between, so that midnight can fall
between the two. `HandleApproveRequest` is `ApproveRequest` and `ApproveSync`.
`Validate` is one row of a batch validation. Either second statement may fail
(`SecondFails`). All statements name one employee, so one is modelled.

### Paging

`HandleListUsers` is `ListCount` (or `ListCountFails`: the error is dropped and
the total is 0) and the SELECT of the page: `ListSelect` gives the whole page,
`ListSelectFails` an error, after which the client asks again, and
`ListSelectBreaks` the rows before the read broke off, since `rows.Err()` is not
looked at; that answer is a 200 with `has_next` from the count. The client asks
for the next page as long as the answer says `has_next`. `lost` records the users
that a broken-off page left out. `disturbed` records the changes that no client of
this kind of paging can make up for: a creation between the two statements, a
deletion on a page it was already given, a failed count.

## 3. Runs

| Run | Instance | Result |
|---|---|---|
| `payroll_serial` | 2 employees, 1 advance, 1 request at a time, no faults | types; one active structure; deductions of a pass are on payslips; publishing reaches all payslips; totals of a pass are those of its payslips, to the rounding |
| `overlap` | fairness; payroll: 2 requests, 1 employee; jobs: 2 requests, 2 keys, window 2, 6 ticks, a history of 3 | `ProcessingEnds`, `FinalizedStaysFinal`; `HistorySpaced`, `ActiveIsExecuting`, `TriggerAnswered` |
| `payroll_faults` | 1 request at a time, faults, the panic | `FinalizedIsImmutable`, implements `PayrollStages` |
| `approvals` | 2 requests, 2 employees, 3 callers, a leave, a regularization and an advance, four bulk lists, faults | decided once in the inbox, by an administrator or the manager of the moment, truthful answers, implements `OneDecision`, whatever the other endpoints do to the rows they share |
| `accounts` | 2 requests, 3 user ids, 2 employees, 2 e-mails, 2 roles, 1 row, faults | `ImportedOnce`, `CompletedHasEmployee`, `BatchDecided`, `NeverWithoutRole` |
| `services` | 2 requests of each service, faults; 2 tickets, 2 years; 1 account, 3 links, 5 ticks; 2 days, 3 punches, 1 correction; 5 users, limits 0, 1, 2, 4 | `NextNumberFree`, `ResolvedHasTime`; `StoredLinkIsLive`, `NewestLinkWorks`, `SuspensionHolds`, `SessionsRunOut`; `HoursMatch`, `TimesExplained`, `SettledStaysSettled`; `NothingSkipped` |

Runs that end in a counterexample, each against a sentence of the repository:

| Run | Sentence | What the code does |
|---|---|---|
| `payroll_lock_race` | TC-PAY-09 "Locked state preserved." | a pass that passed its check before the lock ends with an unconditional VALIDATED |
| `payroll_reconcile` | TC-PAY-06 the payslips add up to the total | the payslip of an employee who became inactive stays in a reprocessed run |
| `payroll_advance_lost` | TC-PAY-05 "Advance deducted on payslip" | the second pass over a period rewrites the payslip without the advance the first marked DEDUCTED |
| `approvals_statuses` | the column comment "PENDING, APPROVED, REJECTED" | the bulk action stores APPROVE / REJECT |
| `approvals_own` | "an employee can NEVER approve their own request under any circumstances" (`docs/security/AUTHORIZATION_ARCHITECTURE.md:66`) | `HandleApproveRequest` of attendance approves a regularization for any logged-in caller, its requester included |
| `approvals_sync` | "Also sync it to attendance_daily_status!" | the inbox approves the same row without the sync |

**Bounds.** One period is enough because no statement of payroll touches two.
Two employees let a pass be interrupted between rows and let one of them leave;
two requests give every pairwise race, and
the properties they could break are then proved for any number. `MaxActive = 2`
lets a missing deactivation show. The advance of the instances exceeds the net
pay, so that the floor at zero is reached, and the salary of 9000.10 rupees of
`payroll_serial` gives amounts of a fraction of a paisa. In `Jobs` a request is
triggered again after its answer, so two of them give every pairwise race, and
six ticks leave the window of
the first execution and of a second one. In `Approvals`, the bulk lists
include repeated tasks, a failure at the second task after a decision of the
first, and the empty list; each caller class of the checks occurs (manager,
administrator, administrator without an employee row), and each is also a
requester. `Workers` in `Approvals` are used once each, so a behaviour has two
requests; the proofs have no such bound. In `Accounts`
one row is enough for two requests to race on it, and a batch can be processed
again and again; the third id lets the row be imported once more after its account
was deleted, and the administrator may have the e-mail of the row. A read that
breaks off then leaves out that row. Several rows, also of one e-mail, and reads
that give some of them are covered by the proofs. In `services`, two tickets let two
requests collide and a third number be checked, in the year of the count and the
next. One account is enough, since no statement of `Credentials` touches two;
links live two ticks and sessions three, so both expire within the five ticks, and
the third link is requested when a second has been used or overtaken. Days of two
ticks put midnight between any two steps of a punch, and the correction is of the
first day, which may be over by then. Three users under limits of 1, 2 (also the
default, for 0) and 3 (the cap, for 4) give a last page that is full, incomplete
and the only one. Deadlock checking is off for `overlap` and `services`, whose
clocks and bounds stop the model.

**Fairness.** `Payroll!FairSpec` is weak fairness of each request's next
statement: a goroutine whose context is not cancelled keeps running. It is used
without faults only, since a cancelled pass does leave a run in PROCESSING.
`Jobs!JobFairSpec` adds strong fairness of `Lock`: `sync.Mutex` switches to
starvation mode after 1 ms and hands the lock to the waiter. `MCOverlap!OverlapSpec`
is the two together; the part that rests has no steps, so one condition for each
request covers both.

## 4. Proofs

All for every value of the constants under the named assumptions of each module
(non-empty windows, sentinels outside their sets, finitely many employees and
users, unique ids, and types).

- `PayrollProofs`
  - `TypeCorrect`: `Spec => []TypeOK`. `TypeOK` alone is not inductive: a later
    statement uses `ctx[w].emp`, `ctx[w].advance` and `ctx[w].base`, so
    `RequestOK` records that they were set on the way.
  - `FinalStaysFinal`: the action property `FinalizedStaysFinal` for any number
    of overlapping requests and with faults. Each action is shown either to be
    disabled, or to keep the run, its totals and the payslip amounts.
  - `SerialFinalIsImmutable`: if at most one request is in flight
    (`Serial`, that is, one worker), `FinalizedIsImmutable`. The invariant
    `SerialInv` says that a request past its check found a run that was not
    finalized, except for PUBLISH.
  - `SerialImplementsStages`: under the same hypothesis and with any fault, every
    statement is a step of `PayrollStages` or changes neither the run, its totals
    nor the amounts of its payslips. To `SerialInv` it adds `RunExists`: a request
    in flight has found or inserted the run.
  - `SerialOneActiveStructure` and `SerialPublishedSlips`: `OneActiveStructure`
    and `PublishedRunHasPublishedSlips` under `Calm`, that is, if requests do not
    overlap and no statement fails. Both are false without it: the first by two
    `HandleSaveStructure` that deactivate before either inserts, the second by a
    PUBLISH that is cut off between its two updates. The invariants say what holds
    between the two statements: no active structure (`SavingOK`), and a PUBLISH
    under way in a PUBLISHED run whose payslips are not published yet
    (`PublishOK`).
  - `UndisturbedDeductions` and `UndisturbedReconciles`: `PassDeductionsOnSlips`
    and `PassReconciles` under `Undisturbed`, which adds to `Calm` that no stored
    salary makes the breakdown panic (a pass that ends in the middle has rewritten
    payslips and marked advances without storing its totals). `PassInv` follows a
    pass through its rows: one row per employee that is left, in work or done
    (`FreshOK`, `RowsOK`, from `OneActiveStructure`), an advance is on its way
    from its mark to the payslip (`MarkOK`, `TakenOK`), the running totals are
    those of the payslips written so far up to half a paisa for each (`SumsOK`),
    and outside a pass the rows that the latest one covered are still as it left
    them (`LastOK`). The sum over payslips is a fold, about which the library has no
    facts: that it is additive over disjoint sets is proved by taking a smallest
    set for which it fails (`SmallestSubset`), since strict inclusion of finite
    sets is well-founded. This is where `Employees` must be finite.
- `JobsProofs`: `JobsTypeCorrect`, `IdempotentWithinWindow`, `ActiveMapExact`
  from `JobsInv`. `HistorySpaced` is not inductive: what a request is about to
  record must already be spaced from the history (`Spaced`), which is
  established at the claim from what the check saw under the mutex (`Checked`,
  `MutexHeld`) and preserved because at most one request is between the claim
  and the record of a key (`OnePerKey`, which counts the request that has
  deleted its key from the map but not yet prepended its execution).
- `ApprovalsProofs`: `ApprovalsTypeCorrect`, `DecidedOnce`,
  `OnlyAuthorizedDecide`, `AnswersStayTrue` from `ApprovalsInv` (the cursor of
  the loop, what the checks of the current task found and whether the manager was
  replaced since, rows decided have left PENDING), and `InboxImplementsOneDecision`: every step is a step of
  `OneDecision` on the rows only the inbox decides, or leaves them alone.
- `AccountsProofs`: `AccountsTypes`, `AccountsRoles`, `AccountsImportOnce`,
  `AccountsCompleted` and `AccountsDecided` from `IInv`. `ImportedOnce` needs three
  facts that are not visible in it: an e-mail has one account (`UniqueEmails`), an
  imported employee has an account that no other imported employee has, created
  for its row (`Sources`), and an account between the two inserts belongs to the
  one request that created it (`Claims`). "Created for its row" survives a
  deletion because the e-mail is then in `deleted`. `BatchDecided` needs that a
  VALID row is unmarked or still in front of every request at work (`Ahead`).
  `NeverWithoutRole` is inductive with the types: a role is deleted for good only in
  the step that inserts another, deletes the account, or records it in `roleless`.
- `HelpdeskProofs`: `HelpdeskTypeCorrect`, `TicketNumbersNeverBlock` and
  `EndedTicketsHaveTimes` from `DeskInv`. That the next number is free follows
  from `SequenceBounded`: no ticket has a sequence number above the number of
  tickets and no request has counted more than there are, because tickets are
  never deleted. `ResolvedHasTime` needs `StaleIsResolved`: a request that has read
  an ended status will write it to a ticket that has its time, also if the ticket
  was reopened since.
- `CredentialsProofs`: `CredentialsTypeCorrect`, `StoredLinksLive`,
  `NewestLinksWork`, `SuspendedSessionsRunOut` and the action property
  `SuspensionsHold` from `CredInv`: a link belongs to one account (`LinksOwned`), a
  reset under way has the newest link or was overtaken by it (`ResetsCurrent`),
  and no session outlasts the last moment at which its account was active, or a
  login of it under way, by more than its lifetime (`SessionsBounded`).
- `AttendanceProofs`: `AttendanceTypeCorrect`, `HoursFollowTimes`, `TimesGoBack`
  and the action property `SettledDaysStaySettled` from `AttInv`, which adds
  `InFlight`: the punch of a request in flight is in the raw log and not in the
  future, and its request has been approved. That dates do not go back with the
  clock (`DayMonotone`) is what keeps a punch away from a settled day.

- `PagingProofs`: `PageTypeCorrect` and `NoUserSkipped` from `PageInv`. Its
  central part, `SeenUpTo`, relates the pages given to positions: unless the walk
  was disturbed, every user of the first list that stands before the offset of the
  next request has been given or was left out of a page that broke off (`lost`).
  What a page gave does not move the offset, so a short page costs no other user. Users created at the head push the others towards the
  end, so that they are given twice and not left out; a deletion behind the offset
  only moves users that are still to come (`ListAdded`, `ListRemoved`). At the end,
  the count that the client was told is not below the length of the list, and pages
  numbered up to the rounded-up quotient cover a list of that length
  (`LastPageCoversAll`).

Every invariant, action property and refinement that a passing run checks is thus
also proved. Only model-checked are the two liveness properties, `ProcessingEnds`
and `TriggerAnswered`, since TLAPS does not reason about fairness. What no proof
and no run covers of the arithmetic is float64: amounts are exact in the model
(section 2).

## 5. Not modelled

HTTP, JSON, JWT and bcrypt; read-only endpoints, reports and exports; wording of
messages; multi-currency of payroll (a table of rates nothing else reads); the
handlers that answer with constants (lifecycle, exits, HR tasks, notifications,
check-in, check-out and regularize of attendance); onboarding, recruitment,
performance, organization, configuration and documents, whose writes are single
statements that no other operation decides on; the frontend beyond the action
names it sends; seeding scripts; the vendored Go toolchain.

Of the components that are partly modelled:

- *Leave.* `HandleProcessBatchAccruals` upserts `leave_balances` with the columns
  `total_allocated`, `used` and `pending` and a conflict target of two columns. The
  table comes from migration 000004, which has neither (000019 and its
  `IF NOT EXISTS` come too late to change it), so the statement always fails; its
  error is dropped, the accrual log is written all the same, and the answer says
  "Updated %d leave balances." (`leave/policy.go:287`). No balance ever changes, so
  there is no behaviour of balances to check. An encashment is one INSERT and one
  UPDATE that nothing reads. `EvaluateSandwichRule` and
  `ProcessMultiLevelApproval` are called by tests only.
- *Attendance.* `HandleSubmitRequest` leaves out `attendance_log_id`, which is NOT
  NULL, so that no regularization is ever submitted through it; the requests of the
  models are rows that exist. Exceptions are reviewed in one statement, and the
  geofence is floating-point geometry.
- *Helpdesk.* Comments and categories; the SLA flag, which is computed for display.
- *Authentication.* The demo presets, which sign tokens for ids that no account has,
  and the invitation token, which is written and never read.

## 6. Plan

Done: every component with state that more than one statement or request works
on has its module with its proofs. Left:

1. The importer as a refinement of an abstract specification in which a person is
   imported at most once and a decided row stays decided.
2. The job service as a refinement of an abstract executor that runs a key at most
   once in a window.
