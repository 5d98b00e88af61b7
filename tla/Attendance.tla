----------------------------- MODULE Attendance -----------------------------
(***************************************************************************)
(* The attendance of one employee (backend/internal/attendance): punches,  *)
(* the daily status they are summed up in, its validation, and the         *)
(* regularization requests that overwrite it.  All statements name one     *)
(* employee, so employees do not interact.                                 *)
(*                                                                         *)
(* A punch is one INSERT into the raw log, then the date of the server's   *)
(* clock, then one statement on the row of that date, each at its own      *)
(* NOW(); midnight can pass in between.  The submission of requests is not *)
(* an action: its INSERT leaves out attendance_log_id, which is NOT NULL,  *)
(* and always fails; the requests are rows that exist, with both times, as *)
(* that INSERT would write them.  How their status changes is the subject  *)
(* of module Approvals; here an approval counts with the times it writes.  *)
(* Seconds are abstracted to ticks, the rounding of worked_hours is left   *)
(* out, and the server and the database share one clock and time zone.     *)
(***************************************************************************)
EXTENDS Integers, FiniteSets

CONSTANTS
    Punches,            \* requests that can be in flight at the same time
    DayLength,          \* ticks of a day
    LastMoment,         \* bound: the clock
    MaxLogs,            \* bound: raw logs
    SeedRows,           \* bound: the rows that days may have at the start
    Requests,           \* regularization_requests
    CheckInOf, CheckOutOf,  \* requested_check_in, requested_check_out
    Null

Day(t) == t \div DayLength
Days == 0..Day(LastMoment)

\* first_in, last_out and worked_hours, the latter in ticks; ABSENT stands for
\* every status but PRESENT (ON_LEAVE, WEEKEND).
Hours == Int \cup {Null}
DailyStatus == [in : Hours, out : Hours, worked : Hours,
                status : {"NONE", "PRESENT", "ABSENT"},
                validation : {"NONE", "TO_VALIDATE", "VALIDATED", "REJECTED"}]
Row(i, o, h, s, v) == [in |-> i, out |-> o, worked |-> h, status |-> s, validation |-> v]

\* No row for the day; worked_hours has DEFAULT 0.
NoRow == Row(Null, Null, 0, "NONE", "NONE")

\* A row without times, as scripts insert them.
Seeded(s, v) == Row(Null, Null, 0, s, v)

ASSUME AttendanceAssumption ==
    /\ DayLength \in Nat \ {0}
    /\ LastMoment \in Nat
    /\ MaxLogs \in Nat
    /\ SeedRows \subseteq {Seeded(s, v) :
         s \in {"PRESENT", "ABSENT"}, v \in {"TO_VALIDATE", "VALIDATED"}}
    /\ CheckInOf \in [Requests -> 0..LastMoment]
    /\ CheckOutOf \in [Requests -> 0..LastMoment]
    /\ Null \notin Int \cup Requests

VARIABLES
    moment,             \* NOW()
    logs,               \* attendance_raw_logs
    daily,              \* attendance_daily_status
    approved,           \* the requests that have been APPROVED at some time
    attPc, attCtx

attVars == <<moment, logs, daily, approved, attPc, attCtx>>

-----------------------------------------------------------------------------
HasRow(d) == daily[d].status # "NONE"

\* A row of the raw log: punch_type and punch_time.
RawLog == [type : {"IN", "OUT"}, since : 0..LastMoment]

\* Local variables of a request: its punch, or the request it approves.
AttLocal == [punch : RawLog, request : Requests \cup {Null}]
NoPunch == [type |-> "IN", since |-> 0]
Punching(l) == [punch |-> l, request |-> Null]
Approving(r) == [punch |-> NoPunch, request |-> r]

AttTypeOK ==
    /\ moment \in 0..LastMoment
    /\ logs \in SUBSET RawLog
    /\ daily \in [Days -> DailyStatus]
    /\ attPc \in [Punches -> {"idle", "daily", "sync"}]
    /\ attCtx \in [Punches -> AttLocal]
    /\ approved \in SUBSET Requests
    /\ \A w \in Punches : attPc[w] = "sync" => attCtx[w].request \in Requests

\* Days may have rows; nobody has punched and no request is decided.
AttInit ==
    /\ moment = 0
    /\ logs = {}
    /\ daily \in [Days -> {NoRow} \cup SeedRows]
    /\ attPc = [w \in Punches |-> "idle"]
    /\ attCtx = [w \in Punches |-> Punching(NoPunch)]
    /\ approved = {}

\* The request is answered.
Done(w) ==
    /\ attPc' = [attPc EXCEPT ![w] = "idle"]
    /\ attCtx' = [attCtx EXCEPT ![w] = Punching(NoPunch)]

-----------------------------------------------------------------------------
\* Mutant: the error of the INSERT into the raw log is ignored.
PunchUnlogged(w, type) ==
    /\ attPc[w] = "idle"
    /\ attCtx' = [attCtx EXCEPT ![w] = Punching([type |-> type, since |-> moment])]
    /\ attPc' = [attPc EXCEPT ![w] = "daily"]
    /\ UNCHANGED <<moment, logs, daily, approved>>

\* HandlePunch: the raw log.  An error ends the request.
Punch(w, type) ==
    /\ attPc[w] = "idle"
    /\ Cardinality(logs) < MaxLogs
    /\ logs' = logs \cup {[type |-> type, since |-> moment]}
    /\ attCtx' = [attCtx EXCEPT ![w] = Punching([type |-> type, since |-> moment])]
    /\ attPc' = [attPc EXCEPT ![w] = "daily"]
    /\ UNCHANGED <<moment, daily, approved>>

\* The dates that today can have: time.Now() is read after the log is written.
Today(w) == Day(attCtx[w].punch.since)..Day(moment)

\* Mutant: a later check-in of the day replaces the first.
PunchInOverwrites(w) ==
    /\ attPc[w] = "daily"
    /\ attCtx[w].punch.type = "IN"
    /\ \E d \in Today(w) :
         daily' = [daily EXCEPT ![d] =
           IF ~HasRow(d) THEN Row(moment, Null, 0, "PRESENT", "TO_VALIDATE")
           ELSE Row(moment, @.out, @.worked, "PRESENT", @.validation)]
    /\ Done(w)
    /\ UNCHANGED <<moment, logs, approved>>

\* Check-in: a new row to validate, or the first check-in of a row without one.
PunchIn(w) ==
    /\ attPc[w] = "daily"
    /\ attCtx[w].punch.type = "IN"
    /\ \E d \in Today(w) :
         daily' = [daily EXCEPT ![d] =
           IF ~HasRow(d) THEN Row(moment, Null, 0, "PRESENT", "TO_VALIDATE")
           ELSE IF @.in = Null THEN Row(moment, @.out, @.worked, "PRESENT", @.validation)
           ELSE @]
    /\ Done(w)
    /\ UNCHANGED <<moment, logs, approved>>

\* Mutant: a check-out sends the row back for another kind of validation.
PunchOutPending(w) ==
    /\ attPc[w] = "daily"
    /\ attCtx[w].punch.type = "OUT"
    /\ \E d \in Today(w) :
         daily' = [daily EXCEPT ![d] =
           IF ~HasRow(d) THEN @
           ELSE Row(@.in, moment, IF @.in = Null THEN Null ELSE moment - @.in, @.status, "OT_PENDING")]
    /\ Done(w)
    /\ UNCHANGED <<moment, logs, approved>>

\* Check-out: the row of the day, if there is one; NULL if it has no check-in.
PunchOut(w) ==
    /\ attPc[w] = "daily"
    /\ attCtx[w].punch.type = "OUT"
    /\ \E d \in Today(w) :
         daily' = [daily EXCEPT ![d] =
           IF ~HasRow(d) THEN @
           ELSE Row(@.in, moment, IF @.in = Null THEN Null ELSE moment - @.in, @.status, @.validation)]
    /\ Done(w)
    /\ UNCHANGED <<moment, logs, approved>>

\* The second statement of a request fails: a punch is answered with an error,
\* an approval with success.
SecondFails(w) ==
    /\ attPc[w] # "idle"
    /\ Done(w)
    /\ UNCHANGED <<moment, logs, daily, approved>>

\* HandleBatchValidation, for one of the rows it names: whatever its status is.
Validate(d, v) ==
    /\ HasRow(d)
    /\ daily' = [daily EXCEPT ![d] = Row(@.in, @.out, @.worked, @.status, v)]
    /\ UNCHANGED <<moment, logs, attPc, attCtx, approved>>

\* HandleApproveRequest: the status, whatever it was.
ApproveRequest(w, r) ==
    /\ attPc[w] = "idle"
    /\ approved' = approved \cup {r}
    /\ attPc' = [attPc EXCEPT ![w] = "sync"]
    /\ attCtx' = [attCtx EXCEPT ![w] = Approving(r)]
    /\ UNCHANGED <<moment, logs, daily>>

\* Mutant: the corrected day has to be validated again.
ApproveSyncUnvalidated(w) ==
    /\ attPc[w] = "sync"
    /\ LET r == attCtx[w].request IN
       daily' = [daily EXCEPT ![Day(CheckInOf[r])] =
         Row(CheckInOf[r], CheckOutOf[r], CheckOutOf[r] - CheckInOf[r], "PRESENT", "TO_VALIDATE")]
    /\ Done(w)
    /\ UNCHANGED <<moment, logs, approved>>

\* The sync: the requested times become the row of the day, validated.
ApproveSync(w) ==
    /\ attPc[w] = "sync"
    /\ LET r == attCtx[w].request IN
       daily' = [daily EXCEPT ![Day(CheckInOf[r])] =
         Row(CheckInOf[r], CheckOutOf[r], CheckOutOf[r] - CheckInOf[r], "PRESENT", "VALIDATED")]
    /\ Done(w)
    /\ UNCHANGED <<moment, logs, approved>>

\* The clock.
TimePasses ==
    /\ moment < LastMoment
    /\ moment' = moment + 1
    /\ UNCHANGED <<logs, daily, attPc, attCtx, approved>>

AttNext ==
    \/ \E w \in Punches :
         \/ \E type \in {"IN", "OUT"} : Punch(w, type)
         \/ PunchIn(w) \/ PunchOut(w) \/ ApproveSync(w) \/ SecondFails(w)
         \/ \E r \in Requests : ApproveRequest(w, r)
    \/ \E d \in Days, v \in {"VALIDATED", "REJECTED"} : Validate(d, v)
    \/ TimePasses

AttSpec == AttInit /\ [][AttNext]_attVars

-----------------------------------------------------------------------------
\* Properties

\* The hours of a day follow from its times: 0 until there is a check-out, and
\* the time between first_in and last_out after it, if worked_hours is not
\* NULL; a day with a check-in counts as PRESENT.  HandlePunch and the sync of
\* HandleApproveRequest write these columns in different statements.
HoursMatch ==
    \A d \in Days :
        LET row == daily[d] IN
        /\ row.in # Null => row.status = "PRESENT"
        /\ row.out = Null => row.worked = 0
        /\ row.out # Null /\ row.worked # Null =>
             row.in # Null /\ row.worked = row.out - row.in

\* The check-in t of the day d goes back to a punch of that type in the raw
\* log, made on that day or, across midnight, before it, or to an approved request.
Explained(t, type, times, d) ==
    \/ t = Null
    \/ \E r \in approved : t = times[r] /\ d = Day(CheckInOf[r])
    \/ \E l \in logs : l.type = type /\ l.since <= t /\ Day(l.since) <= d /\ d <= Day(t)

\* Every time in the daily status is backed by the raw log or by a request.
TimesExplained ==
    \A d \in Days :
        /\ Explained(daily[d].in, "IN", CheckInOf, d)
        /\ Explained(daily[d].out, "OUT", CheckOutOf, d)

\* A past day that no punch in flight can still name, with no row to validate:
\* what the readiness check of payroll (checkPayrollReadiness) relies on.
Settled(d) ==
    /\ d < Day(moment)
    /\ \A w \in Punches : attPc[w] = "daily" => d < Day(attCtx[w].punch.since)
    /\ daily[d].validation # "TO_VALIDATE"

\* A settled day stays settled: no punch, validation or correction brings back
\* a row that payroll would have had to wait for.
SettledStaysSettled == [][\A d \in Days : Settled(d) => Settled(d)']_attVars
=============================================================================
