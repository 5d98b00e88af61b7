-------------------------- MODULE AttendanceProofs --------------------------
(***************************************************************************)
(* The hours of a day match its times, every time is backed by a punch or  *)
(* a request, and a settled day stays settled.  The inductive invariant    *)
(* adds to these what a request in flight knows: its punch is in the raw   *)
(* log and not in the future, its request has been approved.               *)
(***************************************************************************)
EXTENDS Attendance, TLAPS

InFlight ==
    \A w \in Punches :
        /\ attPc[w] = "daily" =>
             attCtx[w].punch \in logs /\ attCtx[w].punch.since <= moment
        /\ attPc[w] = "sync" => attCtx[w].request \in approved

AttInv == AttTypeOK /\ HoursMatch /\ InFlight /\ TimesExplained

-----------------------------------------------------------------------------
\* Days are numbered from 0 and do not go back as the clock goes on.
LEMMA DayOfMoment ==
    ASSUME NEW t \in 0..LastMoment
    PROVE  Day(t) \in Days
  <1> USE AttendanceAssumption
  <1>1. t \div DayLength \in Nat /\ LastMoment \div DayLength \in Nat
    BY SMT
  <1>2. t \div DayLength <= LastMoment \div DayLength
    BY SMT
  <1> QED BY <1>1, <1>2 DEF Day, Days

LEMMA DayMonotone ==
    ASSUME NEW s \in Nat, NEW t \in Nat, s <= t
    PROVE  Day(s) \in Nat /\ Day(t) \in Nat /\ Day(s) <= Day(t)
  <1> USE AttendanceAssumption
  <1>1. s \div DayLength \in Nat /\ t \div DayLength \in Nat
    BY SMT
  <1>2. s \div DayLength <= t \div DayLength
    BY SMT
  <1> QED BY <1>1, <1>2 DEF Day

\* The days that a punch can name.
LEMMA TodayIsADay ==
    ASSUME AttTypeOK, InFlight, NEW w \in Punches, attPc[w] = "daily", NEW d \in Today(w)
    PROVE  /\ d \in Days
           /\ Day(attCtx[w].punch.since) <= d
           /\ d <= Day(moment)
  <1>1. attCtx[w].punch.since \in 0..LastMoment /\ moment \in 0..LastMoment
    BY DEF AttTypeOK, AttLocal, RawLog
  <1>2. Day(attCtx[w].punch.since) \in Days /\ Day(moment) \in Days
    BY <1>1, DayOfMoment
  <1>3. Day(LastMoment) \in Nat
    BY DayMonotone, AttendanceAssumption
  <1> QED BY <1>2, <1>3 DEF Today, Days

\* What answers a request leaves of the requests in flight.
LEMMA DoneKeepsTypes ==
    ASSUME AttTypeOK, NEW w \in Punches, Done(w)
    PROVE  /\ attPc' \in [Punches -> {"idle", "daily", "sync"}]
           /\ attCtx' \in [Punches -> AttLocal]
           /\ \A v \in Punches : attPc'[v] = "sync" => attCtx'[v].request \in Requests
  <1> DEFINE none == Punching(NoPunch)
  <1>1. none \in AttLocal
    BY AttendanceAssumption DEF AttLocal, Punching, NoPunch, RawLog
  <1>2. attPc' = [attPc EXCEPT ![w] = "idle"] /\ attCtx' = [attCtx EXCEPT ![w] = none]
    BY DEF Done
  <1> HIDE DEF none
  <1>3. attPc' \in [Punches -> {"idle", "daily", "sync"}] /\ attCtx' \in [Punches -> AttLocal]
    BY <1>1, <1>2 DEF AttTypeOK
  <1>4. ASSUME NEW v \in Punches, attPc'[v] = "sync" PROVE attCtx'[v].request \in Requests
    <2>1. v # w /\ attPc[v] = "sync" /\ attCtx'[v] = attCtx[v]
      BY <1>2, <1>4 DEF AttTypeOK
    <2> QED BY <2>1 DEF AttTypeOK
  <1> QED BY <1>3, <1>4

LEMMA DoneKeepsFlights ==
    ASSUME AttTypeOK, InFlight, NEW w \in Punches, Done(w),
           logs' = logs, approved' = approved, moment' = moment
    PROVE  InFlight'
  <1> SUFFICES ASSUME NEW v \in Punches
               PROVE /\ attPc'[v] = "daily" =>
                          attCtx'[v].punch \in logs /\ attCtx'[v].punch.since <= moment
                     /\ attPc'[v] = "sync" => attCtx'[v].request \in approved
    BY DEF InFlight
  <1>1. CASE v = w
    BY <1>1 DEF Done, AttTypeOK
  <1>2. CASE v # w
    <2>1. attPc'[v] = attPc[v] /\ attCtx'[v] = attCtx[v]
      BY <1>2 DEF Done, AttTypeOK
    <2> QED BY <2>1 DEF InFlight
  <1> QED BY <1>1, <1>2

\* A row is a row.
LEMMA RowFields ==
    ASSUME NEW i, NEW o, NEW h, NEW s, NEW v
    PROVE  /\ Row(i, o, h, s, v).in = i
           /\ Row(i, o, h, s, v).out = o
           /\ Row(i, o, h, s, v).worked = h
           /\ Row(i, o, h, s, v).status = s
           /\ Row(i, o, h, s, v).validation = v
  BY DEF Row

LEMMA RowTyped ==
    ASSUME NEW i \in Hours, NEW o \in Hours, NEW h \in Hours,
           NEW s \in {"NONE", "PRESENT", "ABSENT"},
           NEW v \in {"NONE", "TO_VALIDATE", "VALIDATED", "REJECTED"}
    PROVE  Row(i, o, h, s, v) \in DailyStatus
  BY DEF Row, DailyStatus

-----------------------------------------------------------------------------
\* The part of the invariant that is about one row of the daily status.
RowOK(row) ==
    /\ row \in DailyStatus
    /\ row.in # Null => row.status = "PRESENT"
    /\ row.out = Null => row.worked = 0
    /\ row.out # Null /\ row.worked # Null =>
         row.in # Null /\ row.worked = row.out - row.in

LEMMA RowsOK ==
    ASSUME daily \in [Days -> DailyStatus]
    PROVE  HoursMatch <=> \A d \in Days : RowOK(daily[d])
  BY DEF HoursMatch, RowOK

LEMMA RowsOKNext ==
    ASSUME daily' \in [Days -> DailyStatus]
    PROVE  HoursMatch' <=> \A d \in Days : RowOK(daily'[d])
  BY DEF HoursMatch, RowOK

\* Rewriting one day by a row that is right keeps types and hours.
LEMMA OneRow ==
    ASSUME AttTypeOK, HoursMatch, NEW d \in Days, NEW row, RowOK(row),
           daily' = [daily EXCEPT ![d] = row]
    PROVE  daily' \in [Days -> DailyStatus] /\ HoursMatch'
  <1>1. daily \in [Days -> DailyStatus] /\ row \in DailyStatus
    BY DEF AttTypeOK, RowOK
  <1>2. daily' \in [Days -> DailyStatus]
    BY <1>1
  <1>3. \A e \in Days : daily'[e] = IF e = d THEN row ELSE daily[e]
    BY <1>1
  <1>4. \A e \in Days : RowOK(daily'[e])
    BY <1>1, <1>3, RowsOK
  <1> QED BY <1>2, <1>4, RowsOKNext

\* The same for the times: the other days keep their explanation.
LEMMA OneRowExplained ==
    ASSUME AttTypeOK, TimesExplained, NEW d \in Days, NEW row,
           daily' = [daily EXCEPT ![d] = row],
           logs' = logs, approved' = approved,
           Explained(row.in, "IN", CheckInOf, d),
           Explained(row.out, "OUT", CheckOutOf, d)
    PROVE  TimesExplained'
  <1>1. \A e \in Days : daily'[e] = IF e = d THEN row ELSE daily[e]
    BY DEF AttTypeOK
  <1>2. ASSUME NEW e \in Days
        PROVE  /\ Explained(daily'[e].in, "IN", CheckInOf, e)
               /\ Explained(daily'[e].out, "OUT", CheckOutOf, e)
    BY <1>1 DEF TimesExplained
  <1> QED BY <1>2 DEF TimesExplained, Explained

\* More logs and more approvals take no explanation away.
LEMMA MoreExplains ==
    ASSUME TimesExplained, daily' = daily, logs \subseteq logs', approved \subseteq approved'
    PROVE  TimesExplained'
  BY DEF TimesExplained, Explained

-----------------------------------------------------------------------------
LEMMA InitAtt ==
    AttInit => AttInv
  <1> SUFFICES ASSUME AttInit PROVE AttInv
    OBVIOUS
  <1> USE AttendanceAssumption
  <1>1. ASSUME NEW row \in {NoRow} \cup SeedRows
        PROVE  RowOK(row) /\ row.in = Null /\ row.out = Null
    <2>1. PICK s \in {"NONE", "PRESENT", "ABSENT"},
               v \in {"NONE", "TO_VALIDATE", "VALIDATED", "REJECTED"} :
               row = Row(Null, Null, 0, s, v)
      <3>1. CASE row = NoRow
        BY <3>1 DEF NoRow
      <3>2. CASE row \in SeedRows
        <4>1. PICK s \in {"PRESENT", "ABSENT"}, v \in {"TO_VALIDATE", "VALIDATED"} :
                   row = Seeded(s, v)
          BY <3>2
        <4> QED BY <4>1 DEF Seeded
      <3> QED BY <3>1, <3>2
    <2>2. Null \in Hours /\ 0 \in Hours
      BY DEF Hours
    <2>3. row \in DailyStatus
      BY <2>1, <2>2, RowTyped
    <2> QED BY <2>1, <2>3, RowFields DEF RowOK
  <1>2. \A d \in Days : daily[d] \in {NoRow} \cup SeedRows
    BY DEF AttInit
  <1>3. daily \in [Days -> DailyStatus]
    BY <1>1 DEF AttInit, RowOK
  <1>4. AttTypeOK
    <2>1. Punching(NoPunch) \in AttLocal
      BY DEF AttLocal, Punching, NoPunch, RawLog
    <2>2. attCtx \in [Punches -> AttLocal] /\ attPc \in [Punches -> {"idle", "daily", "sync"}]
      BY <2>1 DEF AttInit
    <2>3. \A w \in Punches : attPc[w] = "idle"
      BY DEF AttInit
    <2>4. moment \in 0..LastMoment /\ logs \in SUBSET RawLog /\ approved \in SUBSET Requests
      BY DEF AttInit
    <2> QED BY <1>3, <2>2, <2>3, <2>4 DEF AttTypeOK
  <1>5. HoursMatch
    BY <1>1, <1>2, <1>3, RowsOK
  <1>6. InFlight
    BY DEF AttInit, InFlight
  <1>7. TimesExplained
    BY <1>1, <1>2 DEF TimesExplained, Explained
  <1> QED BY <1>4, <1>5, <1>6, <1>7 DEF AttInv

-----------------------------------------------------------------------------
LEMMA PunchKeeps ==
    ASSUME AttInv, NEW w \in Punches, NEW type \in {"IN", "OUT"}, Punch(w, type)
    PROVE  AttInv'
  <1> USE AttendanceAssumption
  <1> DEFINE l == [type |-> type, since |-> moment]
             ctx == Punching(l)
  <1>1. AttTypeOK /\ HoursMatch /\ InFlight /\ TimesExplained
    BY DEF AttInv
  <1>2. moment \in 0..LastMoment
    BY <1>1 DEF AttTypeOK
  <1>3. l \in RawLog /\ ctx \in AttLocal /\ ctx.punch = l /\ l.since = moment
    BY <1>2 DEF RawLog, AttLocal, Punching
  <1>4. /\ logs' = logs \cup {l}
        /\ attCtx' = [attCtx EXCEPT ![w] = ctx]
        /\ attPc' = [attPc EXCEPT ![w] = "daily"]
        /\ moment' = moment /\ daily' = daily /\ approved' = approved
    BY DEF Punch
  <1> HIDE DEF l, ctx
  <1>5. attPc' \in [Punches -> {"idle", "daily", "sync"}] /\ attCtx' \in [Punches -> AttLocal]
    BY <1>1, <1>3, <1>4 DEF AttTypeOK
  <1>6. /\ attPc'[w] = "daily" /\ attCtx'[w] = ctx
        /\ \A v \in Punches \ {w} : attPc'[v] = attPc[v] /\ attCtx'[v] = attCtx[v]
    BY <1>1, <1>4 DEF AttTypeOK
  <1>7. AttTypeOK'
    BY <1>1, <1>3, <1>4, <1>5, <1>6 DEF AttTypeOK
  <1>8. InFlight'
    BY <1>1, <1>2, <1>3, <1>4, <1>6 DEF InFlight
  <1>9. HoursMatch'
    BY <1>1, <1>4 DEF HoursMatch
  <1>10. TimesExplained'
    BY <1>1, <1>4, MoreExplains
  <1> QED BY <1>7, <1>8, <1>9, <1>10 DEF AttInv

\* What the two kinds of punch and the sync have in common: one day gets a row
\* that is right, and the request is answered.
LEMMA RewriteKeeps ==
    ASSUME AttInv, NEW w \in Punches, NEW d \in Days, NEW row, RowOK(row),
           daily' = [daily EXCEPT ![d] = row],
           Explained(row.in, "IN", CheckInOf, d),
           Explained(row.out, "OUT", CheckOutOf, d),
           Done(w), moment' = moment, logs' = logs, approved' = approved
    PROVE  AttInv'
  <1>1. AttTypeOK /\ HoursMatch /\ InFlight /\ TimesExplained
    BY DEF AttInv
  <1>2. daily' \in [Days -> DailyStatus] /\ HoursMatch'
    BY <1>1, OneRow
  <1>3. AttTypeOK'
    BY <1>1, <1>2, DoneKeepsTypes DEF AttTypeOK
  <1>4. InFlight'
    BY <1>1, DoneKeepsFlights
  <1>5. TimesExplained'
    BY <1>1, OneRowExplained
  <1> QED BY <1>2, <1>3, <1>4, <1>5 DEF AttInv

\* The time of a punch in flight, written now, goes back to its raw log.
LEMMA PunchExplains ==
    ASSUME AttTypeOK, InFlight, NEW w \in Punches, attPc[w] = "daily",
           NEW d \in Today(w), NEW times
    PROVE  Explained(moment, attCtx[w].punch.type, times, d)
  BY TodayIsADay DEF InFlight, Explained

LEMMA PunchInKeeps ==
    ASSUME AttInv, NEW w \in Punches, PunchIn(w)
    PROVE  AttInv'
  <1> USE AttendanceAssumption
  <1>1. AttTypeOK /\ HoursMatch /\ InFlight /\ TimesExplained
    BY DEF AttInv
  <1>2. /\ attPc[w] = "daily" /\ attCtx[w].punch.type = "IN"
        /\ Done(w) /\ moment' = moment /\ logs' = logs /\ approved' = approved
    BY DEF PunchIn
  <1>3. PICK d \in Today(w) :
          daily' = [daily EXCEPT ![d] =
            IF ~HasRow(d) THEN Row(moment, Null, 0, "PRESENT", "TO_VALIDATE")
            ELSE IF @.in = Null THEN Row(moment, @.out, @.worked, "PRESENT", @.validation)
            ELSE @]
    BY DEF PunchIn
  <1>4. d \in Days
    BY <1>1, <1>2, TodayIsADay
  <1> DEFINE old == daily[d]
             new == Row(moment, Null, 0, "PRESENT", "TO_VALIDATE")
             first == Row(moment, old.out, old.worked, "PRESENT", old.validation)
  <1>5. moment \in Int /\ moment # Null /\ moment \in Hours /\ Null \in Hours /\ 0 \in Hours
    BY <1>1 DEF AttTypeOK, Hours
  <1>6. RowOK(old) /\ old \in DailyStatus
    BY <1>1, <1>4, RowsOK DEF AttTypeOK
  <1>7. /\ Explained(old.in, "IN", CheckInOf, d) /\ Explained(old.out, "OUT", CheckOutOf, d)
    BY <1>1, <1>4 DEF TimesExplained
  <1>8. Explained(moment, "IN", CheckInOf, d) /\ Explained(Null, "OUT", CheckOutOf, d)
    BY <1>1, <1>2, PunchExplains DEF Explained
  <1>9. \/ daily' = [daily EXCEPT ![d] = new]
        \/ daily' = [daily EXCEPT ![d] = old]
        \/ /\ old.in = Null
           /\ daily' = [daily EXCEPT ![d] = first]
    BY <1>1, <1>3, <1>4 DEF AttTypeOK
  <1>10. RowOK(new) /\ new.in = moment /\ new.out = Null
    <2>1. new \in DailyStatus
      BY <1>5, RowTyped
    <2> QED BY <1>5, <2>1, RowFields DEF RowOK
  <1>11. ASSUME old.in = Null PROVE RowOK(first) /\ first.in = moment /\ first.out = old.out
    <2>1. old.out \in Hours /\ old.worked \in Hours
          /\ old.validation \in {"NONE", "TO_VALIDATE", "VALIDATED", "REJECTED"}
      BY <1>6 DEF DailyStatus
    <2>2. first \in DailyStatus
      BY <1>5, <2>1, RowTyped
    <2>3. old.out # Null => old.worked = Null
      BY <1>6, <1>11 DEF RowOK
    <2>4. /\ first.in = moment /\ first.out = old.out /\ first.worked = old.worked
          /\ first.status = "PRESENT"
      BY RowFields
    <2> QED BY <1>5, <1>6, <2>2, <2>3, <2>4 DEF RowOK
  <1> HIDE DEF old, new, first
  <1>12. CASE daily' = [daily EXCEPT ![d] = new]
    BY <1>2, <1>4, <1>8, <1>10, <1>12, RewriteKeeps
  <1>13. CASE daily' = [daily EXCEPT ![d] = old]
    BY <1>2, <1>4, <1>6, <1>7, <1>13, RewriteKeeps
  <1>14. CASE old.in = Null /\ daily' = [daily EXCEPT ![d] = first]
    BY <1>2, <1>4, <1>7, <1>8, <1>11, <1>14, RewriteKeeps
  <1> QED BY <1>9, <1>12, <1>13, <1>14

LEMMA PunchOutKeeps ==
    ASSUME AttInv, NEW w \in Punches, PunchOut(w)
    PROVE  AttInv'
  <1> USE AttendanceAssumption
  <1>1. AttTypeOK /\ HoursMatch /\ InFlight /\ TimesExplained
    BY DEF AttInv
  <1>2. /\ attPc[w] = "daily" /\ attCtx[w].punch.type = "OUT"
        /\ Done(w) /\ moment' = moment /\ logs' = logs /\ approved' = approved
    BY DEF PunchOut
  <1>3. PICK d \in Today(w) :
          daily' = [daily EXCEPT ![d] =
            IF ~HasRow(d) THEN @
            ELSE Row(@.in, moment, IF @.in = Null THEN Null ELSE moment - @.in, @.status, @.validation)]
    BY DEF PunchOut
  <1>4. d \in Days
    BY <1>1, <1>2, TodayIsADay
  <1> DEFINE old == daily[d]
             worked == IF old.in = Null THEN Null ELSE moment - old.in
             last == Row(old.in, moment, worked, old.status, old.validation)
  <1>5. moment \in Int /\ moment # Null /\ moment \in Hours
    BY <1>1 DEF AttTypeOK, Hours
  <1>6. RowOK(old) /\ old \in DailyStatus
    BY <1>1, <1>4, RowsOK DEF AttTypeOK
  <1>7. Explained(old.in, "IN", CheckInOf, d) /\ Explained(old.out, "OUT", CheckOutOf, d)
    BY <1>1, <1>4 DEF TimesExplained
  <1>8. Explained(moment, "OUT", CheckOutOf, d)
    BY <1>1, <1>2, PunchExplains
  <1>9. daily' = [daily EXCEPT ![d] = old] \/ daily' = [daily EXCEPT ![d] = last]
    BY <1>1, <1>3, <1>4 DEF AttTypeOK
  <1>10. RowOK(last) /\ last.in = old.in /\ last.out = moment
    <2>1. /\ old.in \in Hours /\ old.status \in {"NONE", "PRESENT", "ABSENT"}
          /\ old.validation \in {"NONE", "TO_VALIDATE", "VALIDATED", "REJECTED"}
      BY <1>6 DEF DailyStatus
    <2>2. worked \in Hours
      BY <1>5, <2>1 DEF Hours
    <2> HIDE DEF worked
    <2>3. last \in DailyStatus
      BY <1>5, <2>1, <2>2, RowTyped
    <2>4. /\ last.in = old.in /\ last.out = moment /\ last.worked = worked
          /\ last.status = old.status
      BY RowFields
    <2>5. worked # Null => old.in # Null /\ worked = moment - old.in
      BY DEF worked
    <2> QED BY <1>5, <1>6, <2>3, <2>4, <2>5 DEF RowOK
  <1> HIDE DEF old, last
  <1>11. CASE daily' = [daily EXCEPT ![d] = old]
    BY <1>2, <1>4, <1>6, <1>7, <1>11, RewriteKeeps
  <1>12. CASE daily' = [daily EXCEPT ![d] = last]
    BY <1>2, <1>4, <1>7, <1>8, <1>10, <1>12, RewriteKeeps
  <1> QED BY <1>9, <1>11, <1>12

LEMMA SyncKeeps ==
    ASSUME AttInv, NEW w \in Punches, ApproveSync(w)
    PROVE  AttInv'
  <1> USE AttendanceAssumption
  <1> DEFINE r == attCtx[w].request
             row == Row(CheckInOf[r], CheckOutOf[r], CheckOutOf[r] - CheckInOf[r], "PRESENT", "VALIDATED")
             d == Day(CheckInOf[r])
  <1>1. AttTypeOK /\ HoursMatch /\ InFlight /\ TimesExplained
    BY DEF AttInv
  <1>2. /\ attPc[w] = "sync" /\ Done(w)
        /\ moment' = moment /\ logs' = logs /\ approved' = approved
        /\ daily' = [daily EXCEPT ![d] = row]
    BY DEF ApproveSync
  <1>3. r \in approved /\ r \in Requests
    BY <1>1, <1>2 DEF AttTypeOK, InFlight
  <1>4. CheckInOf[r] \in 0..LastMoment /\ CheckOutOf[r] \in 0..LastMoment
    BY <1>3
  <1>5. d \in Days
    BY <1>4, DayOfMoment
  <1>6. /\ CheckInOf[r] \in Hours /\ CheckOutOf[r] \in Hours
        /\ CheckOutOf[r] - CheckInOf[r] \in Hours
        /\ CheckInOf[r] # Null /\ CheckOutOf[r] # Null
    BY <1>4 DEF Hours
  <1>7. row \in DailyStatus
    BY <1>6, RowTyped
  <1>8. /\ row.in = CheckInOf[r] /\ row.out = CheckOutOf[r]
        /\ row.worked = CheckOutOf[r] - CheckInOf[r] /\ row.status = "PRESENT"
    BY RowFields
  <1>9. RowOK(row)
    BY <1>6, <1>7, <1>8 DEF RowOK
  <1>10. Explained(row.in, "IN", CheckInOf, d) /\ Explained(row.out, "OUT", CheckOutOf, d)
    BY <1>3, <1>8 DEF Explained
  <1> HIDE DEF row, d
  <1> QED BY <1>2, <1>5, <1>9, <1>10, RewriteKeeps

LEMMA SecondFailsKeeps ==
    ASSUME AttInv, NEW w \in Punches, SecondFails(w)
    PROVE  AttInv'
  <1>1. AttTypeOK /\ HoursMatch /\ InFlight /\ TimesExplained
    BY DEF AttInv
  <1>2. /\ Done(w) /\ moment' = moment /\ logs' = logs
        /\ daily' = daily /\ approved' = approved
    BY DEF SecondFails
  <1>3. AttTypeOK'
    BY <1>1, <1>2, DoneKeepsTypes DEF AttTypeOK
  <1>4. InFlight'
    BY <1>1, <1>2, DoneKeepsFlights
  <1>5. HoursMatch'
    BY <1>1, <1>2 DEF HoursMatch
  <1>6. TimesExplained'
    BY <1>1, <1>2, MoreExplains
  <1> QED BY <1>3, <1>4, <1>5, <1>6 DEF AttInv

LEMMA ValidateKeeps ==
    ASSUME AttInv, NEW d \in Days, NEW v \in {"VALIDATED", "REJECTED"}, Validate(d, v)
    PROVE  AttInv'
  <1> DEFINE old == daily[d]
             row == Row(old.in, old.out, old.worked, old.status, v)
  <1>1. AttTypeOK /\ HoursMatch /\ InFlight /\ TimesExplained
    BY DEF AttInv
  <1>2. RowOK(old) /\ old \in DailyStatus
    BY <1>1, RowsOK DEF AttTypeOK
  <1>3. /\ daily' = [daily EXCEPT ![d] = row]
        /\ moment' = moment /\ logs' = logs /\ approved' = approved
        /\ attPc' = attPc /\ attCtx' = attCtx
    BY <1>1 DEF Validate, AttTypeOK
  <1>4. row \in DailyStatus
    <2>1. /\ old.in \in Hours /\ old.out \in Hours /\ old.worked \in Hours
          /\ old.status \in {"NONE", "PRESENT", "ABSENT"}
      BY <1>2 DEF DailyStatus
    <2> QED BY <2>1, RowTyped
  <1>5. /\ row.in = old.in /\ row.out = old.out /\ row.worked = old.worked
        /\ row.status = old.status
    BY RowFields
  <1>6. RowOK(row)
    BY <1>2, <1>4, <1>5 DEF RowOK
  <1>7. Explained(row.in, "IN", CheckInOf, d) /\ Explained(row.out, "OUT", CheckOutOf, d)
    BY <1>1, <1>5 DEF TimesExplained
  <1> HIDE DEF row
  <1>8. daily' \in [Days -> DailyStatus] /\ HoursMatch'
    BY <1>1, <1>3, <1>6, OneRow
  <1>9. TimesExplained'
    BY <1>1, <1>3, <1>7, OneRowExplained
  <1>10. AttTypeOK'
    BY <1>1, <1>3, <1>8 DEF AttTypeOK
  <1>11. InFlight'
    BY <1>1, <1>3 DEF InFlight
  <1> QED BY <1>8, <1>9, <1>10, <1>11 DEF AttInv

LEMMA ApproveKeeps ==
    ASSUME AttInv, NEW w \in Punches, NEW r \in Requests, ApproveRequest(w, r)
    PROVE  AttInv'
  <1> DEFINE ctx == Approving(r)
  <1>1. AttTypeOK /\ HoursMatch /\ InFlight /\ TimesExplained
    BY DEF AttInv
  <1>2. ctx \in AttLocal /\ ctx.request = r
    BY AttendanceAssumption DEF AttLocal, Approving, NoPunch, RawLog
  <1>3. /\ attPc' = [attPc EXCEPT ![w] = "sync"]
        /\ attCtx' = [attCtx EXCEPT ![w] = ctx]
        /\ approved' = approved \cup {r}
        /\ moment' = moment /\ logs' = logs /\ daily' = daily
    BY DEF ApproveRequest
  <1> HIDE DEF ctx
  <1>4. attPc' \in [Punches -> {"idle", "daily", "sync"}] /\ attCtx' \in [Punches -> AttLocal]
    BY <1>1, <1>2, <1>3 DEF AttTypeOK
  <1>5. /\ attPc'[w] = "sync" /\ attCtx'[w] = ctx
        /\ \A v \in Punches \ {w} : attPc'[v] = attPc[v] /\ attCtx'[v] = attCtx[v]
    BY <1>1, <1>3 DEF AttTypeOK
  <1>6. AttTypeOK'
    BY <1>1, <1>2, <1>3, <1>4, <1>5 DEF AttTypeOK
  <1>7. InFlight'
    BY <1>1, <1>2, <1>3, <1>5 DEF InFlight
  <1>8. HoursMatch'
    BY <1>1, <1>3 DEF HoursMatch
  <1>9. TimesExplained'
    BY <1>1, <1>3, MoreExplains
  <1> QED BY <1>6, <1>7, <1>8, <1>9 DEF AttInv

LEMMA TimePassesKeeps ==
    ASSUME AttInv, TimePasses
    PROVE  AttInv'
  <1>1. AttTypeOK /\ HoursMatch /\ InFlight /\ TimesExplained
    BY DEF AttInv
  <1>2. AttTypeOK'
    BY <1>1, AttendanceAssumption DEF AttTypeOK, TimePasses
  <1>3. InFlight'
    <2>1. \A w \in Punches : attCtx[w].punch.since \in Nat
      BY <1>1 DEF AttTypeOK, AttLocal, RawLog
    <2> QED BY <1>1, <2>1 DEF InFlight, TimePasses, AttTypeOK
  <1>4. HoursMatch'
    BY <1>1 DEF HoursMatch, TimePasses
  <1>5. TimesExplained'
    BY <1>1, MoreExplains DEF TimePasses
  <1> QED BY <1>2, <1>3, <1>4, <1>5 DEF AttInv

LEMMA NextAtt ==
    AttInv /\ [AttNext]_attVars => AttInv'
  <1> SUFFICES ASSUME AttInv, [AttNext]_attVars PROVE AttInv'
    OBVIOUS
  <1>1. ASSUME NEW w \in Punches, NEW type \in {"IN", "OUT"}, Punch(w, type) PROVE AttInv'
    BY <1>1, PunchKeeps
  <1>2. ASSUME NEW w \in Punches, PunchIn(w) PROVE AttInv'
    BY <1>2, PunchInKeeps
  <1>3. ASSUME NEW w \in Punches, PunchOut(w) PROVE AttInv'
    BY <1>3, PunchOutKeeps
  <1>4. ASSUME NEW w \in Punches, ApproveSync(w) PROVE AttInv'
    BY <1>4, SyncKeeps
  <1>5. ASSUME NEW w \in Punches, SecondFails(w) PROVE AttInv'
    BY <1>5, SecondFailsKeeps
  <1>6. ASSUME NEW w \in Punches, NEW r \in Requests, ApproveRequest(w, r) PROVE AttInv'
    BY <1>6, ApproveKeeps
  <1>7. ASSUME NEW d \in Days, NEW v \in {"VALIDATED", "REJECTED"}, Validate(d, v) PROVE AttInv'
    BY <1>7, ValidateKeeps
  <1>8. CASE TimePasses
    BY <1>8, TimePassesKeeps
  <1>9. CASE UNCHANGED attVars
    BY <1>9 DEF attVars, AttInv, AttTypeOK, HoursMatch, InFlight, TimesExplained, Explained
  <1> QED BY <1>1, <1>2, <1>3, <1>4, <1>5, <1>6, <1>7, <1>8, <1>9 DEF AttNext

LEMMA AttInvariant ==
    AttSpec => []AttInv
  BY InitAtt, NextAtt, PTL DEF AttSpec

\* Every state of the daily status, the raw log and the requests in flight has
\* its type, whatever the days, the clock and the requests are.
THEOREM AttendanceTypeCorrect ==
    AttSpec => []AttTypeOK
  <1>1. AttInv => AttTypeOK
    BY DEF AttInv
  <1> QED BY <1>1, AttInvariant, PTL

\* The hours of a day follow from its times, however punches, corrections and
\* validations of it are interleaved.
THEOREM HoursFollowTimes ==
    AttSpec => []HoursMatch
  <1>1. AttInv => HoursMatch
    BY DEF AttInv
  <1> QED BY <1>1, AttInvariant, PTL

\* Every time in the daily status goes back to the raw log or to an approved
\* request, also across midnight.
THEOREM TimesGoBack ==
    AttSpec => []TimesExplained
  <1>1. AttInv => TimesExplained
    BY DEF AttInv
  <1> QED BY <1>1, AttInvariant, PTL

-----------------------------------------------------------------------------
\* A step that leaves the clock, or moves it on, and does not bring back a row
\* to validate, keeps a day settled.
LEMMA StaysSettled ==
    ASSUME AttTypeOK, NEW d \in Days, Settled(d),
           moment' \in 0..LastMoment, moment <= moment',
           daily'[d].validation # "TO_VALIDATE",
           \A w \in Punches : attPc'[w] = "daily" => d < Day(attCtx'[w].punch.since)
    PROVE  Settled(d)'
  <1>1. moment \in Nat /\ moment' \in Nat /\ Day(LastMoment) \in Nat
    BY DayMonotone, AttendanceAssumption DEF AttTypeOK
  <1>2. Day(moment) \in Nat /\ Day(moment') \in Nat /\ Day(moment) <= Day(moment')
    BY <1>1, DayMonotone
  <1>3. d < Day(moment')
    BY <1>1, <1>2 DEF Settled, Days
  <1> QED BY <1>3 DEF Settled

\* An answered request is one fewer that could name the day.
LEMMA DoneStaysSettled ==
    ASSUME AttTypeOK, NEW d \in Days, Settled(d), NEW w \in Punches, Done(w),
           moment' = moment, daily'[d].validation # "TO_VALIDATE"
    PROVE  Settled(d)'
  <1>1. \A v \in Punches : attPc'[v] = "daily" => attPc[v] = "daily" /\ attCtx'[v] = attCtx[v]
    BY DEF Done, AttTypeOK
  <1>2. \A v \in Punches : attPc'[v] = "daily" => d < Day(attCtx'[v].punch.since)
    BY <1>1 DEF Settled
  <1>3. moment' \in 0..LastMoment /\ moment <= moment'
    BY DEF AttTypeOK
  <1> QED BY <1>2, <1>3, StaysSettled

\* A punch in flight does not name a settled day.
LEMMA PunchMissesSettled ==
    ASSUME AttTypeOK, InFlight, NEW d \in Days, Settled(d),
           NEW w \in Punches, attPc[w] = "daily", NEW e \in Today(w)
    PROVE  e # d /\ e \in Days
  <1>1. e \in Days /\ Day(attCtx[w].punch.since) <= e
    BY TodayIsADay
  <1>2. d < Day(attCtx[w].punch.since)
    BY DEF Settled
  <1>3. attCtx[w].punch.since \in 0..LastMoment
    BY DEF AttTypeOK, AttLocal, RawLog
  <1>4. Day(attCtx[w].punch.since) \in Days /\ Day(LastMoment) \in Nat
    BY <1>3, DayOfMoment, DayMonotone, AttendanceAssumption
  <1> QED BY <1>1, <1>2, <1>4 DEF Days

LEMMA SettledStep ==
    ASSUME AttInv, [AttNext]_attVars, NEW d \in Days, Settled(d)
    PROVE  Settled(d)'
  <1> USE AttendanceAssumption
  <1>1. AttTypeOK /\ InFlight /\ daily \in [Days -> DailyStatus] /\ moment \in 0..LastMoment
    BY DEF AttInv, AttTypeOK
  <1>2. daily[d].validation # "TO_VALIDATE"
    BY DEF Settled
  <1>3. ASSUME NEW w \in Punches, NEW type \in {"IN", "OUT"}, Punch(w, type) PROVE Settled(d)'
    <2>1. attCtx'[w].punch.since = moment /\ moment' = moment /\ daily' = daily
      BY <1>1, <1>3 DEF Punch, AttTypeOK, Punching
    <2>2. \A v \in Punches \ {w} : attPc'[v] = attPc[v] /\ attCtx'[v] = attCtx[v]
      BY <1>1, <1>3 DEF Punch, AttTypeOK
    <2>3. \A v \in Punches : attPc'[v] = "daily" => d < Day(attCtx'[v].punch.since)
      BY <2>1, <2>2 DEF Settled
    <2> QED BY <1>1, <1>2, <2>1, <2>3, StaysSettled
  <1>4. ASSUME NEW w \in Punches, PunchIn(w) PROVE Settled(d)'
    <2>1. attPc[w] = "daily" /\ Done(w) /\ moment' = moment
      BY <1>4 DEF PunchIn
    <2>2. PICK e \in Today(w) : \E row : daily' = [daily EXCEPT ![e] = row]
      BY <1>4 DEF PunchIn
    <2>3. daily'[d] = daily[d]
      BY <1>1, <2>1, <2>2, PunchMissesSettled
    <2> QED BY <1>1, <1>2, <2>1, <2>3, DoneStaysSettled
  <1>5. ASSUME NEW w \in Punches, PunchOut(w) PROVE Settled(d)'
    <2>1. attPc[w] = "daily" /\ Done(w) /\ moment' = moment
      BY <1>5 DEF PunchOut
    <2>2. PICK e \in Today(w) : \E row : daily' = [daily EXCEPT ![e] = row]
      BY <1>5 DEF PunchOut
    <2>3. daily'[d] = daily[d]
      BY <1>1, <2>1, <2>2, PunchMissesSettled
    <2> QED BY <1>1, <1>2, <2>1, <2>3, DoneStaysSettled
  <1>6. ASSUME NEW w \in Punches, ApproveSync(w) PROVE Settled(d)'
    <2> DEFINE r == attCtx[w].request
               row == Row(CheckInOf[r], CheckOutOf[r], CheckOutOf[r] - CheckInOf[r], "PRESENT", "VALIDATED")
    <2>1. /\ Done(w) /\ moment' = moment
          /\ daily' = [daily EXCEPT ![Day(CheckInOf[r])] = row]
      BY <1>6 DEF ApproveSync
    <2>2. row.validation = "VALIDATED"
      BY RowFields
    <2> HIDE DEF row
    <2>3. daily'[d] = daily[d] \/ daily'[d] = row
      BY <1>1, <2>1
    <2>4. daily'[d].validation # "TO_VALIDATE"
      BY <1>2, <2>2, <2>3
    <2> QED BY <1>1, <2>1, <2>4, DoneStaysSettled
  <1>7. ASSUME NEW w \in Punches, SecondFails(w) PROVE Settled(d)'
    <2>1. Done(w) /\ moment' = moment /\ daily' = daily
      BY <1>7 DEF SecondFails
    <2> QED BY <1>1, <1>2, <2>1, DoneStaysSettled
  <1>8. ASSUME NEW w \in Punches, NEW r \in Requests, ApproveRequest(w, r) PROVE Settled(d)'
    <2>1. moment' = moment /\ daily' = daily
      BY <1>8 DEF ApproveRequest
    <2>2. \A v \in Punches : attPc'[v] = "daily" => attPc[v] = "daily" /\ attCtx'[v] = attCtx[v]
      BY <1>1, <1>8 DEF ApproveRequest, AttTypeOK
    <2>3. \A v \in Punches : attPc'[v] = "daily" => d < Day(attCtx'[v].punch.since)
      BY <2>2 DEF Settled
    <2> QED BY <1>1, <1>2, <2>1, <2>3, StaysSettled
  <1>9. ASSUME NEW e \in Days, NEW v \in {"VALIDATED", "REJECTED"}, Validate(e, v) PROVE Settled(d)'
    <2> DEFINE old == daily[e]
               row == Row(old.in, old.out, old.worked, old.status, v)
    <2>1. daily' = [daily EXCEPT ![e] = row]
      BY <1>1, <1>9 DEF Validate
    <2>2. moment' = moment /\ attPc' = attPc /\ attCtx' = attCtx
      BY <1>9 DEF Validate
    <2>3. row.validation # "TO_VALIDATE"
      BY RowFields
    <2> HIDE DEF row
    <2>4. daily'[d] = daily[d] \/ daily'[d] = row
      BY <1>1, <2>1
    <2>5. daily'[d].validation # "TO_VALIDATE"
      BY <1>2, <2>3, <2>4
    <2>6. \A w \in Punches : attPc'[w] = "daily" => d < Day(attCtx'[w].punch.since)
      BY <2>2 DEF Settled
    <2> QED BY <1>1, <2>2, <2>5, <2>6, StaysSettled
  <1>10. CASE TimePasses
    <2>1. moment' \in 0..LastMoment /\ moment <= moment'
      BY <1>1, <1>10 DEF TimePasses
    <2>2. daily' = daily /\ attPc' = attPc /\ attCtx' = attCtx
      BY <1>10 DEF TimePasses
    <2>3. \A w \in Punches : attPc'[w] = "daily" => d < Day(attCtx'[w].punch.since)
      BY <2>2 DEF Settled
    <2> QED BY <1>1, <1>2, <2>1, <2>2, <2>3, StaysSettled
  <1>11. CASE UNCHANGED attVars
    BY <1>11 DEF attVars, Settled
  <1> QED BY <1>3, <1>4, <1>5, <1>6, <1>7, <1>8, <1>9, <1>10, <1>11 DEF AttNext

\* Once a past day has no row to validate and no punch in flight that could
\* name it, nothing brings such a row back: what was ready for payroll stays so.
THEOREM SettledDaysStaySettled ==
    AttSpec => SettledStaysSettled
  <1>1. AttInv /\ [AttNext]_attVars => [\A d \in Days : Settled(d) => Settled(d)']_attVars
    BY SettledStep
  <1> QED BY <1>1, AttInvariant, PTL DEF AttSpec, SettledStaysSettled
=============================================================================
