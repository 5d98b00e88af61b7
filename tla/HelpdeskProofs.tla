--------------------------- MODULE HelpdeskProofs ---------------------------
(***************************************************************************)
(* Proofs that the helpdesk keeps its promises for any number of requests, *)
(* tickets and years.                                                      *)
(***************************************************************************)
EXTENDS Helpdesk, FiniteSetTheorems, TLAPS

\* No ticket has a sequence number above the number of tickets, and no request
\* has counted more tickets than there are: tickets are never deleted.
SequenceBounded ==
    /\ \A n \in DOMAIN tickets : n[2] <= TicketCount
    /\ \A w \in Desks : deskPc[w] = "insert" => deskCtx[w].count <= TicketCount

\* A transition that read an ended status will write it to a ticket that has
\* resolved_at, which nothing clears.
StaleIsResolved ==
    \A w \in Desks :
        deskPc[w] = "write" /\ deskCtx[w].status \in Ended =>
            tickets[deskCtx[w].ticket].resolved

DeskInv == DeskTypeOK /\ SequenceBounded /\ ResolvedHasTime /\ StaleIsResolved

\* The records that requests keep are well-typed.
LEMMA DeskLocals ==
    /\ \A c, y \in Nat : Counted(c, y) \in DeskLocal
    /\ \A n \in Numbers, s \in TicketStatus : Looked(n, s) \in DeskLocal
    /\ NoDesk \in DeskLocal
<1>1. <<0, 0>> \in Numbers /\ "" \in TicketStatus /\ FirstYear \in Nat
  BY HelpdeskAssumption DEF Numbers, TicketStatus
<1> QED
  BY <1>1 DEF Counted, Looked, NoDesk, DeskLocal

\* The target of a transition is a status; it is ended only for the actions
\* that set resolved_at, or if the status that was read is.
LEMMA TransitionTargets ==
    ASSUME NEW s \in TicketStatus, NEW a \in TicketActions
    PROVE  /\ ProcessTicketTransition(s, a) \in TicketStatus
           /\ ProcessTicketTransition(s, a) \in Ended => a \in {"RESOLVE", "CLOSE"} \/ s \in Ended
BY DEF ProcessTicketTransition, TicketStatus, TicketActions, Ended

\* With no ticket and no request there is nothing to show.
LEMMA DeskInitially == DeskInit => DeskInv
<1> SUFFICES ASSUME DeskInit PROVE DeskInv
  OBVIOUS
<1>1. DOMAIN tickets = {} /\ IsFiniteSet({})
  BY FS_EmptySet DEF DeskInit
<1>2. DeskTypeOK
  BY <1>1, DeskLocals, HelpdeskAssumption DEF DeskInit, DeskTypeOK, Ticket
<1> QED
  BY <1>1, <1>2 DEF DeskInit, DeskInv, SequenceBounded, ResolvedHasTime, StaleIsResolved

\* The number of tickets is a natural number.
LEMMA TicketCountNat == DeskTypeOK => TicketCount \in Nat
BY FS_CardinalityType DEF DeskTypeOK, TicketCount

\* A request that is answered leaves nothing behind.
LEMMA AnswerPreserves ==
    ASSUME DeskInv, NEW w \in Desks, Answer(w), UNCHANGED <<year, tickets>>
    PROVE  DeskInv'
<1>1. deskPc' \in [Desks -> {"idle", "insert", "write"}]
  BY DEF Answer, DeskInv, DeskTypeOK
<1>2. deskCtx' \in [Desks -> DeskLocal]
  BY DeskLocals DEF Answer, DeskInv, DeskTypeOK
<1>3. \A v \in Desks : v # w => deskPc'[v] = deskPc[v] /\ deskCtx'[v] = deskCtx[v]
  BY DEF Answer, DeskInv, DeskTypeOK
<1>4. deskPc'[w] = "idle"
  BY DEF Answer, DeskInv, DeskTypeOK
<1>5. DeskTypeOK'
  BY <1>1, <1>2, <1>3, <1>4 DEF DeskInv, DeskTypeOK, Exists
<1>6. SequenceBounded'
  BY <1>3, <1>4 DEF DeskInv, SequenceBounded, TicketCount
<1>7. ResolvedHasTime' /\ StaleIsResolved'
  BY <1>3, <1>4 DEF DeskInv, ResolvedHasTime, StaleIsResolved
<1> QED
  BY <1>5, <1>6, <1>7 DEF DeskInv

\* A count is at most the number of tickets, also if it failed.
LEMMA CreateCountPreserves ==
    ASSUME DeskInv, NEW w \in Desks, CreateCount(w)
    PROVE  DeskInv'
<1> USE DEF DeskInv
<1>1. TicketCount \in Nat
  BY TicketCountNat
<1>2. PICK c \in {TicketCount} \cup (IF DeskFaults THEN {0} ELSE {}) :
        deskCtx' = [deskCtx EXCEPT ![w] = Counted(c, year)]
  BY DEF CreateCount
<1>3. c \in Nat /\ c <= TicketCount /\ year \in Nat
  BY <1>1, HelpdeskAssumption DEF DeskTypeOK
<1>4. deskPc' = [deskPc EXCEPT ![w] = "insert"] /\ UNCHANGED <<year, tickets>>
  BY DEF CreateCount
<1>5. deskPc' \in [Desks -> {"idle", "insert", "write"}]
  BY <1>4 DEF DeskTypeOK
<1>6. Counted(c, year) \in DeskLocal /\ Counted(c, year).count = c
  BY <1>3, DeskLocals DEF Counted
<1>7. deskCtx' \in [Desks -> DeskLocal]
  BY <1>2, <1>6 DEF DeskTypeOK
<1>8. \A v \in Desks : v # w => deskPc'[v] = deskPc[v] /\ deskCtx'[v] = deskCtx[v]
  BY <1>2, <1>4 DEF DeskTypeOK
<1>9. deskPc'[w] = "insert" /\ deskCtx'[w].count = c
  BY <1>2, <1>4, <1>6 DEF DeskTypeOK
<1>10. DeskTypeOK'
  BY <1>4, <1>5, <1>7, <1>8, <1>9 DEF DeskTypeOK, Exists
<1>11. SequenceBounded'
  BY <1>3, <1>4, <1>8, <1>9 DEF SequenceBounded, TicketCount
<1>12. ResolvedHasTime' /\ StaleIsResolved'
  BY <1>4, <1>8, <1>9 DEF ResolvedHasTime, StaleIsResolved
<1> QED
  BY <1>10, <1>11, <1>12

\* A new ticket raises the count with its sequence number.
LEMMA CreateInsertPreserves ==
    ASSUME DeskInv, NEW w \in Desks, CreateInsert(w)
    PROVE  DeskInv'
<1> USE DEF DeskInv
<1> DEFINE Opened == [status |-> "OPEN", resolved |-> FALSE]
<1>1. PICK y \in deskCtx[w].since..year :
        LET n == GenerateTicketNumber(y, deskCtx[w].count + 1) IN
        /\ ~Exists(n)
        /\ tickets' = [m \in DOMAIN tickets \cup {n} |-> IF m = n THEN Opened ELSE tickets[m]]
  BY DEF CreateInsert
<1> DEFINE n == <<y, deskCtx[w].count + 1>>
<1>2. n \notin DOMAIN tickets
  BY <1>1 DEF Exists, GenerateTicketNumber
<1>3. tickets' = [m \in DOMAIN tickets \cup {n} |-> IF m = n THEN Opened ELSE tickets[m]]
  BY <1>1 DEF GenerateTicketNumber
<1>4. deskCtx[w] \in DeskLocal /\ year \in Nat
  BY HelpdeskAssumption DEF DeskTypeOK
<1>5. n \in Numbers /\ n[2] = deskCtx[w].count + 1
  BY <1>4 DEF Numbers, DeskLocal
<1>6. DOMAIN tickets' = DOMAIN tickets \cup {n}
  BY <1>3
<1>7. /\ IsFiniteSet(DOMAIN tickets')
      /\ TicketCount' = TicketCount + 1
  BY <1>2, <1>6, FS_AddElement DEF DeskTypeOK, TicketCount
<1>8. TicketCount \in Nat
  BY TicketCountNat
<1>9. deskPc[w] = "insert" /\ Answer(w) /\ year' = year
  BY DEF CreateInsert
<1>10. deskCtx[w].count <= TicketCount /\ deskCtx[w].count \in Nat
  BY <1>4, <1>9 DEF SequenceBounded, DeskLocal
<1>11. deskPc' \in [Desks -> {"idle", "insert", "write"}]
  BY <1>9 DEF Answer, DeskTypeOK
<1>12. deskCtx' \in [Desks -> DeskLocal]
  BY <1>9, DeskLocals DEF Answer, DeskTypeOK
<1>13. \A v \in Desks : v # w => deskPc'[v] = deskPc[v] /\ deskCtx'[v] = deskCtx[v]
  BY <1>9 DEF Answer, DeskTypeOK
<1>14. deskPc'[w] = "idle"
  BY <1>9 DEF Answer, DeskTypeOK
<1>15. \A m \in DOMAIN tickets : tickets'[m] = tickets[m]
  BY <1>2, <1>3
<1>16. tickets'[n] = Opened
  BY <1>3
<1>17. Opened \in Ticket /\ Opened.status \notin Ended
  BY DEF Ticket, TicketStatus, Ended
<1>18. tickets' \in [DOMAIN tickets' -> Ticket]
  <2>1. \A m \in DOMAIN tickets : tickets[m] \in Ticket
    BY DEF DeskTypeOK
  <2> HIDE DEF Opened, n
  <2> QED
    BY <1>3, <1>6, <1>17, <2>1
<1>19. DeskTypeOK'
  <2>1. DOMAIN tickets' \subseteq Numbers
    BY <1>5, <1>6 DEF DeskTypeOK
  <2>2. \A v \in Desks : deskPc'[v] = "write" => deskCtx'[v].ticket \in DOMAIN tickets'
    BY <1>6, <1>13, <1>14 DEF DeskTypeOK, Exists
  <2>3. year' \in FirstYear..LastYear
    BY <1>9 DEF DeskTypeOK
  <2> QED
    BY <1>7, <1>11, <1>12, <1>18, <2>1, <2>2, <2>3 DEF DeskTypeOK, Exists
<1>20. SequenceBounded'
  <2>1. ASSUME NEW m \in DOMAIN tickets' PROVE m[2] <= TicketCount'
    <3>1. CASE m = n
      BY <1>5, <1>7, <1>8, <1>10, <3>1
    <3>2. CASE m \in DOMAIN tickets
      <4>1. m[2] \in Nat
        BY <3>2 DEF DeskTypeOK, Numbers
      <4> QED
        BY <1>7, <1>8, <3>2, <4>1 DEF SequenceBounded
    <3> QED
      BY <1>6, <3>1, <3>2
  <2>2. ASSUME NEW v \in Desks, deskPc'[v] = "insert" PROVE deskCtx'[v].count <= TicketCount'
    <3>1. v # w /\ deskPc[v] = "insert" /\ deskCtx'[v] = deskCtx[v]
      BY <1>13, <1>14, <2>2
    <3>2. deskCtx[v].count \in Nat
      BY DEF DeskTypeOK, DeskLocal
    <3> QED
      BY <1>7, <1>8, <3>1, <3>2 DEF SequenceBounded
  <2> QED
    BY <2>1, <2>2 DEF SequenceBounded
<1>21. ResolvedHasTime'
  BY <1>6, <1>15, <1>16, <1>17 DEF ResolvedHasTime
<1>22. StaleIsResolved'
  BY <1>13, <1>14, <1>15 DEF StaleIsResolved, DeskTypeOK, Exists
<1> QED
  BY <1>19, <1>20, <1>21, <1>22

\* The status that is read is the ticket's, or empty.
LEMMA TransitionReadPreserves ==
    ASSUME DeskInv, NEW w \in Desks, NEW n \in DOMAIN tickets, TransitionRead(w, n)
    PROVE  DeskInv'
<1> USE DEF DeskInv
<1>1. PICK s \in {tickets[n].status} \cup (IF DeskFaults THEN {""} ELSE {}) :
        deskCtx' = [deskCtx EXCEPT ![w] = Looked(n, s)]
  BY DEF TransitionRead
<1>2. deskPc' = [deskPc EXCEPT ![w] = "write"] /\ UNCHANGED <<year, tickets>>
  BY DEF TransitionRead
<1>3. tickets[n] \in Ticket /\ n \in Numbers
  BY DEF DeskTypeOK
<1>4. s \in TicketStatus /\ (s \in Ended => tickets[n].resolved)
  <2>1. CASE s = tickets[n].status
    BY <1>3, <2>1 DEF Ticket, ResolvedHasTime
  <2>2. CASE s = ""
    BY <2>2 DEF TicketStatus, Ended
  <2> QED
    BY <2>1, <2>2
<1>5. deskPc' \in [Desks -> {"idle", "insert", "write"}]
  BY <1>2 DEF DeskTypeOK
<1>6. Looked(n, s) \in DeskLocal /\ Looked(n, s).ticket = n /\ Looked(n, s).status = s
  BY <1>3, <1>4, DeskLocals DEF Looked
<1>7. deskCtx' \in [Desks -> DeskLocal]
  BY <1>1, <1>6 DEF DeskTypeOK
<1>8. \A v \in Desks : v # w => deskPc'[v] = deskPc[v] /\ deskCtx'[v] = deskCtx[v]
  BY <1>1, <1>2 DEF DeskTypeOK
<1>9. deskPc'[w] = "write" /\ deskCtx'[w].ticket = n /\ deskCtx'[w].status = s
  BY <1>1, <1>2, <1>6 DEF DeskTypeOK
<1>10. DeskTypeOK'
  BY <1>2, <1>5, <1>7, <1>8, <1>9 DEF DeskTypeOK, Exists
<1>11. SequenceBounded'
  BY <1>2, <1>8, <1>9 DEF SequenceBounded, TicketCount
<1>12. ResolvedHasTime' /\ StaleIsResolved'
  BY <1>2, <1>4, <1>8, <1>9 DEF ResolvedHasTime, StaleIsResolved
<1> QED
  BY <1>10, <1>11, <1>12

\* A status that is written is ended only with resolved_at, old or new.
LEMMA TransitionWritePreserves ==
    ASSUME DeskInv, NEW w \in Desks, TransitionWrite(w)
    PROVE  DeskInv'
<1> USE DEF DeskInv
<1> DEFINE k == deskCtx[w].ticket
           s == deskCtx[w].status
<1>1. deskPc[w] = "write" /\ Answer(w) /\ year' = year
  BY DEF TransitionWrite
<1>2. k \in DOMAIN tickets /\ s \in TicketStatus /\ tickets[k] \in Ticket
  BY <1>1 DEF DeskTypeOK, Exists, DeskLocal
<1>3. PICK a \in TicketActions :
        tickets' = [tickets EXCEPT ![k] =
          [status |-> ProcessTicketTransition(s, a),
           resolved |-> a \in {"RESOLVE", "CLOSE"} \/ @.resolved]]
  BY DEF TransitionWrite
<1> DEFINE new == [status |-> ProcessTicketTransition(s, a),
                   resolved |-> a \in {"RESOLVE", "CLOSE"} \/ tickets[k].resolved]
<1>4. DOMAIN tickets' = DOMAIN tickets /\ tickets'[k] = new
  BY <1>2, <1>3
<1>5. \A m \in DOMAIN tickets : m # k => tickets'[m] = tickets[m]
  BY <1>2, <1>3
<1>6. new \in Ticket /\ (new.status \in Ended => new.resolved) /\ (tickets[k].resolved => new.resolved)
  <2>1. ProcessTicketTransition(s, a) \in TicketStatus
    BY <1>2, TransitionTargets
  <2>2. new.status \in Ended => new.resolved
    BY <1>1, <1>2, TransitionTargets DEF StaleIsResolved
  <2> QED
    BY <2>1, <2>2 DEF Ticket
<1>7. deskPc' \in [Desks -> {"idle", "insert", "write"}]
  BY <1>1 DEF Answer, DeskTypeOK
<1>8. deskCtx' \in [Desks -> DeskLocal]
  BY <1>1, DeskLocals DEF Answer, DeskTypeOK
<1>9. \A v \in Desks : v # w => deskPc'[v] = deskPc[v] /\ deskCtx'[v] = deskCtx[v]
  BY <1>1 DEF Answer, DeskTypeOK
<1>10. deskPc'[w] = "idle"
  BY <1>1 DEF Answer, DeskTypeOK
<1> HIDE DEF new, k, s
<1>11. tickets' \in [DOMAIN tickets' -> Ticket]
  BY <1>2, <1>3, <1>4, <1>5, <1>6 DEF DeskTypeOK
<1>12. DeskTypeOK'
  BY <1>1, <1>4, <1>7, <1>8, <1>9, <1>10, <1>11 DEF DeskTypeOK, Exists
<1>13. SequenceBounded'
  BY <1>4, <1>9, <1>10 DEF SequenceBounded, TicketCount
<1>14. ResolvedHasTime'
  BY <1>4, <1>5, <1>6 DEF ResolvedHasTime
<1>15. \A m \in DOMAIN tickets : tickets[m].resolved => tickets'[m].resolved
  BY <1>4, <1>5, <1>6
<1>16. StaleIsResolved'
  BY <1>9, <1>10, <1>15 DEF StaleIsResolved, DeskTypeOK, Exists
<1> QED
  BY <1>12, <1>13, <1>14, <1>16

\* Every step of the helpdesk preserves the invariant.
LEMMA DeskInductive == DeskInv /\ [DeskNext]_deskVars => DeskInv'
<1> SUFFICES ASSUME DeskInv, [DeskNext]_deskVars PROVE DeskInv'
  OBVIOUS
<1>1. CASE NewYear
  <2>1. year' \in FirstYear..LastYear
    BY <1>1, HelpdeskAssumption DEF NewYear, DeskInv, DeskTypeOK
  <2>2. UNCHANGED <<tickets, deskPc, deskCtx>>
    BY <1>1 DEF NewYear
  <2> QED
    BY <2>1, <2>2 DEF DeskInv, DeskTypeOK, Exists, SequenceBounded, TicketCount,
                      ResolvedHasTime, StaleIsResolved
<1>2. CASE UNCHANGED deskVars
  BY <1>2 DEF deskVars, DeskInv, DeskTypeOK, Exists, SequenceBounded, TicketCount,
              ResolvedHasTime, StaleIsResolved
<1>3. ASSUME NEW w \in Desks, CreateFail(w) \/ TransitionFail(w)
      PROVE  DeskInv'
  BY <1>3, AnswerPreserves DEF CreateFail, TransitionFail
<1> QED
  BY <1>1, <1>2, <1>3, CreateCountPreserves, CreateInsertPreserves, TransitionReadPreserves,
     TransitionWritePreserves DEF DeskNext

\* The invariant holds in every state that the helpdesk reaches.
LEMMA DeskInvariant == DeskSpec => []DeskInv
BY DeskInitially, DeskInductive, PTL DEF DeskSpec

\* The tickets and the requests in flight are well-typed.
THEOREM HelpdeskTypeCorrect == DeskSpec => []DeskTypeOK
<1>1. DeskInv => DeskTypeOK
  BY DEF DeskInv
<1> QED
  BY <1>1, DeskInvariant, PTL

\* The number that HandleCreateTicket takes next is free, whatever collided,
\* failed or was counted in another year before.
THEOREM TicketNumbersNeverBlock == DeskSpec => []NextNumberFree
<1>1. DeskInv => NextNumberFree
  <2> SUFFICES ASSUME DeskInv, NEW y \in FirstYear..LastYear,
                      Exists(GenerateTicketNumber(y, TicketCount + 1))
               PROVE  FALSE
    BY DEF NextNumberFree
  <2>1. <<y, TicketCount + 1>> \in DOMAIN tickets
    BY DEF Exists, GenerateTicketNumber
  <2>2. <<y, TicketCount + 1>>[2] <= TicketCount
    BY <2>1 DEF DeskInv, SequenceBounded
  <2>3. TicketCount \in Nat
    BY TicketCountNat DEF DeskInv
  <2> QED
    BY <2>2, <2>3
<1> QED
  BY <1>1, DeskInvariant, PTL

\* Every ended ticket has its resolved_at, however transitions overlap.
THEOREM EndedTicketsHaveTimes == DeskSpec => []ResolvedHasTime
<1>1. DeskInv => ResolvedHasTime
  BY DEF DeskInv
<1> QED
  BY <1>1, DeskInvariant, PTL
=============================================================================
