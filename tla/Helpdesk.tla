------------------------------ MODULE Helpdesk ------------------------------
(***************************************************************************)
(* The tickets of the helpdesk (backend/internal/helpdesk).  A ticket is   *)
(* created with one statement that counts the tickets and one that inserts *)
(* the new one under a number made of the year and the count; it changes   *)
(* status with one statement that reads the status and one that writes it. *)
(* Nothing locks anything in between, and no service deletes a ticket or   *)
(* what it refers to.                                                      *)
(*                                                                         *)
(* The action of a transition comes with the request and is chosen where   *)
(* it is first looked at.  Subjects, notes and assignees are left out, and *)
(* so are categories and comments: one INSERT each, which nothing here     *)
(* reads again.                                                            *)
(***************************************************************************)
EXTENDS Integers, FiniteSets

CONSTANTS
    Desks,              \* requests that can be in flight at the same time
    FirstYear, LastYear,    \* bound: the years that pass
    MaxTickets,         \* bound: tickets
    DeskFaults          \* statements may fail

ASSUME HelpdeskAssumption ==
    /\ FirstYear \in Nat
    /\ LastYear \in Nat
    /\ FirstYear <= LastYear
    /\ MaxTickets \in Nat
    /\ DeskFaults \in BOOLEAN

VARIABLES
    year,               \* time.Now().Year()
    tickets,            \* helpdesk_tickets, by ticket_number
    deskPc, deskCtx

deskVars == <<year, tickets, deskPc, deskCtx>>

-----------------------------------------------------------------------------
\* TICK-<year>-<seq>: two numbers are equal only if both parts are.
GenerateTicketNumber(y, seq) == <<y, seq>>
Numbers == Nat \X Nat

\* "": what is left in currentStatus when it could not be read.
TicketStatus == {"OPEN", "IN_PROGRESS", "RESOLVED", "CLOSED", ""}
TicketActions == {"ASSIGN", "START_PROGRESS", "RESOLVE", "CLOSE", "REOPEN", "OTHER"}
Ended == {"RESOLVED", "CLOSED"}
Ticket == [status : TicketStatus, resolved : BOOLEAN]

\* Local variables of a request: count and the year it was counted in, or the
\* number of the ticket and currentStatus.
DeskLocal == [count : Nat, since : Nat, ticket : Numbers, status : TicketStatus]
Counted(c, y) ==
    [count |-> c, since |-> y, ticket |-> <<0, 0>>, status |-> ""]
Looked(n, s) ==
    [count |-> 0, since |-> FirstYear, ticket |-> n, status |-> s]
NoDesk == Counted(0, FirstYear)

Exists(n) == n \in DOMAIN tickets
TicketCount == Cardinality(DOMAIN tickets)

DeskTypeOK ==
    /\ year \in FirstYear..LastYear
    /\ IsFiniteSet(DOMAIN tickets)
    /\ DOMAIN tickets \subseteq Numbers
    /\ tickets \in [DOMAIN tickets -> Ticket]
    /\ deskPc \in [Desks -> {"idle", "insert", "write"}]
    /\ deskCtx \in [Desks -> DeskLocal]
    /\ \A w \in Desks : deskPc[w] = "write" => Exists(deskCtx[w].ticket)

\* There is no ticket yet.
DeskInit ==
    /\ year = FirstYear
    /\ tickets = [n \in {} |-> [status |-> "", resolved |-> FALSE]]
    /\ deskPc = [w \in Desks |-> "idle"]
    /\ deskCtx = [w \in Desks |-> NoDesk]

Answer(w) ==
    /\ deskPc' = [deskPc EXCEPT ![w] = "idle"]
    /\ deskCtx' = [deskCtx EXCEPT ![w] = NoDesk]

-----------------------------------------------------------------------------
\* HandleCreateTicket: SELECT COUNT(*).  An error leaves count at 0.
CreateCount(w) ==
    /\ deskPc[w] = "idle"
    /\ TicketCount < MaxTickets
    /\ \E c \in {TicketCount} \cup (IF DeskFaults THEN {0} ELSE {}) :
         deskCtx' = [deskCtx EXCEPT ![w] = Counted(c, year)]
    /\ deskPc' = [deskPc EXCEPT ![w] = "insert"]
    /\ UNCHANGED <<year, tickets>>

\* Mutant: the number of the next ticket but one.
CreateInsertOffByOne(w) ==
    /\ deskPc[w] = "insert"
    /\ \E y \in deskCtx[w].since..year :
         LET n == GenerateTicketNumber(y, deskCtx[w].count + 2) IN
         /\ ~Exists(n)
         /\ tickets' = [m \in DOMAIN tickets \cup {n} |->
              IF m = n THEN [status |-> "OPEN", resolved |-> FALSE] ELSE tickets[m]]
    /\ Answer(w)
    /\ UNCHANGED year

\* The number, with the year of some moment after the count, and the INSERT.
CreateInsert(w) ==
    /\ deskPc[w] = "insert"
    /\ \E y \in deskCtx[w].since..year :
         LET n == GenerateTicketNumber(y, deskCtx[w].count + 1) IN
         /\ ~Exists(n)
         /\ tickets' = [m \in DOMAIN tickets \cup {n} |->
              IF m = n THEN [status |-> "OPEN", resolved |-> FALSE] ELSE tickets[m]]
    /\ Answer(w)
    /\ UNCHANGED year

\* The INSERT is refused: the number is taken, or the category that the client
\* named does not exist, or the statement fails.  The client gets the error.
CreateFail(w) ==
    /\ deskPc[w] = "insert"
    /\ Answer(w)
    /\ UNCHANGED <<year, tickets>>

\* HandleTransitionTicket: currentStatus is read; an error leaves it empty.
TransitionRead(w, n) ==
    /\ deskPc[w] = "idle"
    /\ \E s \in {tickets[n].status} \cup (IF DeskFaults THEN {""} ELSE {}) :
         deskCtx' = [deskCtx EXCEPT ![w] = Looked(n, s)]
    /\ deskPc' = [deskPc EXCEPT ![w] = "write"]
    /\ UNCHANGED <<year, tickets>>

\* Mutant: an action that needs no change of status becomes the status.
TransitionToAction(status, action) ==
    CASE action \in {"ASSIGN", "START_PROGRESS"} -> "IN_PROGRESS"
      [] action = "REOPEN" -> "OPEN"
      [] OTHER -> action

\* The target of a transition; an unknown action keeps the status that was read.
ProcessTicketTransition(status, action) ==
    CASE action \in {"ASSIGN", "START_PROGRESS"} -> "IN_PROGRESS"
      [] action = "RESOLVE" -> "RESOLVED"
      [] action = "CLOSE" -> "CLOSED"
      [] action = "REOPEN" -> "OPEN"
      [] OTHER -> status

\* Mutant: reopening a ticket clears resolved_at.
TransitionWriteClears(w) ==
    /\ deskPc[w] = "write"
    /\ \E a \in TicketActions :
         tickets' = [tickets EXCEPT ![deskCtx[w].ticket] =
           [status |-> ProcessTicketTransition(deskCtx[w].status, a),
            resolved |-> a \in {"RESOLVE", "CLOSE"} \/ (a # "REOPEN" /\ @.resolved)]]
    /\ Answer(w)
    /\ UNCHANGED year

\* The UPDATE by id, whatever the status is by now; RESOLVE and CLOSE also set
\* resolved_at, which nothing clears.
TransitionWrite(w) ==
    /\ deskPc[w] = "write"
    /\ \E a \in TicketActions :
         tickets' = [tickets EXCEPT ![deskCtx[w].ticket] =
           [status |-> ProcessTicketTransition(deskCtx[w].status, a),
            resolved |-> a \in {"RESOLVE", "CLOSE"} \/ @.resolved]]
    /\ Answer(w)
    /\ UNCHANGED year

\* The UPDATE fails; its error is dropped and the answer is the same.
TransitionFail(w) ==
    /\ DeskFaults
    /\ deskPc[w] = "write"
    /\ Answer(w)
    /\ UNCHANGED <<year, tickets>>

\* A new year begins.
NewYear ==
    /\ year < LastYear
    /\ year' = year + 1
    /\ UNCHANGED <<tickets, deskPc, deskCtx>>

DeskNext ==
    \/ \E w \in Desks :
         \/ CreateCount(w) \/ CreateInsert(w) \/ CreateFail(w)
         \/ \E n \in DOMAIN tickets : TransitionRead(w, n)
         \/ TransitionWrite(w) \/ TransitionFail(w)
    \/ NewYear

DeskSpec == DeskInit /\ [][DeskNext]_deskVars

-----------------------------------------------------------------------------
\* Properties

\* The number that the next counted request will use is free, in whatever year
\* it is made: a request that collided on the UNIQUE ticket_number of
\* HandleCreateTicket succeeds when it is sent again alone, and no failed count,
\* lost race or turn of the year leaves a number that blocks creation for good.
NextNumberFree ==
    \A y \in FirstYear..LastYear : ~Exists(GenerateTicketNumber(y, TicketCount + 1))

\* A ticket that is RESOLVED or CLOSED has its resolved_at, although a
\* transition may write back a status that it read before other transitions.
ResolvedHasTime ==
    \A n \in DOMAIN tickets : tickets[n].status \in Ended => tickets[n].resolved
=============================================================================
