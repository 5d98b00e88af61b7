------------------------------- MODULE Paging -------------------------------
(***************************************************************************)
(* Pagination (backend/internal/common) as a client meets it in the list   *)
(* of users (HandleListUsers): it asks for page after page, newest user    *)
(* first, until the answer has no has_next, while users are created and    *)
(* deleted.  An answer is one statement that counts the users and one that *)
(* selects the page, with no transaction around them.                      *)
(*                                                                         *)
(* Filters are left out, and the list is totally ordered (created_at is    *)
(* taken to be different for every user).                                  *)
(***************************************************************************)
EXTENDS Integers, SequencesExt, FiniteSets

CONSTANTS
    Listed,             \* bound: the users that can exist, each at most once
    FirstList,          \* the users at the start, newest first
    Limits,             \* the values of limit that a client may send
    DefaultLimit, LimitCap  \* 10 and 100 in the code

ASSUME PagingAssumption ==
    /\ IsFiniteSet(Listed)
    /\ FirstList \in Seq(Listed)
    /\ \A i, j \in DOMAIN FirstList : FirstList[i] = FirstList[j] => i = j
    /\ Limits \subseteq Int
    /\ DefaultLimit \in Nat \ {0}
    /\ LimitCap \in Nat
    /\ DefaultLimit <= LimitCap

VARIABLES
    list,               \* users, ORDER BY created_at DESC
    added,              \* users that have existed
    asked,              \* the limit the client sends with every request
    page,               \* the page it asks for
    total,              \* the result of COUNT
    pagePc,             \* "ask", "select" or "done"
    seen,               \* users the client was given
    lost,               \* history: users of a page that broke off before them
    disturbed           \* history: a change the client cannot make up for

pageVars == <<list, added, asked, page, total, pagePc, seen, lost, disturbed>>

-----------------------------------------------------------------------------
\* ParsePaginationParams: a limit that is missing or below 1 is the default.
ParseLimit(limit) ==
    IF limit < 1 THEN DefaultLimit
    ELSE IF limit > LimitCap THEN LimitCap ELSE limit

Offset(p, limit) == (p - 1) * limit

\* LIMIT and OFFSET of the SELECT.
PageOf(rows, p, limit) ==
    {rows[i] : i \in {j \in DOMAIN rows :
        Offset(p, limit) < j /\ j <= Offset(p, limit) + limit}}

\* Mutant: the last, incomplete page is not counted.
TotalPagesFloor(t, limit) == IF t \div limit < 1 THEN 1 ELSE t \div limit

\* BuildPaginationMeta: rounded up, and at least one page.
TotalPages(t, limit) ==
    LET pages == (t + limit - 1) \div limit IN IF pages < 1 THEN 1 ELSE pages

HasNext(t, p, limit) == p < TotalPages(t, limit)

Elements(rows) == {rows[i] : i \in DOMAIN rows}

PageTypeOK ==
    /\ list \in Seq(Listed)
    /\ \A i, j \in DOMAIN list : list[i] = list[j] => i = j
    /\ added \in SUBSET Listed
    /\ Elements(list) \subseteq added
    /\ asked \in Limits
    /\ page \in Nat \ {0}
    /\ total \in 0..Cardinality(Listed)
    /\ pagePc \in {"ask", "select", "done"}
    /\ seen \in SUBSET added
    /\ lost \in SUBSET added
    /\ disturbed \in BOOLEAN

\* A client that has not asked for anything yet.
PageInit ==
    /\ list = FirstList
    /\ added = Elements(FirstList)
    /\ asked \in Limits
    /\ page = 1
    /\ total = 0
    /\ pagePc = "ask"
    /\ seen = {}
    /\ lost = {}
    /\ disturbed = FALSE

-----------------------------------------------------------------------------
\* Mutant: a user is counted once for each of two roles.
ListCountJoined ==
    /\ pagePc = "ask"
    /\ total' = 2 * Len(list)
    /\ pagePc' = "select"
    /\ UNCHANGED <<list, added, asked, page, seen, lost, disturbed>>

\* HandleListUsers: COUNT(DISTINCT u.id).
ListCount ==
    /\ pagePc = "ask"
    /\ total' = Len(list)
    /\ pagePc' = "select"
    /\ UNCHANGED <<list, added, asked, page, seen, lost, disturbed>>

\* The COUNT fails and its error is dropped: total is 0, so there is no next page.
ListCountFails ==
    /\ pagePc = "ask"
    /\ total' = 0
    /\ pagePc' = "select"
    /\ disturbed' = TRUE
    /\ UNCHANGED <<list, added, asked, page, seen, lost>>

\* An answer with some users of the page; with has_next the client asks for the
\* page after it.
AnswerPage(given) ==
    LET limit == ParseLimit(asked) IN
    /\ pagePc = "select"
    /\ seen' = seen \cup given
    /\ lost' = lost \cup (PageOf(list, page, limit) \ given)
    /\ \/ /\ HasNext(total, page, limit)
          /\ page' = page + 1
          /\ pagePc' = "ask"
       \/ /\ ~HasNext(total, page, limit)
          /\ pagePc' = "done"
          /\ UNCHANGED page
    /\ UNCHANGED <<list, added, asked, total, disturbed>>

\* The SELECT of the page, and the answer.
ListSelect == AnswerPage(PageOf(list, page, ParseLimit(asked)))

\* The SELECT breaks off before its k-th row: rows.Err is not looked at, and the
\* rows that came before are the answer, with has_next from the count as ever.
ListSelectBreaks(k) ==
    LET limit == ParseLimit(asked) IN
    /\ k \in 1..limit
    /\ Offset(page, limit) + k \in DOMAIN list
    /\ AnswerPage({list[i] : i \in {j \in DOMAIN list :
            Offset(page, limit) < j /\ j < Offset(page, limit) + k}})

\* The SELECT fails before its first row, or a row cannot be scanned: the answer
\* is an error, and the client asks for the page again.
ListSelectFails ==
    /\ pagePc = "select"
    /\ pagePc' = "ask"
    /\ UNCHANGED <<list, added, asked, page, total, seen, lost, disturbed>>

\* A user is created: first in the list.  Between the two statements this
\* moves a user out of the pages that were counted.
UserAdded(u) ==
    /\ u \notin added
    /\ list' = <<u>> \o list
    /\ added' = added \cup {u}
    /\ disturbed' = (disturbed \/ pagePc = "select")
    /\ UNCHANGED <<asked, page, total, pagePc, seen, lost>>

\* A user is deleted: the users after it move up, and one of them into the
\* pages that the client has already been given if the deleted one was there.
UserDeleted(u) ==
    /\ \E i \in DOMAIN list :
         /\ list[i] = u
         /\ list' = RemoveAt(list, i)
         /\ disturbed' = (disturbed \/ i <= Offset(page, ParseLimit(asked)))
    /\ UNCHANGED <<added, asked, page, total, pagePc, seen, lost>>

PageNext ==
    \/ ListCount \/ ListCountFails \/ ListSelect \/ ListSelectFails
    \/ \E k \in 1..LimitCap : ListSelectBreaks(k)
    \/ \E u \in Listed : UserAdded(u) \/ UserDeleted(u)

PageSpec == PageInit /\ [][PageNext]_pageVars

-----------------------------------------------------------------------------
\* Properties

\* A client that followed has_next to the end has been given every user that
\* was there when it began and still is, except those that a SELECT which broke
\* off left out of their page: not users created between its requests, not users
\* of later pages deleted, and not a page that came short make it skip another,
\* since offset, limit and the number of pages do not depend on what was given.
NothingSkipped ==
    pagePc = "done" /\ ~disturbed =>
        Elements(FirstList) \cap Elements(list) \subseteq seen \cup lost
=============================================================================
