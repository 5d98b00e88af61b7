---------------------------- MODULE PagingProofs -----------------------------
(***************************************************************************)
(* Proofs about Paging, for any list of users, any limit a client may send *)
(* and any default and cap of the limit.                                   *)
(***************************************************************************)
EXTENDS Paging, SequenceTheorems, FiniteSetTheorems, TLAPS

-----------------------------------------------------------------------------
\* The arithmetic of pages

\* ParsePaginationParams never gives a limit below 1.
LEMMA LimitPositive == \A limit \in Int : ParseLimit(limit) \in Nat \ {0}
BY PagingAssumption DEF ParseLimit

\* The offset of a page is a natural number, and the next page begins where
\* this one ends.
LEMMA OffsetOfNext ==
    ASSUME NEW p \in Nat \ {0}, NEW limit \in Nat \ {0}
    PROVE  /\ Offset(p, limit) \in Nat
           /\ Offset(p + 1, limit) = Offset(p, limit) + limit
           /\ Offset(p + 1, limit) = p * limit
<1>1. ASSUME NEW m \in Nat PROVE m * limit \in Nat
  OBVIOUS
<1>2. p - 1 \in Nat
  OBVIOUS
<1>3. (p - 1) * limit + limit = p * limit
  OBVIOUS
<1> QED
  BY <1>1, <1>2, <1>3 DEF Offset

\* Rounding up: t rows fit into (t + limit - 1) \div limit pages.
LEMMA PagesCover ==
    ASSUME NEW t \in Nat, NEW limit \in Nat \ {0}
    PROVE  /\ (t + limit - 1) \div limit \in Nat
           /\ t <= ((t + limit - 1) \div limit) * limit
<1> DEFINE x == t + limit - 1
           q == x \div limit
<1>1. x \in Nat
  OBVIOUS
<1>2. q \in Int /\ x < (q + 1) * limit /\ q * limit <= x
  <2> HIDE DEF x
  <2> QED
    BY <1>1
<1>3. q \in Nat
  <2> HIDE DEF x
  <2> QED
    BY <1>1
<1>4. (q + 1) * limit = q * limit + limit
  <2> HIDE DEF q
  <2> QED
    BY <1>2
<1>5. q * limit \in Int
  <2> HIDE DEF q
  <2> QED
    BY <1>2
<1> QED
  BY <1>2, <1>3, <1>4, <1>5

\* Without a next page, the pages up to this one hold all the rows counted.
LEMMA LastPageCoversAll ==
    ASSUME NEW t \in Nat, NEW p \in Nat \ {0}, NEW limit \in Nat \ {0},
           ~HasNext(t, p, limit)
    PROVE  t <= Offset(p, limit) + limit
<1> DEFINE q == (t + limit - 1) \div limit
<1>1. q \in Nat /\ t <= q * limit
  BY PagesCover
<1>2. q <= p
  <2>1. TotalPages(t, limit) = IF q < 1 THEN 1 ELSE q
    BY DEF TotalPages
  <2>2. ~(p < TotalPages(t, limit))
    BY DEF HasNext
  <2> HIDE DEF q
  <2> QED
    BY <1>1, <2>1, <2>2
<1> HIDE DEF q
<1>3. q * limit <= p * limit
  BY <1>1, <1>2
<1>4. p * limit = Offset(p, limit) + limit /\ Offset(p, limit) \in Nat
  BY OffsetOfNext
<1>5. q * limit \in Nat
  BY <1>1
<1> QED
  BY <1>1, <1>3, <1>4, <1>5

-----------------------------------------------------------------------------
\* The list

Injective(rows) == \A i, j \in DOMAIN rows : rows[i] = rows[j] => i = j

\* A list of different users is not longer than the set they are taken from.
LEMMA ListBound ==
    ASSUME NEW rows \in Seq(Listed), Injective(rows)
    PROVE  Len(rows) \in 0 .. Cardinality(Listed)
<1>1. /\ Len(rows) \in Nat
      /\ rows \in [1 .. Len(rows) -> Listed]
      /\ DOMAIN rows = 1 .. Len(rows)
  BY LenProperties
<1>2. IsFiniteSet(1 .. Len(rows)) /\ Cardinality(1 .. Len(rows)) = Len(rows)
  BY <1>1, FS_Interval
<1>3. IsFiniteSet(Listed) /\ Cardinality(Listed) \in Nat
  BY PagingAssumption, FS_CardinalityType
<1>4. ASSUME Cardinality(Listed) < Len(rows) PROVE FALSE
  <2>1. \E i, j \in 1 .. Len(rows) : i # j /\ rows[i] = rows[j]
    BY <1>1, <1>2, <1>3, <1>4, FS_PigeonHole
  <2> QED
    BY <1>1, <2>1 DEF Injective
<1> DEFINE n == Len(rows)  m == Cardinality(Listed)
<1>5. n \in Nat /\ m \in Nat /\ ~(m < n)
  BY <1>1, <1>3, <1>4
<1> HIDE DEF n, m
<1>6. n \in 0 .. m
  BY <1>5
<1> QED
  BY <1>6 DEF n, m

\* A new user comes first and moves the others by one place.
LEMMA ListAdded ==
    ASSUME NEW rows \in Seq(Listed), NEW u \in Listed
    PROVE  /\ <<u>> \o rows \in Seq(Listed)
           /\ DOMAIN (<<u>> \o rows) = 1 .. Len(rows) + 1
           /\ (<<u>> \o rows)[1] = u
           /\ \A i \in 2 .. Len(rows) + 1 : i - 1 \in DOMAIN rows /\ (<<u>> \o rows)[i] = rows[i - 1]
<1>1. <<u>> \in Seq(Listed) /\ Len(<<u>>) = 1 /\ <<u>>[1] = u
  OBVIOUS
<1>2. Len(rows) \in Nat /\ DOMAIN rows = 1 .. Len(rows)
  BY LenProperties
<1> QED
  BY <1>1, <1>2, ConcatProperties, LenProperties

\* A deleted user leaves the users before it in place and moves up the others.
LEMMA ListRemoved ==
    ASSUME NEW rows \in Seq(Listed), NEW k \in DOMAIN rows
    PROVE  /\ RemoveAt(rows, k) \in Seq(Listed)
           /\ Len(RemoveAt(rows, k)) = Len(rows) - 1
           /\ DOMAIN RemoveAt(rows, k) = 1 .. Len(rows) - 1
           /\ \A i \in 1 .. Len(rows) - 1 :
                /\ i \in DOMAIN rows /\ i + 1 \in DOMAIN rows
                /\ RemoveAt(rows, k)[i] = IF i < k THEN rows[i] ELSE rows[i + 1]
<1> DEFINE n == Len(rows)
           before == SubSeq(rows, 1, k - 1)
           after == SubSeq(rows, k + 1, n)
<1>1. n \in Nat /\ DOMAIN rows = 1 .. n /\ k \in 1 .. n /\ rows \in [1 .. n -> Listed]
  BY LenProperties
<1>2. /\ before \in Seq(Listed) /\ Len(before) = k - 1
      /\ \A i \in 1 .. k - 1 : before[i] = rows[i]
  <2>1. 1 \in 1 .. n + 1 /\ k - 1 \in 1 - 1 .. n
    BY <1>1
  <2>2. /\ before \in Seq(Listed) /\ Len(before) = (k - 1) - 1 + 1
        /\ \A i \in 1 .. (k - 1) - 1 + 1 : before[i] = rows[1 + i - 1]
    BY <2>1, SubSeqProperties
  <2> HIDE DEF before, n
  <2>3. (k - 1) - 1 + 1 = k - 1 /\ \A i \in 1 .. k - 1 : 1 + i - 1 = i
    BY <1>1
  <2> QED
    BY <2>2, <2>3
<1>3. /\ after \in Seq(Listed) /\ Len(after) = n - k
      /\ \A i \in 1 .. n - k : after[i] = rows[k + i]
  <2>1. k + 1 \in 1 .. n + 1 /\ n \in (k + 1) - 1 .. n
    BY <1>1
  <2>2. /\ after \in Seq(Listed) /\ Len(after) = n - (k + 1) + 1
        /\ \A i \in 1 .. n - (k + 1) + 1 : after[i] = rows[(k + 1) + i - 1]
    BY <2>1, SubSeqProperties
  <2> HIDE DEF after, n
  <2>3. n - (k + 1) + 1 = n - k /\ \A i \in 1 .. n - k : (k + 1) + i - 1 = k + i
    BY <1>1
  <2> QED
    BY <2>2, <2>3
<1>4. RemoveAt(rows, k) = before \o after
  BY DEF RemoveAt
<1> HIDE DEF before, after
<1>5. /\ before \o after \in Seq(Listed)
      /\ Len(before \o after) = n - 1
      /\ \A i \in 1 .. n - 1 :
           (before \o after)[i] = IF i <= k - 1 THEN before[i] ELSE after[i - (k - 1)]
  <2>1. /\ before \o after \in Seq(Listed)
        /\ Len(before \o after) = Len(before) + Len(after)
        /\ \A i \in 1 .. Len(before) + Len(after) :
             (before \o after)[i] = IF i <= Len(before) THEN before[i]
                                   ELSE after[i - Len(before)]
    BY <1>2, <1>3, ConcatProperties
  <2> HIDE DEF n
  <2>2. Len(before) = k - 1 /\ Len(after) = n - k /\ (k - 1) + (n - k) = n - 1
    BY <1>1, <1>2, <1>3
  <2>3. /\ Len(before \o after) = n - 1
        /\ \A i \in 1 .. n - 1 :
             (before \o after)[i] = IF i <= k - 1 THEN before[i] ELSE after[i - (k - 1)]
    BY <2>1, <2>2, Zenon
  <2> QED
    BY <2>1, <2>3, Zenon
<1>6. DOMAIN (before \o after) = 1 .. n - 1
  BY <1>5, LenProperties
<1>7. ASSUME NEW i \in 1 .. n - 1
      PROVE  /\ i \in 1 .. n /\ i + 1 \in 1 .. n
             /\ (before \o after)[i] = IF i < k THEN rows[i] ELSE rows[i + 1]
  <2> HIDE DEF n
  <2>1. i \in 1 .. n /\ i + 1 \in 1 .. n
    BY <1>1
  <2>2. CASE i < k
    BY <1>1, <1>2, <1>5, <2>1, <2>2
  <2>3. CASE ~(i < k)
    <3>1. i - (k - 1) \in 1 .. n - k /\ k + (i - (k - 1)) = i + 1 /\ ~(i <= k - 1)
      BY <1>1, <2>3
    <3> QED
      BY <1>3, <1>5, <2>1, <2>3, <3>1
  <2> QED
    BY <2>2, <2>3
<1> QED
  BY <1>1, <1>4, <1>5, <1>6, <1>7
-----------------------------------------------------------------------------
\* The client

\* The users of the first list among the first n places have been given to it, or
\* were left out of their page.
SeenUpTo(n) ==
    \A i \in DOMAIN list :
        i <= n /\ list[i] \in Elements(FirstList) => list[i] \in seen \cup lost

\* NothingSkipped speaks of the end only.  On the way an undisturbed client has
\* been answered for what is listed before the page it asks for, and a count that it was
\* given is not below the length of the list.
PageInv ==
    /\ PageTypeOK
    /\ Elements(FirstList) \subseteq added
    /\ ~disturbed =>
         /\ pagePc \in {"ask", "select"} => SeenUpTo(Offset(page, ParseLimit(asked)))
         /\ pagePc = "select" => Len(list) <= total
         /\ pagePc = "done" => SeenUpTo(Len(list))

\* A client that has not asked yet has seen what is listed before the first page.
LEMMA PageStarts == PageInit => PageInv
<1> SUFFICES ASSUME PageInit PROVE PageInv
  OBVIOUS
<1>1. FirstList \in Seq(Listed) /\ Limits \subseteq Int
  BY PagingAssumption
<1>2. Len(FirstList) \in Nat /\ DOMAIN FirstList = 1 .. Len(FirstList)
  BY <1>1, LenProperties
<1>3. Elements(FirstList) \in SUBSET Listed
  <2>1. \A i \in DOMAIN FirstList : FirstList[i] \in Listed
    BY <1>1, <1>2, ElementOfSeq
  <2> QED
    BY <2>1 DEF Elements
<1>4. Cardinality(Listed) \in Nat
  BY PagingAssumption, FS_CardinalityType
<1>5. 0 \in 0 .. Cardinality(Listed)
  BY <1>4
<1>6. PageTypeOK
  <2>1. list \in Seq(Listed) /\ \A i, j \in DOMAIN list : list[i] = list[j] => i = j
    BY <1>1, PagingAssumption DEF PageInit
  <2>2. /\ added \in SUBSET Listed /\ Elements(list) \subseteq added /\ seen \in SUBSET added
        /\ lost \in SUBSET added
    BY <1>3 DEF PageInit
  <2>3. asked \in Limits /\ page \in Nat \ {0} /\ pagePc \in {"ask", "select", "done"}
    BY DEF PageInit
  <2>0. disturbed \in BOOLEAN
    BY DEF PageInit
  <2>4. total \in 0 .. Cardinality(Listed)
    BY <1>5 DEF PageInit
  <2> QED
    BY <2>0, <2>1, <2>2, <2>3, <2>4 DEF PageTypeOK
<1>7. SeenUpTo(Offset(page, ParseLimit(asked)))
  <2>1. ParseLimit(asked) \in Nat \ {0} /\ page = 1
    BY <1>1, LimitPositive DEF PageInit
  <2>2. Offset(page, ParseLimit(asked)) = 0
    BY <2>1 DEF Offset
  <2>3. \A i \in DOMAIN list : ~(i <= 0)
    BY <1>2 DEF PageInit
  <2> QED
    BY <2>2, <2>3 DEF SeenUpTo
<1> QED
  BY <1>6, <1>7 DEF PageInit, PageInv

\* The count of the list is not below its length when it is taken; a count that
\* fails disturbs the client.
LEMMA CountStep ==
    ASSUME PageInv, ListCount \/ ListCountFails
    PROVE  PageInv'
<1>0. PageTypeOK /\ list \in Seq(Listed) /\ Injective(list)
  BY DEF PageInv, PageTypeOK, Injective
<1>1. Len(list) \in 0 .. Cardinality(Listed) /\ Len(list) \in Nat
  BY <1>0, ListBound
<1>2. 0 \in 0 .. Cardinality(Listed)
  BY PagingAssumption, FS_CardinalityType
<1>3. PageTypeOK'
  BY <1>0, <1>1, <1>2 DEF ListCount, ListCountFails, PageTypeOK
<1>4. CASE ListCount
  <2>1. /\ pagePc = "ask" /\ pagePc' = "select" /\ total' = Len(list)
        /\ UNCHANGED <<list, added, asked, page, seen, lost, disturbed>>
    BY <1>4 DEF ListCount
  <2>2. Len(list) <= Len(list)
    BY <1>1
  <2> QED
    BY <1>3, <2>1, <2>2 DEF PageInv, SeenUpTo
<1>5. CASE ListCountFails
  BY <1>3, <1>5 DEF ListCountFails, PageInv
<1> QED
  BY <1>4, <1>5

\* The page that is answered, whole or not, closes the gap to the next one;
\* without a next one it closes the gap to the end of the list.
LEMMA AnswerStep ==
    ASSUME PageInv, NEW given \in SUBSET PageOf(list, page, ParseLimit(asked)), AnswerPage(given)
    PROVE  PageInv'
<1> DEFINE limit == ParseLimit(asked)
           off == Offset(page, limit)
<1>0. /\ PageTypeOK /\ list \in Seq(Listed) /\ asked \in Int /\ page \in Nat \ {0}
      /\ DOMAIN list = 1 .. Len(list) /\ Len(list) \in Nat /\ total \in Nat
  BY LenProperties, PagingAssumption DEF PageInv, PageTypeOK
<1>1. limit \in Nat \ {0}
  BY <1>0, LimitPositive
<1>2. off \in Nat /\ Offset(page + 1, limit) = off + limit
  BY <1>0, <1>1, OffsetOfNext
<1>3. /\ pagePc = "select" /\ seen' = seen \cup given
      /\ lost' = lost \cup (PageOf(list, page, limit) \ given)
      /\ UNCHANGED <<list, added, asked, total, disturbed>>
  BY DEF AnswerPage
<1>4. \/ page' = page + 1 /\ pagePc' = "ask"
      \/ page' = page /\ pagePc' = "done" /\ ~HasNext(total, page, limit)
  BY DEF AnswerPage
<1>5. PageOf(list, page, limit) \subseteq Elements(list)
  BY DEF PageOf, Elements
<1>6. PageTypeOK'
  <2>1. page' \in Nat \ {0} /\ pagePc' \in {"ask", "select", "done"}
    BY <1>0, <1>4
  <2> QED
    BY <1>0, <1>3, <1>5, <2>1 DEF PageTypeOK
<1> HIDE DEF limit, off
<1>7. ASSUME ~disturbed, NEW i \in DOMAIN list, i <= off + limit,
             list[i] \in Elements(FirstList)
      PROVE  list[i] \in seen' \cup lost'
  <2>1. CASE i <= off
    BY <1>3, <1>7, <2>1 DEF PageInv, SeenUpTo, limit, off
  <2>2. CASE off < i
    <3>1. list[i] \in PageOf(list, page, limit)
      BY <1>7, <2>2 DEF PageOf, off
    <3> QED
      BY <1>3, <3>1
  <2> QED
    BY <1>0, <1>1, <1>2, <2>1, <2>2
<1>8. CASE page' = page + 1 /\ pagePc' = "ask"
  <2>1. ASSUME ~disturbed' PROVE SeenUpTo(Offset(page, ParseLimit(asked)))'
    <3>1. Offset(page', ParseLimit(asked')) = off + limit
      BY <1>2, <1>3, <1>8 DEF limit, off
    <3> QED
      BY <1>3, <1>7, <2>1, <3>1 DEF SeenUpTo
  <2> QED
    BY <1>3, <1>6, <1>8, <2>1 DEF PageInv
<1>9. CASE pagePc' = "done" /\ ~HasNext(total, page, limit)
  <2>1. total <= off + limit
    BY <1>0, <1>1, <1>9, LastPageCoversAll DEF off
  <2>2. ASSUME ~disturbed' PROVE SeenUpTo(Len(list))'
    <3>1. Len(list) <= total
      BY <1>3, <2>2 DEF PageInv
    <3>2. \A i \in DOMAIN list : i <= off + limit
      <4> DEFINE n == Len(list)
      <4>1. n \in Nat /\ n <= total /\ DOMAIN list = 1 .. n
        BY <1>0, <3>1
      <4> HIDE DEF n
      <4> QED
        BY <1>0, <1>1, <1>2, <2>1, <4>1
    <3> QED
      BY <1>3, <1>7, <2>2, <3>2 DEF SeenUpTo
  <2> QED
    BY <1>3, <1>6, <1>9, <2>2 DEF PageInv
<1> QED
  BY <1>4, <1>8, <1>9

\* Every end of the SELECT: the whole page, the rows before it broke off, or an
\* error, after which the client is where it was before the count.
LEMMA SelectStep ==
    ASSUME PageInv,
           ListSelect \/ ListSelectFails \/ \E k \in 1..LimitCap : ListSelectBreaks(k)
    PROVE  PageInv'
<1>1. CASE ListSelect
  BY <1>1, AnswerStep DEF ListSelect
<1>2. ASSUME NEW k \in 1..LimitCap, ListSelectBreaks(k) PROVE PageInv'
  <2> DEFINE limit == ParseLimit(asked)
             off == Offset(page, limit)
             given == {list[i] : i \in {j \in DOMAIN list : off < j /\ j < off + k}}
  <2>1. k \in 1..limit /\ AnswerPage(given)
    BY <1>2 DEF ListSelectBreaks
  <2>2. limit \in Nat \ {0} /\ off \in Int
    BY LimitPositive, OffsetOfNext, PagingAssumption DEF PageInv, PageTypeOK
  <2>3. DOMAIN list \subseteq Int
    BY LenProperties DEF PageInv, PageTypeOK
  <2> HIDE DEF limit, off
  <2>4. \A j \in DOMAIN list : j < off + k => j <= off + limit
    BY <2>1, <2>2, <2>3
  <2>5. given \in SUBSET PageOf(list, page, limit)
    BY <2>4 DEF PageOf, off
  <2> QED
    BY <2>1, <2>5, AnswerStep DEF limit
<1>3. CASE ListSelectFails
  <2>1. /\ pagePc = "select" /\ pagePc' = "ask"
        /\ UNCHANGED <<list, added, asked, page, total, seen, lost, disturbed>>
    BY <1>3 DEF ListSelectFails
  <2> QED
    BY <2>1 DEF PageInv, PageTypeOK, SeenUpTo
<1> QED
  BY <1>1, <1>2, <1>3

\* A new user is not one of the first list, and moves users only away from the
\* pages the client has been given.
LEMMA AddStep ==
    ASSUME PageInv, NEW u \in Listed, UserAdded(u)
    PROVE  PageInv'
<1> DEFINE n == Len(list)
           off == Offset(page, ParseLimit(asked))
<1>0. /\ PageTypeOK /\ list \in Seq(Listed) /\ Injective(list) /\ asked \in Int
      /\ page \in Nat \ {0} /\ DOMAIN list = 1 .. n /\ n \in Nat /\ u \notin added
  BY LenProperties, PagingAssumption DEF PageInv, PageTypeOK, Injective, UserAdded
<1>1. /\ list' \in Seq(Listed) /\ DOMAIN list' = 1 .. n + 1 /\ list'[1] = u
      /\ \A i \in 2 .. n + 1 : i - 1 \in DOMAIN list /\ list'[i] = list[i - 1]
  BY <1>0, ListAdded DEF UserAdded
<1>2. /\ added' = added \cup {u} /\ disturbed' = (disturbed \/ pagePc = "select")
      /\ UNCHANGED <<asked, page, total, pagePc, seen, lost>>
  BY DEF UserAdded
<1>3. \A i \in DOMAIN list : list[i] \in added /\ list[i] # u
  BY <1>0 DEF PageTypeOK, Elements
<1> HIDE DEF n
<1>4. ASSUME NEW i \in 1 .. n + 1 PROVE i = 1 \/ i \in 2 .. n + 1
  BY <1>0
<1>5. \A i \in DOMAIN list' : list'[i] \in added'
  BY <1>1, <1>2, <1>3, <1>4
<1>6. Injective(list')
  <2>1. ASSUME NEW i \in DOMAIN list', NEW j \in DOMAIN list', list'[i] = list'[j] PROVE i = j
    <3>1. CASE i \in 2 .. n + 1 /\ j \in 2 .. n + 1
      <4>1. i - 1 = j - 1
        BY <1>0, <1>1, <2>1, <3>1 DEF Injective
      <4> QED
        BY <1>0, <3>1, <4>1
    <3>2. CASE i = 1 \/ j = 1
      BY <1>1, <1>3, <1>4, <2>1, <3>2
    <3> QED
      BY <1>1, <1>4, <3>1, <3>2
  <2> QED
    BY <2>1 DEF Injective
<1>7. PageTypeOK'
  <2>1. Elements(list') \subseteq added'
    BY <1>5 DEF Elements
  <2> QED
    BY <1>0, <1>1, <1>2, <1>6, <2>1 DEF PageTypeOK, Injective
<1>8. ASSUME NEW m \in Int, SeenUpTo(m), NEW k \in Int, k <= m + 1
      PROVE  \A i \in DOMAIN list' :
                 i <= k /\ list'[i] \in Elements(FirstList) => list'[i] \in seen \cup lost
  <2>1. ASSUME NEW i \in DOMAIN list', i <= k, list'[i] \in Elements(FirstList)
        PROVE  list'[i] \in seen \cup lost
    <3>1. i # 1
      BY <1>0, <1>1, <2>1 DEF PageInv
    <3>2. i \in 2 .. n + 1 /\ i - 1 <= m
      BY <1>0, <1>1, <1>4, <1>8, <2>1, <3>1
    <3>3. i - 1 \in DOMAIN list /\ list'[i] = list[i - 1]
      BY <1>1, <3>2
    <3> QED
      BY <1>8, <2>1, <3>2, <3>3 DEF SeenUpTo
  <2> QED
    BY <2>1
<1>9. off \in Int
  BY <1>0, LimitPositive, OffsetOfNext
<1>10. Len(list') = n + 1
  BY <1>1, LenProperties, <1>0
<1>11. ASSUME ~disturbed', pagePc' = "ask" PROVE SeenUpTo(Offset(page, ParseLimit(asked)))'
  <2>1. SeenUpTo(off)
    BY <1>2, <1>11 DEF PageInv
  <2>2. off <= off + 1
    BY <1>9
  <2> HIDE DEF off
  <2>3. \A i \in DOMAIN list' : i <= off /\ list'[i] \in Elements(FirstList) => list'[i] \in seen \cup lost
    BY <1>8, <1>9, <2>1, <2>2
  <2> QED
    BY <1>2, <2>3 DEF SeenUpTo, off
<1>12. ASSUME ~disturbed', pagePc' = "done" PROVE SeenUpTo(Len(list))'
  <2>1. SeenUpTo(n)
    BY <1>2, <1>12 DEF PageInv, n
  <2>2. n \in Int /\ n + 1 \in Int /\ n + 1 <= n + 1
    BY <1>0
  <2>3. \A i \in DOMAIN list' :
          i <= n + 1 /\ list'[i] \in Elements(FirstList) => list'[i] \in seen \cup lost
    BY <1>8, <2>1, <2>2
  <2> QED
    BY <1>2, <1>10, <2>3 DEF SeenUpTo
<1>13. ~disturbed' => pagePc' # "select"
  BY <1>2
<1>14. (Elements(FirstList) \subseteq added)'
  BY <1>2 DEF PageInv
<1> QED
  BY <1>7, <1>11, <1>12, <1>13, <1>14 DEF PageInv

\* A deleted user that the client has not come to yet leaves the pages before in
\* place and only shortens the rest.
LEMMA DeleteStep ==
    ASSUME PageInv, NEW u \in Listed, UserDeleted(u)
    PROVE  PageInv'
<1> DEFINE n == Len(list)
           off == Offset(page, ParseLimit(asked))
<1>0. /\ PageTypeOK /\ list \in Seq(Listed) /\ Injective(list) /\ asked \in Int
      /\ page \in Nat \ {0} /\ DOMAIN list = 1 .. n /\ n \in Nat /\ total \in Nat
  BY LenProperties, PagingAssumption DEF PageInv, PageTypeOK, Injective
<1>1. PICK k \in DOMAIN list :
        /\ list' = RemoveAt(list, k)
        /\ disturbed' = (disturbed \/ k <= off)
  BY DEF UserDeleted
<1>2. UNCHANGED <<added, asked, page, total, pagePc, seen, lost>>
  BY DEF UserDeleted
<1>3. /\ list' \in Seq(Listed) /\ Len(list') = n - 1 /\ DOMAIN list' = 1 .. n - 1
      /\ \A i \in 1 .. n - 1 : /\ i \in DOMAIN list /\ i + 1 \in DOMAIN list
                               /\ list'[i] = IF i < k THEN list[i] ELSE list[i + 1]
  BY <1>0, <1>1, ListRemoved
<1>4. off \in Int
  BY <1>0, LimitPositive, OffsetOfNext
<1> HIDE DEF n, off
<1>5. Injective(list')
  <2>1. ASSUME NEW i \in DOMAIN list', NEW j \in DOMAIN list', list'[i] = list'[j] PROVE i = j
    <3> DEFINE p == IF i < k THEN i ELSE i + 1
               q == IF j < k THEN j ELSE j + 1
    <3>1. p \in DOMAIN list /\ q \in DOMAIN list /\ list[p] = list[q]
      BY <1>3, <2>1
    <3>2. p = q
      BY <1>0, <3>1 DEF Injective
    <3>3. i \in Int /\ j \in Int /\ k \in Int
      BY <1>0, <1>3
    <3> QED
      BY <3>2, <3>3
  <2> QED
    BY <2>1 DEF Injective
<1>6. \A i \in DOMAIN list' : list'[i] \in Elements(list)
  BY <1>3 DEF Elements
<1>7. PageTypeOK'
  <2>1. Elements(list') \subseteq added'
    BY <1>0, <1>2, <1>6 DEF Elements, PageTypeOK
  <2> QED
    BY <1>0, <1>1, <1>2, <1>3, <1>5, <2>1 DEF PageTypeOK, Injective
<1>8. ASSUME ~disturbed', pagePc' \in {"ask", "select"}
      PROVE  SeenUpTo(Offset(page, ParseLimit(asked)))'
  <2>0. ~disturbed /\ ~(k <= off)
    BY <1>1, <1>8
  <2>1. SeenUpTo(off) /\ off < k
    <3>1. k \in Int /\ off < k
      BY <1>0, <1>4, <2>0
    <3> QED
      BY <1>2, <1>8, <2>0, <3>1 DEF PageInv, off
  <2>2. ASSUME NEW i \in DOMAIN list', i <= off, list'[i] \in Elements(FirstList)
        PROVE  list'[i] \in seen \cup lost
    <3>1. i < k
      BY <1>0, <1>3, <1>4, <2>1, <2>2
    <3>2. list'[i] = list[i] /\ i \in DOMAIN list
      BY <1>3, <3>1
    <3> QED
      BY <2>1, <2>2, <3>2 DEF SeenUpTo
  <2> QED
    BY <1>2, <2>2 DEF SeenUpTo, off
<1>9. ASSUME ~disturbed', pagePc' = "select" PROVE Len(list') <= total'
  <2>1. n <= total
    BY <1>1, <1>2, <1>9 DEF PageInv, n
  <2> QED
    BY <1>0, <1>2, <1>3, <2>1
<1>10. ASSUME ~disturbed', pagePc' = "done" PROVE SeenUpTo(Len(list))'
  <2>0. SeenUpTo(n)
    BY <1>1, <1>2, <1>10 DEF PageInv, n
  <2>1. SeenUpTo(n) /\ \A i \in DOMAIN list : i <= n
    BY <1>0, <2>0
  <2>2. \A v \in Elements(list) : v \in Elements(FirstList) => v \in seen \cup lost
    BY <2>1 DEF SeenUpTo, Elements
  <2> QED
    BY <1>2, <1>6, <2>2 DEF SeenUpTo
<1>11. (Elements(FirstList) \subseteq added)'
  BY <1>2 DEF PageInv
<1> QED
  BY <1>7, <1>8, <1>9, <1>10, <1>11 DEF PageInv

\* Every step keeps the invariant.
LEMMA PageStep == PageInv /\ [PageNext]_pageVars => PageInv'
<1> SUFFICES ASSUME PageInv, [PageNext]_pageVars PROVE PageInv'
  OBVIOUS
<1>1. CASE UNCHANGED pageVars
  BY <1>1 DEF pageVars, PageInv, PageTypeOK, SeenUpTo
<1> QED
  BY <1>1, CountStep, SelectStep, AddStep, DeleteStep DEF PageNext

\* The list stays a list of different users, no longer than there are users, the
\* count fits it, and a client is given only users that exist or have existed.
THEOREM PageTypeCorrect == PageSpec => []PageTypeOK
<1>1. PageInv => PageTypeOK
  BY DEF PageInv
<1> QED
  BY PageStarts, PageStep, <1>1, PTL DEF PageSpec

\* A client that followed has_next to the end, undisturbed, has been given every
\* user that was there when it began and still is, except those left out of a page
\* whose SELECT broke off: offset, limit and the rounding of the number of pages
\* fit together for every limit, also one that is missing, below 1 or above the
\* cap, and whatever each page gave.
THEOREM NoUserSkipped == PageSpec => []NothingSkipped
<1>1. PageInv => NothingSkipped
  <2> SUFFICES ASSUME PageInv, pagePc = "done", ~disturbed,
                      NEW i \in DOMAIN list, list[i] \in Elements(FirstList)
               PROVE  list[i] \in seen \cup lost
    BY DEF NothingSkipped, Elements
  <2>1. i <= Len(list)
    BY LenProperties DEF PageInv, PageTypeOK
  <2> QED
    BY <2>1 DEF PageInv, SeenUpTo
<1> QED
  BY PageStarts, PageStep, <1>1, PTL DEF PageSpec
=============================================================================
