------------------------- MODULE CredentialsProofs --------------------------
(***************************************************************************)
(* Proofs about logins, password resets and suspensions, for any number of *)
(* accounts and of overlapping requests.                                   *)
(***************************************************************************)
EXTENDS Credentials, TLAPS

\* A link belongs to one account, also the link of a reset under way.
LinksOwned ==
    /\ \A u \in UserIds : newest[u] <= links
    /\ \A u, v \in UserIds : u # v /\ newest[u] # 0 => newest[u] # newest[v]
    /\ \A w \in AuthRequests : authPc[w] = "write" =>
         /\ authCtx[w].link \in 1..links
         /\ \A v \in UserIds : v # authCtx[w].user => newest[v] # authCtx[w].link

\* A reset under way has the newest link of its account, or overtook it.
ResetsCurrent ==
    \A w \in AuthRequests : authPc[w] = "write" =>
        newest[authCtx[w].user] \in {authCtx[w].link} \cup overtaken

\* An account that is active, or being logged in to, is live now; no session
\* outlasts that by more than the lifetime of a session.
SessionsBounded ==
    \A u \in UserIds :
        /\ live[u] <= clock
        /\ enabled[u] => live[u] = clock
        /\ (\E w \in AuthRequests : LoggingIn(w, u)) => live[u] = clock
        /\ session[u] <= live[u] + SessionTTL

CredInv ==
    /\ CredTypeOK
    /\ LinksOwned
    /\ StoredLinkIsLive
    /\ ResetsCurrent
    /\ NewestLinkWorks
    /\ SessionsBounded

\* Nothing is stored or under way at the start.
LEMMA CredInitially == CredInit => CredInv
BY CredentialsAssumption DEF CredInit, CredInv, CredTypeOK, LinksOwned, StoredLinkIsLive, ResetsCurrent,
       NewestLinkWorks, SessionsBounded, LoggingIn

\* The step of a request: what it stores is well-typed.
LEMMA CredTypePreserved == CredInv /\ [CredNext]_credVars => CredTypeOK'
<1> SUFFICES ASSUME CredInv, [CredNext]_credVars PROVE CredTypeOK'
  OBVIOUS
<1> USE CredentialsAssumption DEF CredInv
<1>1. ASSUME NEW u \in UserIds, HandleForgotPassword(u) PROVE CredTypeOK'
  <2>1. links' = links + 1 /\ spent' = spent
    BY <1>1 DEF HandleForgotPassword
  <2>2. overtaken' \in SUBSET (1..links') /\ spent' \in SUBSET (1..links')
    BY <1>1, <2>1 DEF HandleForgotPassword, CredTypeOK
  <2> QED
    BY <1>1, <2>2 DEF HandleForgotPassword, CredTypeOK
<1>2. ASSUME NEW u \in UserIds, HandleSuspendUser(u) \/ HandleActivateUser(u) PROVE CredTypeOK'
  <2>1. UNCHANGED <<session, reset, clock, authPc, authCtx>>
    BY <1>2 DEF HandleSuspendUser, HandleActivateUser
  <2>2. enabled' \in [UserIds -> BOOLEAN]
    BY <1>2 DEF HandleSuspendUser, HandleActivateUser, CredTypeOK
  <2>3. live' \in [UserIds -> Nat]
    BY <1>2 DEF HandleSuspendUser, HandleActivateUser, CredTypeOK
  <2> QED
    BY <2>1, <2>2, <2>3 DEF CredTypeOK, reset
<1>3. ASSUME NEW u \in UserIds, NEW w \in AuthRequests, ResetLookup(w, u) PROVE CredTypeOK'
  BY <1>3 DEF ResetLookup, CredTypeOK, reset
<1>4. ASSUME NEW u \in UserIds, NEW w \in AuthRequests, LoginCheck(w, u) PROVE CredTypeOK'
  BY <1>4 DEF LoginCheck, CredTypeOK, reset
<1>5. CASE ForgotUnstored
  BY <1>5 DEF ForgotUnstored, CredTypeOK
<1>6. ASSUME NEW w \in AuthRequests, ResetWrite(w) PROVE CredTypeOK'
  <2>1. authCtx[w].user \in UserIds /\ authCtx[w].link \in 1..links
    BY <1>6 DEF ResetWrite, CredTypeOK, LinksOwned
  <2>2. spent' \in SUBSET (1..links)
    BY <1>6, <2>1 DEF ResetWrite, CredTypeOK
  <2> QED
    BY <1>6, <2>1, <2>2 DEF ResetWrite, CredTypeOK
<1>7. ASSUME NEW w \in AuthRequests, LoginSign(w) PROVE CredTypeOK'
  BY <1>7 DEF LoginSign, CredTypeOK, reset
<1>8. ASSUME NEW w \in AuthRequests, AuthFail(w) PROVE CredTypeOK'
  BY <1>8 DEF AuthFail, CredTypeOK, reset
<1>9. CASE ClockTick
  BY <1>9 DEF ClockTick, CredTypeOK, reset
<1>10. CASE UNCHANGED credVars
  BY <1>10 DEF credVars, CredTypeOK, reset
<1> QED
  BY <1>1, <1>2, <1>3, <1>4, <1>5, <1>6, <1>7, <1>8, <1>9, <1>10 DEF CredNext

\* What the invariants about links look at: a step that leaves the links alone
\* and starts no reset keeps them.
LEMMA LinksUndisturbed ==
    ASSUME CredInv, UNCHANGED reset,
           authPc' \in [AuthRequests -> {"idle", "sign", "write"}],
           \A w \in AuthRequests : authPc'[w] = "write" =>
               authPc[w] = "write" /\ authCtx'[w] = authCtx[w]
    PROVE  LinksOwned' /\ StoredLinkIsLive' /\ ResetsCurrent' /\ NewestLinkWorks'
<1> UNCHANGED <<link, links, newest, spent, overtaken>>
  BY DEF reset
<1>1. LinksOwned'
  BY DEF CredInv, LinksOwned
<1>2. StoredLinkIsLive' /\ NewestLinkWorks'
  BY DEF CredInv, StoredLinkIsLive, NewestLinkWorks
<1>3. ResetsCurrent'
  BY DEF CredInv, ResetsCurrent
<1> QED
  BY <1>1, <1>2, <1>3

\* A new link is like no other.
LEMMA ForgotLinks ==
    ASSUME CredInv, NEW u \in UserIds, HandleForgotPassword(u)
    PROVE  LinksOwned' /\ StoredLinkIsLive' /\ ResetsCurrent' /\ NewestLinkWorks'
<1> USE DEF CredInv
<1>1. /\ links' = links + 1
      /\ link' = [link EXCEPT ![u] = links + 1]
      /\ newest' = [newest EXCEPT ![u] = links + 1]
      /\ UNCHANGED <<authPc, authCtx, spent>>
  BY DEF HandleForgotPassword
<1>2. overtaken \subseteq overtaken' /\ overtaken' \subseteq overtaken \cup {links + 1}
  BY DEF HandleForgotPassword
<1>3. (\E w \in AuthRequests : Resetting(w, u)) => links + 1 \in overtaken'
  BY DEF HandleForgotPassword
<1>4. links \in Nat /\ newest \in [UserIds -> Nat] /\ link \in [UserIds -> Nat]
      /\ spent \in SUBSET (1..links) /\ authCtx \in [AuthRequests -> [user : UserIds, link : Nat]]
  BY DEF CredTypeOK
<1>5. newest'[u] = links + 1 /\ link'[u] = links + 1
      /\ \A v \in UserIds : v # u => newest'[v] = newest[v] /\ link'[v] = link[v]
  BY <1>1, <1>4
<1>6. \A v \in UserIds : newest[v] <= links /\ newest[v] \in Nat
  BY <1>4 DEF LinksOwned
<1>7. LinksOwned'
  <2>1. \A v \in UserIds : newest'[v] <= links'
    BY <1>1, <1>4, <1>5, <1>6
  <2>2. \A v, x \in UserIds : v # x /\ newest'[v] # 0 => newest'[v] # newest'[x]
    BY <1>4, <1>5, <1>6 DEF LinksOwned
  <2>3. \A w \in AuthRequests : authPc'[w] = "write" =>
          /\ authCtx'[w].link \in 1..links'
          /\ \A v \in UserIds : v # authCtx'[w].user => newest'[v] # authCtx'[w].link
    <3> SUFFICES ASSUME NEW w \in AuthRequests, authPc[w] = "write"
                 PROVE  /\ authCtx[w].link \in 1..(links + 1)
                        /\ \A v \in UserIds : v # authCtx[w].user => newest'[v] # authCtx[w].link
      BY <1>1
    <3>1. authCtx[w].link \in 1..links
      BY DEF LinksOwned
    <3>2. \A v \in UserIds : v # authCtx[w].user => newest[v] # authCtx[w].link
      BY DEF LinksOwned
    <3> QED
      BY <1>4, <1>5, <3>1, <3>2
  <2> QED
    BY <2>1, <2>2, <2>3 DEF LinksOwned
<1>8. StoredLinkIsLive'
  BY <1>1, <1>4, <1>5 DEF StoredLinkIsLive
<1>9. ResetsCurrent'
  BY <1>1, <1>2, <1>3, <1>4, <1>5 DEF ResetsCurrent, Resetting
<1>10. NewestLinkWorks'
  BY <1>1, <1>2, <1>5 DEF NewestLinkWorks
<1> QED
  BY <1>7, <1>8, <1>9, <1>10

\* A lookup finds the newest link of the account.
LEMMA LookupLinks ==
    ASSUME CredInv, NEW u \in UserIds, NEW w \in AuthRequests, ResetLookup(w, u)
    PROVE  LinksOwned' /\ StoredLinkIsLive' /\ ResetsCurrent' /\ NewestLinkWorks'
<1> USE DEF CredInv
<1>1. UNCHANGED <<link, links, newest, spent, overtaken>>
  BY DEF ResetLookup, reset
<1>2. link[u] # 0 /\ link[u] = newest[u] /\ link[u] \in Nat /\ newest[u] <= links /\ links \in Nat
  BY DEF ResetLookup, Valid, StoredLinkIsLive, LinksOwned, CredTypeOK
<1>3. /\ authPc'[w] = "write"
      /\ authCtx'[w].user = u
      /\ authCtx'[w].link = link[u]
      /\ \A v \in AuthRequests : v # w => authPc'[v] = authPc[v] /\ authCtx'[v] = authCtx[v]
  BY DEF ResetLookup, CredTypeOK
<1>4. LinksOwned'
  BY <1>1, <1>2, <1>3 DEF LinksOwned
<1>5. StoredLinkIsLive' /\ NewestLinkWorks'
  BY <1>1 DEF StoredLinkIsLive, NewestLinkWorks
<1>6. ResetsCurrent'
  BY <1>1, <1>2, <1>3 DEF ResetsCurrent
<1> QED
  BY <1>4, <1>5, <1>6

\* A write clears the newest link of its account, spent or overtaken.
LEMMA WriteLinks ==
    ASSUME CredInv, NEW w \in AuthRequests, ResetWrite(w)
    PROVE  LinksOwned' /\ StoredLinkIsLive' /\ ResetsCurrent' /\ NewestLinkWorks'
<1> USE DEF CredInv
<1> DEFINE u == authCtx[w].user
           k == authCtx[w].link
<1>1. authPc[w] = "write" /\ u \in UserIds
  BY DEF ResetWrite, CredTypeOK
<1>2. /\ UNCHANGED <<links, authCtx, newest, overtaken>>
      /\ spent' = spent \cup {k}
      /\ authPc' = [authPc EXCEPT ![w] = "idle"]
      /\ link' = [link EXCEPT ![u] = 0]
  BY DEF ResetWrite
<1>3. link'[u] = 0 /\ \A v \in UserIds : v # u => link'[v] = link[v]
  BY <1>1, <1>2 DEF CredTypeOK
<1>4. authPc'[w] = "idle" /\ \A v \in AuthRequests : v # w => authPc'[v] = authPc[v]
  BY <1>2 DEF CredTypeOK
<1>5. newest[u] \in {k} \cup overtaken
  BY <1>1 DEF ResetsCurrent
<1>6. \A v \in UserIds : v # u => newest[v] # k
  BY <1>1 DEF LinksOwned
<1> HIDE DEF u, k
<1>7. LinksOwned'
  BY <1>2, <1>4 DEF LinksOwned
<1>8. StoredLinkIsLive'
  BY <1>2, <1>3, <1>6 DEF StoredLinkIsLive
<1>9. ResetsCurrent'
  BY <1>2, <1>4 DEF ResetsCurrent
<1>10. NewestLinkWorks'
  BY <1>2, <1>3, <1>5 DEF NewestLinkWorks
<1> QED
  BY <1>7, <1>8, <1>9, <1>10

\* Every step keeps the invariants about links.
LEMMA LinksPreserved ==
    CredInv /\ [CredNext]_credVars =>
        LinksOwned' /\ StoredLinkIsLive' /\ ResetsCurrent' /\ NewestLinkWorks'
<1> DEFINE Links == LinksOwned' /\ StoredLinkIsLive' /\ ResetsCurrent' /\ NewestLinkWorks'
<1> SUFFICES ASSUME CredInv, [CredNext]_credVars PROVE Links
  OBVIOUS
<1>1. authPc \in [AuthRequests -> {"idle", "sign", "write"}]
  BY DEF CredInv, CredTypeOK
<1>2. ASSUME NEW u \in UserIds, HandleSuspendUser(u) \/ HandleActivateUser(u) PROVE Links
  BY <1>1, <1>2, LinksUndisturbed DEF HandleSuspendUser, HandleActivateUser
<1>3. ASSUME NEW u \in UserIds, NEW w \in AuthRequests, LoginCheck(w, u) PROVE Links
  <2>1. authPc' \in [AuthRequests -> {"idle", "sign", "write"}]
    BY <1>1, <1>3 DEF LoginCheck
  <2>2. \A v \in AuthRequests : authPc'[v] = "write" => authPc[v] = "write" /\ authCtx'[v] = authCtx[v]
    BY <1>1, <1>3 DEF LoginCheck, CredInv, CredTypeOK
  <2> QED
    BY <1>3, <2>1, <2>2, LinksUndisturbed DEF LoginCheck
<1>4. CASE ForgotUnstored
  <2>1. links' = links + 1 /\ links \in Nat
        /\ UNCHANGED <<link, newest, spent, overtaken, authPc, authCtx>>
    BY <1>4 DEF ForgotUnstored, CredInv, CredTypeOK
  <2>2. \A u \in UserIds : newest[u] \in Nat
    BY DEF CredInv, CredTypeOK
  <2>3. LinksOwned'
    BY <2>1, <2>2 DEF CredInv, LinksOwned
  <2> QED
    BY <2>1, <2>3 DEF CredInv, StoredLinkIsLive, ResetsCurrent, NewestLinkWorks
<1>5. ASSUME NEW w \in AuthRequests, LoginSign(w) \/ AuthFail(w) PROVE Links
  <2>1. authPc' = [authPc EXCEPT ![w] = "idle"] /\ UNCHANGED <<reset, authCtx>>
    BY <1>5 DEF LoginSign, AuthFail
  <2>2. authPc' \in [AuthRequests -> {"idle", "sign", "write"}]
    BY <1>1, <2>1
  <2>3. \A v \in AuthRequests : authPc'[v] = "write" => authPc[v] = "write"
    BY <1>1, <2>1
  <2> QED
    BY <2>1, <2>2, <2>3, LinksUndisturbed
<1>6. CASE ClockTick
  BY <1>1, <1>6, LinksUndisturbed DEF ClockTick
<1>7. CASE UNCHANGED credVars
  BY <1>1, <1>7, LinksUndisturbed DEF credVars
<1> QED
  BY <1>2, <1>3, <1>4, <1>5, <1>6, <1>7, ForgotLinks, LookupLinks, WriteLinks DEF CredNext

\* Every step keeps the bound on sessions.
LEMMA SessionsPreserved == CredInv /\ [CredNext]_credVars => SessionsBounded'
<1> SUFFICES ASSUME CredInv, [CredNext]_credVars PROVE SessionsBounded'
  OBVIOUS
<1> USE CredentialsAssumption DEF CredInv
<1>0. /\ enabled \in [UserIds -> BOOLEAN]
      /\ session \in [UserIds -> Nat]
      /\ live \in [UserIds -> Nat]
      /\ clock \in Nat
      /\ authPc \in [AuthRequests -> {"idle", "sign", "write"}]
      /\ authCtx \in [AuthRequests -> [user : UserIds, link : Nat]]
  BY DEF CredTypeOK
<1>1. ASSUME NEW u \in UserIds, HandleForgotPassword(u) PROVE SessionsBounded'
  BY <1>1 DEF HandleForgotPassword, SessionsBounded, LoggingIn
<1>2. ASSUME NEW u \in UserIds, HandleSuspendUser(u) PROVE SessionsBounded'
  BY <1>0, <1>2 DEF HandleSuspendUser, SessionsBounded, LoggingIn
<1>3. ASSUME NEW u \in UserIds, HandleActivateUser(u) PROVE SessionsBounded'
  BY <1>0, <1>3 DEF HandleActivateUser, SessionsBounded, LoggingIn
<1>4. ASSUME NEW u \in UserIds, NEW w \in AuthRequests, ResetLookup(w, u) PROVE SessionsBounded'
  BY <1>0, <1>4 DEF ResetLookup, SessionsBounded, LoggingIn
<1>5. ASSUME NEW u \in UserIds, NEW w \in AuthRequests, LoginCheck(w, u) PROVE SessionsBounded'
  BY <1>0, <1>5 DEF LoginCheck, SessionsBounded, LoggingIn
<1>6. CASE ForgotUnstored
  BY <1>6 DEF ForgotUnstored, SessionsBounded, LoggingIn
<1>7. ASSUME NEW w \in AuthRequests, ResetWrite(w) PROVE SessionsBounded'
  BY <1>0, <1>7 DEF ResetWrite, SessionsBounded, LoggingIn
<1>8. ASSUME NEW w \in AuthRequests, LoginSign(w) PROVE SessionsBounded'
  <2>1. live[authCtx[w].user] = clock /\ authCtx[w].user \in UserIds
    BY <1>0, <1>8 DEF LoginSign, SessionsBounded, LoggingIn
  <2> QED
    BY <1>0, <1>8, <2>1 DEF LoginSign, SessionsBounded, LoggingIn
<1>9. ASSUME NEW w \in AuthRequests, AuthFail(w) PROVE SessionsBounded'
  BY <1>0, <1>9 DEF AuthFail, SessionsBounded, LoggingIn
<1>10. CASE ClockTick
  BY <1>0, <1>10 DEF ClockTick, SessionsBounded, LoggingIn
<1>11. CASE UNCHANGED credVars
  BY <1>11 DEF credVars, SessionsBounded, LoggingIn
<1> QED
  BY <1>1, <1>2, <1>3, <1>4, <1>5, <1>6, <1>7, <1>8, <1>9, <1>10, <1>11 DEF CredNext

\* The invariant holds in every state that is reached.
LEMMA CredInvariant == CredSpec => []CredInv
<1>1. CredInv /\ [CredNext]_credVars => CredInv'
  BY CredTypePreserved, LinksPreserved, SessionsPreserved DEF CredInv
<1> QED
  BY <1>1, CredInitially, PTL DEF CredSpec

\* The columns of the accounts and the requests in flight are well-typed.
THEOREM CredentialsTypeCorrect == CredSpec => []CredTypeOK
<1>1. CredInv => CredTypeOK
  BY DEF CredInv
<1> QED
  BY <1>1, CredInvariant, PTL

\* The stored link is the newest and unused, however HandleForgotPassword and
\* HandleResetPassword overlap.
THEOREM StoredLinksLive == CredSpec => []StoredLinkIsLive
<1>1. CredInv => StoredLinkIsLive
  BY DEF CredInv
<1> QED
  BY <1>1, CredInvariant, PTL

\* Only a reset that was between its two statements can void a newest link.
THEOREM NewestLinksWork == CredSpec => []NewestLinkWorks
<1>1. CredInv => NewestLinkWorks
  BY DEF CredInv
<1> QED
  BY <1>1, CredInvariant, PTL

\* The sessions of a suspended account run out.
THEOREM SuspendedSessionsRunOut == CredSpec => []SessionsRunOut
<1>1. CredInv => SessionsRunOut
  <2> SUFFICES ASSUME CredInv, NEW u \in UserIds, clock - live[u] >= SessionTTL
               PROVE  session[u] <= clock
    BY DEF SessionsRunOut
  <2>1. session[u] <= live[u] + SessionTTL
    BY DEF CredInv, SessionsBounded
  <2>2. session[u] \in Nat /\ live[u] \in Nat /\ clock \in Nat /\ SessionTTL \in Nat
    BY CredentialsAssumption DEF CredInv, CredTypeOK
  <2> QED
    BY <2>1, <2>2
<1> QED
  BY <1>1, CredInvariant, PTL

\* A suspended account with no valid link and no reset under way stays
\* suspended until a link is requested or it is activated.
THEOREM SuspensionsHold == CredSpec => SuspensionHolds
<1> DEFINE Held == \A u \in UserIds :
             Locked(u) => Locked(u)' \/ HandleForgotPassword(u) \/ HandleActivateUser(u)
<1>1. ASSUME CredInv, CredNext PROVE Held
  <2> SUFFICES ASSUME NEW u \in UserIds, Locked(u), ~HandleForgotPassword(u), ~HandleActivateUser(u)
               PROVE  Locked(u)'
    OBVIOUS
  <2> USE DEF Locked, Valid, Resetting
  <2>0. /\ enabled \in [UserIds -> BOOLEAN]
        /\ link \in [UserIds -> Nat]
        /\ expires \in [UserIds -> Nat]
        /\ clock \in Nat
        /\ authPc \in [AuthRequests -> {"idle", "sign", "write"}]
        /\ authCtx \in [AuthRequests -> [user : UserIds, link : Nat]]
    BY <1>1 DEF CredInv, CredTypeOK
  <2>1. ASSUME NEW v \in UserIds, HandleForgotPassword(v) PROVE Locked(u)'
    BY <2>0, <2>1 DEF HandleForgotPassword
  <2>2. ASSUME NEW v \in UserIds, HandleSuspendUser(v) PROVE Locked(u)'
    BY <2>0, <2>2 DEF HandleSuspendUser, reset
  <2>3. ASSUME NEW v \in UserIds, HandleActivateUser(v) PROVE Locked(u)'
    BY <2>0, <2>3 DEF HandleActivateUser, reset
  <2>4. ASSUME NEW v \in UserIds, NEW w \in AuthRequests, ResetLookup(w, v) PROVE Locked(u)'
    BY <2>0, <2>4 DEF ResetLookup, reset
  <2>5. ASSUME NEW v \in UserIds, NEW w \in AuthRequests, LoginCheck(w, v) PROVE Locked(u)'
    BY <2>0, <2>5 DEF LoginCheck, reset
  <2>6. CASE ForgotUnstored
    BY <2>6 DEF ForgotUnstored
  <2>7. ASSUME NEW w \in AuthRequests, ResetWrite(w) PROVE Locked(u)'
    BY <2>0, <2>7 DEF ResetWrite
  <2>8. ASSUME NEW w \in AuthRequests, LoginSign(w) \/ AuthFail(w) PROVE Locked(u)'
    BY <2>0, <2>8 DEF LoginSign, AuthFail, reset
  <2>9. CASE ClockTick
    BY <2>0, <2>9 DEF ClockTick, reset
  <2> QED
    BY <1>1, <2>1, <2>2, <2>3, <2>4, <2>5, <2>6, <2>7, <2>8, <2>9 DEF CredNext
<1>2. CredInv /\ [CredNext]_credVars => [Held]_credVars
  BY <1>1
<1> QED
  BY <1>2, CredInvariant, PTL DEF CredSpec, SuspensionHolds
=============================================================================
