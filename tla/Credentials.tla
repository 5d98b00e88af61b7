---------------------------- MODULE Credentials -----------------------------
(***************************************************************************)
(* Logins and password resets (backend/internal/auth) together with the    *)
(* suspension and activation of accounts (backend/internal/user): the      *)
(* columns is_active, password_reset_token and password_reset_expires_at   *)
(* of users, and the sessions, which are kept by no table: a session is a  *)
(* signed token that RequireAuth accepts until it expires.                 *)
(*                                                                         *)
(* A login looks at is_active in one statement, reads the roles in another *)
(* and then signs the token.  A reset looks its link up in one statement   *)
(* and, after the hash of the new password has been computed, writes in    *)
(* another.  Neither locks the row for its later steps.  Links are         *)
(* numbered in the order in which they are made (a random token never      *)
(* repeats); 0 stands for NULL.  The roles in a token and last_login are   *)
(* left out, and so are the tokens for demo users that no account has.     *)
(* Accounts are not deleted here: what a request writes to one that is     *)
(* gone changes nothing, as if it failed (AuthFail).                       *)
(***************************************************************************)
EXTENDS Integers

CONSTANTS
    UserIds,            \* ids of users
    AuthRequests,       \* requests that can be in flight at the same time
    LinkTTL,            \* a link is valid for two hours, in clock ticks
    SessionTTL,         \* a session for 24 hours
    MaxLinks,           \* bound: links
    LastTick            \* bound: the clock

ASSUME CredentialsAssumption ==
    /\ LinkTTL \in Nat \ {0}
    /\ SessionTTL \in Nat \ {0}
    /\ MaxLinks \in Nat
    /\ LastTick \in Nat

VARIABLES
    enabled,            \* is_active
    link,               \* password_reset_token
    expires,            \* password_reset_expires_at
    links,              \* the links made so far
    session,            \* when the last session of each account expires
    clock,
    authPc, authCtx,
    newest,             \* history: the last link stored for each account
    spent,              \* history: links whose reset was written
    overtaken,          \* history: links stored while a reset of the same
                        \* account was between its two statements
    live                \* history: the last moment at which an account was
                        \* active or a login of it was under way

reset == <<link, expires, links, newest, spent, overtaken>>
credVars == <<enabled, session, live, reset, clock, authPc, authCtx>>

-----------------------------------------------------------------------------
CredTypeOK ==
    /\ enabled \in [UserIds -> BOOLEAN]
    /\ link \in [UserIds -> Nat]
    /\ expires \in [UserIds -> Nat]
    /\ links \in Nat
    /\ session \in [UserIds -> Nat]
    /\ clock \in Nat
    /\ authPc \in [AuthRequests -> {"idle", "sign", "write"}]
    /\ authCtx \in [AuthRequests -> [user : UserIds, link : Nat]]
    /\ newest \in [UserIds -> Nat]
    /\ spent \in SUBSET (1..links)
    /\ overtaken \in SUBSET (1..links)
    /\ live \in [UserIds -> Nat]

\* Accounts that have never been used: created, or invited and not yet active.
CredInit ==
    /\ enabled \in [UserIds -> BOOLEAN]
    /\ link = [u \in UserIds |-> 0]
    /\ expires = [u \in UserIds |-> 0]
    /\ links = 0
    /\ session = [u \in UserIds |-> 0]
    /\ clock = 1
    /\ authPc = [w \in AuthRequests |-> "idle"]
    /\ \E u \in UserIds : authCtx = [w \in AuthRequests |-> [user |-> u, link |-> 0]]
    /\ newest = [u \in UserIds |-> 0]
    /\ spent = {}
    /\ overtaken = {}
    /\ live = [u \in UserIds |-> 1]

\* The reset w has found its link and not yet written.
Resetting(w, u) == authPc[w] = "write" /\ authCtx[w].user = u

\* The login w has found the account active and not yet signed a token.
LoggingIn(w, u) == authPc[w] = "sign" /\ authCtx[w].user = u

\* The link of the account that a lookup would still accept.
Valid(u) == link[u] # 0 /\ expires[u] > clock

-----------------------------------------------------------------------------
\* Mutant: a link that is still valid is not replaced.
ForgotPasswordKeeps(u) ==
    /\ links < MaxLinks
    /\ links' = links + 1
    /\ link' = IF Valid(u) THEN link ELSE [link EXCEPT ![u] = links + 1]
    /\ expires' = [expires EXCEPT ![u] = clock + LinkTTL]
    /\ newest' = [newest EXCEPT ![u] = links + 1]
    /\ overtaken' = overtaken \cup
         (IF \E w \in AuthRequests : Resetting(w, u) THEN {links + 1} ELSE {})
    /\ UNCHANGED <<enabled, session, live, clock, authPc, authCtx, spent>>

\* Mutant: the lifetime is subtracted from the time instead of added.
ForgotPasswordBackdated(u) ==
    /\ links < MaxLinks
    /\ links' = links + 1
    /\ link' = [link EXCEPT ![u] = links + 1]
    /\ expires' = [expires EXCEPT ![u] = clock - LinkTTL]
    /\ newest' = [newest EXCEPT ![u] = links + 1]
    /\ UNCHANGED <<enabled, session, live, clock, authPc, authCtx, spent, overtaken>>

\* HandleForgotPassword: the new link replaces the one before it.
HandleForgotPassword(u) ==
    /\ links < MaxLinks
    /\ links' = links + 1
    /\ link' = [link EXCEPT ![u] = links + 1]
    /\ expires' = [expires EXCEPT ![u] = clock + LinkTTL]
    /\ newest' = [newest EXCEPT ![u] = links + 1]
    /\ overtaken' = overtaken \cup
         (IF \E w \in AuthRequests : Resetting(w, u) THEN {links + 1} ELSE {})
    /\ UNCHANGED <<enabled, session, live, clock, authPc, authCtx, spent>>

\* The UPDATE finds no such e-mail or fails: the answer holds a link all the
\* same, which no account has.
ForgotUnstored ==
    /\ links < MaxLinks
    /\ links' = links + 1
    /\ UNCHANGED <<enabled, session, live, link, expires, clock, authPc, authCtx, newest, spent, overtaken>>

\* Mutant: the time of expiry is not compared.
ResetLookupExpired(w, u) ==
    /\ authPc[w] = "idle"
    /\ link[u] # 0
    /\ authPc' = [authPc EXCEPT ![w] = "write"]
    /\ authCtx' = [authCtx EXCEPT ![w] = [user |-> u, link |-> link[u]]]
    /\ UNCHANGED <<enabled, session, live, reset, clock>>

\* HandleResetPassword: the SELECT finds the account with the link; any other
\* link is answered with an error.
ResetLookup(w, u) ==
    /\ authPc[w] = "idle"
    /\ Valid(u)
    /\ authPc' = [authPc EXCEPT ![w] = "write"]
    /\ authCtx' = [authCtx EXCEPT ![w] = [user |-> u, link |-> link[u]]]
    /\ UNCHANGED <<enabled, session, live, reset, clock>>

\* Mutant: the link is left in the row.
ResetWriteKeeps(w) ==
    /\ authPc[w] = "write"
    /\ enabled' = [enabled EXCEPT ![authCtx[w].user] = TRUE]
    /\ spent' = spent \cup {authCtx[w].link}
    /\ authPc' = [authPc EXCEPT ![w] = "idle"]
    /\ UNCHANGED <<session, live, link, expires, links, clock, authCtx, newest, overtaken>>

\* The UPDATE by id: the password, no link, and the account is active.
ResetWrite(w) ==
    /\ authPc[w] = "write"
    /\ enabled' = [enabled EXCEPT ![authCtx[w].user] = TRUE]
    /\ link' = [link EXCEPT ![authCtx[w].user] = 0]
    /\ expires' = [expires EXCEPT ![authCtx[w].user] = 0]
    /\ spent' = spent \cup {authCtx[w].link}
    /\ live' = [live EXCEPT ![authCtx[w].user] = clock]
    /\ authPc' = [authPc EXCEPT ![w] = "idle"]
    /\ UNCHANGED <<session, links, clock, authCtx, newest, overtaken>>

\* The UPDATE fails and its error is not looked at, or the request, a reset or
\* a login, is cut off.
AuthFail(w) ==
    /\ authPc[w] # "idle"
    /\ authPc' = [authPc EXCEPT ![w] = "idle"]
    /\ UNCHANGED <<enabled, session, live, reset, clock, authCtx>>

\* By an administrator (not of their own account).
HandleSuspendUser(u) ==
    /\ enabled' = [enabled EXCEPT ![u] = FALSE]
    /\ UNCHANGED <<session, live, reset, clock, authPc, authCtx>>

\* By an administrator.
HandleActivateUser(u) ==
    /\ enabled' = [enabled EXCEPT ![u] = TRUE]
    /\ live' = [live EXCEPT ![u] = clock]
    /\ UNCHANGED <<session, reset, clock, authPc, authCtx>>

\* Mutant: is_active is not looked at.
LoginCheckSuspended(w, u) ==
    /\ authPc[w] = "idle"
    /\ authPc' = [authPc EXCEPT ![w] = "sign"]
    /\ authCtx' = [authCtx EXCEPT ![w] = [user |-> u, link |-> 0]]
    /\ UNCHANGED <<enabled, session, live, reset, clock>>

\* HandleLogin, with the right password: is_active is read.
LoginCheck(w, u) ==
    /\ authPc[w] = "idle"
    /\ enabled[u]
    /\ authPc' = [authPc EXCEPT ![w] = "sign"]
    /\ authCtx' = [authCtx EXCEPT ![w] = [user |-> u, link |-> 0]]
    /\ UNCHANGED <<enabled, session, live, reset, clock>>

\* GenerateToken, whatever has happened to the account since.
LoginSign(w) ==
    /\ authPc[w] = "sign"
    /\ session' = [session EXCEPT ![authCtx[w].user] = clock + SessionTTL]
    /\ authPc' = [authPc EXCEPT ![w] = "idle"]
    /\ UNCHANGED <<enabled, live, reset, clock, authCtx>>

\* The clock.
ClockTick ==
    /\ clock < LastTick
    /\ clock' = clock + 1
    /\ live' = [u \in UserIds |->
         IF enabled[u] \/ \E w \in AuthRequests : LoggingIn(w, u) THEN clock + 1 ELSE live[u]]
    /\ UNCHANGED <<enabled, session, reset, authPc, authCtx>>

CredNext ==
    \/ \E u \in UserIds :
         \/ HandleForgotPassword(u)
         \/ HandleSuspendUser(u) \/ HandleActivateUser(u)
         \/ \E w \in AuthRequests : ResetLookup(w, u) \/ LoginCheck(w, u)
    \/ ForgotUnstored
    \/ \E w \in AuthRequests : ResetWrite(w) \/ LoginSign(w) \/ AuthFail(w)
    \/ ClockTick

CredSpec == CredInit /\ [][CredNext]_credVars

-----------------------------------------------------------------------------
\* Properties

\* The link stored for an account is the newest one made for it and no reset
\* has been written with it: once HandleResetPassword has written, or a newer
\* link was requested, an old link is never accepted again, however the
\* requests overlap.
StoredLinkIsLive ==
    \A u \in UserIds : link[u] # 0 => link[u] = newest[u] /\ link[u] \notin spent

\* The newest link of an account can be used (until it expires) if no reset was
\* written with it, unless it was requested while an earlier reset of the same
\* account was between its SELECT and its UPDATE, which then clears it.
NewestLinkWorks ==
    \A u \in UserIds :
        newest[u] # 0 /\ newest[u] \notin spent \cup overtaken => link[u] = newest[u]

\* A suspended account with no valid link and no reset under way.
Locked(u) == ~enabled[u] /\ ~Valid(u) /\ \A w \in AuthRequests : ~Resetting(w, u)

\* Such an account stays so until somebody requests a link for it or an
\* administrator activates it: is_active = true in HandleResetPassword can
\* only follow a link that was valid after the suspension or a reset that had
\* already begun.
SuspensionHolds ==
    [][\A u \in UserIds :
         Locked(u) => Locked(u)' \/ HandleForgotPassword(u) \/ HandleActivateUser(u)]_credVars

\* Once an account has been suspended, with no login of it under way, for as
\* long as a session lasts, no session of it is accepted: GenerateToken gives
\* every token an expiry, and HandleLogin refuses a suspended account.
SessionsRunOut ==
    \A u \in UserIds :
        clock - live[u] >= SessionTTL => session[u] <= clock
=============================================================================
