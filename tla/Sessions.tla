------------------------------ MODULE Sessions ------------------------------
(***************************************************************************)
(* Sessions and the tenants of their users (apps/api/src/auth.ts,          *)
(* controllers/auth.ts, guards.ts and rate-limit.ts, packages/enterprise/  *)
(* src/tenant.ts).  Everything is in memory.  Login waits for the hash of  *)
(* the password, refresh for the check of the tenant; everything else is   *)
(* one step.  Sessions are numbered in the order of their creation; each   *)
(* has two tokens, <<"access", s>> and <<"refresh", s>>, under which the   *)
(* service finds it.                                                       *)
(***************************************************************************)
EXTENDS Integers, FiniteSets

CONSTANTS
    SessionTenants,
    TenantOfUser,      \* users, each with its tenant
    SessionIds,        \* an initial segment of Nat \ {0}
    SessionCalls,      \* calls of login and refresh that can be in flight
    AccessTtl, RefreshTtl,
    Window, MaxHits,   \* the rate limit of the login route
    LastTick           \* bound: the clock

SessionUsers == DOMAIN TenantOfUser

ASSUME SessionsAssumption ==
    /\ AccessTtl \in Nat /\ RefreshTtl \in Nat /\ LastTick \in Nat
    /\ Window \in Nat \ {0} /\ MaxHits \in Nat
    /\ \A u \in SessionUsers : TenantOfUser[u] \in SessionTenants
    /\ SessionUsers # {} /\ "none" \notin SessionUsers
    /\ SessionIds \subseteq Nat \ {0}

VARIABLES
    tick,          \* now
    tenantStatus,
    sessions,      \* sessions[s]: the session of that number, once created
    tokens,        \* tokens under which a session is found
    window,        \* the rate limiter's entry of the login route
    sessionCall,   \* sessionCall[c]: login and refresh in progress
    spent,         \* history: sessions that were logged out, refreshed or found expired
    suspended      \* history: calls whose tenant has been inactive since they began

sessionVars == <<tick, tenantStatus, sessions, tokens, window, sessionCall, spent, suspended>>

NoSession == [user |-> "none", createdAt |-> 0, begunInactive |-> FALSE]
SessionRec == [user : SessionUsers, createdAt : 0 .. LastTick, begunInactive : BOOLEAN]
CallPcs == {"idle", "hashing", "checking"}

SessionsTypeOK ==
    /\ tick \in 0 .. LastTick
    /\ tenantStatus \in [SessionTenants -> {"active", "suspended", "deleted"}]
    /\ sessions \in [SessionIds -> SessionRec \cup {NoSession}]
    /\ tokens \subseteq {"access", "refresh"} \X SessionIds
    /\ window \in [count : 0 .. MaxHits, resetAt : Nat]
    /\ sessionCall \in [SessionCalls -> [pc : CallPcs, user : SessionUsers, session : SessionIds \cup {0}]]
    /\ spent \subseteq SessionIds /\ suspended \subseteq SessionCalls

SessionsInit ==
    /\ tick = 0 /\ tenantStatus = [t \in SessionTenants |-> "active"]
    /\ sessions = [s \in SessionIds |-> NoSession] /\ tokens = {}
    /\ window = [count |-> 0, resetAt |-> 0]
    /\ sessionCall = [c \in SessionCalls |->
         [pc |-> "idle", user |-> CHOOSE u \in SessionUsers : TRUE, session |-> 0]]
    /\ spent = {} /\ suspended = {}

ClockTicks ==
    /\ tick < LastTick /\ tick' = tick + 1
    /\ UNCHANGED <<tenantStatus, sessions, tokens, window, sessionCall, spent, suspended>>

----------------------------------------------------------------------------
(* Tenants *)

\* suspend, activate and remove: any status but the one it has already;
\* a tenant that is deleted can be suspended and activated.
SetTenant(t, status) ==
    /\ status # "deleted" => tenantStatus[t] # status
    /\ tenantStatus' = [tenantStatus EXCEPT ![t] = status]
    /\ suspended' = IF status # "active" THEN suspended
                    ELSE {c \in suspended : TenantOfUser[sessionCall[c].user] # t}
    /\ UNCHANGED <<tick, sessions, tokens, window, sessionCall, spent>>

ActiveTenant(u) == tenantStatus[TenantOfUser[u]] = "active"

----------------------------------------------------------------------------
(* Sessions *)

TokensOf(s) == {"access", "refresh"} \X {s}
AccessExpired(s) == tick >= sessions[s].createdAt + AccessTtl
RefreshExpired(s) == tick >= sessions[s].createdAt + RefreshTtl

Unused == {s \in SessionIds : sessions[s] = NoSession}
NextSession == CHOOSE s \in Unused : \A other \in Unused : s <= other

\* The session and both its tokens, less those of the session it replaces.
CreateSession(c, user, revoked) ==
    /\ Unused # {}
    /\ sessions' = [sessions EXCEPT ![NextSession] =
         [user |-> user, createdAt |-> tick, begunInactive |-> c \in suspended]]
    /\ tokens' = (tokens \ revoked) \cup TokensOf(NextSession)

EndCall(c) ==
    /\ sessionCall' = [sessionCall EXCEPT ![c].pc = "idle"]
    /\ suspended' = suspended \ {c}

Begin(c, pc, user, session) ==
    /\ sessionCall[c].pc = "idle"
    /\ sessionCall' = [sessionCall EXCEPT ![c] = [pc |-> pc, user |-> user, session |-> session]]
    /\ suspended' = IF ActiveTenant(user) THEN suspended \ {c} ELSE suspended \cup {c}

\* The route counts its requests; the first of a window begins it.
Hit ==
    IF tick >= window.resetAt THEN window' = [count |-> 1, resetAt |-> tick + Window]
    ELSE window.count < MaxHits /\ window' = [window EXCEPT !.count = @ + 1]

StartLogin(c, user) ==
    /\ Hit /\ Begin(c, "hashing", user, 0)
    /\ UNCHANGED <<tick, tenantStatus, sessions, tokens, spent>>

\* The password was wrong, or the tenant is not active.
LoginFails(c) ==
    /\ sessionCall[c].pc = "hashing" /\ EndCall(c)
    /\ UNCHANGED <<tick, tenantStatus, sessions, tokens, window, spent>>

\* The tenant is checked when the password is known to be right.
LoginSucceeds(c) ==
    /\ sessionCall[c].pc = "hashing" /\ ActiveTenant(sessionCall[c].user)
    /\ CreateSession(c, sessionCall[c].user, {}) /\ EndCall(c)
    /\ UNCHANGED <<tick, tenantStatus, window, spent>>

\* Either token finds the session.  The tenant is read now, and waited for.
StartRefresh(c, token) ==
    /\ token \in tokens /\ ~RefreshExpired(token[2])
    /\ ActiveTenant(sessions[token[2]].user)
    /\ Begin(c, "checking", sessions[token[2]].user, token[2])
    /\ UNCHANGED <<tick, tenantStatus, sessions, tokens, window, spent>>

RefreshTooLate(token) ==
    /\ token \in tokens /\ RefreshExpired(token[2])
    /\ tokens' = tokens \ TokensOf(token[2]) /\ spent' = spent \cup {token[2]}
    /\ UNCHANGED <<tick, tenantStatus, sessions, window, sessionCall, suspended>>

\* The old session goes and a new one comes, were it revoked meanwhile or not.
FinishRefresh(c) ==
    /\ sessionCall[c].pc = "checking"
    /\ CreateSession(c, sessionCall[c].user, TokensOf(sessionCall[c].session))
    /\ spent' = spent \cup {sessionCall[c].session} /\ EndCall(c)
    /\ UNCHANGED <<tick, tenantStatus, window>>

\* The route authenticates the token first.
Logout(s) ==
    /\ <<"access", s>> \in tokens /\ ~AccessExpired(s)
    /\ tokens' = tokens \ TokensOf(s) /\ spent' = spent \cup {s}
    /\ UNCHANGED <<tick, tenantStatus, sessions, window, sessionCall, suspended>>

\* verifyAccess: a session may be found by either token until it expires,
\* whatever the status of the tenant.
Authenticated == {token[2] : token \in {t \in tokens : ~AccessExpired(t[2])}}

SessionsNext ==
    \/ ClockTicks
    \/ \E t \in SessionTenants : \E status \in {"active", "suspended", "deleted"} : SetTenant(t, status)
    \/ \E c \in SessionCalls :
         \/ \E user \in SessionUsers : StartLogin(c, user)
         \/ LoginFails(c) \/ LoginSucceeds(c) \/ FinishRefresh(c)
         \/ \E token \in tokens : StartRefresh(c, token)
    \/ \E token \in tokens : RefreshTooLate(token)
    \/ \E s \in SessionIds : Logout(s)

SessionsSpec == SessionsInit /\ [][SessionsNext]_sessionVars

----------------------------------------------------------------------------
(* Properties *)

\* "Revokes the session" (auth.ts:178) and "Rotates a refresh token"
\* (auth.ts:159): a session that was logged out, refreshed or found expired
\* is found under neither of its tokens again, though the refresh that
\* replaces it may overlap a logout or another refresh; every other session
\* keeps both; and no session begins in a call throughout which its tenant
\* was inactive.
SpentSessionsStaySpent ==
    \A s \in SessionIds :
        /\ s \in spent => tokens \cap TokensOf(s) = {} /\ s \notin Authenticated
        /\ s \notin spent /\ sessions[s] # NoSession => TokensOf(s) \subseteq tokens
        /\ ~sessions[s].begunInactive
=============================================================================
