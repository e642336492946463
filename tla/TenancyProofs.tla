---------------------------- MODULE TenancyProofs ----------------------------
(***************************************************************************)
(* Proofs about what the API keeps for its tenants: that spent sessions    *)
(* stay spent, that memberships can be reached from the accounts, that     *)
(* subscriptions and webhooks are as the outside was told, and that who    *)
(* administers a tenant can be traced - of each component, for any number  *)
(* of users, tenants, calls and requests, and of all of them in one        *)
(* process; that what is pushed of a crawl is true; and that the chats of  *)
(* a tenant's copilot stay apart, with the metrics and the audit trail     *)
(* telling the same.                                                       *)
(***************************************************************************)
EXTENDS TenantServices, RealtimeApi, Copilot, FiniteSetTheorems, SequenceTheorems, WellFoundedInduction, TLAPS

LEMMA LeastId ==
    ASSUME NEW T \in SUBSET Nat, T # {}
    PROVE  \E least \in T : \A other \in T : least <= other
<1>1. \A x, y \in Nat : <<x, y>> \in OpToRel(<, Nat) <=> x < y
    BY DEF OpToRel
<1>2. PICK Less : IsWellFoundedOn(Less, Nat) /\ \A x, y \in Nat : <<x, y>> \in Less <=> x < y
    BY <1>1, NatLessThanWellFounded, Zenon
<1>3. \A R, S, U : IsWellFoundedOn(R, S) /\ U \subseteq S /\ U # {} =>
                       \E x \in U : \A y \in U : ~ (<<y, x>> \in R)
    BY WFMin, Zenon
<1>4. PICK x \in T : \A y \in T : ~ (<<y, x>> \in Less)
    <2>1. IsWellFoundedOn(Less, Nat) /\ T \subseteq Nat /\ T # {}
        BY <1>2
    <2> QED
        BY <1>3, <2>1, Zenon
<1>5. ASSUME NEW y \in T
      PROVE  x <= y
    <2>1. x \in Nat /\ y \in Nat /\ ~ (y < x)
        BY <1>2, <1>4
    <2> QED
        BY <2>1
<1> QED
    BY <1>5

-----------------------------------------------------------------------------
(* Sessions *)

\* The sessions and the tokens, apart from the calls in progress.
StoredSessions ==
    /\ tick \in Nat /\ tenantStatus \in [SessionTenants -> {"active", "suspended", "deleted"}]
    /\ sessions \in [SessionIds -> [user : SessionUsers, createdAt : Nat, begunInactive : BOOLEAN] \cup {NoSession}]
    /\ tokens \subseteq {"access", "refresh"} \X SessionIds /\ spent \subseteq SessionIds
    /\ \A s \in SessionIds :
         /\ sessions[s] = NoSession => tokens \cap TokensOf(s) = {} /\ s \notin spent
         /\ s \in spent => tokens \cap TokensOf(s) = {}
         /\ s \notin spent /\ sessions[s] # NoSession => TokensOf(s) \subseteq tokens
         /\ ~sessions[s].begunInactive

\* A call is remembered as suspended only while its tenant is inactive; a
\* refresh found its tenant active, and replaces a session there was.
SessionCallsOK ==
    /\ sessionCall \in [SessionCalls -> [pc : CallPcs, user : SessionUsers, session : SessionIds \cup {0}]]
    /\ suspended \subseteq SessionCalls
    /\ \A c \in SessionCalls :
         /\ c \in suspended => ~ActiveTenant(sessionCall[c].user)
         /\ sessionCall[c].pc = "checking" =>
              /\ c \notin suspended /\ sessionCall[c].session \in SessionIds
              /\ sessions[sessionCall[c].session] # NoSession

SessionInv == StoredSessions /\ SessionCallsOK

LEMMA NextIsUnused ==
    ASSUME Unused # {}
    PROVE  NextSession \in SessionIds /\ sessions[NextSession] = NoSession
<1>1. Unused \subseteq Nat
    BY SessionsAssumption DEF Unused
<1>2. \E s \in Unused : \A other \in Unused : s <= other
    BY <1>1, LeastId
<1>3. NextSession \in Unused
    BY <1>2 DEF NextSession
<1> QED
    BY <1>3 DEF Unused

\* A session is made by a call that is not suspended: it is begun while the tenant is active.
LEMMA SessionCreated ==
    ASSUME StoredSessions, NEW c \in SessionCalls, NEW user \in SessionUsers, c \notin suspended,
           NEW old \in SUBSET SessionIds, NEW revoked,
           revoked = {"access", "refresh"} \X old,
           \A s \in old : sessions[s] # NoSession,
           CreateSession(c, user, revoked), spent' = spent \cup old, UNCHANGED <<tick, tenantStatus>>
    PROVE  /\ StoredSessions'
           /\ \A s \in SessionIds : sessions[s] # NoSession => sessions'[s] # NoSession
<1> DEFINE new == NextSession
           rec == [user |-> user, createdAt |-> tick, begunInactive |-> FALSE]
<1>1. new \in SessionIds /\ sessions[new] = NoSession
    BY NextIsUnused DEF CreateSession
<1>2. rec \in [user : SessionUsers, createdAt : Nat, begunInactive : BOOLEAN] /\ rec # NoSession
    BY SessionsAssumption DEF StoredSessions, NoSession
<1>3. sessions' = [sessions EXCEPT ![new] = rec]
    <2>1. (c \in suspended) = FALSE
        OBVIOUS
    <2>2. sessions' = [sessions EXCEPT ![NextSession] =
               [user |-> user, createdAt |-> tick, begunInactive |-> (c \in suspended)]]
        BY Zenon DEF CreateSession
    <2> QED
        BY <2>1, <2>2, Zenon
<1> HIDE DEF new, rec
<1>4. /\ sessions' \in [SessionIds -> [user : SessionUsers, createdAt : Nat, begunInactive : BOOLEAN] \cup {NoSession}]
      /\ sessions'[new] = rec /\ \A s \in SessionIds \ {new} : sessions'[s] = sessions[s]
    BY <1>1, <1>2, <1>3 DEF StoredSessions
<1>5. new \notin spent /\ new \notin old
    BY <1>1 DEF StoredSessions
<1>6. tokens' = (tokens \ revoked) \cup TokensOf(new)
    BY DEF CreateSession, new
<1>7. \A s \in SessionIds : TokensOf(s) = {<<"access", s>>, <<"refresh", s>>}
    BY DEF TokensOf
<1>8. \A s \in SessionIds :
          /\ <<"access", s>> \in tokens' <=> s = new \/ (<<"access", s>> \in tokens /\ s \notin old)
          /\ <<"refresh", s>> \in tokens' <=> s = new \/ (<<"refresh", s>> \in tokens /\ s \notin old)
    BY <1>1, <1>6 DEF TokensOf
<1>9. tokens' \subseteq {"access", "refresh"} \X SessionIds
    BY <1>1, <1>6 DEF TokensOf, StoredSessions
<1>10. ASSUME NEW s \in SessionIds
       PROVE  /\ sessions'[s] = NoSession => tokens' \cap TokensOf(s) = {} /\ s \notin spent'
              /\ s \in spent' => tokens' \cap TokensOf(s) = {}
              /\ s \notin spent' /\ sessions'[s] # NoSession => TokensOf(s) \subseteq tokens'
              /\ ~sessions'[s].begunInactive
    <2>1. CASE s = new
        BY <2>1, <1>2, <1>4, <1>5, <1>7, <1>8 DEF rec
    <2>2. CASE s # new
        <3>1. sessions'[s] = sessions[s]
            BY <2>2, <1>4
        <3>3. s \in old => sessions[s] # NoSession
            OBVIOUS
        <3>4. /\ sessions[s] = NoSession => tokens \cap TokensOf(s) = {} /\ s \notin spent
              /\ s \in spent => tokens \cap TokensOf(s) = {}
              /\ s \notin spent /\ sessions[s] # NoSession => TokensOf(s) \subseteq tokens
              /\ ~sessions[s].begunInactive
            BY DEF StoredSessions
        <3>5. /\ <<"access", s>> \in tokens' <=> <<"access", s>> \in tokens /\ s \notin old
              /\ <<"refresh", s>> \in tokens' <=> <<"refresh", s>> \in tokens /\ s \notin old
              /\ TokensOf(s) = {<<"access", s>>, <<"refresh", s>>}
            BY <2>2, <1>7, <1>8
        <3>6. s \in spent' <=> s \in spent \/ s \in old
            OBVIOUS
        <3> QED
            BY <3>1, <3>3, <3>4, <3>5, <3>6
    <2> QED
        BY <2>1, <2>2
<1> QED
    BY <1>1, <1>2, <1>4, <1>9, <1>10 DEF StoredSessions, TokensOf

\* Sessions that end, and their tokens with them.
LEMMA SessionsEnd ==
    ASSUME StoredSessions, NEW s \in SessionIds, sessions[s] # NoSession,
           tokens' = tokens \ TokensOf(s), spent' = spent \cup {s}, UNCHANGED <<tick, tenantStatus, sessions>>
    PROVE  StoredSessions'
<1>1. \A i \in SessionIds : TokensOf(i) = {<<"access", i>>, <<"refresh", i>>}
    BY DEF TokensOf
<1>2. \A i \in SessionIds :
          /\ <<"access", i>> \in tokens' <=> i # s /\ <<"access", i>> \in tokens
          /\ <<"refresh", i>> \in tokens' <=> i # s /\ <<"refresh", i>> \in tokens
    BY <1>1
<1>3. ASSUME NEW i \in SessionIds
      PROVE  /\ sessions[i] = NoSession => tokens' \cap TokensOf(i) = {} /\ i \notin spent'
             /\ i \in spent' => tokens' \cap TokensOf(i) = {}
             /\ i \notin spent' /\ sessions[i] # NoSession => TokensOf(i) \subseteq tokens'
             /\ ~sessions[i].begunInactive
    BY <1>1, <1>2 DEF StoredSessions
<1> QED
    BY <1>3 DEF StoredSessions, TokensOf

\* A call ends; nothing else of the calls changes.
LEMMA CallEnded ==
    ASSUME SessionCallsOK, NEW c \in SessionCalls, EndCall(c), UNCHANGED tenantStatus,
           \A s \in SessionIds : sessions[s] # NoSession => sessions'[s] # NoSession
    PROVE  SessionCallsOK'
<1>1. /\ sessionCall' \in [SessionCalls -> [pc : CallPcs, user : SessionUsers, session : SessionIds \cup {0}]]
      /\ sessionCall'[c].pc = "idle" /\ c \notin suspended'
      /\ \A other \in SessionCalls : other # c =>
             sessionCall'[other] = sessionCall[other] /\ (other \in suspended' <=> other \in suspended)
    BY DEF EndCall, SessionCallsOK, CallPcs
<1> QED
    BY <1>1 DEF EndCall, SessionCallsOK, ActiveTenant

LEMMA CallBegun ==
    ASSUME SessionCallsOK, NEW c \in SessionCalls, NEW pc \in {"hashing", "checking"}, NEW user \in SessionUsers,
           NEW s \in SessionIds \cup {0}, Begin(c, pc, user, s), UNCHANGED <<tenantStatus, sessions>>,
           pc = "checking" => ActiveTenant(user) /\ s \in SessionIds /\ sessions[s] # NoSession
    PROVE  SessionCallsOK'
<1>1. /\ sessionCall' \in [SessionCalls -> [pc : CallPcs, user : SessionUsers, session : SessionIds \cup {0}]]
      /\ sessionCall'[c] = [pc |-> pc, user |-> user, session |-> s]
      /\ \A other \in SessionCalls : other # c => sessionCall'[other] = sessionCall[other]
    BY DEF Begin, SessionCallsOK, CallPcs
<1>2. /\ c \in suspended' <=> ~ActiveTenant(user)
      /\ \A other \in SessionCalls : other # c => (other \in suspended' <=> other \in suspended)
      /\ suspended' \subseteq SessionCalls
    BY DEF Begin, SessionCallsOK
<1>3. \A u : ActiveTenant(u)' = ActiveTenant(u)
    BY DEF ActiveTenant
<1> QED
    BY <1>1, <1>2, <1>3 DEF SessionCallsOK

LEMMA SessionStep ==
    ASSUME SessionInv, [SessionsNext]_sessionVars
    PROVE  SessionInv'
<1>1. CASE UNCHANGED sessionVars
    BY <1>1 DEF sessionVars, SessionInv, StoredSessions, SessionCallsOK, ActiveTenant, TokensOf
<1>2. CASE ClockTicks
    BY <1>2 DEF ClockTicks, SessionInv, StoredSessions, SessionCallsOK, ActiveTenant, TokensOf
<1>3. ASSUME NEW t \in SessionTenants, NEW status \in {"active", "suspended", "deleted"}, SetTenant(t, status)
      PROVE  SessionInv'
    <2>1. /\ tenantStatus' \in [SessionTenants -> {"active", "suspended", "deleted"}]
          /\ tenantStatus'[t] = status /\ \A u \in SessionTenants : u # t => tenantStatus'[u] = tenantStatus[u]
        BY <1>3 DEF SetTenant, SessionInv, StoredSessions
    <2>2. ASSUME NEW c \in SessionCalls, c \in suspended'
          PROVE  ~ActiveTenant(sessionCall[c].user)'
        <3>1. c \in suspended /\ sessionCall[c].user \in SessionUsers
            BY <1>3, <2>2 DEF SetTenant, SessionInv, SessionCallsOK
        <3>2. TenantOfUser[sessionCall[c].user] \in SessionTenants
            BY <3>1, SessionsAssumption
        <3> QED
            BY <1>3, <2>1, <2>2, <3>1, <3>2 DEF SetTenant, SessionInv, SessionCallsOK, ActiveTenant
    <2> QED
        BY <1>3, <2>1, <2>2 DEF SetTenant, SessionInv, StoredSessions, SessionCallsOK, TokensOf
<1>4. ASSUME NEW c \in SessionCalls, NEW user \in SessionUsers, StartLogin(c, user)
      PROVE  SessionInv'
    <2>1. SessionCallsOK'
        BY <1>4, CallBegun DEF StartLogin, SessionInv
    <2> QED
        BY <1>4, <2>1 DEF StartLogin, SessionInv, StoredSessions, TokensOf
<1>5. ASSUME NEW c \in SessionCalls, LoginFails(c)
      PROVE  SessionInv'
    <2>1. SessionCallsOK'
        BY <1>5, CallEnded DEF LoginFails, SessionInv
    <2> QED
        BY <1>5, <2>1 DEF LoginFails, SessionInv, StoredSessions, TokensOf
<1>6. ASSUME NEW c \in SessionCalls, LoginSucceeds(c)
      PROVE  SessionInv'
    <2>1. c \notin suspended /\ sessionCall[c].user \in SessionUsers
        BY <1>6 DEF LoginSucceeds, SessionInv, SessionCallsOK
    <2>2. {} = {"access", "refresh"} \X {} /\ spent' = spent \cup {}
        BY <1>6 DEF LoginSucceeds
    <2>3. StoredSessions' /\ \A s \in SessionIds : sessions[s] # NoSession => sessions'[s] # NoSession
        BY <1>6, <2>1, <2>2, SessionCreated DEF LoginSucceeds, SessionInv
    <2> QED
        BY <1>6, <2>3, CallEnded DEF LoginSucceeds, SessionInv
<1>7. ASSUME NEW c \in SessionCalls, FinishRefresh(c)
      PROVE  SessionInv'
    <2>1. /\ c \notin suspended /\ sessionCall[c].user \in SessionUsers
          /\ {sessionCall[c].session} \in SUBSET SessionIds /\ sessions[sessionCall[c].session] # NoSession
        BY <1>7 DEF FinishRefresh, SessionInv, SessionCallsOK
    <2>2. TokensOf(sessionCall[c].session) = {"access", "refresh"} \X {sessionCall[c].session}
        BY DEF TokensOf
    <2>3. StoredSessions' /\ \A s \in SessionIds : sessions[s] # NoSession => sessions'[s] # NoSession
        BY <1>7, <2>1, <2>2, SessionCreated DEF FinishRefresh, SessionInv
    <2> QED
        BY <1>7, <2>3, CallEnded DEF FinishRefresh, SessionInv
<1>8. ASSUME NEW token \in tokens
      PROVE  token[2] \in SessionIds /\ sessions[token[2]] # NoSession /\ token \in TokensOf(token[2])
             /\ sessions[token[2]].user \in SessionUsers
    <2>1. token \in {"access", "refresh"} \X SessionIds
        BY DEF SessionInv, StoredSessions
    <2>2. token[2] \in SessionIds /\ token \in TokensOf(token[2])
        BY <2>1 DEF TokensOf
    <2>3. sessions[token[2]] # NoSession
        BY <2>2 DEF SessionInv, StoredSessions
    <2> QED
        BY <2>2, <2>3 DEF SessionInv, StoredSessions
<1>9. ASSUME NEW c \in SessionCalls, NEW token \in tokens, StartRefresh(c, token)
      PROVE  SessionInv'
    <2>1. SessionCallsOK'
        BY <1>8, <1>9, CallBegun DEF StartRefresh, SessionInv
    <2> QED
        BY <1>9, <2>1 DEF StartRefresh, SessionInv, StoredSessions, TokensOf
<1>10. ASSUME NEW token \in tokens, RefreshTooLate(token)
       PROVE  SessionInv'
    <2>1. StoredSessions'
        BY <1>8, <1>10, SessionsEnd DEF RefreshTooLate, SessionInv
    <2> QED
        BY <1>10, <2>1 DEF RefreshTooLate, SessionInv, SessionCallsOK, ActiveTenant
<1>11. ASSUME NEW s \in SessionIds, Logout(s)
       PROVE  SessionInv'
    <2>1. sessions[s] # NoSession
        BY <1>11 DEF Logout, SessionInv, StoredSessions, TokensOf
    <2>2. StoredSessions'
        BY <1>11, <2>1, SessionsEnd DEF Logout, SessionInv
    <2> QED
        BY <1>11, <2>2 DEF Logout, SessionInv, SessionCallsOK, ActiveTenant
<1> QED
    BY <1>1, <1>2, <1>3, <1>4, <1>5, <1>6, <1>7, <1>9, <1>10, <1>11 DEF SessionsNext

LEMMA SessionStart ==
    ASSUME SessionsInit
    PROVE  SessionInv
<1>1. (CHOOSE u \in SessionUsers : TRUE) \in SessionUsers
    BY SessionsAssumption
<1>2. NoSession.begunInactive = FALSE
    BY DEF NoSession
<1>3. sessionCall \in [SessionCalls -> [pc : CallPcs, user : SessionUsers, session : SessionIds \cup {0}]]
      /\ \A c \in SessionCalls : sessionCall[c].pc = "idle"
    BY <1>1, Zenon DEF SessionsInit, CallPcs
<1> QED
    BY <1>2, <1>3 DEF SessionsInit, SessionInv, StoredSessions, SessionCallsOK

LEMMA SpentStay ==
    ASSUME SessionInv
    PROVE  SpentSessionsStaySpent
<1>1. ASSUME NEW s \in SessionIds, tokens \cap TokensOf(s) = {}
      PROVE  s \notin Authenticated
    <2>1. ASSUME NEW token \in tokens, token[2] = s
          PROVE  FALSE
        <3>1. token \in TokensOf(s)
            BY <2>1 DEF SessionInv, StoredSessions, TokensOf
        <3> QED
            BY <1>1, <3>1
    <2> QED
        BY <2>1 DEF Authenticated
<1> QED
    BY <1>1 DEF SessionInv, StoredSessions, SpentSessionsStaySpent

-----------------------------------------------------------------------------
(* Memberships *)

\* An account knows its organizations; a member is a user whose account lists
\* the organization, and is a member once.
MemberOK(m) ==
    /\ HasOrg(m.tenant, m.org)
    /\ accounts[m.user] \in AccountRec /\ accounts[m.user].tenant = m.tenant
    /\ m.org \in ToSet(accounts[m.user].orgIds)

OnceAMember ==
    \A m, n \in memberships : m.tenant = n.tenant /\ m.org = n.org /\ m.user = n.user => m = n

\* Ids are given in order, and whom an email finds has an account.
AccountsGiven ==
    /\ usersGiven \in Nat
    /\ accounts \in [UserIds -> AccountRec \cup {NoAccount}]
    /\ usersByEmail \in [Emails -> UserIds \cup {NoAccount}]
    /\ accountCall \in [AccountCalls -> CallRec \cup {NoAccount}]
    /\ \A u \in UserIds : u > usersGiven => accounts[u] = NoAccount
    /\ \A e \in Emails : usersByEmail[e] # NoAccount => accounts[usersByEmail[e]] # NoAccount

MembersInv ==
    /\ AccountsGiven
    /\ memberships \subseteq MembershipRec /\ OnceAMember /\ \A m \in memberships : MemberOK(m)

LEMMA MembersAreReachable ==
    ASSUME MembersInv
    PROVE  MembershipsReachable
    BY AccountsAssumption DEF MembersInv, MembershipsReachable, MemberOK, OnceAMember, MembershipsOf

\* An organization less, or members of it less.
LEMMA MembersGo ==
    ASSUME MembersInv, memberships' \subseteq memberships,
           \A m \in memberships' : HasOrg(m.tenant, m.org)',
           UNCHANGED <<usersGiven, accounts, usersByEmail, accountCall>>
    PROVE  MembersInv'
<1>1. \A m \in memberships' : MemberOK(m)'
    BY DEF MembersInv, MemberOK
<1>2. OnceAMember'
    BY DEF MembersInv, OnceAMember
<1> QED
    BY <1>1, <1>2 DEF MembersInv, AccountsGiven

\* Some members get another role.
LEMMA RolesChange ==
    ASSUME memberships \subseteq MembershipRec, OnceAMember, NEW S, NEW role \in MemberRoles,
           memberships' = {IF m \in S THEN [m EXCEPT !.role = role] ELSE m : m \in memberships}
    PROVE  /\ memberships' \subseteq MembershipRec /\ OnceAMember'
           /\ \A n \in memberships' : \E m \in memberships :
                  n.tenant = m.tenant /\ n.org = m.org /\ n.user = m.user
<1> DEFINE Changed(m) == IF m \in S THEN [m EXCEPT !.role = role] ELSE m
<1>1. ASSUME NEW m \in memberships
      PROVE  /\ Changed(m) \in MembershipRec /\ Changed(m).tenant = m.tenant
             /\ Changed(m).org = m.org /\ Changed(m).user = m.user
    BY DEF MembershipRec
<1>2. \A n \in memberships' : \E m \in memberships : n = Changed(m)
    OBVIOUS
<1> HIDE DEF Changed
<1>3. memberships' \subseteq MembershipRec
    BY <1>1, <1>2
<1>4. \A n \in memberships' : \E m \in memberships :
          n = Changed(m) /\ n.tenant = m.tenant /\ n.org = m.org /\ n.user = m.user
    BY <1>1, <1>2
<1>5. OnceAMember'
    BY <1>4 DEF OnceAMember
<1> QED
    BY <1>3, <1>4, <1>5

LEMMA MembersOfOrganizations ==
    ASSUME MembersInv, OrgNext, UNCHANGED <<usersGiven, accounts, usersByEmail, accountCall>>
    PROVE  MembersInv'
<1>1. ASSUME UNCHANGED memberships, organizations \subseteq organizations'
      PROVE  MembersInv'
    BY <1>1, MembersGo DEF MembersInv, MemberOK, HasOrg
<1>2. ASSUME NEW tenant \in Tenants, NEW org \in OrgIds, RemoveOrganization(tenant, org)
      PROVE  MembersInv'
    <2>1. \A m \in memberships' : HasOrg(m.tenant, m.org)'
        BY <1>2 DEF RemoveOrganization, MembersInv, MemberOK, HasOrg
    <2> QED
        BY <1>2, <2>1, MembersGo DEF RemoveOrganization
<1>3. ASSUME NEW tenant \in Tenants, NEW org \in OrgIds, NEW user \in UserIds, RemoveMember(tenant, org, user)
      PROVE  MembersInv'
    <2>1. \A m \in memberships' : HasOrg(m.tenant, m.org)'
        BY <1>3 DEF RemoveMember, MembersInv, MemberOK, HasOrg
    <2> QED
        BY <1>3, <2>1, MembersGo DEF RemoveMember
<1>4. ASSUME NEW tenant \in Tenants, NEW org \in OrgIds, NEW user \in UserIds, NEW role \in MemberRoles,
             UpdateMemberRole(tenant, org, user, role)
      PROVE  MembersInv'
    <2> DEFINE old == MembershipsOf(tenant, org, user)
    <2>1. memberships' = {IF m \in old THEN [m EXCEPT !.role = role] ELSE m : m \in memberships}
        <3>1. memberships' = (memberships \ old) \cup {[m EXCEPT !.role = role] : m \in old} /\ old \subseteq memberships
            BY <1>4 DEF UpdateMemberRole, WithRole, MembershipsOf
        <3> DEFINE new(m) == [m EXCEPT !.role = role]
        <3> HIDE DEF old, new
        <3>2. \A n : n \in memberships' <=> \E m \in memberships : n = (IF m \in old THEN new(m) ELSE m)
            BY <3>1 DEF new
        <3>3. \A n : n \in memberships' <=> n \in {IF m \in old THEN new(m) ELSE m : m \in memberships}
            BY <3>2
        <3> QED
            BY <3>3 DEF new
    <2> HIDE DEF old
    <2>2. /\ memberships' \subseteq MembershipRec /\ OnceAMember'
          /\ \A n \in memberships' : \E m \in memberships : n.tenant = m.tenant /\ n.org = m.org /\ n.user = m.user
        BY <2>1, RolesChange DEF MembersInv
    <2>3. ASSUME NEW n \in memberships'
          PROVE  MemberOK(n)'
        <3>1. PICK m \in memberships : n.tenant = m.tenant /\ n.org = m.org /\ n.user = m.user
            BY <2>2
        <3>2. UNCHANGED <<organizations, accounts>> /\ MemberOK(m)
            BY <1>4 DEF UpdateMemberRole, MembersInv
        <3> QED
            BY <3>1, <3>2 DEF MemberOK, HasOrg
    <2> QED
        BY <2>2, <2>3 DEF MembersInv, AccountsGiven
<1>5. ASSUME NEW tenant \in Tenants
      PROVE  /\ CreateOrganization(tenant) => MembersInv'
             /\ \A org \in OrgIds : CreateTeam(tenant, org) => MembersInv'
             /\ \A team \in TeamIds :
                  /\ RemoveTeam(tenant, team) => MembersInv'
                  /\ \A user \in UserIds :
                       /\ RemoveTeamMember(tenant, team, user) => MembersInv'
                       /\ \A role \in MemberRoles :
                            /\ AddTeamMember(tenant, team, user, role) => MembersInv'
                            /\ UpdateTeamMemberRole(tenant, team, user, role) => MembersInv'
    BY <1>1 DEF CreateOrganization, CreateTeam, RemoveTeam, RemoveTeamMember, AddTeamMember, UpdateTeamMemberRole
<1> QED
    BY <1>2, <1>3, <1>4, <1>5 DEF OrgNext

\* What the steps of accounts do to an account, and to whoever is not concerned.
LEMMA MembersAdded ==
    ASSUME MembersInv, NEW m \in MembershipRec, HasOrg(m.tenant, m.org),
           MembershipsOf(m.tenant, m.org, m.user) = {},
           NEW added \in SUBSET {m}, memberships' = memberships \cup added, UNCHANGED organizations,
           AccountsGiven',
           \A n \in memberships : MemberOK(n)',
           accounts'[m.user] \in AccountRec, accounts'[m.user].tenant = m.tenant,
           m.org \in ToSet(accounts'[m.user].orgIds)
    PROVE  MembersInv'
<1>1. OnceAMember'
    <2>1. \A n \in memberships : ~ (n.tenant = m.tenant /\ n.org = m.org /\ n.user = m.user)
        BY DEF MembershipsOf
    <2> QED
        BY <2>1 DEF OnceAMember, MembersInv
<1>2. MemberOK(m)'
    BY DEF MemberOK, HasOrg
<1> QED
    BY <1>1, <1>2 DEF MembersInv

LEMMA AccountListsOrg ==
    ASSUME NEW s \in Seq(OrgIds), NEW org \in OrgIds
    PROVE  /\ Append(s, org) \in Seq(OrgIds)
           /\ org \in ToSet(Append(s, org)) /\ ToSet(s) \subseteq ToSet(Append(s, org))
           /\ <<org>> \in Seq(OrgIds) /\ org \in ToSet(<<org>>)
<1>1. /\ Append(s, org) \in Seq(OrgIds) /\ DOMAIN Append(s, org) = 1 .. Len(s) + 1 /\ DOMAIN s = 1 .. Len(s)
      /\ Append(s, org)[Len(s) + 1] = org /\ \A i \in DOMAIN s : Append(s, org)[i] = s[i]
    OBVIOUS
<1>2. Len(s) \in Nat
    OBVIOUS
<1>3. org \in ToSet(Append(s, org)) /\ ToSet(s) \subseteq ToSet(Append(s, org))
    BY <1>1, <1>2 DEF ToSet
<1>4. <<org>> \in Seq(OrgIds) /\ DOMAIN <<org>> = {1} /\ <<org>>[1] = org
    OBVIOUS
<1> QED
    BY <1>1, <1>3, <1>4 DEF ToSet

LEMMA AccountFinished ==
    ASSUME MembersInv, NEW c \in AccountCalls, FinishAccount(c)
    PROVE  MembersInv'
<1> DEFINE call == accountCall[c]
           user == usersGiven + 1
           acc == [email |-> call.email, role |-> call.role, tenant |-> call.tenant, orgIds |-> <<call.org>>]
           m == Membership(call.tenant, call.org, user, call.role)
<1>1. call \in CallRec /\ user \in UserIds /\ user > usersGiven
    BY DEF FinishAccount, MembersInv, AccountsGiven
<1>2. acc \in AccountRec /\ acc # NoAccount /\ acc.tenant = call.tenant /\ call.org \in ToSet(acc.orgIds)
    <2>1. call.org \in OrgIds
        BY <1>1 DEF CallRec
    <2>2. <<call.org>> \in Seq(OrgIds) /\ call.org \in ToSet(<<call.org>>)
        <3>1. <<>> \in Seq(OrgIds)
            OBVIOUS
        <3> QED
            BY <2>1, <3>1, AccountListsOrg
    <2>3. acc \in AccountRec
        BY <1>1, <2>2 DEF CallRec, AccountRec
    <2> QED
        BY <2>2, <2>3, AccountsAssumption
<1>3. m \in MembershipRec /\ m.tenant = call.tenant /\ m.org = call.org /\ m.user = user
    BY <1>1 DEF Membership, MembershipRec, CallRec
<1> HIDE DEF acc, m
<1>4. accounts' = [accounts EXCEPT ![user] = acc] /\ accounts[user] = NoAccount
    BY <1>1 DEF FinishAccount, acc, MembersInv, AccountsGiven
<1>5. /\ accounts' \in [UserIds -> AccountRec \cup {NoAccount}] /\ accounts'[user] = acc
      /\ \A u \in UserIds : u # user => accounts'[u] = accounts[u]
    BY <1>1, <1>2, <1>4 DEF MembersInv, AccountsGiven
<1>6. /\ usersByEmail' = [usersByEmail EXCEPT ![call.email] = user] /\ usersGiven' = user
      /\ accountCall' = [accountCall EXCEPT ![c] = NoAccount] /\ UNCHANGED organizations
      /\ memberships' = memberships \cup {n \in {m} : CanAddMember(call.tenant, call.org, user)}
    BY DEF FinishAccount, m
<1>7. AccountsGiven'
    <2>1. user \in Nat
        BY <1>1 DEF MembersInv, AccountsGiven
    <2>2. \A u \in UserIds : u > user => accounts'[u] = NoAccount
        <3>1. \A u \in UserIds : u > user => u > usersGiven /\ u # user
            BY OrganizationsAssumption DEF MembersInv, AccountsGiven
        <3> QED
            BY <3>1, <1>5 DEF MembersInv, AccountsGiven
    <2>3. call.email \in Emails
        BY <1>1 DEF CallRec
    <2>4. /\ usersByEmail' \in [Emails -> UserIds \cup {NoAccount}]
          /\ \A e \in Emails : usersByEmail'[e] # NoAccount => accounts'[usersByEmail'[e]] # NoAccount
        BY <1>1, <1>2, <1>4, <1>5, <1>6, <2>3 DEF MembersInv, AccountsGiven
    <2>5. accountCall' \in [AccountCalls -> CallRec \cup {NoAccount}]
        BY <1>6 DEF MembersInv, AccountsGiven
    <2> QED
        BY <1>5, <1>6, <2>1, <2>2, <2>4, <2>5 DEF AccountsGiven
<1>8. ASSUME NEW n \in memberships
      PROVE  MemberOK(n)' /\ n.user # user
    <2>1. MemberOK(n) /\ n.user \in UserIds
        BY DEF MembersInv, MembershipRec
    <2>2. n.user # user
        BY <2>1, <1>4, AccountsAssumption DEF MemberOK
    <2> QED
        BY <2>1, <2>2, <1>5, <1>6 DEF MemberOK, HasOrg
<1>9. CASE CanAddMember(call.tenant, call.org, user)
    <2>1. memberships' = memberships \cup {m} /\ {m} \in SUBSET {m}
        BY <1>6, <1>9
    <2>2. HasOrg(m.tenant, m.org) /\ MembershipsOf(m.tenant, m.org, m.user) = {}
        BY <1>3, <1>9 DEF CanAddMember
    <2> QED
        BY <1>2, <1>3, <1>5, <1>6, <1>7, <1>8, <2>1, <2>2, MembersAdded
<1>10. CASE ~CanAddMember(call.tenant, call.org, user)
    <2>1. memberships' = memberships
        BY <1>6, <1>10
    <2> QED
        BY <1>7, <1>8, <2>1 DEF MembersInv, OnceAMember
<1> QED
    BY <1>9, <1>10

\* An account changes, not whose it is, and lists no organization less.
LEMMA AccountChanges ==
    ASSUME MembersInv, NEW user \in UserIds, NEW acc \in AccountRec, accounts[user] \in AccountRec,
           acc.tenant = accounts[user].tenant, ToSet(accounts[user].orgIds) \subseteq ToSet(acc.orgIds),
           accounts' = [accounts EXCEPT ![user] = acc],
           UNCHANGED <<usersByEmail, usersGiven, accountCall, organizations>>
    PROVE  AccountsGiven' /\ \A n : MemberOK(n) /\ n.user \in UserIds => MemberOK(n)'
<1>1. /\ accounts' \in [UserIds -> AccountRec \cup {NoAccount}] /\ accounts'[user] = acc
      /\ \A u \in UserIds : u # user => accounts'[u] = accounts[u]
    BY DEF MembersInv, AccountsGiven
<1>2. acc # NoAccount /\ accounts[user] # NoAccount
    BY AccountsAssumption
<1>3. AccountsGiven'
    BY <1>1, <1>2 DEF MembersInv, AccountsGiven
<1> QED
    BY <1>1, <1>3 DEF MemberOK, HasOrg

LEMMA ExistingInvited ==
    ASSUME MembersInv, NEW tenant \in Tenants, NEW org \in OrgIds, NEW email \in Emails, NEW role \in MemberRoles,
           InviteExisting(tenant, org, email, role)
    PROVE  MembersInv'
<1> DEFINE user == usersByEmail[email]
           acc == [accounts[user] EXCEPT !.orgIds = Append(@, org)]
           m == Membership(tenant, org, user, role)
<1>1. user \in UserIds /\ accounts[user] \in AccountRec /\ accounts[user].tenant = tenant
    BY DEF InviteExisting, MembersInv, AccountsGiven
<1>2. /\ acc \in AccountRec /\ acc.tenant = tenant /\ org \in ToSet(acc.orgIds)
      /\ ToSet(accounts[user].orgIds) \subseteq ToSet(acc.orgIds)
    <2>1. accounts[user].orgIds \in Seq(OrgIds)
        BY <1>1 DEF AccountRec
    <2>2. acc.orgIds = Append(accounts[user].orgIds, org)
        BY <1>1 DEF AccountRec
    <2> QED
        BY <1>1, <2>1, <2>2, AccountListsOrg DEF AccountRec
<1>3. m \in MembershipRec /\ m.tenant = tenant /\ m.org = org /\ m.user = user
    BY <1>1 DEF Membership, MembershipRec
<1>4. /\ HasOrg(tenant, org) /\ MembershipsOf(tenant, org, user) = {}
      /\ memberships' = memberships \cup {m} /\ accounts' = [accounts EXCEPT ![user] = acc]
      /\ UNCHANGED <<usersByEmail, usersGiven, accountCall, organizations>>
    BY DEF InviteExisting, CanAddMember
<1> HIDE DEF user, acc, m
<1>5. AccountsGiven' /\ \A n : MemberOK(n) /\ n.user \in UserIds => MemberOK(n)'
    BY <1>1, <1>2, <1>4, AccountChanges
<1>6. \A n \in memberships : MemberOK(n)'
    BY <1>5 DEF MembersInv, MembershipRec
<1>7. accounts'[user] = acc
    BY <1>1, <1>4 DEF MembersInv, AccountsGiven
<1> QED
    BY <1>2, <1>3, <1>4, <1>5, <1>6, <1>7, MembersAdded

LEMMA RoleUpdated ==
    ASSUME MembersInv, NEW tenant \in Tenants, NEW user \in UserIds, NEW role \in MemberRoles,
           UpdateUserRole(tenant, user, role)
    PROVE  MembersInv'
<1> DEFINE acc == [accounts[user] EXCEPT !.role = role]
           S == {m \in memberships : m.user = user /\ m.tenant = tenant /\ m.org \in Reached(tenant, user)}
<1>1. accounts[user] \in AccountRec
    BY DEF UpdateUserRole, MembersInv, AccountsGiven
<1>2. acc \in AccountRec /\ acc.tenant = accounts[user].tenant /\ acc.orgIds = accounts[user].orgIds
    BY <1>1 DEF AccountRec
<1>3. /\ accounts' = [accounts EXCEPT ![user] = acc]
      /\ memberships' = {IF m \in S THEN [m EXCEPT !.role = role] ELSE m : m \in memberships}
      /\ UNCHANGED <<usersByEmail, usersGiven, accountCall, organizations>>
    BY DEF UpdateUserRole
<1> HIDE DEF acc, S
<1>4. AccountsGiven' /\ \A n : MemberOK(n) /\ n.user \in UserIds => MemberOK(n)'
    BY <1>1, <1>2, <1>3, AccountChanges
<1>5. /\ memberships' \subseteq MembershipRec /\ OnceAMember'
      /\ \A n \in memberships' : \E m \in memberships : n.tenant = m.tenant /\ n.org = m.org /\ n.user = m.user
    BY <1>3, RolesChange DEF MembersInv
<1>6. ASSUME NEW n \in memberships'
      PROVE  MemberOK(n)'
    <2>1. PICK m \in memberships : n.tenant = m.tenant /\ n.org = m.org /\ n.user = m.user
        BY <1>5
    <2>2. MemberOK(m)'
        BY <1>4 DEF MembersInv, MembershipRec
    <2> QED
        BY <2>1, <2>2 DEF MemberOK, HasOrg
<1> QED
    BY <1>4, <1>5, <1>6 DEF MembersInv

LEMMA CallAccounted ==
    ASSUME MembersInv, NEW c \in AccountCalls, NEW call \in CallRec,
           accountCall' = [accountCall EXCEPT ![c] = call], organizations \subseteq organizations',
           UNCHANGED <<accounts, usersByEmail, usersGiven, memberships>>
    PROVE  MembersInv'
<1>1. AccountsGiven'
    BY DEF MembersInv, AccountsGiven
<1>2. \A m \in memberships : MemberOK(m)'
    BY DEF MembersInv, MemberOK, HasOrg
<1> QED
    BY <1>1, <1>2 DEF MembersInv, OnceAMember

LEMMA MembersStep ==
    ASSUME MembersInv, [AccountsNext]_accountVars
    PROVE  MembersInv'
<1>1. CASE UNCHANGED accountVars
    BY <1>1 DEF accountVars, orgVars, MembersInv, AccountsGiven, OnceAMember, MemberOK, HasOrg
<1>2. CASE OrgNext /\ UNCHANGED <<provisioned, accounts, usersByEmail, usersGiven, accountCall>>
    BY <1>2, MembersOfOrganizations
<1>3. ASSUME NEW c \in AccountCalls, NEW tenant \in Tenants, NEW email \in Emails, Register(c, tenant, email)
      PROVE  MembersInv'
    <2> DEFINE call == [email |-> email, role |-> "owner", tenant |-> tenant, org |-> given.org + 1]
    <2>1. call \in CallRec
        BY <1>3, OrganizationsAssumption DEF Register, CreateOrganization, CallRec
    <2> QED
        BY <1>3, <2>1, CallAccounted DEF Register, CreateOrganization
<1>4. ASSUME NEW c \in AccountCalls, NEW tenant \in Tenants, NEW email \in Emails, NEW org \in OrgIds,
             NEW role \in MemberRoles, InviteNew(c, tenant, org, email, role)
      PROVE  MembersInv'
    <2> DEFINE call == [email |-> email, role |-> role, tenant |-> tenant, org |-> org]
    <2>1. call \in CallRec
        BY DEF CallRec
    <2> QED
        BY <1>4, <2>1, CallAccounted DEF InviteNew, orgVars
<1> QED
    BY <1>1, <1>2, <1>3, <1>4, AccountFinished, ExistingInvited, RoleUpdated DEF AccountsNext

LEMMA MembersStart ==
    ASSUME AccountsInit
    PROVE  MembersInv
    BY DEF AccountsInit, OrgInit, MembersInv, AccountsGiven, OnceAMember

-----------------------------------------------------------------------------
(* Administration *)

PrincipalRec ==
    [kind : {"user", "api_key"}, name : Members \cup Nat,
     role : {"owner", "admin", "member", "viewer", "api_key"} \cup RolesGiven,
     tenant : AccessTenants, permissions : SUBSET PlatformPermissions]
KeyRec ==
    [tenant : AccessTenants, scopes : SUBSET KeyScopes, status : {"active", "revoked"},
     createdBy : PrincipalRec, expiresAt : Int \cup {Unset}]
LoggedRec == [tenant : AccessTenants, actor : Members, action : {"auth.login"}, day : Nat]

\* A principal has what its role gives, or is by a key and has what its scopes give.
OfKey(p) ==
    /\ p.role = "api_key" /\ p.name \in DOMAIN keys /\ p.tenant = keys[p.name].tenant
    /\ p.permissions = PermissionsFromScopes(keys[p.name].scopes)
PrincipalOK(p) ==
    /\ p \in PrincipalRec
    /\ p.kind = "user" => p.permissions = PermissionsForRole(p.role)
    /\ p.kind = "api_key" => OfKey(p)

ChainOK ==
    \A k \in DOMAIN keys :
        /\ keys[k].createdBy.tenant = keys[k].tenant
        /\ IF keys[k].createdBy.kind = "user" THEN keys[k].createdBy.role \in {"owner", "admin"}
           ELSE /\ keys[k].createdBy.name \in 1 .. k - 1
                /\ AdminWrite \in PermissionsFromScopes(keys[keys[k].createdBy.name].scopes)

RequestsInv ==
    /\ accessDay \in Nat
    /\ roleOf \in [Members -> {"owner", "admin", "member", "viewer"} \cup RolesGiven]
    /\ keys \in Seq(KeyRec) /\ ChainOK
    /\ access \in [AccessRequests -> PrincipalRec \cup {NoAccess}]
    /\ \A r \in AccessRequests : access[r] # NoAccess => PrincipalOK(access[r])
    /\ \A r \in AccessRequests : ByKeyOutOfUse(r) => r \in overtaken

\* The log is what its purges left of all that was recorded.
LogInv ==
    /\ accessDay \in Nat /\ logged \in Seq(LoggedRec)
    /\ cutoff \in [AccessTenants -> Int]
    /\ \A t \in AccessTenants : cutoff[t] <= accessDay - RetentionDays
    /\ auditLog = {i \in DOMAIN logged : logged[i].day >= cutoff[logged[i].tenant]}

LEMMA PermissionsType ==
    /\ \A role : PermissionsForRole(role) \subseteq PlatformPermissions
    /\ \A scopes : PermissionsFromScopes(scopes) \subseteq PlatformPermissions
<1>1. {AdminRead, AdminWrite, <<"dashboard", "read">>, <<"settings", "write">>, <<"copilot", "write">>,
       <<"reports", "write">>} \subseteq PlatformPermissions
    BY DEF PlatformPermissions, Features, AdminRead, AdminWrite
<1>2. \A scope : ScopePermission(scope) \in PlatformPermissions
    BY <1>1 DEF ScopePermission
<1>3. ReadPermissions \subseteq PlatformPermissions
    BY DEF ReadPermissions
<1>4. ASSUME NEW role
      PROVE  PermissionsForRole(role) \subseteq PlatformPermissions
    BY <1>1, <1>3 DEF PermissionsForRole
<1>5. ASSUME NEW scopes
      PROVE  PermissionsFromScopes(scopes) \subseteq PlatformPermissions
    BY <1>2 DEF PermissionsFromScopes
<1> QED
    BY <1>4, <1>5

\* Only two roles administer.
LEMMA AdministratorRole ==
    ASSUME NEW role, AdminWrite \in PermissionsForRole(role)
    PROVE  role \in {"owner", "admin"}
<1>1. AdminWrite \notin ReadPermissions /\ AdminWrite # <<"copilot", "write">> /\ AdminWrite # <<"reports", "write">>
    BY DEF AdminWrite, ReadPermissions
<1> QED
    BY <1>1 DEF PermissionsForRole

\* Who administers is an owner or an admin, or came by a key that may.
LEMMA AdministratorOK ==
    ASSUME NEW p, PrincipalOK(p), MayDo(p, AdminWrite)
    PROVE  IF p.kind = "user" THEN p.role \in {"owner", "admin"}
           ELSE p.name \in DOMAIN keys /\ AdminWrite \in PermissionsFromScopes(keys[p.name].scopes)
<1>1. p.kind \in {"user", "api_key"}
    BY DEF PrincipalOK, PrincipalRec
<1>2. CASE p.kind = "user"
    BY <1>2, AdministratorRole DEF PrincipalOK, MayDo
<1>3. CASE p.kind = "api_key"
    <2>1. AdminWrite \notin PermissionsForRole("api_key")
        BY AdministratorRole
    <2> QED
        BY <1>3, <2>1 DEF PrincipalOK, OfKey, MayDo
<1> QED
    BY <1>1, <1>2, <1>3

\* The keys may become more or change their status; then nobody loses a right.
LEMMA KeysKept ==
    ASSUME NEW p, PrincipalOK(p), DOMAIN keys \subseteq DOMAIN keys',
           \A k \in DOMAIN keys : keys'[k].tenant = keys[k].tenant /\ keys'[k].scopes = keys[k].scopes
    PROVE  PrincipalOK(p)'
    BY DEF PrincipalOK, OfKey

\* A request is handled: it is in flight no more, and what becomes of the keys is remembered.
LEMMA RequestHandled ==
    ASSUME RequestsInv, NEW r \in AccessRequests, Handled(r), Overtakes,
           accessDay' \in Nat, roleOf' \in [Members -> {"owner", "admin", "member", "viewer"} \cup RolesGiven],
           keys' \in Seq(KeyRec), ChainOK', DOMAIN keys \subseteq DOMAIN keys',
           \A k \in DOMAIN keys : keys'[k].tenant = keys[k].tenant /\ keys'[k].scopes = keys[k].scopes
    PROVE  RequestsInv'
<1>1. /\ access' \in [AccessRequests -> PrincipalRec \cup {NoAccess}]
      /\ \A q \in AccessRequests : access'[q] # NoAccess => access'[q] = access[q]
    BY DEF Handled, RequestsInv
<1>2. ASSUME NEW q \in AccessRequests, access'[q] # NoAccess
      PROVE  PrincipalOK(access[q])'
    <2>1. access'[q] = access[q] /\ PrincipalOK(access[q])
        BY <1>1, <1>2 DEF RequestsInv
    <2> QED
        BY <2>1, KeysKept DEF PrincipalOK, OfKey
<1>3. \A q \in AccessRequests : ByKeyOutOfUse(q)' => access'[q] # NoAccess
    BY DEF ByKeyOutOfUse
<1>4. \A q \in AccessRequests : ByKeyOutOfUse(q)' => q \in overtaken'
    BY <1>1, <1>3 DEF Overtakes
<1> QED
    BY <1>1, <1>2, <1>4 DEF RequestsInv

LEMMA RequestsStay ==
    ASSUME RequestsInv, UNCHANGED <<accessDay, roleOf, keys, access, overtaken>>
    PROVE  RequestsInv'
<1>1. \A r \in AccessRequests : access[r] # NoAccess => PrincipalOK(access[r])'
    BY KeysKept DEF RequestsInv, PrincipalOK, OfKey
<1>2. ChainOK' /\ \A r : ByKeyOutOfUse(r)' <=> ByKeyOutOfUse(r)
    BY DEF RequestsInv, ChainOK, ByKeyOutOfUse, OutOfUse
<1> QED
    BY <1>1, <1>2 DEF RequestsInv

\* A request comes, with a principal that is not by a key out of use.
LEMMA RequestBegun ==
    ASSUME RequestsInv, NEW r \in AccessRequests, NEW p, PrincipalOK(p), access' = [access EXCEPT ![r] = p],
           p.kind = "api_key" => ~OutOfUse(p.name), UNCHANGED <<accessDay, roleOf, keys, overtaken>>
    PROVE  RequestsInv'
<1>1. /\ access' \in [AccessRequests -> PrincipalRec \cup {NoAccess}] /\ access'[r] = p
      /\ \A q \in AccessRequests : q # r => access'[q] = access[q]
    BY DEF RequestsInv, PrincipalOK
<1>2. ASSUME NEW q \in AccessRequests, access'[q] # NoAccess
      PROVE  PrincipalOK(access[q])'
    BY <1>1, <1>2 DEF RequestsInv, PrincipalOK, OfKey
<1>3. ASSUME NEW q \in AccessRequests, ByKeyOutOfUse(q)'
      PROVE  q \in overtaken'
    <2>1. q # r
        BY <1>1, <1>3 DEF ByKeyOutOfUse, OutOfUse
    <2> QED
        BY <1>1, <1>3, <2>1 DEF RequestsInv, ByKeyOutOfUse, OutOfUse
<1> QED
    BY <1>1, <1>2, <1>3 DEF RequestsInv, ChainOK

LEMMA UserComes ==
    ASSUME RequestsInv, NEW r \in AccessRequests, NEW u \in Members, ByUser(r, u)
    PROVE  RequestsInv'
<1> DEFINE p == UserPrincipal(u)
<1>1. PrincipalOK(p) /\ p.kind = "user"
    BY PermissionsType DEF UserPrincipal, Principal, PrincipalOK, PrincipalRec, RequestsInv, AccessTenants
<1>2. access' = [access EXCEPT ![r] = p] /\ UNCHANGED <<accessDay, roleOf, keys, overtaken>>
    BY DEF ByUser
<1> HIDE DEF p
<1> QED
    BY <1>1, <1>2, RequestBegun

LEMMA KeyComes ==
    ASSUME RequestsInv, NEW r \in AccessRequests, NEW k \in 1 .. MaxKeys, ByKey(r, k)
    PROVE  RequestsInv'
<1> DEFINE p == KeyPrincipal(k)
<1>1. k \in DOMAIN keys /\ k \in Nat /\ keys[k] \in KeyRec
    BY DEF ByKey, RequestsInv
<1>2. PrincipalOK(p) /\ p.name = k
    BY <1>1, PermissionsType DEF KeyPrincipal, Principal, PrincipalOK, PrincipalRec, OfKey, KeyRec
<1>3. ~OutOfUse(k)
    <2>1. keys[k].expiresAt # Unset => ~ (accessDay > keys[k].expiresAt)
        BY <1>1 DEF ByKey, Verifies, RequestsInv, KeyRec
    <2> QED
        BY <2>1 DEF ByKey, Verifies, OutOfUse
<1>4. access' = [access EXCEPT ![r] = p] /\ UNCHANGED <<accessDay, roleOf, keys, overtaken>>
    BY DEF ByKey
<1> HIDE DEF p
<1> QED
    BY <1>2, <1>3, <1>4, RequestBegun

LEMMA KeyIssued ==
    ASSUME RequestsInv, NEW r \in AccessRequests, NEW scopes \in ScopesAsked, NEW days \in ExpiryAsked,
           IssueKey(r, scopes, days)
    PROVE  RequestsInv'
<1> DEFINE key == Key(access[r].tenant, Granted(scopes), access[r], ExpiresAt(days))
<1>1. PrincipalOK(access[r]) /\ access[r] \in PrincipalRec /\ MayDo(access[r], AdminWrite)
    BY DEF IssueKey, MayHandle, RequestsInv, PrincipalOK
<1>2. Granted(scopes) \subseteq KeyScopes
    BY DEF Granted, KeyScopes
<1>3. ExpiresAt(days) \in Int \cup {Unset}
    BY AccessAssumption DEF ExpiresAt, RequestsInv
<1>4. key \in KeyRec /\ key.createdBy = access[r] /\ key.tenant = access[r].tenant
    BY <1>1, <1>2, <1>3 DEF Key, KeyRec, PrincipalRec
<1> HIDE DEF key
<1>5. keys' = Append(keys, key)
    BY DEF IssueKey, key
<1>6. /\ keys' \in Seq(KeyRec) /\ keys \in Seq(KeyRec) /\ Len(keys) \in Nat /\ DOMAIN keys = 1 .. Len(keys)
      /\ DOMAIN keys' = 1 .. Len(keys) + 1 /\ keys'[Len(keys) + 1] = key
      /\ \A k \in DOMAIN keys : keys'[k] = keys[k]
    BY <1>4, <1>5 DEF RequestsInv
<1>7. ASSUME NEW k \in DOMAIN keys'
      PROVE  /\ keys'[k].createdBy.tenant = keys'[k].tenant
             /\ IF keys'[k].createdBy.kind = "user" THEN keys'[k].createdBy.role \in {"owner", "admin"}
                ELSE /\ keys'[k].createdBy.name \in 1 .. k - 1
                     /\ AdminWrite \in PermissionsFromScopes(keys'[keys'[k].createdBy.name].scopes)
    <2>1. CASE k = Len(keys) + 1
        <3>1. keys'[k].createdBy = access[r] /\ keys'[k].tenant = access[r].tenant
            BY <2>1, <1>4, <1>6
        <3>2. IF access[r].kind = "user" THEN access[r].role \in {"owner", "admin"}
              ELSE access[r].name \in DOMAIN keys /\ AdminWrite \in PermissionsFromScopes(keys[access[r].name].scopes)
            BY <1>1, AdministratorOK
        <3> QED
            BY <2>1, <3>1, <3>2, <1>6
    <2>2. CASE k # Len(keys) + 1
        <3>1. k \in DOMAIN keys /\ keys'[k] = keys[k]
            BY <2>2, <1>6
        <3>2. k - 1 <= Len(keys) /\ k \in Int
            BY <3>1, <1>6
        <3> QED
            BY <3>1, <3>2, <1>6 DEF RequestsInv, ChainOK
    <2> QED
        BY <2>1, <2>2
<1>8. ChainOK'
    BY <1>7 DEF ChainOK
<1> QED
    BY <1>6, <1>8, RequestHandled DEF IssueKey, RequestsInv

LEMMA KeyRevoked ==
    ASSUME RequestsInv, NEW r \in AccessRequests, NEW k \in 1 .. MaxKeys, RevokeKey(r, k)
    PROVE  RequestsInv'
<1>1. k \in DOMAIN keys /\ keys' = [keys EXCEPT ![k].status = "revoked"]
    BY DEF RevokeKey, KeyOf
<1>2. keys[k] \in KeyRec /\ [keys[k] EXCEPT !.status = "revoked"] \in KeyRec
    <2>1. keys[k] \in KeyRec
        BY <1>1 DEF RequestsInv
    <2> QED
        BY <2>1 DEF KeyRec
<1>3. keys' \in Seq(KeyRec) /\ DOMAIN keys' = DOMAIN keys
    BY <1>1, <1>2 DEF RequestsInv
<1>4. \A i \in DOMAIN keys :
          keys'[i].tenant = keys[i].tenant /\ keys'[i].scopes = keys[i].scopes /\ keys'[i].createdBy = keys[i].createdBy
    BY <1>1, <1>2 DEF KeyRec, RequestsInv
<1>5. ASSUME NEW i \in DOMAIN keys
      PROVE  /\ keys'[i].createdBy.tenant = keys'[i].tenant
             /\ IF keys'[i].createdBy.kind = "user" THEN keys'[i].createdBy.role \in {"owner", "admin"}
                ELSE /\ keys'[i].createdBy.name \in 1 .. i - 1
                     /\ AdminWrite \in PermissionsFromScopes(keys'[keys'[i].createdBy.name].scopes)
    <2>1. 1 .. i - 1 \subseteq DOMAIN keys
        BY DEF RequestsInv
    <2> QED
        BY <2>1, <1>4 DEF RequestsInv, ChainOK
<1>6. ChainOK'
    BY <1>3, <1>5 DEF ChainOK
<1> QED
    BY <1>3, <1>4, <1>6, RequestHandled DEF RevokeKey, RequestsInv

LEMMA RequestsStep ==
    ASSUME RequestsInv, [KeysNext \/ LogNext]_accessVars
    PROVE  RequestsInv'
<1>1. CASE UNCHANGED accessVars
    BY <1>1, RequestsStay DEF accessVars
<1>2. ASSUME NEW r \in AccessRequests, NEW u \in Members, NEW role \in RolesGiven, ChangeRole(r, u, role)
      PROVE  RequestsInv'
    <2>1. roleOf' \in [Members -> {"owner", "admin", "member", "viewer"} \cup RolesGiven]
        BY <1>2 DEF ChangeRole, RequestsInv
    <2>2. ChainOK'
        BY <1>2 DEF ChangeRole, RequestsInv, ChainOK
    <2> QED
        BY <1>2, <2>1, <2>2, RequestHandled DEF ChangeRole, RequestsInv
<1>3. ASSUME NEW r \in AccessRequests, ReadOrRefused(r)
      PROVE  RequestsInv'
    <2>1. ChainOK'
        BY <1>3 DEF ReadOrRefused, RequestsInv, ChainOK
    <2> QED
        BY <1>3, <2>1, RequestHandled DEF ReadOrRefused, RequestsInv
<1>4. CASE NextDay
    <2>1. \A r \in AccessRequests : access[r] # NoAccess => PrincipalOK(access[r])'
        BY <1>4, KeysKept DEF NextDay, RequestsInv, PrincipalOK, OfKey
    <2>2. \A r \in AccessRequests : ByKeyOutOfUse(r)' => r \in overtaken'
        BY <1>4 DEF NextDay, Overtakes, ByKeyOutOfUse
    <2> QED
        BY <1>4, <2>1, <2>2 DEF NextDay, RequestsInv, ChainOK
<1>5. CASE LogNext /\ ~NextDay
    BY <1>5, RequestsStay DEF LogNext, DefineRole, SignIn, PurgeExpired
<1> QED
    BY <1>1, <1>2, <1>3, <1>4, <1>5, UserComes, KeyComes, KeyIssued, KeyRevoked DEF KeysNext

LEMMA LogStep ==
    ASSUME LogInv, [KeysNext \/ LogNext]_accessVars
    PROVE  LogInv'
<1> USE DEF LogInv
<1>1. CASE UNCHANGED <<logged, cutoff, auditLog>> /\ (UNCHANGED accessDay \/ accessDay' = accessDay + 1)
    BY <1>1, AccessAssumption
<1>2. ASSUME NEW u \in Members, SignIn(u, "auth.login")
      PROVE  LogInv'
    <2> DEFINE entry == AuditEntry(MemberTenant[u], u, "auth.login")
               n == Len(logged)
    <2>1. entry \in LoggedRec /\ entry.day = accessDay /\ entry.tenant \in AccessTenants
        BY DEF AuditEntry, LoggedRec, AccessTenants
    <2>2. logged' = Append(logged, entry) /\ auditLog' = auditLog \cup {n + 1} /\ UNCHANGED <<accessDay, cutoff>>
        BY <1>2 DEF SignIn, RecordEntry
    <2> HIDE DEF entry
    <2>3. /\ logged' \in Seq(LoggedRec) /\ n \in Nat /\ DOMAIN logged = 1 .. n /\ DOMAIN logged' = 1 .. n + 1
          /\ logged'[n + 1] = entry /\ \A i \in DOMAIN logged : logged'[i] = logged[i]
        BY <2>1, <2>2
    <2>4. accessDay >= cutoff[entry.tenant]
        <3>1. cutoff[entry.tenant] <= accessDay - RetentionDays /\ cutoff[entry.tenant] \in Int /\ RetentionDays \in Nat
            BY <2>1, AccessAssumption
        <3> QED
            BY <3>1
    <2>5. ASSUME NEW i
          PROVE  i \in auditLog' <=> i \in DOMAIN logged' /\ logged'[i].day >= cutoff'[logged'[i].tenant]
        <3>1. CASE i = n + 1
            BY <3>1, <2>1, <2>2, <2>3, <2>4
        <3>2. CASE i # n + 1
            BY <3>2, <2>2, <2>3
        <3> QED
            BY <3>1, <3>2
    <2>6. auditLog' = {i \in DOMAIN logged' : logged'[i].day >= cutoff'[logged'[i].tenant]}
        BY <2>5
    <2> QED
        BY <2>2, <2>3, <2>6
<1>3. ASSUME NEW t \in AccessTenants, PurgeExpired(t)
      PROVE  LogInv'
    <2> DEFINE before == accessDay - RetentionDays
    <2>1. before \in Int /\ cutoff[t] <= before
        BY AccessAssumption
    <2>2. /\ auditLog' = {i \in auditLog : ~(logged[i].tenant = t /\ logged[i].day < before)}
          /\ cutoff' = [cutoff EXCEPT ![t] = before] /\ UNCHANGED <<accessDay, logged>>
        BY <1>3 DEF PurgeExpired
    <2> HIDE DEF before
    <2>3. /\ cutoff' \in [AccessTenants -> Int] /\ cutoff'[t] = before
          /\ \A u \in AccessTenants : u # t => cutoff'[u] = cutoff[u]
        BY <2>1, <2>2
    <2>4. ASSUME NEW i \in DOMAIN logged
          PROVE  i \in auditLog' <=> logged[i].day >= cutoff'[logged[i].tenant]
        <3>1. logged[i] \in LoggedRec
            OBVIOUS
        <3>2. logged[i].tenant \in AccessTenants /\ logged[i].day \in Nat
            BY <3>1 DEF LoggedRec
        <3>3. CASE logged[i].tenant = t
            BY <3>2, <3>3, <2>1, <2>2, <2>3
        <3>4. CASE logged[i].tenant # t
            BY <3>2, <3>4, <2>2, <2>3
        <3> QED
            BY <3>3, <3>4
    <2>5. auditLog' = {i \in DOMAIN logged' : logged'[i].day >= cutoff'[logged'[i].tenant]}
        BY <2>2, <2>4
    <2>6. \A u \in AccessTenants : cutoff'[u] <= accessDay' - RetentionDays
        BY <2>2, <2>3 DEF before
    <2> QED
        BY <2>2, <2>3, <2>5, <2>6
<1>4. CASE KeysNext
    BY <1>1, <1>4 DEF KeysNext, ChangeRole, ReadOrRefused, ByUser, ByKey, IssueKey, RevokeKey, NextDay, logVars
<1>5. ASSUME NEW role \in CustomRoles, DefineRole(role)
      PROVE  LogInv'
    BY <1>1, <1>5 DEF DefineRole
<1>6. CASE UNCHANGED accessVars \/ NextDay
    BY <1>1, <1>6 DEF accessVars, logVars, NextDay
<1> QED
    BY <1>2, <1>3, <1>4, <1>5, <1>6 DEF LogNext

LEMMA DaysLogged ==
    ASSUME LogInv, NEW i \in DOMAIN logged
    PROVE  logged[i].day \in Nat
<1>1. logged[i] \in LoggedRec
    BY DEF LogInv
<1> QED
    BY <1>1 DEF LoggedRec

\* A page is the newest of what matches: what is left out has as many before it as the page may have.
LEMMA PagesAreNewest ==
    ASSUME LogInv, NEW t \in AccessTenants, NEW limit \in LimitsAsked,
           NEW e \in auditLog, e \notin QueryLog(t, Unset, limit), logged[e].tenant = t,
           NEW shown \in QueryLog(t, Unset, limit)
    PROVE  logged[e].day <= logged[shown].day
<1> DEFINE matches == {i \in auditLog : logged[i].tenant = t /\ Unset \in {Unset, logged[i].action}}
           Before(i) == {j \in matches : ShownBefore(j, i)}
<1>1. IsFiniteSet(matches) /\ matches \subseteq DOMAIN logged
    <2>1. Len(logged) \in Nat /\ DOMAIN logged = 1 .. Len(logged)
        BY DEF LogInv
    <2>2. matches \in SUBSET (1 .. Len(logged)) /\ IsFiniteSet(1 .. Len(logged))
        BY <2>1, FS_Interval DEF LogInv
    <2> HIDE DEF matches
    <2>3. IsFiniteSet(matches)
        BY <2>2, FS_Subset
    <2> QED
        BY <2>1, <2>2, <2>3
<1>2. e \in matches /\ ~ (Cardinality(Before(e)) < PageLimit(limit))
    BY DEF QueryLog
<1>3. shown \in matches /\ Cardinality(Before(shown)) < PageLimit(limit)
    BY DEF QueryLog
<1>4. PageLimit(limit) \in Int
    BY AccessAssumption DEF PageLimit
<1> HIDE DEF matches
<1>5. SUFFICES ASSUME logged[e].day > logged[shown].day
               PROVE  FALSE
    <2>1. logged[e].day \in Nat /\ logged[shown].day \in Nat
        BY <1>1, <1>2, <1>3, DaysLogged
    <2> QED
        BY <2>1
<1>6. Before(e) \subseteq Before(shown)
    <2>1. \A i \in matches : logged[i].day \in Nat
        BY <1>1, DaysLogged
    <2> QED
        BY <2>1, <1>2, <1>3, <1>5 DEF ShownBefore
<1>7. IsFiniteSet(Before(shown)) /\ Before(e) \in SUBSET Before(shown)
    BY <1>1, <1>6, FS_Subset
<1> HIDE DEF Before
<1>8. /\ Cardinality(Before(e)) <= Cardinality(Before(shown))
      /\ Cardinality(Before(shown)) \in Nat /\ Cardinality(Before(e)) \in Nat
    BY <1>7, FS_Subset, FS_CardinalityType
<1> QED
    BY <1>2, <1>3, <1>4, <1>8

LEMMA AccessIsTraced ==
    ASSUME RequestsInv, LogInv
    PROVE  AdministrationIsTraced
<1>1. \A t \in AccessTenants, limit \in LimitsAsked :
          LET page == QueryLog(t, Unset, limit)
          IN \A e \in auditLog \ page : logged[e].tenant = t =>
                 \A shown \in page : logged[e].day <= logged[shown].day
    BY PagesAreNewest
<1> QED
    BY <1>1 DEF RequestsInv, ChainOK, LogInv, AdministrationIsTraced

LEMMA AccessStart ==
    ASSUME AccessInit
    PROVE  RequestsInv /\ LogInv
<1>1. RequestsInv
    BY AccessAssumption DEF AccessInit, RequestsInv, ChainOK, ByKeyOutOfUse
<1>2. LogInv
    BY AccessAssumption DEF AccessInit, LogInv
<1> QED
    BY <1>1, <1>2

-----------------------------------------------------------------------------
(* Subscriptions *)

\* Of a plan the provider took.
Accepted(t) == subscriptions[t] \in SubscriptionRec /\ subscriptions[t].plan \in accepted[t]

SomeTenant == CHOOSE t \in BillTenants : TRUE
SomePlan == CHOOSE p \in PlanIds : TRUE

SubscriptionsInv ==
    /\ subscriptions \in [BillTenants -> SubscriptionRec \cup {NoSubscription}]
    /\ accepted \in [BillTenants -> SUBSET PlanIds]
    /\ billCall \in [BillCalls -> [op : {"none", "subscribe", "changePlan", "cancel"},
                                   tenant : BillTenants \cup {SomeTenant}, plan : PlanIds \cup {SomePlan}]]
    /\ \A c \in BillCalls :
         /\ billCall[c].op # "none" => billCall[c].tenant \in BillTenants /\ billCall[c].plan \in PlanIds
         /\ billCall[c].op = "cancel" => Accepted(billCall[c].tenant)
    /\ \A t \in BillTenants : subscriptions[t] # NoSubscription => Accepted(t)

LEMMA ProviderCalled ==
    ASSUME SubscriptionsInv, NEW c \in BillCalls, NEW op \in {"subscribe", "changePlan", "cancel"},
           NEW t \in BillTenants, NEW p \in PlanIds, CallProvider(c, op, t, p), op = "cancel" => Accepted(t)
    PROVE  SubscriptionsInv'
<1>1. /\ billCall' \in [BillCalls -> [op : {"none", "subscribe", "changePlan", "cancel"},
                                      tenant : BillTenants \cup {SomeTenant}, plan : PlanIds \cup {SomePlan}]]
      /\ billCall'[c] = [op |-> op, tenant |-> t, plan |-> p]
      /\ \A other \in BillCalls : other # c => billCall'[other] = billCall[other]
    BY DEF CallProvider, SubscriptionsInv
<1>2. UNCHANGED <<subscriptions, accepted>>
    BY DEF CallProvider
<1> QED
    BY <1>1, <1>2 DEF SubscriptionsInv, Accepted

LEMMA ProviderAnswered ==
    ASSUME SubscriptionsInv, NEW c \in BillCalls, ProviderAccepts(c)
    PROVE  SubscriptionsInv'
<1>1. PICK op \in {"subscribe", "changePlan", "cancel"}, t \in BillTenants, plan \in PlanIds :
          billCall[c].op = op /\ billCall[c].tenant = t /\ billCall[c].plan = plan /\ (op = "cancel" => Accepted(t))
    BY DEF ProviderAccepts, SubscriptionsInv
<1>2. /\ billCall' \in [BillCalls -> [op : {"none", "subscribe", "changePlan", "cancel"},
                                      tenant : BillTenants \cup {SomeTenant}, plan : PlanIds \cup {SomePlan}]]
      /\ billCall'[c].op = "none"
      /\ \A other \in BillCalls : other # c => billCall'[other] = billCall[other]
    BY DEF ProviderAccepts, SubscriptionsInv
<1>3. PICK status \in {"active", "trialing"} :
          subscriptions' = [subscriptions EXCEPT ![t] =
              IF op = "cancel" THEN [@ EXCEPT !.status = "canceled"]
              ELSE [plan |-> plan, status |-> status]]
    BY <1>1 DEF ProviderAccepts
<1>4. accepted' = IF op = "cancel" THEN accepted ELSE [accepted EXCEPT ![t] = @ \cup {plan}]
    BY <1>1 DEF ProviderAccepts
<1> DEFINE rec == IF op = "cancel" THEN [subscriptions[t] EXCEPT !.status = "canceled"]
                  ELSE [plan |-> plan, status |-> status]
<1>5. subscriptions' = [subscriptions EXCEPT ![t] = rec]
    BY <1>3
<1>6. rec \in SubscriptionRec /\ rec.plan = (IF op = "cancel" THEN subscriptions[t].plan ELSE plan)
    BY <1>1 DEF Accepted, SubscriptionRec
<1> HIDE DEF rec
<1>7. /\ accepted' \in [BillTenants -> SUBSET PlanIds] /\ \A u \in BillTenants : accepted[u] \subseteq accepted'[u]
      /\ op # "cancel" => plan \in accepted'[t]
    BY <1>1, <1>4 DEF SubscriptionsInv
<1>8. /\ subscriptions' \in [BillTenants -> SubscriptionRec \cup {NoSubscription}] /\ subscriptions'[t] = rec
      /\ \A u \in BillTenants : u # t => subscriptions'[u] = subscriptions[u]
    BY <1>1, <1>5, <1>6 DEF SubscriptionsInv
<1>9. Accepted(t)'
    <2>1. CASE op = "cancel"
        BY <2>1, <1>1, <1>6, <1>7, <1>8 DEF Accepted
    <2>2. CASE op # "cancel"
        BY <2>2, <1>1, <1>6, <1>7, <1>8 DEF Accepted
    <2> QED
        BY <2>1, <2>2
<1>10. \A u \in BillTenants : Accepted(u) => Accepted(u)'
    <2>1. ASSUME NEW u \in BillTenants, u # t, Accepted(u)
          PROVE  Accepted(u)'
        BY <2>1, <1>7, <1>8 DEF Accepted
    <2> QED
        BY <2>1, <1>9
<1> QED
    BY <1>2, <1>7, <1>8, <1>9, <1>10 DEF SubscriptionsInv

LEMMA SubscriptionsStep ==
    ASSUME SubscriptionsInv, [BillingNext]_billVars
    PROVE  SubscriptionsInv'
<1>1. CASE UNCHANGED <<subscriptions, accepted, billCall>>
    BY <1>1 DEF SubscriptionsInv, Accepted
<1>2. ASSUME NEW c \in BillCalls, NEW t \in BillTenants, CancelSubscription(c, t)
      PROVE  SubscriptionsInv'
    <2>1. Accepted(t) /\ subscriptions[t].plan \in PlanIds
        BY <1>2 DEF CancelSubscription, SubscriptionsInv, Accepted, SubscriptionRec
    <2> QED
        BY <1>2, <2>1, ProviderCalled DEF CancelSubscription
<1>3. ASSUME NEW c \in BillCalls, NEW t \in BillTenants, NEW p \in PlanIds, Subscribe(c, t, p) \/ ChangePlan(c, t, p)
      PROVE  SubscriptionsInv'
    BY <1>3, ProviderCalled DEF Subscribe, ChangePlan
<1>4. ASSUME NEW c \in BillCalls, ProviderRejects(c)
      PROVE  SubscriptionsInv'
    <2>1. /\ billCall' \in [BillCalls -> [op : {"none", "subscribe", "changePlan", "cancel"},
                                          tenant : BillTenants \cup {SomeTenant}, plan : PlanIds \cup {SomePlan}]]
          /\ billCall'[c].op = "none"
          /\ \A other \in BillCalls : other # c => billCall'[other] = billCall[other]
        BY <1>4 DEF ProviderRejects, SubscriptionsInv
    <2> QED
        BY <1>4, <2>1 DEF ProviderRejects, SubscriptionsInv, Accepted
<1>5. ASSUME NEW p \in PlanIds, NEW active \in BOOLEAN, OfferPlan(p, active)
      PROVE  SubscriptionsInv'
    BY <1>1, <1>5 DEF OfferPlan
<1>6. CASE WebhooksNext \/ UNCHANGED billVars
    BY <1>1, <1>6 DEF WebhooksNext, RegisterEndpoint, UpdateEndpoint, EnableEndpoint, RemoveEndpoint, Patch,
                      SetEndpoint, TestEndpoint, DispatchHooks, Attempt, billVars
<1> QED
    BY <1>2, <1>3, <1>4, <1>5, <1>6, ProviderAnswered DEF BillingNext, SubscriptionsNext

-----------------------------------------------------------------------------
(* Webhooks *)

\* A dispatch under way: whom it has yet to serve has nothing recorded, whom
\* it served has, and the attempts at the first of them failed so far.
DispatchOK(e) ==
    LET d == dispatch[e] IN
    /\ d.pc = "none" => \A w \in Endpoints : RecordedOf(e, w) = {}
    /\ d.pc = "ended" => d.left = {}
    /\ d.pc = "running" =>
         /\ d.left # {} /\ Len(d.made) < d.allowed
         /\ \A i \in DOMAIN d.made :
              /\ d.made[i].endpoint = NextEndpoint(d.left) /\ d.made[i].event = e
              /\ d.made[i].number = i /\ d.made[i].status = "failed"
         /\ \A w \in d.left : RecordedOf(e, w) = {}
    /\ d.pc # "none" => \A w \in d.steady : w \in d.left \/ RecordedOf(e, w) # {}

HooksInv ==
    /\ dispatch \in [DOMAIN HookEvents -> DispatchRec]
    /\ deliveries \in Seq(AttemptRec)
    /\ \A e \in DOMAIN HookEvents :
         DispatchOK(e) /\ \A w \in Endpoints : DeliveryAsRecorded(e, w)

LEMMA NextIsLeft ==
    ASSUME NEW left \in SUBSET Endpoints, left # {}
    PROVE  NextEndpoint(left) \in left /\ NextEndpoint(left) \in Endpoints
<1>1. left \in SUBSET Nat
    BY BillingAssumption
<1>2. \E w \in left : \A other \in left : w <= other
    BY <1>1, LeastId
<1>3. NextEndpoint(left) \in left
    BY <1>2 DEF NextEndpoint
<1> QED
    BY <1>3

\* What is recorded stays so while nothing is delivered, and a dispatch may lose only steady endpoints.
LEMMA DispatchesKept ==
    ASSUME HooksInv, UNCHANGED deliveries, dispatch' \in [DOMAIN HookEvents -> DispatchRec],
           NEW changed \in SUBSET DOMAIN HookEvents,
           \A e \in DOMAIN HookEvents \ changed :
               /\ dispatch'[e].pc = dispatch[e].pc /\ dispatch'[e].left = dispatch[e].left
               /\ dispatch'[e].made = dispatch[e].made /\ dispatch'[e].allowed = dispatch[e].allowed
               /\ dispatch'[e].steady \subseteq dispatch[e].steady,
           \A e \in changed : DispatchOK(e)' /\ \A w \in Endpoints : RecordedOf(e, w) = {}
    PROVE  HooksInv'
<1>1. \A e, w : RecordedOf(e, w)' = RecordedOf(e, w)
    BY DEF RecordedOf
<1>2. ASSUME NEW e \in DOMAIN HookEvents \ changed
      PROVE  DispatchOK(e)' /\ \A w \in Endpoints : DeliveryAsRecorded(e, w)'
    <2>1. DispatchOK(e) /\ \A w \in Endpoints : DeliveryAsRecorded(e, w)
        BY DEF HooksInv
    <2>2. DispatchOK(e)'
        BY <1>1, <2>1 DEF DispatchOK
    <2>3. \A w \in Endpoints : DeliveryAsRecorded(e, w)'
        BY <1>1, <2>1 DEF DeliveryAsRecorded
    <2> QED
        BY <2>2, <2>3
<1>3. ASSUME NEW e \in changed, NEW w \in Endpoints
      PROVE  DeliveryAsRecorded(e, w)'
    BY <1>1 DEF DeliveryAsRecorded
<1> QED
    BY <1>2, <1>3 DEF HooksInv

LEMMA EndpointSet ==
    ASSUME HooksInv, NEW w \in Endpoints, NEW rec, SetEndpoint(w, rec)
    PROVE  HooksInv'
<1>1. ASSUME NEW e \in DOMAIN HookEvents
      PROVE  /\ dispatch'[e] \in DispatchRec
             /\ dispatch'[e].pc = dispatch[e].pc /\ dispatch'[e].left = dispatch[e].left
             /\ dispatch'[e].made = dispatch[e].made /\ dispatch'[e].allowed = dispatch[e].allowed
             /\ dispatch'[e].steady \subseteq dispatch[e].steady
    <2>1. dispatch[e] \in DispatchRec
        BY DEF HooksInv
    <2>2. dispatch'[e] = IF IsSubscribed(rec, HookEvents[e]) THEN dispatch[e]
                         ELSE [dispatch[e] EXCEPT !.steady = @ \ {w}]
        BY DEF SetEndpoint
    <2> QED
        BY <2>1, <2>2 DEF DispatchRec
<1>2. dispatch' \in [DOMAIN HookEvents -> DispatchRec] /\ UNCHANGED deliveries
    BY <1>1 DEF SetEndpoint
<1>3. {} \in SUBSET DOMAIN HookEvents
    OBVIOUS
<1> QED
    BY <1>1, <1>2, <1>3, DispatchesKept

LEMMA DispatchBegun ==
    ASSUME HooksInv, NEW e \in DOMAIN HookEvents, DispatchHooks(e) \/ \E w \in Endpoints : TestEndpoint(e, w)
    PROVE  HooksInv'
<1>1. PICK left \in SUBSET Endpoints, allowed \in 1 .. DeliveryAttempts, steady \in SUBSET Endpoints :
          steady \subseteq left /\ dispatch' = [dispatch EXCEPT ![e] =
              [pc |-> IF left = {} THEN "ended" ELSE "running", left |-> left, made |-> <<>>,
               allowed |-> allowed, steady |-> steady]]
    <2>1. CASE DispatchHooks(e)
        <3> DEFINE subscribers == {w \in Endpoints : IsSubscribed(endpoints[w], HookEvents[e])}
        <3>1. DeliveryAttempts \in 1 .. DeliveryAttempts
            BY BillingAssumption
        <3>2. dispatch' = [dispatch EXCEPT ![e] =
                  [pc |-> IF subscribers = {} THEN "ended" ELSE "running", left |-> subscribers, made |-> <<>>,
                   allowed |-> DeliveryAttempts, steady |-> subscribers]]
            BY <2>1 DEF DispatchHooks
        <3>3. subscribers \in SUBSET Endpoints /\ subscribers \subseteq subscribers
            OBVIOUS
        <3> HIDE DEF subscribers
        <3> QED
            BY <3>1, <3>2, <3>3
    <2>2. ASSUME NEW w \in Endpoints, TestEndpoint(e, w)
          PROVE  \E left \in SUBSET Endpoints, allowed \in 1 .. DeliveryAttempts, steady \in SUBSET Endpoints :
                     steady \subseteq left /\ dispatch' = [dispatch EXCEPT ![e] =
                         [pc |-> IF left = {} THEN "ended" ELSE "running", left |-> left, made |-> <<>>,
                          allowed |-> allowed, steady |-> steady]]
        <3>1. 1 \in 1 .. DeliveryAttempts
            BY BillingAssumption
        <3>2. dispatch' = [dispatch EXCEPT ![e] =
                  [pc |-> IF {w} = {} THEN "ended" ELSE "running", left |-> {w}, made |-> <<>>,
                   allowed |-> 1, steady |-> {}]]
            BY <2>2 DEF TestEndpoint
        <3>3. {w} \in SUBSET Endpoints /\ {} \in SUBSET Endpoints /\ {} \subseteq {w}
            OBVIOUS
        <3> QED
            BY <3>1, <3>2, <3>3
    <2> QED
        BY <2>1, <2>2
<1>2. dispatch[e].pc = "none" /\ UNCHANGED deliveries
    BY DEF DispatchHooks, TestEndpoint
<1>3. \A w \in Endpoints : RecordedOf(e, w) = {}
    BY <1>2 DEF HooksInv, DispatchOK
<1> DEFINE d == [pc |-> IF left = {} THEN "ended" ELSE "running", left |-> left, made |-> <<>>,
                 allowed |-> allowed, steady |-> steady]
<1>4. /\ d \in DispatchRec /\ dispatch' \in [DOMAIN HookEvents -> DispatchRec] /\ dispatch'[e] = d
      /\ \A other \in DOMAIN HookEvents \ {e} : dispatch'[other] = dispatch[other]
    <2>1. d \in DispatchRec
        BY DEF DispatchRec
    <2> HIDE DEF d
    <2>2. dispatch' = [dispatch EXCEPT ![e] = d]
        BY <1>1 DEF d
    <2> QED
        BY <2>1, <2>2 DEF HooksInv
<1>5. \A w : RecordedOf(e, w)' = RecordedOf(e, w)
    BY <1>2 DEF RecordedOf
<1>6. DispatchOK(e)'
    <2>1. Len(<<>>) < allowed /\ DOMAIN <<>> = {} /\ d.pc = (IF left = {} THEN "ended" ELSE "running")
          /\ d.left = left /\ d.made = <<>> /\ d.allowed = allowed /\ d.steady = steady
        OBVIOUS
    <2> HIDE DEF d
    <2>2. \A w \in left : RecordedOf(e, w)' = {}
        BY <1>3, <1>5
    <2>3. \A w \in d.steady : w \in d.left
        BY <1>1, <2>1
    <2> QED
        BY <1>4, <2>1, <2>2, <2>3 DEF DispatchOK
<1>7. {e} \in SUBSET DOMAIN HookEvents
    OBVIOUS
<1> HIDE DEF d
<1> QED
    BY <1>2, <1>3, <1>4, <1>6, <1>7, DispatchesKept

\* One more attempt failed, and another is allowed.
LEMMA AttemptFailed ==
    ASSUME HooksInv, NEW e \in DOMAIN HookEvents, dispatch[e].pc = "running", UNCHANGED deliveries,
           NEW attempt \in AttemptRec,
           attempt.endpoint = NextEndpoint(dispatch[e].left), attempt.event = e,
           attempt.number = Len(dispatch[e].made) + 1, attempt.status = "failed",
           Len(dispatch[e].made) + 1 # dispatch[e].allowed,
           dispatch' = [dispatch EXCEPT ![e] = [dispatch[e] EXCEPT !.made = Append(dispatch[e].made, attempt)]]
    PROVE  HooksInv'
<1> DEFINE made == Append(dispatch[e].made, attempt)
           n == Len(dispatch[e].made)
           d == [dispatch[e] EXCEPT !.made = made]
<1>1. dispatch[e] \in DispatchRec /\ DispatchOK(e)
    BY DEF HooksInv
<1>2. dispatch[e].made \in Seq(AttemptRec) /\ n \in Nat /\ dispatch[e].allowed \in Nat
    BY <1>1, BillingAssumption DEF DispatchRec
<1>3. /\ made \in Seq(AttemptRec) /\ Len(made) = n + 1 /\ DOMAIN made = 1 .. n + 1 /\ made[n + 1] = attempt
      /\ DOMAIN dispatch[e].made = 1 .. n /\ \A i \in 1 .. n : made[i] = dispatch[e].made[i]
    BY <1>2
<1>4. n + 1 < dispatch[e].allowed
    BY <1>1, <1>2 DEF DispatchOK
<1> HIDE DEF made
<1>5. /\ d \in DispatchRec /\ d.made = made /\ d.pc = dispatch[e].pc /\ d.left = dispatch[e].left
      /\ d.allowed = dispatch[e].allowed /\ d.steady = dispatch[e].steady
    BY <1>1, <1>3 DEF DispatchRec
<1>6. dispatch' = [dispatch EXCEPT ![e] = d]
    BY DEF made
<1> HIDE DEF d
<1>7. /\ dispatch' \in [DOMAIN HookEvents -> DispatchRec] /\ dispatch'[e] = d
      /\ \A other \in DOMAIN HookEvents \ {e} : dispatch'[other] = dispatch[other]
    BY <1>5, <1>6 DEF HooksInv
<1>8. \A f, w : RecordedOf(f, w)' = RecordedOf(f, w)
    BY DEF RecordedOf
<1>9. ASSUME NEW i \in DOMAIN made
      PROVE  /\ made[i].endpoint = NextEndpoint(d.left) /\ made[i].event = e
             /\ made[i].number = i /\ made[i].status = "failed"
    <2>1. CASE i = n + 1
        BY <2>1, <1>3, <1>5
    <2>2. CASE i \in 1 .. n
        BY <2>2, <1>1, <1>3, <1>5 DEF DispatchOK
    <2> QED
        BY <2>1, <2>2, <1>2, <1>3
<1>10. DispatchOK(e)'
    BY <1>1, <1>3, <1>4, <1>5, <1>7, <1>8, <1>9 DEF DispatchOK
<1>11. \A f \in DOMAIN HookEvents \ {e} : DispatchOK(f)'
    BY <1>7, <1>8 DEF HooksInv, DispatchOK
<1>12. ASSUME NEW f \in DOMAIN HookEvents, NEW w \in Endpoints
       PROVE  DeliveryAsRecorded(f, w)'
    <2>1. DeliveryAsRecorded(f, w) /\ dispatch'[f].allowed = dispatch[f].allowed
        BY <1>5, <1>7 DEF HooksInv
    <2> QED
        BY <2>1, <1>8 DEF DeliveryAsRecorded
<1> QED
    BY <1>7, <1>10, <1>11, <1>12 DEF HooksInv

\* Attempts numbered from the first place on, of which only the last did not fail.
InOrder(seq, places, allowed) ==
    \A i \in places :
        LET last == \A j \in places : j <= i
        IN  /\ seq[i].number = Cardinality({j \in places : j <= i})
            /\ ~last => seq[i].status = "failed"
            /\ last => \/ seq[i].status = "delivered"
                       \/ seq[i].status = "expired" /\ seq[i].number = allowed

Numbered(seq, places, l, n, allowed) ==
    /\ l \in Nat /\ n \in Nat \ {0} /\ places = l + 1 .. l + n
    /\ \A k \in 1 .. n : seq[l + k].number = k /\ (k # n => seq[l + k].status = "failed")
    /\ seq[l + n].status = "delivered" \/ (seq[l + n].status = "expired" /\ n = allowed)

LEMMA RecordedInOrder ==
    ASSUME NEW seq, NEW places, NEW allowed, NEW l, NEW n, Numbered(seq, places, l, n, allowed)
    PROVE  InOrder(seq, places, allowed)
<1> USE DEF Numbered
<1> SUFFICES ASSUME NEW i \in places
             PROVE  /\ seq[i].number = Cardinality({j \in places : j <= i})
                    /\ ~(\A j \in places : j <= i) => seq[i].status = "failed"
                    /\ (\A j \in places : j <= i) =>
                           seq[i].status = "delivered" \/ (seq[i].status = "expired" /\ seq[i].number = allowed)
    BY DEF InOrder
<1>1. i \in Nat /\ i - l \in 1 .. n /\ i = l + (i - l)
    OBVIOUS
<1>2. {j \in places : j <= i} = l + 1 .. i
    BY <1>1
<1>3. Cardinality(l + 1 .. i) = i - (l + 1) + 1
    BY <1>1, FS_Interval
<1>4. i - (l + 1) + 1 = i - l
    BY <1>1
<1>5. seq[i].number = i - l /\ (i # l + n => seq[i].status = "failed")
    BY <1>1
<1>6. (\A j \in places : j <= i) <=> i = l + n
    BY <1>1
<1>7. i = l + n => i - l = n
    BY <1>1
<1> QED
    BY <1>2, <1>3, <1>4, <1>5, <1>6, <1>7

\* The attempts at an endpoint: made so far, and as they are recorded when they are over.
AttemptsAt(seq, e, w) ==
    /\ seq \in Seq(AttemptRec) /\ Len(seq) \in Nat \ {0}
    /\ \A i \in 1 .. Len(seq) :
         /\ seq[i].endpoint = w /\ seq[i].event = e /\ seq[i].number = i
         /\ i # Len(seq) => seq[i].status = "failed"
Complete(seq, e, w, allowed) ==
    /\ AttemptsAt(seq, e, w)
    /\ \/ seq[Len(seq)].status = "delivered"
       \/ seq[Len(seq)].status = "expired" /\ Len(seq) = allowed

LEMMA RecordKept ==
    ASSUME NEW e \in DOMAIN HookEvents, NEW w \in Endpoints, DeliveryAsRecorded(e, w),
           RecordedOf(e, w)' = RecordedOf(e, w), \A i \in RecordedOf(e, w) : deliveries'[i] = deliveries[i],
           dispatch'[e].allowed = dispatch[e].allowed
    PROVE  DeliveryAsRecorded(e, w)'
    BY DEF DeliveryAsRecorded

LEMMA AttemptsOver ==
    ASSUME HooksInv, NEW e \in DOMAIN HookEvents, dispatch[e].pc = "running",
           NEW w \in Endpoints, w = NextEndpoint(dispatch[e].left), w \in dispatch[e].left,
           NEW made, Complete(made, e, w, dispatch[e].allowed), deliveries' = deliveries \o made, NEW d, dispatch' = [dispatch EXCEPT ![e] = d],
           d = [pc |-> IF dispatch[e].left = {w} THEN "ended" ELSE "running", left |-> dispatch[e].left \ {w},
                made |-> <<>>, allowed |-> dispatch[e].allowed, steady |-> dispatch[e].steady]
    PROVE  HooksInv'
<1> PICK l : l = Len(deliveries)
    OBVIOUS
<1> PICK n \in Nat \ {0} :
        /\ n = Len(made) /\ made \in Seq(AttemptRec)
        /\ \A i \in 1 .. n :
             /\ made[i].endpoint = w /\ made[i].event = e /\ made[i].number = i
             /\ i # n => made[i].status = "failed"
        /\ made[n].status = "delivered" \/ (made[n].status = "expired" /\ n = dispatch[e].allowed)
    BY DEF Complete, AttemptsAt
<1>1. dispatch[e] \in DispatchRec /\ DispatchOK(e)
    BY DEF HooksInv
<1>2. RecordedOf(e, w) = {}
    BY <1>1 DEF DispatchOK
<1>3. /\ d \in DispatchRec /\ d.made = <<>> /\ d.left = dispatch[e].left \ {w} /\ d.allowed = dispatch[e].allowed
      /\ d.pc = (IF dispatch[e].left = {w} THEN "ended" ELSE "running") /\ d.steady = dispatch[e].steady
    BY <1>1 DEF DispatchRec
<1>4. /\ dispatch' \in [DOMAIN HookEvents -> DispatchRec] /\ dispatch'[e] = d
      /\ \A other \in DOMAIN HookEvents \ {e} : dispatch'[other] = dispatch[other]
    BY <1>3 DEF HooksInv
<1>5. DOMAIN made = 1 .. n /\ l \in Nat /\ n \in Nat
    BY DEF HooksInv
<1>6. /\ deliveries' \in Seq(AttemptRec)
      /\ DOMAIN deliveries = 1 .. l /\ DOMAIN deliveries' = 1 .. l + n
      /\ \A i \in 1 .. l : i \in 1 .. l + n /\ deliveries'[i] = deliveries[i]
      /\ \A i \in 1 .. n : deliveries'[l + i] = made[i]
      /\ \A i \in 1 .. l + n : i \notin 1 .. l => deliveries'[i].event = e /\ deliveries'[i].endpoint = w
    <2>1. /\ deliveries \in Seq(AttemptRec) /\ deliveries' \in Seq(AttemptRec)
          /\ DOMAIN deliveries = 1 .. l /\ DOMAIN deliveries' = 1 .. l + n
          /\ \A i \in 1 .. l : deliveries'[i] = deliveries[i]
          /\ \A i \in 1 .. n : deliveries'[l + i] = made[i]
        BY DEF HooksInv
    <2>2. ASSUME NEW i \in 1 .. l + n, i \notin 1 .. l
          PROVE  deliveries'[i].event = e /\ deliveries'[i].endpoint = w
        <3>1. i - l \in 1 .. n /\ i = l + (i - l)
            BY <1>5, <2>2
        <3> QED
            BY <2>1, <3>1
    <2>3. 1 .. l \subseteq 1 .. l + n
        BY <1>5
    <2> QED
        BY <2>1, <2>2, <2>3
<1>7. ASSUME NEW f, NEW v, ~(f = e /\ v = w)
      PROVE  RecordedOf(f, v)' = RecordedOf(f, v)
    <2>1. \A i : i \in 1 .. l + n /\ deliveries'[i].event = f /\ deliveries'[i].endpoint = v
                    <=> i \in 1 .. l /\ deliveries[i].event = f /\ deliveries[i].endpoint = v
        BY <1>6, <1>7
    <2>2. {i \in 1 .. l + n : deliveries'[i].event = f /\ deliveries'[i].endpoint = v}
              = {i \in 1 .. l : deliveries[i].event = f /\ deliveries[i].endpoint = v}
        BY <2>1
    <2> QED
        BY <2>2, <1>6 DEF RecordedOf
<1>8. RecordedOf(e, w)' = l + 1 .. l + n
    <2>1. \A i : ~(i \in 1 .. l /\ deliveries[i].event = e /\ deliveries[i].endpoint = w)
        BY <1>2, <1>6 DEF RecordedOf
    <2>2. \A i : i \in 1 .. l + n /\ deliveries'[i].event = e /\ deliveries'[i].endpoint = w
                    <=> i \in 1 .. l + n /\ i \notin 1 .. l
        BY <2>1, <1>6
    <2>3. \A i : i \in 1 .. l + n /\ i \notin 1 .. l <=> i \in l + 1 .. l + n
        BY <1>5
    <2>4. {i \in 1 .. l + n : deliveries'[i].event = e /\ deliveries'[i].endpoint = w} = l + 1 .. l + n
        BY <2>2, <2>3
    <2> QED
        BY <2>4, <1>6 DEF RecordedOf
<1>9. DispatchOK(e)'
    <2>1. RecordedOf(e, w)' # {}
        BY <1>5, <1>8
    <2>2. \A v \in dispatch[e].left \ {w} : RecordedOf(e, v)' = {}
        BY <1>1, <1>7 DEF DispatchOK
    <2>3. \A v \in d.steady : v \in d.left \/ RecordedOf(e, v)' # {}
        <3>1. \A v \in d.steady : v \in dispatch[e].left \/ RecordedOf(e, v) # {}
            BY <1>1, <1>3 DEF DispatchOK
        <3>2. ASSUME NEW v \in d.steady, v # w
              PROVE  v \in d.left \/ RecordedOf(e, v)' # {}
            <4>1. RecordedOf(e, v)' = RecordedOf(e, v)
                BY <1>7, <3>2
            <4> QED
                BY <1>3, <3>1, <3>2, <4>1
        <3> QED
            BY <3>2, <2>1
    <2>4. Len(<<>>) < d.allowed /\ DOMAIN <<>> = {}
        BY <1>1, <1>3 DEF DispatchRec
    <2>5. d.pc = "ended" => d.left = {}
        BY <1>3
    <2>6. d.pc = "running" => d.left # {}
        BY <1>3
    <2>7. d.pc \in {"running", "ended"}
        BY <1>3
    <2> QED
        BY <1>3, <1>4, <2>2, <2>3, <2>4, <2>5, <2>6, <2>7 DEF DispatchOK
<1>10. \A f \in DOMAIN HookEvents \ {e} : DispatchOK(f)'
    <2>1. ASSUME NEW f \in DOMAIN HookEvents \ {e}
          PROVE  DispatchOK(f)'
        <3>1. DispatchOK(f) /\ dispatch'[f] = dispatch[f] /\ \A v : RecordedOf(f, v)' = RecordedOf(f, v)
            BY <1>4, <1>7 DEF HooksInv
        <3> QED
            BY <3>1 DEF DispatchOK
    <2> QED
        BY <2>1
<1>11. DeliveryAsRecorded(e, w)'
    <2>1. \A i \in 1 .. n : deliveries'[l + i].number = i /\ (i # n => deliveries'[l + i].status = "failed")
        BY <1>6
    <2>2. deliveries'[l + n].status = "delivered"
               \/ (deliveries'[l + n].status = "expired" /\ n = dispatch'[e].allowed)
        BY <1>3, <1>4, <1>6
    <2>3. PICK places, seq, allowed :
              places = RecordedOf(e, w)' /\ seq = deliveries' /\ allowed = dispatch'[e].allowed
        OBVIOUS
    <2>4. Numbered(seq, places, l, n, allowed)
        BY <1>5, <1>8, <2>1, <2>2, <2>3 DEF Numbered
    <2>5. InOrder(seq, places, allowed)
        BY <2>4, RecordedInOrder
    <2> QED
        BY <2>3, <2>5 DEF DeliveryAsRecorded, InOrder
<1>12. ASSUME NEW f \in DOMAIN HookEvents, NEW v \in Endpoints, ~(f = e /\ v = w)
       PROVE  DeliveryAsRecorded(f, v)'
    <2>1. DeliveryAsRecorded(f, v) /\ dispatch'[f].allowed = dispatch[f].allowed
        BY <1>3, <1>4 DEF HooksInv
    <2>2. RecordedOf(f, v)' = RecordedOf(f, v)
        BY <1>7, <1>12
    <2>3. \A i \in RecordedOf(f, v) : deliveries'[i] = deliveries[i]
        BY <1>6 DEF RecordedOf
    <2> QED
        BY <2>1, <2>2, <2>3, RecordKept
<1> QED
    BY <1>4, <1>6, <1>9, <1>10, <1>11, <1>12 DEF HooksInv

\* The new attempt is the last, and expires if it failed.
LEMMA RecordedAttempts ==
    ASSUME NEW e \in DOMAIN HookEvents, NEW w \in Endpoints, NEW allowed, NEW made, AttemptsAt(made, e, w),
           NEW delivered \in BOOLEAN,
           made[Len(made)].status = (IF delivered THEN "delivered" ELSE "failed"), delivered \/ Len(made) = allowed
    PROVE  Complete(Recorded(made, delivered), e, w, allowed)
<1>1. CASE delivered
    <2>1. Recorded(made, delivered) = made
        BY <1>1 DEF Recorded
    <2> QED
        BY <1>1, <2>1 DEF Complete
<1>2. CASE ~delivered
    <2> DEFINE n == Len(made)
               last == [made[n] EXCEPT !.status = "expired"]
    <2>1. made \in Seq(AttemptRec) /\ n \in Nat \ {0} /\ DOMAIN made = 1 .. n
        BY DEF AttemptsAt
    <2>2. made[n] \in AttemptRec
        BY <2>1
    <2>3. /\ last \in AttemptRec /\ last.status = "expired" /\ last.endpoint = made[n].endpoint
          /\ last.event = made[n].event /\ last.number = made[n].number
        BY <2>2 DEF AttemptRec
    <2>4. Recorded(made, delivered) = [made EXCEPT ![n] = last]
        BY <1>2 DEF Recorded
    <2>5. PICK rec : rec = Recorded(made, delivered)
        OBVIOUS
    <2> HIDE DEF last
    <2>6. /\ rec \in Seq(AttemptRec) /\ Len(rec) = n /\ rec[n] = last
          /\ \A i \in 1 .. n : i # n => rec[i] = made[i]
        BY <2>1, <2>3, <2>4, <2>5
    <2>7. \A i \in 1 .. n : made[i].endpoint = w /\ made[i].event = e /\ made[i].number = i
                            /\ (i # n => made[i].status = "failed")
        BY DEF AttemptsAt
    <2>8. \A i \in 1 .. n : rec[i].endpoint = w /\ rec[i].event = e /\ rec[i].number = i
                            /\ (i # n => rec[i].status = "failed")
        <3>1. ASSUME NEW i \in 1 .. n
              PROVE  rec[i].endpoint = made[i].endpoint /\ rec[i].event = made[i].event
                         /\ rec[i].number = made[i].number /\ (i # n => rec[i].status = made[i].status)
            <4>1. CASE i = n
                BY <4>1, <2>3, <2>6
            <4>2. CASE i # n
                BY <4>2, <2>6
            <4> QED
                BY <4>1, <4>2
        <3> QED
            BY <2>7, <3>1
    <2>9. Complete(rec, e, w, allowed)
        BY <1>2, <2>1, <2>3, <2>6, <2>8 DEF Complete, AttemptsAt
    <2> QED
        BY <2>5, <2>9
<1> QED
    BY <1>1, <1>2

LEMMA HookAttempted ==
    ASSUME HooksInv, NEW e \in DOMAIN HookEvents, NEW delivered \in BOOLEAN, Attempt(e, delivered)
    PROVE  HooksInv'
<1> DEFINE d == dispatch[e]
           w == NextEndpoint(d.left)
           attempt == [endpoint |-> w, event |-> e, number |-> Len(d.made) + 1,
                       status |-> IF delivered THEN "delivered" ELSE "failed"]
           made == Append(d.made, attempt)
           n == Len(d.made) + 1
           over == delivered \/ Len(made) = d.allowed
<1>1. d \in DispatchRec /\ DispatchOK(e) /\ d.pc = "running"
    BY DEF HooksInv, Attempt
<1>2. /\ d.left \in SUBSET Endpoints /\ d.left # {} /\ d.made \in Seq(AttemptRec)
      /\ d.allowed \in 1 .. DeliveryAttempts /\ d.steady \in SUBSET Endpoints
    BY <1>1 DEF DispatchRec, DispatchOK
<1>3. w \in d.left /\ w \in Endpoints
    BY <1>2, NextIsLeft
<1>4. Len(d.made) \in Nat /\ n \in Nat \ {0} /\ n \in 1 .. DeliveryAttempts /\ n <= d.allowed
    <2>1. Len(d.made) < d.allowed
        BY <1>1 DEF DispatchOK
    <2>2. Len(d.made) \in Nat /\ d.allowed \in Nat /\ d.allowed <= DeliveryAttempts /\ DeliveryAttempts \in Nat
        BY <1>2, BillingAssumption
    <2> HIDE DEF d
    <2> QED
        BY <2>1, <2>2
<1>5. attempt \in AttemptRec
    BY <1>3, <1>4 DEF AttemptRec
<1>6. /\ dispatch' = [dispatch EXCEPT ![e] =
             IF ~over THEN [d EXCEPT !.made = made]
             ELSE [d EXCEPT !.made = <<>>, !.left = @ \ {w}, !.pc = IF d.left = {w} THEN "ended" ELSE "running"]]
      /\ deliveries' = IF over THEN deliveries \o Recorded(made, delivered) ELSE deliveries
    BY DEF Attempt
<1>7. CASE ~over
    <2>1. attempt.status = "failed" /\ n # d.allowed
        BY <1>2, <1>5, <1>7
    <2>2. dispatch' = [dispatch EXCEPT ![e] = [dispatch[e] EXCEPT !.made = Append(dispatch[e].made, attempt)]]
        BY <1>6, <1>7
    <2>3. UNCHANGED deliveries
        BY <1>6, <1>7
    <2>4. attempt.endpoint = w /\ attempt.event = e /\ attempt.number = n
        OBVIOUS
    <2> HIDE DEF attempt
    <2> QED
        BY <1>1, <1>5, <2>1, <2>2, <2>3, <2>4, AttemptFailed
<1>8. CASE over
    <2>1. /\ made \in Seq(AttemptRec) /\ Len(made) = n /\ made[n] = attempt /\ DOMAIN d.made = 1 .. Len(d.made)
          /\ \A i \in 1 .. Len(d.made) : made[i] = d.made[i]
        BY <1>2, <1>5
    <2>2. attempt.endpoint = w /\ attempt.event = e /\ attempt.number = n
          /\ attempt.status = (IF delivered THEN "delivered" ELSE "failed")
        OBVIOUS
    <2>3. delivered \/ n = d.allowed
        BY <1>8, <2>1
    <2> HIDE DEF attempt, made
    <2>4. ASSUME NEW i \in 1 .. n
          PROVE  /\ made[i].endpoint = w /\ made[i].event = e /\ made[i].number = i
                 /\ i # n => made[i].status = "failed"
        <3>1. CASE i = n
            BY <3>1, <2>1, <2>2
        <3>2. CASE i # n
            <4>1. i \in 1 .. Len(d.made)
                BY <3>2, <1>4
            <4> QED
                BY <4>1, <2>1, <1>1 DEF DispatchOK
        <3> QED
            BY <3>1, <3>2
    <2>5. made[n].status = (IF delivered THEN "delivered" ELSE "failed")
        BY <2>1, <2>2
    <2>6. AttemptsAt(made, e, w)
        BY <1>4, <2>1, <2>4 DEF AttemptsAt
    <2>7. PICK rec, next : /\ rec = Recorded(made, delivered)
                           /\ next = [pc |-> IF d.left = {w} THEN "ended" ELSE "running", left |-> d.left \ {w},
                                      made |-> <<>>, allowed |-> d.allowed, steady |-> d.steady]
        OBVIOUS
    <2>8. Complete(rec, e, w, d.allowed)
        <3>1. made[Len(made)].status = (IF delivered THEN "delivered" ELSE "failed") /\ (delivered \/ Len(made) = d.allowed)
            BY <2>1, <2>3, <2>5
        <3> HIDE DEF w, n, d
        <3> QED
            BY <1>3, <2>6, <2>7, <3>1, RecordedAttempts
    <2>9. deliveries' = deliveries \o rec
        BY <1>6, <1>8, <2>7 DEF made
    <2>10. [d EXCEPT !.made = <<>>, !.left = @ \ {w}, !.pc = IF d.left = {w} THEN "ended" ELSE "running"] = next
        <3>1. PICK pc, left : pc = (IF d.left = {w} THEN "ended" ELSE "running") /\ left = d.left \ {w}
            OBVIOUS
        <3>2. PICK D : D = d /\ D \in DispatchRec
            BY <1>1
        <3>3. next = [pc |-> pc, left |-> left, made |-> <<>>, allowed |-> D.allowed, steady |-> D.steady]
            BY <2>7, <3>1, <3>2
        <3>4. PICK none : none = <<>>
            OBVIOUS
        <3>5. D = [pc |-> D.pc, left |-> D.left, made |-> D.made, allowed |-> D.allowed, steady |-> D.steady]
            BY <3>2 DEF DispatchRec
        <3>6. PICK D1 : D1 = [D EXCEPT !.made = none]
            OBVIOUS
        <3>7. D1 = [pc |-> D.pc, left |-> D.left, made |-> none, allowed |-> D.allowed, steady |-> D.steady]
            BY <3>5, <3>6
        <3>8. PICK D2 : D2 = [D1 EXCEPT !.left = left]
            OBVIOUS
        <3>9. D2 = [pc |-> D.pc, left |-> left, made |-> none, allowed |-> D.allowed, steady |-> D.steady]
            BY <3>7, <3>8
        <3>10. [D2 EXCEPT !.pc = pc]
                  = [pc |-> pc, left |-> left, made |-> none, allowed |-> D.allowed, steady |-> D.steady]
            BY <3>9
        <3>11. [D EXCEPT !.made = none, !.left = left, !.pc = pc] = [D2 EXCEPT !.pc = pc]
            BY <3>6, <3>8
        <3> HIDE DEF d, w
        <3> QED
            BY <3>1, <3>2, <3>3, <3>4, <3>10, <3>11
    <2>11. dispatch' = [dispatch EXCEPT ![e] = next]
        BY <1>6, <1>8, <2>10 DEF made, attempt
    <2> QED
        BY <1>1, <1>3, <2>7, <2>8, <2>9, <2>11, AttemptsOver
<1> QED
    BY <1>7, <1>8

LEMMA HooksStep ==
    ASSUME HooksInv, [BillingNext]_billVars
    PROVE  HooksInv'
<1>1. CASE UNCHANGED <<dispatch, deliveries>>
    <2>1. {} \in SUBSET DOMAIN HookEvents /\ dispatch' \in [DOMAIN HookEvents -> DispatchRec]
        BY <1>1 DEF HooksInv
    <2> QED
        BY <1>1, <2>1, DispatchesKept
<1>2. ASSUME NEW w \in Endpoints, NEW types \in SUBSET HookTypes, RegisterEndpoint(w, types) \/ UpdateEndpoint(w, types)
      PROVE  HooksInv'
    BY <1>2, EndpointSet DEF RegisterEndpoint, UpdateEndpoint, Patch
<1>3. ASSUME NEW w \in Endpoints, RemoveEndpoint(w) \/ \E enabled \in BOOLEAN : EnableEndpoint(w, enabled)
      PROVE  HooksInv'
    BY <1>3, EndpointSet DEF RemoveEndpoint, EnableEndpoint, Patch
<1>4. CASE SubscriptionsNext \/ UNCHANGED billVars
    BY <1>1, <1>4 DEF SubscriptionsNext, OfferPlan, CancelSubscription, Subscribe, ChangePlan, CallProvider,
                      ProviderRejects, ProviderAccepts, hookVars, billVars
<1> QED
    BY <1>2, <1>3, <1>4, DispatchBegun, HookAttempted DEF BillingNext, WebhooksNext

LEMMA BillingStart ==
    ASSUME BillingInit
    PROVE  SubscriptionsInv /\ HooksInv
<1>1. SubscriptionsInv
    BY DEF BillingInit, SubscriptionsInv, SomeTenant, SomePlan
<1>2. \A e, w : RecordedOf(e, w) = {}
    BY DEF BillingInit, RecordedOf
<1>3. 1 \in 1 .. DeliveryAttempts
    BY BillingAssumption
<1>4. dispatch \in [DOMAIN HookEvents -> DispatchRec] /\ deliveries \in Seq(AttemptRec)
    BY <1>3 DEF BillingInit, DispatchRec
<1>5. ASSUME NEW e \in DOMAIN HookEvents
      PROVE  DispatchOK(e) /\ \A w \in Endpoints : DeliveryAsRecorded(e, w)
    BY <1>2 DEF BillingInit, DispatchOK, DeliveryAsRecorded
<1> QED
    BY <1>1, <1>4, <1>5 DEF HooksInv

LEMMA BillingAgrees ==
    ASSUME SubscriptionsInv, HooksInv
    PROVE  OutsideAgrees
<1>1. ASSUME NEW t \in BillTenants, subscriptions[t] # NoSubscription
      PROVE  subscriptions[t].plan \in accepted[t]
    BY <1>1 DEF SubscriptionsInv, Accepted
<1>2. ASSUME NEW e \in DOMAIN HookEvents, dispatch[e].pc = "ended", NEW w \in dispatch[e].steady
      PROVE  RecordedOf(e, w) # {}
    BY <1>2 DEF HooksInv, DispatchOK
<1> QED
    BY <1>1, <1>2 DEF OutsideAgrees, HooksInv

-----------------------------------------------------------------------------
(* What a tenant relies on *)

\* Every membership, team and organization of the enterprise service can be
\* reached from the account of its user (orgs.ts, users.ts), whatever
\* invitations, removals and provider calls overlap.
THEOREM AccountsReachMembers == AccountsSpec => []MembershipsReachable
<1>1. AccountsInit => MembersInv
    BY MembersStart
<1>2. MembersInv /\ [AccountsNext]_accountVars => MembersInv'
    BY MembersStep
<1>3. MembersInv => MembershipsReachable
    BY MembersAreReachable
<1> QED
    BY <1>1, <1>2, <1>3, PTL DEF AccountsSpec

\* "Rotates a refresh token" and "Revokes the session" (auth.ts:159, 178): of
\* a session that was refreshed, logged out or found expired no token is left
\* and none gives access, whatever refreshes and logouts were under way; the
\* others keep both of theirs, and none began while its tenant was inactive.
THEOREM SpentSessionsEnd == SessionsSpec => []SpentSessionsStaySpent
<1>1. SessionsInit => SessionInv
    BY SessionStart
<1>2. SessionInv /\ [SessionsNext]_sessionVars => SessionInv'
    BY SessionStep
<1>3. SessionInv => SpentSessionsStaySpent
    BY SpentStay
<1> QED
    BY <1>1, <1>2, <1>3, PTL DEF SessionsSpec

\* A subscription is of a plan the provider accepted, though calls overlap
\* and fail (billing.ts), and the recorded attempts of an event at an endpoint
\* are numbered, all but the last failed, none missing of an endpoint that was
\* subscribed throughout (webhooks.ts).
THEOREM OutsideAgreesWithRecords == BillingSpec => []OutsideAgrees
<1> DEFINE Inv == SubscriptionsInv /\ HooksInv
<1>1. BillingInit => Inv
    BY BillingStart
<1>2. Inv /\ [BillingNext]_billVars => Inv'
    BY SubscriptionsStep, HooksStep
<1>3. Inv => OutsideAgrees
    BY BillingAgrees
<1> QED
    BY <1>1, <1>2, <1>3, PTL DEF BillingSpec

\* The services of platform.ts in one process keep all their promises to a
\* tenant at once: a step of one is a step or a stutter of every other.
THEOREM TenantsServed == TenantSpec => []TenantsAreServed
<1> DEFINE Inv == MembersInv /\ SessionInv /\ SubscriptionsInv /\ HooksInv /\ RequestsInv /\ LogInv
<1>1. TenantInit => Inv
    BY MembersStart, SessionStart, BillingStart, AccessStart DEF TenantInit
<1>2. ASSUME [TenantNext]_tenantVars
      PROVE  /\ [AccountsNext]_accountVars /\ [SessionsNext]_sessionVars
             /\ [BillingNext]_billVars /\ [KeysNext \/ LogNext]_accessVars
    BY <1>2 DEF TenantNext, tenantVars
<1>3. Inv /\ [TenantNext]_tenantVars => Inv'
    BY <1>2, MembersStep, SessionStep, SubscriptionsStep, HooksStep, RequestsStep, LogStep
<1>4. Inv => TenantsAreServed
    BY MembersAreReachable, SpentStay, BillingAgrees, AccessIsTraced DEF TenantsAreServed
<1> QED
    BY <1>1, <1>3, <1>4, PTL DEF TenantSpec

-----------------------------------------------------------------------------
(* What is pushed of a crawl *)

CrawlOutcomes == {"crawl.completed", "crawl.failed"}
OutboxRow == [job : Nat, by : CrawlCalls, type : CrawlOutcomes, status : {"PENDING", "PROCESSING", "DONE"}]
OthersEvent == [job : {0}, by : {0}, type : {"request"}]
JobStatus == {"PENDING", "RUNNING"} \cup JobEnded

RealtimeShapes ==
    /\ jobs \in Seq(JobStatus) /\ events \in Seq(OutboxRow)
    /\ jobOf \in [CrawlCalls -> {Away, Answered} \cup
                     [at : {"created", "crawling", "failing"}, job : Nat, type : CrawlOutcomes \cup {"none"}] \cup
                     [at : {"publish"}, job : Nat, type : CrawlOutcomes]]
    /\ check \in [HealthChecks -> {Away} \cup [at : {"claim", "push", "mark"}, id : Nat, row : OutboxRow]]
    /\ pushes \in [Channels -> Seq(OutboxRow \cup OthersEvent)]
    /\ resets \in Nat /\ disturbed \in BOOLEAN

Crawling(c) == jobOf[c].at \notin {"no", "over"}
OfCrawl == {k \in DOMAIN pushes["crawls"] : pushes["crawls"][k].type \in CrawlOutcomes}
IsPushed(c) == \E k \in OfCrawl : pushes["crawls"][k].by = c
IsPushing(h) == check[h].at \in {"push", "mark"}

\* Before a call has answered nothing is known of it, and it answers once.
PublishedOnce ==
    /\ \A i, j \in DOMAIN events : events[i].by = events[j].by => i = j
    /\ \A i \in DOMAIN events : jobOf[events[i].by] = Answered
    /\ \A k \in OfCrawl : jobOf[pushes["crawls"][k].by] = Answered
    /\ \A j, k \in OfCrawl : pushes["crawls"][j].by = pushes["crawls"][k].by => j = k

\* A health check has a row of the outbox in hand, and nobody else has claimed it.
ChecksHold ==
    /\ \A h \in HealthChecks : check[h] # Away =>
          /\ check[h].id \in DOMAIN events /\ events[check[h].id].by = check[h].row.by
          /\ IsPushing(h) => events[check[h].id].status = "PROCESSING"
    /\ \A g, h \in HealthChecks : IsPushing(g) /\ IsPushing(h) /\ check[g].id = check[h].id => g = h

\* What is pushed was claimed, once.
PushedOnce ==
    /\ \A i \in DOMAIN events : events[i].status = "PENDING" => ~ IsPushed(events[i].by)
    /\ \A i \in DOMAIN events : events[i].status = "DONE" => IsPushed(events[i].by)
    /\ \A h \in HealthChecks : check[h].at = "push" => ~ IsPushed(check[h].row.by)
    /\ \A h \in HealthChecks : check[h].at = "mark" => IsPushed(check[h].row.by)

\* The type is the end the row has, and no call that goes on is to write it.
Tells(type, job) ==
    /\ job \in DOMAIN jobs
    /\ jobs[job] = IF type = "crawl.completed" THEN "COMPLETED" ELSE "FAILED"
Told(event) == Tells(event.type, event.job) /\ \A c \in CrawlCalls : Crawling(c) => jobOf[c].job # event.job

JobsTold ==
    /\ \A c \in CrawlCalls : Crawling(c) =>
          /\ jobOf[c].job \in DOMAIN jobs
          /\ jobOf[c].at = "publish" => Tells(jobOf[c].type, jobOf[c].job)
          /\ \A d \in CrawlCalls : Crawling(d) /\ jobOf[d].job = jobOf[c].job => c = d
    /\ \A i \in DOMAIN events : Told(events[i])
    /\ \A h \in HealthChecks : check[h] # Away => Told(check[h].row)
    /\ \A k \in OfCrawl : Told(pushes["crawls"][k])

PushInv ==
    /\ RealtimeShapes
    /\ ~ disturbed => PublishedOnce /\ ChecksHold /\ PushedOnce
    /\ resets = 0 => JobsTold

LEMMA PushInit == RealtimeInit => PushInv
<1> SUFFICES ASSUME RealtimeInit PROVE PushInv
    OBVIOUS
<1>1. RealtimeShapes
    <2>1. \A S : <<>> \in Seq(S)
        BY EmptySeq
    <2>2. jobs = <<>> /\ events = <<>> /\ resets \in Nat /\ disturbed \in BOOLEAN
        BY DEF RealtimeInit
    <2>3. pushes \in [Channels -> Seq(OutboxRow \cup OthersEvent)]
        BY <2>1 DEF RealtimeInit
    <2> QED
        BY <2>1, <2>2, <2>3 DEF RealtimeInit, RealtimeShapes
<1>2. DOMAIN events = {} /\ OfCrawl = {} /\ \A h \in HealthChecks : check[h] = Away
    BY DEF RealtimeInit, OfCrawl, Channels
<1>3. \A h \in HealthChecks : check[h].at = "no"
    BY <1>2 DEF Away
<1>4. \A c \in CrawlCalls : ~ Crawling(c)
    BY DEF RealtimeInit, Crawling, Away
<1>5. PublishedOnce /\ ChecksHold /\ PushedOnce
    BY <1>2, <1>3 DEF PublishedOnce, ChecksHold, PushedOnce, IsPushing
<1>6. JobsTold
    BY <1>2, <1>4 DEF JobsTold
<1> QED
    BY <1>1, <1>5, <1>6 DEF PushInv

LEMMA PushImplies == PushInv => PushesAreTrue
<1> SUFFICES ASSUME PushInv, ~ disturbed PROVE PushesAreTrue
    BY DEF PushesAreTrue
<1> DEFINE P == pushes["crawls"]
<1>1. P \in Seq(OutboxRow \cup OthersEvent)
    BY DEF PushInv, RealtimeShapes, Channels
<1>2. \A k \in DOMAIN P : P[k] \in OutboxRow \cup OthersEvent
    BY <1>1
<1>3. \A k \in DOMAIN P : P[k].by # 0 \/ P[k].type \in CrawlOutcomes => k \in OfCrawl
    BY <1>2 DEF OfCrawl, OutboxRow, OthersEvent, CrawlOutcomes
<1>4. ASSUME NEW i \in DOMAIN P, NEW j \in DOMAIN P, P[i].by = P[j].by, P[i].by # 0 PROVE i = j
    BY <1>3, <1>4 DEF PushInv, PublishedOnce
<1>5. ASSUME resets = 0, NEW k \in DOMAIN P
      PROVE  /\ P[k].type = "crawl.completed" => jobs[P[k].job] = "COMPLETED"
             /\ P[k].type = "crawl.failed" => jobs[P[k].job] = "FAILED"
    BY <1>3, <1>5 DEF PushInv, JobsTold, Told, Tells, CrawlOutcomes
<1>6. \A i \in DOMAIN events : events[i].status = "DONE" => \E k \in DOMAIN P : P[k].by = events[i].by
    BY DEF PushInv, PushedOnce, IsPushed, OfCrawl
<1> QED
    BY <1>4, <1>5, <1>6 DEF PushesAreTrue

\* The calls and checks that are at nothing, and those at something.
LEMMA CallShapes ==
    ASSUME RealtimeShapes
    PROVE  /\ \A c \in CrawlCalls :
                 IF Crawling(c)
                 THEN /\ jobOf[c] \notin {Away, Answered} /\ jobOf[c].job \in Nat
                      /\ jobOf[c].at \in {"created", "crawling", "failing", "publish"}
                      /\ jobOf[c] = [at |-> jobOf[c].at, job |-> jobOf[c].job, type |-> jobOf[c].type]
                      /\ jobOf[c].type \in CrawlOutcomes \cup {"none"}
                      /\ jobOf[c].at = "publish" => jobOf[c].type \in CrawlOutcomes
                 ELSE jobOf[c] \in {Away, Answered}
           /\ \A h \in HealthChecks :
                 IF check[h] = Away THEN check[h].at = "no"
                 ELSE /\ check[h].at \in {"claim", "push", "mark"} /\ check[h].id \in Nat /\ check[h].row \in OutboxRow
                      /\ check[h] = [at |-> check[h].at, id |-> check[h].id, row |-> check[h].row]
<1>1. ASSUME NEW c \in CrawlCalls PROVE
         \/ jobOf[c] \in {Away, Answered}
         \/ jobOf[c] \in [at : {"created", "crawling", "failing"}, job : Nat, type : CrawlOutcomes \cup {"none"}]
         \/ jobOf[c] \in [at : {"publish"}, job : Nat, type : CrawlOutcomes]
    BY <1>1 DEF RealtimeShapes
<1>2. ASSUME NEW h \in HealthChecks PROVE
         check[h] = Away \/ check[h] \in [at : {"claim", "push", "mark"}, id : Nat, row : OutboxRow]
    BY <1>2 DEF RealtimeShapes
<1>3. Away.at = "no" /\ Answered.at = "over"
    BY DEF Away, Answered
<1>4. ASSUME NEW c \in CrawlCalls, jobOf[c] \in {Away, Answered} PROVE ~ Crawling(c)
    BY <1>3, <1>4 DEF Crawling
<1>5. ASSUME NEW c \in CrawlCalls,
             \/ jobOf[c] \in [at : {"created", "crawling", "failing"}, job : Nat, type : CrawlOutcomes \cup {"none"}]
             \/ jobOf[c] \in [at : {"publish"}, job : Nat, type : CrawlOutcomes]
      PROVE  /\ Crawling(c) /\ jobOf[c] \notin {Away, Answered} /\ jobOf[c].job \in Nat
             /\ jobOf[c].at \in {"created", "crawling", "failing", "publish"}
             /\ jobOf[c] = [at |-> jobOf[c].at, job |-> jobOf[c].job, type |-> jobOf[c].type]
             /\ jobOf[c].type \in CrawlOutcomes \cup {"none"}
             /\ jobOf[c].at = "publish" => jobOf[c].type \in CrawlOutcomes
    BY <1>3, <1>5 DEF Crawling
<1>6. ASSUME NEW h \in HealthChecks, check[h] \in [at : {"claim", "push", "mark"}, id : Nat, row : OutboxRow]
      PROVE  /\ check[h] # Away /\ check[h].at \in {"claim", "push", "mark"}
             /\ check[h].id \in Nat /\ check[h].row \in OutboxRow
             /\ check[h] = [at |-> check[h].at, id |-> check[h].id, row |-> check[h].row]
    BY <1>3, <1>6
<1> QED
    BY <1>1, <1>2, <1>3, <1>4, <1>5, <1>6

\* A write of a job's row moves only the call that makes it.
CallStep(c) ==
    StartCrawl(c) \/ MarkJobRunning(c) \/ CompleteCrawl(c) \/ CrawlThrows(c) \/ FailCrawl(c)

LEMMA CallMoves ==
    ASSUME RealtimeShapes, NEW c \in CrawlCalls, CallStep(c)
    PROVE  /\ jobs' \in Seq(JobStatus)
           /\ jobOf[c] # Answered
           /\ jobOf' = [jobOf EXCEPT ![c] = jobOf'[c]]
           /\ jobOf'[c] \in {Away, Answered} \cup
                     [at : {"created", "crawling", "failing"}, job : Nat, type : CrawlOutcomes \cup {"none"}] \cup
                     [at : {"publish"}, job : Nat, type : CrawlOutcomes]
           /\ UNCHANGED <<events, check, pushes, resets, disturbed>>
<1> DEFINE Call == [at : {"created", "crawling", "failing"}, job : Nat, type : CrawlOutcomes \cup {"none"}]
           Ending == [at : {"publish"}, job : Nat, type : CrawlOutcomes]
<1>1. jobs \in Seq(JobStatus) /\ jobOf \in [CrawlCalls -> {Away, Answered} \cup Call \cup Ending]
    BY DEF RealtimeShapes
<1>2. Away.at = "no" /\ Answered.at = "over" /\ \A status \in {"PENDING", "RUNNING", "COMPLETED", "FAILED"} : status \in JobStatus
    BY DEF Away, Answered, JobStatus, JobEnded
<1>3. ASSUME NEW status \in JobStatus, NEW next, NEW otherwise, Write(c, status, next, otherwise)
      PROVE  /\ jobs' \in Seq(JobStatus) /\ jobOf' = [jobOf EXCEPT ![c] = jobOf'[c]]
             /\ jobOf'[c] \in {next, otherwise} /\ UNCHANGED <<events, check, pushes, resets, disturbed>>
    BY <1>1, <1>3 DEF Write
<1>4. CASE StartCrawl(c)
    <2>1. jobs' \in Seq(JobStatus) /\ Len(jobs) + 1 \in Nat
        BY <1>1, <1>2, <1>4 DEF StartCrawl
    <2> QED
        BY <1>1, <1>2, <1>4, <2>1 DEF StartCrawl
<1>5. CASE MarkJobRunning(c)
    <2>1. jobOf[c] \in Call /\ jobOf[c] # Answered
        BY <1>1, <1>2, <1>5 DEF MarkJobRunning
    <2>2. [jobOf[c] EXCEPT !.at = "crawling"] \in Call /\ [jobOf[c] EXCEPT !.at = "failing"] \in Call
        BY <2>1
    <2> QED
        BY <1>2, <1>3, <1>5, <2>1, <2>2 DEF MarkJobRunning
<1>6. CASE CompleteCrawl(c)
    <2>1. jobOf[c] \in Call /\ jobOf[c] # Answered
        BY <1>1, <1>2, <1>6 DEF CompleteCrawl
    <2>2. /\ [jobOf[c] EXCEPT !.at = "publish", !.type = "crawl.completed"] \in Ending
          /\ [jobOf[c] EXCEPT !.at = "failing"] \in Call
        BY <2>1 DEF CrawlOutcomes
    <2> DEFINE next == [jobOf[c] EXCEPT !.at = "publish", !.type = "crawl.completed"]
               otherwise == [jobOf[c] EXCEPT !.at = "failing"]
    <2>3. Write(c, "COMPLETED", next, otherwise)
        BY <1>6 DEF CompleteCrawl
    <2>4. next \in Ending /\ otherwise \in {Answered} \cup Call
        BY <2>2
    <2> HIDE DEF next, otherwise
    <2>5. /\ jobs' \in Seq(JobStatus) /\ jobOf' = [jobOf EXCEPT ![c] = jobOf'[c]]
          /\ jobOf'[c] \in {next, otherwise} /\ UNCHANGED <<events, check, pushes, resets, disturbed>>
        BY <1>2, <1>3, <2>3
    <2> QED
        BY <2>1, <2>4, <2>5
<1>7. CASE CrawlThrows(c)
    <2>1. jobOf[c] \in Call /\ jobOf[c] # Answered
        BY <1>1, <1>2, <1>7 DEF CrawlThrows
    <2>2. [jobOf[c] EXCEPT !.at = "failing"] \in Call
        BY <2>1
    <2>3. jobOf' = [jobOf EXCEPT ![c] = [jobOf[c] EXCEPT !.at = "failing"]]
        BY <1>7 DEF CrawlThrows
    <2> QED
        BY <1>1, <1>7, <2>1, <2>2, <2>3 DEF CrawlThrows
<1>8. CASE FailCrawl(c)
    <2>1. jobOf[c] \in Call /\ jobOf[c] # Answered
        BY <1>1, <1>2, <1>8 DEF FailCrawl
    <2>2. [jobOf[c] EXCEPT !.at = "publish", !.type = "crawl.failed"] \in Ending
        BY <2>1 DEF CrawlOutcomes
    <2> DEFINE next == [jobOf[c] EXCEPT !.at = "publish", !.type = "crawl.failed"]
               otherwise == Answered
    <2>3. Write(c, "FAILED", next, otherwise)
        BY <1>8 DEF FailCrawl
    <2>4. next \in Ending /\ otherwise \in {Answered} \cup Call
        BY <2>2
    <2> HIDE DEF next, otherwise
    <2>5. /\ jobs' \in Seq(JobStatus) /\ jobOf' = [jobOf EXCEPT ![c] = jobOf'[c]]
          /\ jobOf'[c] \in {next, otherwise} /\ UNCHANGED <<events, check, pushes, resets, disturbed>>
        BY <1>2, <1>3, <2>3
    <2> QED
        BY <2>1, <2>4, <2>5
<1> QED
    BY <1>4, <1>5, <1>6, <1>7, <1>8 DEF CallStep

\* What is published goes to one channel.
LEMMA PublishMoves ==
    ASSUME RealtimeShapes, NEW ch \in Channels, NEW event \in OutboxRow \cup OthersEvent, PublishOn(ch, event)
    PROVE  /\ pushes' \in [Channels -> Seq(OutboxRow \cup OthersEvent)]
           /\ ch # "crawls" => pushes'["crawls"] = pushes["crawls"]
           /\ ch = "crawls" =>
                 /\ DOMAIN pushes'["crawls"] = DOMAIN pushes["crawls"] \cup {Len(pushes["crawls"]) + 1}
                 /\ \A k \in DOMAIN pushes["crawls"] : pushes'["crawls"][k] = pushes["crawls"][k]
                 /\ pushes'["crawls"][Len(pushes["crawls"]) + 1] = event
                 /\ Len(pushes["crawls"]) + 1 \notin DOMAIN pushes["crawls"]
<1>1. pushes \in [Channels -> Seq(OutboxRow \cup OthersEvent)]
    BY DEF RealtimeShapes
<1>2. pushes' = [pushes EXCEPT ![ch] = Append(pushes[ch], event)]
    BY DEF PublishOn
<1>3. pushes[ch] \in Seq(OutboxRow \cup OthersEvent) /\ Append(pushes[ch], event) \in Seq(OutboxRow \cup OthersEvent)
    BY <1>1
<1>4. pushes' \in [Channels -> Seq(OutboxRow \cup OthersEvent)] /\ pushes'[ch] = Append(pushes[ch], event)
    BY <1>1, <1>2, <1>3
<1>5. "crawls" \in Channels
    BY DEF Channels
<1>6. /\ DOMAIN pushes[ch] = 1 .. Len(pushes[ch]) /\ Len(pushes[ch]) \in Nat
      /\ DOMAIN Append(pushes[ch], event) = 1 .. Len(pushes[ch]) + 1
      /\ \A k \in 1 .. Len(pushes[ch]) : Append(pushes[ch], event)[k] = pushes[ch][k]
      /\ Append(pushes[ch], event)[Len(pushes[ch]) + 1] = event
    BY <1>3
<1>7. ch # "crawls" => pushes'["crawls"] = pushes["crawls"]
    BY <1>1, <1>2, <1>5
<1>8. /\ DOMAIN pushes'[ch] = DOMAIN pushes[ch] \cup {Len(pushes[ch]) + 1}
      /\ \A k \in DOMAIN pushes[ch] : pushes'[ch][k] = pushes[ch][k]
      /\ pushes'[ch][Len(pushes[ch]) + 1] = event /\ Len(pushes[ch]) + 1 \notin DOMAIN pushes[ch]
    BY <1>4, <1>6
<1> QED
    BY <1>4, <1>7, <1>8

LEMMA ShapesStep ==
    ASSUME RealtimeShapes, [RealtimeNext]_realtimeVars
    PROVE  RealtimeShapes'
<1>1. CASE \E c \in CrawlCalls : CallStep(c)
    <2>1. PICK c \in CrawlCalls : CallStep(c)
        BY <1>1
    <2> QED
        BY <2>1, CallMoves DEF RealtimeShapes
<1>2. ASSUME NEW c \in CrawlCalls, PublishCrawl(c) PROVE RealtimeShapes'
    <2>1. [job |-> jobOf[c].job, by |-> c, type |-> jobOf[c].type, status |-> "PENDING"] \in OutboxRow
        BY <1>2, CallShapes DEF PublishCrawl, OutboxRow, Crawling
    <2>2. events' \in Seq(OutboxRow)
        BY <1>2, <2>1 DEF PublishCrawl, RealtimeShapes
    <2>3. jobOf' = [jobOf EXCEPT ![c] = Answered]
        BY <1>2 DEF PublishCrawl
    <2> QED
        BY <1>2, <2>2, <2>3 DEF PublishCrawl, RealtimeShapes
<1>3. ASSUME NEW i \in DOMAIN jobs, CancelCrawl(i) PROVE RealtimeShapes'
    <2>1. jobs' \in Seq(JobStatus)
        BY <1>3 DEF CancelCrawl, RealtimeShapes, JobStatus, JobEnded
    <2> QED
        BY <1>3, <2>1 DEF CancelCrawl, RealtimeShapes
<1>4. ASSUME NEW ch \in PublishChannels, PublishByRequest(ch) PROVE RealtimeShapes'
    <2>1. [job |-> 0, by |-> 0, type |-> "request"] \in OthersEvent /\ ch \in Channels
        BY DEF OthersEvent, Channels
    <2> QED
        BY <1>4, <2>1, PublishMoves DEF PublishByRequest, RealtimeShapes
<1>5. ASSUME NEW s \in PushStreams, CloseStream(s) \/ \E channels \in StreamChannels : OpenStream(s, channels)
      PROVE  RealtimeShapes'
    BY <1>5 DEF CloseStream, OpenStream, RealtimeShapes
<1>6. ASSUME NEW h \in HealthChecks, FindEvent(h) PROVE RealtimeShapes'
    <2> DEFINE first == CHOOSE i \in Undispatched : \A j \in Undispatched : i <= j
    <2>1. \A i \in DOMAIN events : i \in Nat /\ events[i] \in OutboxRow
        BY DEF RealtimeShapes
    <2>2. first \in DOMAIN events
        <3>1. Undispatched \subseteq DOMAIN events
            BY DEF Undispatched
        <3>2. \E least \in Undispatched : \A other \in Undispatched : least <= other
            BY <1>6, <2>1, <3>1, LeastId DEF FindEvent
        <3> QED
            BY <3>1, <3>2
    <2>3. [at |-> "claim", id |-> first, row |-> events[first]] \in [at : {"claim", "push", "mark"}, id : Nat, row : OutboxRow]
        BY <2>1, <2>2
    <2> QED
        BY <1>6, <2>3 DEF FindEvent, RealtimeShapes
<1>7. ASSUME NEW h \in HealthChecks, ClaimEvent(h) \/ PushEvent(h) \/ MarkPushed(h) PROVE RealtimeShapes'
    <2>1. check[h] \in [at : {"claim", "push", "mark"}, id : Nat, row : OutboxRow]
        BY <1>7, CallShapes DEF ClaimEvent, PushEvent, MarkPushed, RealtimeShapes
    <2>2. \A at \in {"claim", "push", "mark"} :
              [check[h] EXCEPT !.at = at] \in [at : {"claim", "push", "mark"}, id : Nat, row : OutboxRow]
        BY <2>1
    <2>3. \A id \in DOMAIN events, status \in {"PENDING", "PROCESSING", "DONE"} : 
              [events EXCEPT ![id].status = status] \in Seq(OutboxRow)
        <3> SUFFICES ASSUME NEW id \in DOMAIN events, NEW status \in {"PENDING", "PROCESSING", "DONE"}
                     PROVE  [events EXCEPT ![id].status = status] \in Seq(OutboxRow)
            OBVIOUS
        <3>1. events \in Seq(OutboxRow) /\ events[id] \in OutboxRow
            BY DEF RealtimeShapes
        <3>2. [events[id] EXCEPT !.status = status] \in OutboxRow
            BY <3>1 DEF OutboxRow
        <3> QED
            BY <3>1, <3>2
    <2>4. CASE ClaimEvent(h)
        <3>1. check' = [check EXCEPT ![h] = Away] \/ check' = [check EXCEPT ![h] = [check[h] EXCEPT !.at = "push"]]
            BY <2>4 DEF ClaimEvent
        <3>2. check' \in [HealthChecks -> {Away} \cup [at : {"claim", "push", "mark"}, id : Nat, row : OutboxRow]]
            BY <2>2, <3>1 DEF RealtimeShapes
        <3>3. events' \in Seq(OutboxRow)
            BY <2>3, <2>4 DEF ClaimEvent, Undispatched, RealtimeShapes
        <3> QED
            BY <2>4, <3>2, <3>3 DEF ClaimEvent, RealtimeShapes
    <2>5. CASE PushEvent(h)
        <3>1. check' = [check EXCEPT ![h] = [check[h] EXCEPT !.at = "mark"]]
            BY <2>5 DEF PushEvent
        <3>2. check' \in [HealthChecks -> {Away} \cup [at : {"claim", "push", "mark"}, id : Nat, row : OutboxRow]]
            BY <2>2, <3>1 DEF RealtimeShapes
        <3>3. pushes' \in [Channels -> Seq(OutboxRow \cup OthersEvent)]
            BY <2>1, <2>5, PublishMoves DEF PushEvent, Channels
        <3> QED
            BY <2>5, <3>2, <3>3 DEF PushEvent, RealtimeShapes
    <2>6. CASE MarkPushed(h)
        <3>1. check' = [check EXCEPT ![h] = Away]
            BY <2>6 DEF MarkPushed
        <3>2. check' \in [HealthChecks -> {Away} \cup [at : {"claim", "push", "mark"}, id : Nat, row : OutboxRow]]
            BY <3>1 DEF RealtimeShapes
        <3>3. events' \in Seq(OutboxRow)
            BY <2>3, <2>6 DEF MarkPushed, RealtimeShapes
        <3> QED
            BY <2>6, <3>2, <3>3 DEF MarkPushed, RealtimeShapes
    <2> QED
        BY <1>7, <2>4, <2>5, <2>6
<1>8. CASE ResetPlatform
    <2>1. jobs' \in Seq(JobStatus) /\ events' \in Seq(OutboxRow)
        BY <1>8, EmptySeq DEF ResetPlatform
    <2>2. disturbed' \in BOOLEAN
        BY <1>8 DEF ResetPlatform, RealtimeShapes
    <2> QED
        BY <1>8, <2>1, <2>2 DEF ResetPlatform, RealtimeShapes
<1>9. CASE UNCHANGED realtimeVars
    BY <1>9 DEF realtimeVars, RealtimeShapes
<1> QED
    BY <1>1, <1>2, <1>3, <1>4, <1>5, <1>6, <1>7, <1>8, <1>9 DEF RealtimeNext, CallStep

LEMMA RowsOfCalls ==
    ASSUME RealtimeShapes
    PROVE  /\ \A i \in DOMAIN events : i \in Nat /\ events[i] \in OutboxRow /\ events[i].by \in CrawlCalls
           /\ \A k \in OfCrawl : pushes["crawls"][k] \in OutboxRow /\ pushes["crawls"][k].by \in CrawlCalls
<1>1. \A i \in DOMAIN events : i \in Nat /\ events[i] \in OutboxRow
    BY DEF RealtimeShapes
<1>2. \A k \in DOMAIN pushes["crawls"] : pushes["crawls"][k] \in OutboxRow \cup OthersEvent
    BY DEF RealtimeShapes, Channels
<1>3. \A k \in OfCrawl : pushes["crawls"][k] \in OutboxRow
    BY <1>2 DEF OfCrawl, OthersEvent, CrawlOutcomes
<1>4. \A row \in OutboxRow : row.by \in CrawlCalls
    BY DEF OutboxRow
<1> QED
    BY <1>1, <1>3, <1>4

OutboxHolds == PublishedOnce /\ ChecksHold /\ PushedOnce

\* Nothing of a crawl is pushed.
PushesStay == OfCrawl' = OfCrawl /\ \A k \in OfCrawl : pushes'["crawls"][k] = pushes["crawls"][k]

LEMMA OthersPush ==
    ASSUME RealtimeShapes, NEW ch \in PublishChannels, PublishByRequest(ch)
    PROVE  PushesStay
<1>1. ch \in Channels /\ [job |-> 0, by |-> 0, type |-> "request"] \in OthersEvent
    BY DEF Channels, OthersEvent
<1>2. PublishOn(ch, [job |-> 0, by |-> 0, type |-> "request"])
    BY DEF PublishByRequest
<1>3. "request" \notin CrawlOutcomes
    BY DEF CrawlOutcomes
<1> DEFINE asked == [job |-> 0, by |-> 0, type |-> "request"]
<1>4. asked.type = "request"
    OBVIOUS
<1> HIDE DEF asked
<1>5. asked \in OutboxRow \cup OthersEvent /\ PublishOn(ch, asked)
    BY <1>1, <1>2 DEF asked
<1> QED
    BY <1>1, <1>3, <1>4, <1>5, PublishMoves DEF PushesStay, OfCrawl

LEMMA PushesUnchanged == UNCHANGED pushes => PushesStay
BY DEF PushesStay, OfCrawl

LEMMA OutboxStays ==
    ASSUME OutboxHolds, UNCHANGED <<events, check>>, PushesStay,
           \A c \in CrawlCalls : jobOf[c] = Answered => jobOf'[c] = Answered, RealtimeShapes
    PROVE  OutboxHolds'
<1>1. \A i \in DOMAIN events : events[i].by \in CrawlCalls
    BY RowsOfCalls
<1>2. \A k \in OfCrawl : pushes["crawls"][k].by \in CrawlCalls
    BY RowsOfCalls
<1>3. \A c : IsPushed(c)' <=> IsPushed(c)
    BY DEF IsPushed, PushesStay
<1>4. \A h : IsPushing(h)' <=> IsPushing(h)
    BY DEF IsPushing
<1>5. PublishedOnce'
    BY <1>1, <1>2 DEF OutboxHolds, PublishedOnce, PushesStay
<1>6. ChecksHold'
    BY <1>4 DEF OutboxHolds, ChecksHold
<1>7. PushedOnce'
    BY <1>3 DEF OutboxHolds, PushedOnce
<1> QED
    BY <1>5, <1>6, <1>7 DEF OutboxHolds

LEMMA OutboxPublish ==
    ASSUME RealtimeShapes, OutboxHolds, NEW c \in CrawlCalls, PublishCrawl(c)
    PROVE  OutboxHolds'
<1> DEFINE n == Len(events) + 1
           row == [job |-> jobOf[c].job, by |-> c, type |-> jobOf[c].type, status |-> "PENDING"]
<1>1. /\ DOMAIN events' = DOMAIN events \cup {n} /\ n \notin DOMAIN events
      /\ \A i \in DOMAIN events : events'[i] = events[i]
      /\ events'[n].by = c /\ events'[n].status = "PENDING"
    <2>1. events \in Seq(OutboxRow) /\ events' = Append(events, row)
        BY DEF PublishCrawl, RealtimeShapes
    <2>2. /\ DOMAIN events = 1 .. Len(events) /\ Len(events) \in Nat
          /\ DOMAIN Append(events, row) = 1 .. Len(events) + 1
          /\ \A i \in 1 .. Len(events) : Append(events, row)[i] = events[i]
          /\ Append(events, row)[Len(events) + 1] = row
        BY <2>1
    <2> QED
        BY <2>1, <2>2
<1>2. /\ jobOf[c] # Answered /\ jobOf'[c] = Answered
      /\ \A d \in CrawlCalls : jobOf[d] = Answered => jobOf'[d] = Answered
    <2>1. jobOf[c] # Answered
        BY DEF PublishCrawl, Answered
    <2> QED
        BY <2>1 DEF PublishCrawl, RealtimeShapes
<1>3. (\A i \in DOMAIN events : events[i].by # c) /\ ~ IsPushed(c)
    BY <1>2 DEF OutboxHolds, PublishedOnce, IsPushed
<1>4. /\ \A i \in DOMAIN events : events[i].by \in CrawlCalls
      /\ \A k \in OfCrawl : pushes["crawls"][k].by \in CrawlCalls
    BY RowsOfCalls
<1>5. UNCHANGED <<check, pushes>>
    BY DEF PublishCrawl
<1>6. (\A x : IsPushed(x)' <=> IsPushed(x)) /\ (\A h : IsPushing(h)' <=> IsPushing(h)) /\ OfCrawl' = OfCrawl
    BY <1>5 DEF IsPushed, IsPushing, OfCrawl
<1> HIDE DEF n, row
<1>7. PublishedOnce'
    BY <1>1, <1>2, <1>3, <1>4, <1>5, <1>6 DEF OutboxHolds, PublishedOnce
<1>8. ChecksHold'
    BY <1>1, <1>5, <1>6 DEF OutboxHolds, ChecksHold
<1>9. PushedOnce'
    BY <1>1, <1>3, <1>5, <1>6 DEF OutboxHolds, PushedOnce
<1> QED
    BY <1>7, <1>8, <1>9 DEF OutboxHolds

LEMMA OutboxFind ==
    ASSUME RealtimeShapes, OutboxHolds, NEW h \in HealthChecks, FindEvent(h)
    PROVE  OutboxHolds'
<1> DEFINE first == CHOOSE i \in Undispatched : \A j \in Undispatched : i <= j
           found == [at |-> "claim", id |-> first, row |-> events[first]]
<1>1. first \in DOMAIN events
    <2>1. Undispatched \subseteq DOMAIN events /\ \A i \in DOMAIN events : i \in Nat
        BY DEF Undispatched, RealtimeShapes
    <2>2. \E least \in Undispatched : \A other \in Undispatched : least <= other
        BY <2>1, LeastId DEF FindEvent
    <2> QED
        BY <2>1, <2>2
<1>2. /\ check'[h] = found /\ \A g \in HealthChecks : g # h => check'[g] = check[g]
      /\ UNCHANGED <<jobOf, events, pushes>>
    BY DEF FindEvent, RealtimeShapes
<1>3. found.at = "claim" /\ found.id = first /\ found.row = events[first]
    OBVIOUS
<1> HIDE DEF first, found
<1>4. (\A x : IsPushed(x)' <=> IsPushed(x)) /\ OfCrawl' = OfCrawl
    BY <1>2 DEF IsPushed, OfCrawl
<1>5. \A g \in HealthChecks : IsPushing(g)' <=> g # h /\ IsPushing(g)
    BY <1>2, <1>3, CallShapes DEF IsPushing, FindEvent
<1>6. PublishedOnce'
    BY <1>2, <1>4 DEF OutboxHolds, PublishedOnce
<1>7. ChecksHold'
    BY <1>1, <1>2, <1>3, <1>5 DEF OutboxHolds, ChecksHold
<1>8. PushedOnce'
    BY <1>2, <1>3, <1>4 DEF OutboxHolds, PushedOnce
<1> QED
    BY <1>6, <1>7, <1>8 DEF OutboxHolds

\* A health check gives up, or claims the row it looked up.
LEMMA OutboxClaim ==
    ASSUME RealtimeShapes, OutboxHolds, NEW h \in HealthChecks, ClaimEvent(h)
    PROVE  OutboxHolds'
<1> DEFINE id == check[h].id
<1>1. check[h] # Away /\ check[h].at = "claim" /\ UNCHANGED <<jobOf, pushes>>
    BY CallShapes DEF ClaimEvent
<1>2. id \in DOMAIN events /\ events[id].by = check[h].row.by
    BY <1>1 DEF OutboxHolds, ChecksHold
<1>3. (\A x : IsPushed(x)' <=> IsPushed(x)) /\ OfCrawl' = OfCrawl
    BY <1>1 DEF IsPushed, OfCrawl
<1>4. /\ \A g \in HealthChecks : g # h => check'[g] = check[g]
      /\ \A g \in HealthChecks : g # h => (IsPushing(g)' <=> IsPushing(g))
    BY DEF ClaimEvent, RealtimeShapes, IsPushing
<1>5. CASE id \notin Undispatched
    <2>1. UNCHANGED events /\ check'[h] = Away
        BY <1>5 DEF ClaimEvent, RealtimeShapes
    <2>2. ~ IsPushing(h)' /\ check'[h].at = "no"
        BY <2>1 DEF IsPushing, Away
    <2>3. PublishedOnce'
        BY <1>1, <1>3, <2>1 DEF OutboxHolds, PublishedOnce
    <2>4. ChecksHold'
        BY <1>4, <2>1, <2>2 DEF OutboxHolds, ChecksHold
    <2>5. PushedOnce'
        BY <1>3, <1>4, <2>1, <2>2 DEF OutboxHolds, PushedOnce
    <2> QED
        BY <2>3, <2>4, <2>5 DEF OutboxHolds
<1>6. CASE id \in Undispatched
    <2>1. /\ events[id].status = "PENDING"
          /\ events' = [events EXCEPT ![id].status = "PROCESSING"]
          /\ check' = [check EXCEPT ![h].at = "push"]
        BY <1>6 DEF ClaimEvent, Undispatched
    <2>2. /\ DOMAIN events' = DOMAIN events
          /\ \A i \in DOMAIN events : events'[i].by = events[i].by
          /\ \A i \in DOMAIN events : i # id => events'[i] = events[i]
          /\ events'[id].status = "PROCESSING"
        BY <1>2, <2>1, RowsOfCalls DEF OutboxRow
    <2>3. /\ check'[h] # Away /\ check'[h].at = "push" /\ check'[h].id = id /\ check'[h].row = check[h].row
        <3>1. check'[h] = [check[h] EXCEPT !.at = "push"]
            BY <2>1 DEF RealtimeShapes
        <3>2. check[h] = [at |-> check[h].at, id |-> check[h].id, row |-> check[h].row]
            BY <1>1, CallShapes
        <3> QED
            BY <3>1, <3>2 DEF Away
    <2>4. \A g \in HealthChecks : IsPushing(g) => check[g] # Away /\ check[g].id # id
        <3>1. \A g \in HealthChecks : IsPushing(g) => check[g] # Away
            BY DEF IsPushing, Away
        <3> QED
            BY <2>1, <3>1 DEF OutboxHolds, ChecksHold
    <2>5. IsPushing(h)'
        BY <2>3 DEF IsPushing
    <2>6. PublishedOnce'
        BY <1>1, <1>3, <2>2 DEF OutboxHolds, PublishedOnce
    <2>7. ChecksHold'
        BY <1>2, <1>4, <2>2, <2>3, <2>4, <2>5 DEF OutboxHolds, ChecksHold
    <2>8. PushedOnce'
        BY <1>2, <1>3, <1>4, <2>1, <2>2, <2>3 DEF OutboxHolds, PushedOnce
    <2> QED
        BY <2>6, <2>7, <2>8 DEF OutboxHolds
<1> QED
    BY <1>5, <1>6

\* What a health check has claimed is pushed by it and no other.
LEMMA OutboxPush ==
    ASSUME RealtimeShapes, OutboxHolds, NEW h \in HealthChecks, PushEvent(h)
    PROVE  OutboxHolds'
<1> DEFINE row == check[h].row
           id == check[h].id
           n == Len(pushes["crawls"]) + 1
<1>1. /\ check[h] # Away /\ check[h].at = "push" /\ row \in OutboxRow
      /\ PublishOn("crawls", row) /\ UNCHANGED <<jobOf, events>>
    BY CallShapes DEF PushEvent
<1>2. /\ id \in DOMAIN events /\ events[id].by = row.by /\ events[id].status = "PROCESSING"
      /\ ~ IsPushed(row.by)
    BY <1>1 DEF OutboxHolds, ChecksHold, PushedOnce, IsPushing
<1>3. /\ OfCrawl' = OfCrawl \cup {n} /\ n \notin OfCrawl /\ pushes'["crawls"][n] = row
      /\ \A k \in OfCrawl : pushes'["crawls"][k] = pushes["crawls"][k]
    <2>1. row.type \in CrawlOutcomes
        BY <1>1 DEF OutboxRow
    <2>2. /\ DOMAIN pushes'["crawls"] = DOMAIN pushes["crawls"] \cup {n}
          /\ \A k \in DOMAIN pushes["crawls"] : pushes'["crawls"][k] = pushes["crawls"][k]
          /\ pushes'["crawls"][n] = row /\ n \notin DOMAIN pushes["crawls"]
        BY <1>1, PublishMoves DEF Channels
    <2> HIDE DEF n, row
    <2> QED
        BY <2>1, <2>2 DEF OfCrawl
<1>4. \A x : IsPushed(x)' <=> IsPushed(x) \/ x = row.by
    BY <1>3 DEF IsPushed
<1>5. /\ check'[h] # Away /\ check'[h].at = "mark" /\ check'[h].id = id /\ check'[h].row = row
      /\ \A g \in HealthChecks : g # h => check'[g] = check[g]
    <2>1. check'[h] = [check[h] EXCEPT !.at = "mark"] /\ \A g \in HealthChecks : g # h => check'[g] = check[g]
        BY DEF PushEvent, RealtimeShapes
    <2>2. check[h] = [at |-> check[h].at, id |-> check[h].id, row |-> check[h].row]
        BY <1>1, CallShapes
    <2> QED
        BY <2>1, <2>2 DEF Away
<1>6. \A g \in HealthChecks : IsPushing(g)' <=> IsPushing(g)
    BY <1>1, <1>5 DEF IsPushing
<1>7. jobOf[row.by] = Answered
    BY <1>2 DEF OutboxHolds, PublishedOnce
<1> HIDE DEF row, id, n
<1>8. PublishedOnce'
    <2>1. \A k \in OfCrawl : pushes["crawls"][k].by # row.by
        BY <1>2 DEF IsPushed
    <2> QED
        BY <1>1, <1>3, <1>7, <2>1 DEF OutboxHolds, PublishedOnce
<1>9. ChecksHold'
    BY <1>1, <1>2, <1>5, <1>6 DEF OutboxHolds, ChecksHold, id
<1>10. PushedOnce'
    <2>1. \A i \in DOMAIN events : events[i].by = row.by => i = id
        BY <1>2 DEF OutboxHolds, PublishedOnce
    <2>2. ASSUME NEW g \in HealthChecks, g # h, check[g].at = "push" PROVE check[g].row.by # row.by
        <3>1. check[g] # Away /\ IsPushing(g) /\ IsPushing(h)
            BY <1>1, <2>2 DEF IsPushing, Away
        <3> QED
            BY <2>1, <2>2, <3>1 DEF OutboxHolds, ChecksHold, id
    <2> QED
        BY <1>1, <1>2, <1>4, <1>5, <2>1, <2>2 DEF OutboxHolds, PushedOnce
<1> QED
    BY <1>8, <1>9, <1>10 DEF OutboxHolds

LEMMA OutboxMark ==
    ASSUME RealtimeShapes, OutboxHolds, NEW h \in HealthChecks, MarkPushed(h)
    PROVE  OutboxHolds'
<1> DEFINE id == check[h].id
<1>1. check[h] # Away /\ check[h].at = "mark" /\ UNCHANGED <<jobOf, pushes>>
    BY CallShapes DEF MarkPushed
<1>2. id \in DOMAIN events /\ IsPushed(events[id].by)
    BY <1>1 DEF OutboxHolds, ChecksHold, PushedOnce
<1>3. (\A x : IsPushed(x)' <=> IsPushed(x)) /\ OfCrawl' = OfCrawl
    BY <1>1 DEF IsPushed, OfCrawl
<1>4. /\ check'[h] = Away /\ check'[h].at = "no" /\ ~ IsPushing(h)'
      /\ \A g \in HealthChecks : g # h => check'[g] = check[g]
      /\ \A g \in HealthChecks : g # h => (IsPushing(g)' <=> IsPushing(g))
    <2>1. check'[h] = Away /\ \A g \in HealthChecks : g # h => check'[g] = check[g]
        BY DEF MarkPushed, RealtimeShapes
    <2> QED
        BY <2>1 DEF IsPushing, Away
<1>5. /\ DOMAIN events' = DOMAIN events
      /\ \A i \in DOMAIN events : events'[i].by = events[i].by
      /\ \A i \in DOMAIN events : i # id => events'[i] = events[i]
      /\ events'[id].status = "DONE"
    <2>1. events' = [events EXCEPT ![id].status = "DONE"]
        BY <1>2 DEF MarkPushed
    <2> QED
        BY <1>2, <2>1, RowsOfCalls DEF OutboxRow
<1>6. \A g \in HealthChecks : g # h /\ IsPushing(g) => check[g].id # id
    BY <1>1 DEF OutboxHolds, ChecksHold, IsPushing
<1>7. PublishedOnce'
    BY <1>1, <1>3, <1>5 DEF OutboxHolds, PublishedOnce
<1>8. ChecksHold'
    <2>1. ASSUME NEW g \in HealthChecks, check'[g] # Away
          PROVE  /\ check'[g].id \in DOMAIN events' /\ events'[check'[g].id].by = check'[g].row.by
                 /\ IsPushing(g)' => events'[check'[g].id].status = "PROCESSING"
        <3>1. g # h /\ check'[g] = check[g] /\ check[g] # Away
            BY <1>4, <2>1
        <3> QED
            BY <1>4, <1>5, <1>6, <3>1 DEF OutboxHolds, ChecksHold
    <2>2. \A f, g \in HealthChecks : IsPushing(f)' /\ IsPushing(g)' /\ check'[f].id = check'[g].id => f = g
        BY <1>4 DEF OutboxHolds, ChecksHold
    <2> QED
        BY <2>1, <2>2 DEF ChecksHold
<1>9. PushedOnce'
    BY <1>2, <1>3, <1>4, <1>5 DEF OutboxHolds, PushedOnce
<1> QED
    BY <1>7, <1>8, <1>9 DEF OutboxHolds

\* A reset that comes while nothing is under way empties the outbox.
LEMMA OutboxReset ==
    ASSUME RealtimeShapes, OutboxHolds, ResetPlatform, ~ disturbed'
    PROVE  OutboxHolds'
<1>1. /\ \A h \in HealthChecks : check[h] = Away
      /\ DOMAIN events' = {} /\ UNCHANGED <<jobOf, check, pushes>>
    <2>1. ~ \E h \in HealthChecks : check[h] # Away
        BY Zenon DEF ResetPlatform
    <2>2. events' = <<>> /\ UNCHANGED <<jobOf, check, pushes>>
        BY DEF ResetPlatform
    <2> QED
        BY <2>1, <2>2
<1>2. OfCrawl' = OfCrawl
    BY <1>1 DEF OfCrawl
<1>3. \A h \in HealthChecks : check'[h] = Away /\ check'[h].at = "no"
    BY <1>1 DEF Away
<1>4. PublishedOnce'
    BY <1>1, <1>2 DEF OutboxHolds, PublishedOnce
<1>5. ChecksHold' /\ PushedOnce'
    BY <1>1, <1>3 DEF ChecksHold, PushedOnce, IsPushing
<1> QED
    BY <1>4, <1>5 DEF OutboxHolds

LEMMA OutboxStep ==
    ASSUME RealtimeShapes, ~ disturbed => OutboxHolds, [RealtimeNext]_realtimeVars
    PROVE  ~ disturbed' => OutboxHolds'
<1>1. ASSUME NEW c \in CrawlCalls, CallStep(c), OutboxHolds PROVE OutboxHolds'
    <2>1. \A d \in CrawlCalls : jobOf[d] = Answered => jobOf'[d] = Answered
        BY <1>1, CallMoves DEF RealtimeShapes
    <2> QED
        BY <1>1, <2>1, CallMoves, PushesUnchanged, OutboxStays
<1>2. ASSUME NEW i \in DOMAIN jobs, CancelCrawl(i), OutboxHolds PROVE OutboxHolds'
    BY <1>2, PushesUnchanged, OutboxStays DEF CancelCrawl
<1>3. ASSUME NEW ch \in PublishChannels, PublishByRequest(ch), OutboxHolds PROVE OutboxHolds'
    BY <1>3, OthersPush, OutboxStays DEF PublishByRequest
<1>4. ASSUME NEW s \in PushStreams, CloseStream(s) \/ \E channels \in StreamChannels : OpenStream(s, channels), OutboxHolds
      PROVE  OutboxHolds'
    BY <1>4, PushesUnchanged, OutboxStays DEF CloseStream, OpenStream
<1>5. ASSUME UNCHANGED realtimeVars, OutboxHolds PROVE OutboxHolds'
    BY <1>5, PushesUnchanged, OutboxStays DEF realtimeVars
<1>6. ~ disturbed' => ~ disturbed
    BY CallMoves DEF RealtimeNext, realtimeVars, CallStep, PublishCrawl, CancelCrawl, PublishByRequest, CloseStream,
       OpenStream, FindEvent, ClaimEvent, PushEvent, MarkPushed, ResetPlatform, RealtimeShapes
<1> QED
    BY <1>1, <1>2, <1>3, <1>4, <1>5, <1>6, OutboxPublish, OutboxFind, OutboxClaim, OutboxPush, OutboxMark, OutboxReset
       DEF RealtimeNext, CallStep

\* A call that starts has a row of its own; one that goes on writes its own row
\* and no other.
LEMMA RowsWritten ==
    ASSUME RealtimeShapes, JobsTold, NEW c \in CrawlCalls, CallStep(c)
    PROVE  /\ \A d \in CrawlCalls : d # c => jobOf'[d] = jobOf[d]
           /\ DOMAIN jobs \subseteq DOMAIN jobs'
           /\ \A i \in DOMAIN jobs : jobs'[i] = jobs[i] \/ (Crawling(c) /\ i = jobOf[c].job)
           /\ Crawling(c)' =>
                 /\ jobOf'[c].job \in DOMAIN jobs'
                 /\ jobOf'[c].at = "publish" => Tells(jobOf[c].type, jobOf[c].job)'
                 /\ jobOf'[c].job \notin DOMAIN jobs \/ (Crawling(c) /\ jobOf'[c].job = jobOf[c].job)
<1>1. \A d \in CrawlCalls : d # c => jobOf'[d] = jobOf[d]
    BY CallMoves DEF RealtimeShapes
<1>2. jobs \in Seq(JobStatus) /\ Len(jobs) \in Nat /\ DOMAIN jobs = 1 .. Len(jobs)
    BY DEF RealtimeShapes
<1>3. CASE StartCrawl(c)
    <2>1. jobs' = Append(jobs, "PENDING") /\ jobOf'[c] = [at |-> "created", job |-> Len(jobs) + 1, type |-> "none"]
        BY <1>3 DEF StartCrawl, RealtimeShapes
    <2>2. /\ DOMAIN jobs' = DOMAIN jobs \cup {Len(jobs) + 1} /\ Len(jobs) + 1 \notin DOMAIN jobs
          /\ \A i \in DOMAIN jobs : jobs'[i] = jobs[i]
        <3>1. /\ DOMAIN Append(jobs, "PENDING") = 1 .. Len(jobs) + 1
              /\ \A i \in 1 .. Len(jobs) : Append(jobs, "PENDING")[i] = jobs[i]
            BY <1>2 DEF JobStatus
        <3> QED
            BY <1>2, <2>1, <3>1
    <2> QED
        BY <1>1, <2>1, <2>2
<1>4. ASSUME NEW status, NEW next, NEW otherwise, Write(c, status, next, otherwise), Crawling(c),
             \A call \in {next, otherwise} : call = Answered \/ call.job = jobOf[c].job,
             otherwise = Answered \/ otherwise.at # "publish",
             next # Answered /\ next.at = "publish" => status = IF next.type = "crawl.completed" THEN "COMPLETED" ELSE "FAILED"
      PROVE  /\ DOMAIN jobs \subseteq DOMAIN jobs'
             /\ \A i \in DOMAIN jobs : jobs'[i] = jobs[i] \/ i = jobOf[c].job
             /\ Crawling(c)' =>
                   /\ jobOf'[c].job \in DOMAIN jobs' /\ jobOf'[c].job = jobOf[c].job
                   /\ jobOf'[c].at = "publish" => Tells(jobOf[c].type, jobOf[c].job)'
    <2>1. jobOf[c].job \in DOMAIN jobs
        BY <1>4 DEF JobsTold
    <2>2. jobs' = [jobs EXCEPT ![jobOf[c].job] = status] /\ jobOf'[c] = next
        BY <1>4, <2>1 DEF Write, RealtimeShapes
    <2>3. Crawling(c)' => next # Answered
        BY <2>2 DEF Crawling, Answered
    <2>4. /\ DOMAIN jobs' = DOMAIN jobs /\ jobs'[jobOf[c].job] = status
          /\ \A i \in DOMAIN jobs : jobs'[i] = jobs[i] \/ i = jobOf[c].job
        BY <2>1, <2>2
    <2>5. Crawling(c)' => jobOf'[c].job = jobOf[c].job
        BY <1>4, <2>2, <2>3
    <2>6. Crawling(c)' /\ jobOf'[c].at = "publish" => Tells(jobOf[c].type, jobOf[c].job)'
        BY <1>4, <2>1, <2>2, <2>3, <2>4, <2>5 DEF Tells
    <2> QED
        BY <2>1, <2>4, <2>5, <2>6
<1>5. ASSUME MarkJobRunning(c) \/ CompleteCrawl(c) \/ CrawlThrows(c) \/ FailCrawl(c)
      PROVE  Crawling(c) /\ jobOf[c] = [at |-> jobOf[c].at, job |-> jobOf[c].job, type |-> jobOf[c].type]
    BY <1>5, CallShapes DEF MarkJobRunning, CompleteCrawl, CrawlThrows, FailCrawl, Crawling
<1>6. CASE MarkJobRunning(c)
    <2> DEFINE next == [jobOf[c] EXCEPT !.at = "crawling"]
               otherwise == [jobOf[c] EXCEPT !.at = "failing"]
    <2>1. Write(c, "RUNNING", next, otherwise)
        BY <1>6 DEF MarkJobRunning
    <2>2. next.job = jobOf[c].job /\ otherwise.job = jobOf[c].job /\ otherwise.at # "publish" /\ next.at # "publish"
        BY <1>5, <1>6
    <2> HIDE DEF next, otherwise
    <2> QED
        BY <1>1, <1>4, <1>5, <1>6, <2>1, <2>2
<1>7. CASE CompleteCrawl(c)
    <2> DEFINE next == [jobOf[c] EXCEPT !.at = "publish", !.type = "crawl.completed"]
               otherwise == [jobOf[c] EXCEPT !.at = "failing"]
    <2>1. Write(c, "COMPLETED", next, otherwise)
        BY <1>7 DEF CompleteCrawl
    <2>2. next.job = jobOf[c].job /\ otherwise.job = jobOf[c].job /\ otherwise.at # "publish" /\ next.type = "crawl.completed"
        BY <1>5, <1>7
    <2> HIDE DEF next, otherwise
    <2> QED
        BY <1>1, <1>4, <1>5, <1>7, <2>1, <2>2
<1>8. CASE CrawlThrows(c)
    <2>1. jobOf'[c] = [jobOf[c] EXCEPT !.at = "failing"] /\ UNCHANGED jobs
        BY <1>8 DEF CrawlThrows, RealtimeShapes
    <2>2. jobOf'[c].job = jobOf[c].job /\ jobOf'[c].at # "publish"
        BY <1>5, <1>8, <2>1
    <2>3. jobOf[c].job \in DOMAIN jobs
        BY <1>5, <1>8 DEF JobsTold
    <2> QED
        BY <1>1, <1>5, <1>8, <2>1, <2>2, <2>3
<1>9. CASE FailCrawl(c)
    <2> DEFINE next == [jobOf[c] EXCEPT !.at = "publish", !.type = "crawl.failed"]
    <2>1. Write(c, "FAILED", next, Answered)
        BY <1>9 DEF FailCrawl
    <2>2. next.job = jobOf[c].job /\ next.type = "crawl.failed"
        BY <1>5, <1>9
    <2> HIDE DEF next
    <2> QED
        BY <1>1, <1>4, <1>5, <1>9, <2>1, <2>2
<1> QED
    BY <1>3, <1>6, <1>7, <1>8, <1>9 DEF CallStep

\* What was told of a row stays true while others write theirs.
LEMMA ToldStays ==
    ASSUME NEW event, Told(event),
           NEW c \in CrawlCalls,
           \A d \in CrawlCalls : d # c => jobOf'[d] = jobOf[d],
           DOMAIN jobs \subseteq DOMAIN jobs',
           \A i \in DOMAIN jobs : jobs'[i] = jobs[i] \/ (Crawling(c) /\ i = jobOf[c].job),
           Crawling(c)' => jobOf'[c].job \notin DOMAIN jobs \/ (Crawling(c) /\ jobOf'[c].job = jobOf[c].job)
    PROVE  Told(event)'
<1>1. event.job \in DOMAIN jobs /\ jobs'[event.job] = jobs[event.job]
    BY DEF Told, Tells
<1>2. Tells(event.type, event.job)'
    BY <1>1 DEF Told, Tells
<1>3. ASSUME NEW d \in CrawlCalls, Crawling(d)' PROVE jobOf'[d].job # event.job
    <2>1. CASE d = c
        BY <1>1, <1>3, <2>1 DEF Told
    <2>2. CASE d # c
        <3>1. Crawling(d) /\ jobOf'[d].job = jobOf[d].job
            BY <1>3, <2>2 DEF Crawling
        <3> QED
            BY <3>1 DEF Told
    <2> QED
        BY <2>1, <2>2
<1> QED
    BY <1>2, <1>3 DEF Told

LEMMA JobsCall ==
    ASSUME RealtimeShapes, JobsTold, NEW c \in CrawlCalls, CallStep(c)
    PROVE  JobsTold'
<1>1. /\ \A d \in CrawlCalls : d # c => jobOf'[d] = jobOf[d]
      /\ DOMAIN jobs \subseteq DOMAIN jobs'
      /\ \A i \in DOMAIN jobs : jobs'[i] = jobs[i] \/ (Crawling(c) /\ i = jobOf[c].job)
      /\ Crawling(c)' =>
            /\ jobOf'[c].job \in DOMAIN jobs'
            /\ jobOf'[c].at = "publish" => Tells(jobOf[c].type, jobOf[c].job)'
            /\ jobOf'[c].job \notin DOMAIN jobs \/ (Crawling(c) /\ jobOf'[c].job = jobOf[c].job)
    BY RowsWritten
<1>2. \A event : Told(event) => Told(event)'
    BY <1>1, ToldStays
<1>3. UNCHANGED <<events, check, pushes>>
    BY CallMoves
<1>4. OfCrawl' = OfCrawl
    BY <1>3 DEF OfCrawl
<1>5. ASSUME NEW d \in CrawlCalls, d # c, Crawling(d)'
      PROVE  /\ Crawling(d) /\ jobOf'[d] = jobOf[d] /\ jobOf[d].job \in DOMAIN jobs'
             /\ jobOf[d].at = "publish" => Tells(jobOf[d].type, jobOf[d].job)'
    <2>1. Crawling(d) /\ jobOf'[d] = jobOf[d] /\ jobOf[d].job \in DOMAIN jobs
        BY <1>1, <1>5 DEF Crawling, JobsTold
    <2>2. jobs'[jobOf[d].job] = jobs[jobOf[d].job]
        BY <1>1, <1>5, <2>1 DEF JobsTold
    <2> QED
        BY <1>1, <2>1, <2>2 DEF JobsTold, Tells
<1>6. ASSUME NEW d \in CrawlCalls, NEW e \in CrawlCalls, Crawling(d)', Crawling(e)', jobOf'[d].job = jobOf'[e].job PROVE d = e
    BY <1>1, <1>5, <1>6 DEF JobsTold
<1>7. \A d \in CrawlCalls : Crawling(d)' =>
          /\ jobOf'[d].job \in DOMAIN jobs'
          /\ jobOf'[d].at = "publish" => Tells(jobOf[d].type, jobOf[d].job)'
    BY <1>1, <1>5
<1> QED
    BY <1>2, <1>3, <1>4, <1>6, <1>7 DEF JobsTold

\* Steps that leave the rows and the calls alone.
LEMMA JobsKept ==
    ASSUME JobsTold, UNCHANGED <<jobs, jobOf>>,
           \A i \in DOMAIN events' : Told(events'[i]),
           \A h \in HealthChecks : check'[h] # Away => Told(check'[h].row),
           \A k \in OfCrawl' : Told(pushes'["crawls"][k])
    PROVE  JobsTold'
<1>1. \A event : Told(event) <=> Told(event)'
    BY DEF Told, Tells, Crawling
<1>2. \A c : (Crawling(c)' <=> Crawling(c)) /\ \A type, job : Tells(type, job)' <=> Tells(type, job)
    BY DEF Crawling, Tells
<1> QED
    BY <1>1, <1>2 DEF JobsTold

LEMMA ToldSame == \A a, b : Told(a) /\ a.job = b.job /\ a.type = b.type => Told(b)
BY DEF Told, Tells

LEMMA JobsPublish ==
    ASSUME RealtimeShapes, JobsTold, NEW c \in CrawlCalls, PublishCrawl(c)
    PROVE  JobsTold'
<1>1. Crawling(c) /\ jobOf[c].at = "publish"
    BY DEF PublishCrawl, Crawling
<1>2. /\ UNCHANGED <<jobs, check, pushes>> /\ jobOf'[c] = Answered
      /\ \A d \in CrawlCalls : d # c => jobOf'[d] = jobOf[d]
    BY DEF PublishCrawl, RealtimeShapes
<1>3. \A d \in CrawlCalls : Crawling(d)' => d # c /\ Crawling(d) /\ jobOf'[d] = jobOf[d]
    BY <1>2 DEF Crawling, Answered
<1>4. \A event : Told(event) => Told(event)'
    BY <1>2, <1>3 DEF Told, Tells
<1>5. ASSUME NEW event, event.job = jobOf[c].job, event.type = jobOf[c].type PROVE Told(event)'
    <2>1. Tells(event.type, event.job) /\ \A d \in CrawlCalls : d # c /\ Crawling(d) => jobOf[d].job # event.job
        BY <1>1, <1>5 DEF JobsTold
    <2> QED
        BY <1>2, <1>3, <2>1 DEF Told, Tells
<1>6. ASSUME NEW i \in DOMAIN events' PROVE Told(events[i])'
    <2> DEFINE row == [job |-> jobOf[c].job, by |-> c, type |-> jobOf[c].type, status |-> "PENDING"]
    <2>1. events \in Seq(OutboxRow) /\ events' = Append(events, row)
        BY DEF PublishCrawl, RealtimeShapes
    <2>2. /\ DOMAIN events = 1 .. Len(events) /\ Len(events) \in Nat
          /\ DOMAIN Append(events, row) = 1 .. Len(events) + 1
          /\ \A j \in 1 .. Len(events) : Append(events, row)[j] = events[j]
          /\ Append(events, row)[Len(events) + 1] = row
        BY <2>1
    <2>3. \/ i \in DOMAIN events /\ events'[i] = events[i]
          \/ events'[i].job = jobOf[c].job /\ events'[i].type = jobOf[c].type
        BY <2>1, <2>2
    <2>4. \A event : event = events'[i] => Told(event)'
        BY <1>4, <1>5, <2>3 DEF JobsTold
    <2> QED
        BY <2>4
<1>7. \A d \in CrawlCalls : Crawling(d)' =>
          /\ jobOf'[d].job \in DOMAIN jobs'
          /\ jobOf'[d].at = "publish" => Tells(jobOf[d].type, jobOf[d].job)'
          /\ \A e \in CrawlCalls : Crawling(e)' /\ jobOf'[e].job = jobOf'[d].job => d = e
    BY <1>2, <1>3 DEF JobsTold, Tells
<1>8. OfCrawl' = OfCrawl
    BY <1>2 DEF OfCrawl
<1> QED
    BY <1>2, <1>4, <1>6, <1>7, <1>8 DEF JobsTold

LEMMA JobsCancel ==
    ASSUME RealtimeShapes, JobsTold, NEW i \in DOMAIN jobs, CancelCrawl(i)
    PROVE  JobsTold'
<1>1. UNCHANGED <<jobOf, events, check, pushes>> /\ DOMAIN jobs' = DOMAIN jobs
    BY DEF CancelCrawl, RealtimeShapes
<1>2. \A type, job : Tells(type, job) => Tells(type, job)'
    BY DEF CancelCrawl, Tells, JobEnded, RealtimeShapes
<1>3. \A c : Crawling(c)' <=> Crawling(c)
    BY <1>1 DEF Crawling
<1>4. \A event : Told(event) => Told(event)'
    BY <1>1, <1>2, <1>3 DEF Told
<1>5. OfCrawl' = OfCrawl
    BY <1>1 DEF OfCrawl
<1>6. \A c \in CrawlCalls : Crawling(c)' =>
          /\ jobOf'[c].job \in DOMAIN jobs'
          /\ jobOf'[c].at = "publish" => Tells(jobOf[c].type, jobOf[c].job)'
          /\ \A d \in CrawlCalls : Crawling(d)' /\ jobOf'[d].job = jobOf'[c].job => c = d
    BY <1>1, <1>2, <1>3 DEF JobsTold
<1> QED
    BY <1>1, <1>4, <1>5, <1>6 DEF JobsTold

LEMMA JobsStep ==
    ASSUME RealtimeShapes, resets = 0 => JobsTold, [RealtimeNext]_realtimeVars
    PROVE  resets' = 0 => JobsTold'
<1>1. ASSUME JobsTold, UNCHANGED <<jobs, jobOf, events, check>>, PushesStay PROVE JobsTold'
    BY <1>1, JobsKept DEF JobsTold, PushesStay
<1>2. ASSUME JobsTold, NEW h \in HealthChecks, FindEvent(h) PROVE JobsTold'
    <2> DEFINE first == CHOOSE i \in Undispatched : \A j \in Undispatched : i <= j
    <2>1. first \in DOMAIN events
        <3>1. Undispatched \subseteq DOMAIN events /\ \A i \in DOMAIN events : i \in Nat
            BY DEF Undispatched, RealtimeShapes
        <3>2. \E least \in Undispatched : \A other \in Undispatched : least <= other
            BY <1>2, <3>1, LeastId DEF FindEvent
        <3> QED
            BY <3>1, <3>2
    <2>2. /\ check'[h].row = events[first] /\ \A g \in HealthChecks : g # h => check'[g] = check[g]
          /\ UNCHANGED <<jobs, jobOf, events, pushes>>
        BY <1>2 DEF FindEvent, RealtimeShapes
    <2> HIDE DEF first
    <2>3. \A g \in HealthChecks : check'[g] # Away => Told(check'[g].row)
        BY <1>2, <2>1, <2>2 DEF JobsTold
    <2> QED
        BY <1>2, <2>2, <2>3, JobsKept DEF JobsTold, OfCrawl
<1>3. ASSUME JobsTold, NEW h \in HealthChecks, ClaimEvent(h) \/ PushEvent(h) \/ MarkPushed(h) PROVE JobsTold'
    <2>1. check[h] # Away /\ check[h].row \in OutboxRow /\ UNCHANGED <<jobs, jobOf>>
        BY <1>3, CallShapes DEF ClaimEvent, PushEvent, MarkPushed
    <2>2. Told(check[h].row)
        BY <1>3, <2>1 DEF JobsTold
    <2>3. check[h] = [at |-> check[h].at, id |-> check[h].id, row |-> check[h].row]
        BY <2>1, CallShapes
    <2>4. \A g \in HealthChecks : check'[g] = check[g] \/ check'[g] = Away \/ check'[g].row = check[h].row
        BY <1>3, <2>3 DEF ClaimEvent, PushEvent, MarkPushed, RealtimeShapes
    <2>5. \A g \in HealthChecks : check'[g] # Away => Told(check'[g].row)
        BY <1>3, <2>2, <2>4 DEF JobsTold
    <2>6. \A i \in DOMAIN events' : i \in DOMAIN events /\ events'[i].job = events[i].job /\ events'[i].type = events[i].type
        BY <1>3, RowsOfCalls DEF ClaimEvent, PushEvent, MarkPushed, OutboxRow
    <2>7. \A i \in DOMAIN events' : Told(events'[i])
        BY <1>3, <2>6, ToldSame DEF JobsTold
    <2>8. \A k \in OfCrawl' : Told(pushes'["crawls"][k])
        <3>1. CASE PushEvent(h)
            <4> DEFINE n == Len(pushes["crawls"]) + 1
            <4>1. /\ DOMAIN pushes'["crawls"] = DOMAIN pushes["crawls"] \cup {n}
                  /\ \A k \in DOMAIN pushes["crawls"] : pushes'["crawls"][k] = pushes["crawls"][k]
                  /\ pushes'["crawls"][n] = check[h].row
                BY <2>1, <3>1, PublishMoves DEF PushEvent, Channels
            <4> HIDE DEF n
            <4> QED
                BY <1>3, <2>2, <4>1 DEF JobsTold, OfCrawl
        <3>2. CASE UNCHANGED pushes
            BY <1>3, <3>2 DEF JobsTold, OfCrawl
        <3> QED
            BY <1>3, <3>1, <3>2 DEF ClaimEvent, MarkPushed
    <2> QED
        BY <1>3, <2>1, <2>5, <2>7, <2>8, JobsKept
<1>4. ASSUME NEW ch \in PublishChannels, PublishByRequest(ch), JobsTold PROVE JobsTold'
    BY <1>1, <1>4, OthersPush DEF PublishByRequest
<1>5. ASSUME NEW s \in PushStreams, CloseStream(s) \/ \E channels \in StreamChannels : OpenStream(s, channels), JobsTold
      PROVE  JobsTold'
    BY <1>1, <1>5, PushesUnchanged DEF CloseStream, OpenStream
<1>6. ASSUME UNCHANGED realtimeVars, JobsTold PROVE JobsTold'
    BY <1>1, <1>6, PushesUnchanged DEF realtimeVars
<1>7. CASE ResetPlatform
    BY <1>7 DEF ResetPlatform, RealtimeShapes
<1>8. CASE ~ ResetPlatform
    <2>1. UNCHANGED resets
        BY <1>8, CallMoves DEF RealtimeNext, realtimeVars, CallStep, PublishCrawl, CancelCrawl, PublishByRequest,
           CloseStream, OpenStream, FindEvent, ClaimEvent, PushEvent, MarkPushed
    <2> QED
        BY <1>2, <1>3, <1>4, <1>5, <1>6, <1>8, <2>1, JobsCall, JobsPublish, JobsCancel DEF RealtimeNext, CallStep
<1> QED
    BY <1>7, <1>8

\* What is pushed of a crawl tells how its row ended, however it was cancelled
\* meanwhile, and is pushed once, however health checks overlap, unless the
\* platform is reset in the middle (realtime.ts, platform.ts): for any crawls,
\* health checks, streams and events of others.
THEOREM PushesTrue == RealtimeSpec => []PushesAreTrue
<1>1. RealtimeInit => PushInv
    BY PushInit
<1>2. PushInv /\ [RealtimeNext]_realtimeVars => PushInv'
    BY ShapesStep, OutboxStep, JobsStep DEF PushInv, OutboxHolds
<1>3. PushInv => PushesAreTrue
    BY PushImplies
<1> QED
    BY <1>1, <1>2, <1>3, PTL DEF RealtimeSpec

-----------------------------------------------------------------------------
(* What a chat is shown and what is counted of it *)

IsSequence(s) == \E S : s \in Seq(S)
AuditActions == {"created", "deleted", "denied", "tool", "chat"}

\* Conversations keep what was said in them, the system message first.
TalkRows ==
    /\ talk = [i \in DOMAIN talk |-> talk[i]] /\ DOMAIN talk \subseteq Conversations
    /\ \A i \in DOMAIN talk :
          /\ talk[i] = [tenant |-> talk[i].tenant, messages |-> talk[i].messages]
          /\ IsSequence(talk[i].messages) /\ talk[i].messages # <<>>
          /\ \A k \in DOMAIN talk[i].messages : (k = 1) = (talk[i].messages[k].role = "system")

TalkShapes == TalkRows /\ kept \subseteq DOMAIN talk /\ lost \subseteq DOMAIN talk /\ lost \cap kept = {}

\* A chat is on a conversation of its tenant that was not deleted before it, is
\* shown what is in it, and has executed what its role may.
ChatHolds(c, chat) ==
    /\ chat = [id |-> c, request |-> chat.request, conversation |-> chat.conversation, at |-> chat.at,
               turn |-> chat.turn, shown |-> chat.shown, calls |-> chat.calls, executed |-> chat.executed]
    /\ chat.request.history \in Int
    /\ chat.conversation \in DOMAIN talk \ lost
    /\ talk[chat.conversation].tenant = chat.request.tenant
    /\ IsSequence(chat.executed)
    /\ \A k \in DOMAIN chat.executed : chat.executed[k].ok => Allowed(chat.request.role, chat.executed[k].tool)
    /\ \A k \in DOMAIN chat.shown :
          /\ (k = 1) = (chat.shown[k].role = "system")
          /\ \E j \in DOMAIN talk[chat.conversation].messages : talk[chat.conversation].messages[j] = chat.shown[k]

ChatsHold ==
    /\ chats = [c \in ChatIds |-> chats[c]]
    /\ \A c \in ChatIds : chats[c] # NoChat => ChatHolds(c, chats[c])

TrailShapes ==
    /\ trail = [n \in 0 .. MaxChats |-> trail[n]]
    /\ \A n \in 0 .. MaxChats : IsSequence(trail[n])

\* Each conversation was created once; and deleted if it is not in the store.
StoreTold ==
    /\ \A e \in Trailed("created") : trail[e[1]][e[2]].conversation \in DOMAIN talk
    /\ \A e, x \in Trailed("created") : trail[e[1]][e[2]].conversation = trail[x[1]][x[2]].conversation => e = x
    /\ \A i \in DOMAIN talk : \E e \in Trailed("created") :
          trail[e[1]][e[2]].conversation = i /\ trail[e[1]][e[2]].tenant = talk[i].tenant
    /\ \A i \in DOMAIN talk \ kept : \E e \in Trailed("deleted") : trail[e[1]][e[2]].conversation = i

Going == {c \in ChatIds : chats[c] # NoChat}

\* A chat that goes on has begun a turn which nothing else was counted for.
Counted ==
    /\ counters \in [CounterNames -> Nat]
    /\ \A action \in AuditActions : IsFiniteSet(Trailed(action))
    /\ counters.messages = Cardinality(Trailed("chat")) /\ counters.sessions = Cardinality(Trailed("created"))
    /\ counters.toolCalls = Cardinality(Trailed("tool")) /\ counters.permissionDenied = Cardinality(Trailed("denied"))
    /\ counters.turns >= counters.messages + counters.modelErrors + Cardinality(Going)
    /\ counters.toolErrors <= counters.toolCalls

CopilotInv == TalkShapes /\ ChatsHold /\ TrailShapes /\ StoreTold /\ Counted

LEMMA InTrailed ==
    ASSUME NEW action, NEW e
    PROVE  e \in Trailed(action) <=>
               \E n \in DOMAIN trail : \E k \in DOMAIN trail[n] : e = <<n, k>> /\ trail[n][k].action = action
BY DEF Trailed

LEMMA CopilotStart == CopilotInit => CopilotInv
<1> SUFFICES ASSUME CopilotInit PROVE CopilotInv
    OBVIOUS
<1>1. \A S : <<>> \in Seq(S)
    BY EmptySeq
<1>2. DOMAIN talk = {} /\ kept = {} /\ lost = {} /\ talk = [i \in DOMAIN talk |-> talk[i]]
    BY DEF CopilotInit
<1>3. TalkShapes
    BY <1>2 DEF TalkShapes, TalkRows
<1>4. ChatsHold
    BY CopilotAssumption DEF CopilotInit, ChatsHold
<1>5. /\ trail = [n \in 0 .. MaxChats |-> <<>>] /\ TrailShapes
    BY <1>1 DEF CopilotInit, TrailShapes, IsSequence
<1>6. \A action : Trailed(action) = {}
    BY <1>5, InTrailed
<1>7. StoreTold
    BY <1>2, <1>6 DEF StoreTold
<1>8. Going = {} /\ counters = [name \in CounterNames |-> 0]
    BY DEF CopilotInit, Going
<1>9. Counted
    BY <1>6, <1>8, FS_EmptySet DEF Counted, CounterNames
<1> QED
    BY <1>3, <1>4, <1>5, <1>7, <1>9 DEF CopilotInv

LEMMA CopilotHolds == CopilotInv => MetricsCount /\ ChatsStayApart /\ DeletedStayDeleted
<1> SUFFICES ASSUME CopilotInv PROVE MetricsCount /\ ChatsStayApart /\ DeletedStayDeleted
    OBVIOUS
<1>1. MetricsCount
    <2>1. Cardinality(Going) \in Nat
        <3>1. Going \subseteq 1 .. MaxChats /\ IsFiniteSet(1 .. MaxChats)
            BY FS_Interval, CopilotAssumption DEF Going, ChatIds
        <3> QED
            BY <3>1, FS_Subset, FS_CardinalityType
    <2>2. {counters.turns, counters.messages, counters.modelErrors} \subseteq Nat
        BY DEF CopilotInv, Counted, CounterNames
    <2> QED
        BY <2>1, <2>2 DEF CopilotInv, Counted, MetricsCount
<1>2. ChatsStayApart
    BY DEF CopilotInv, ChatsHold, ChatHolds, ChatsStayApart
<1>3. ASSUME NEW i \in DOMAIN talk
      PROVE  Cardinality({e \in Trailed("created") :
                 trail[e[1]][e[2]].conversation = i /\ trail[e[1]][e[2]].tenant = talk[i].tenant}) = 1
    <2> DEFINE own == {e \in Trailed("created") :
                 trail[e[1]][e[2]].conversation = i /\ trail[e[1]][e[2]].tenant = talk[i].tenant}
    <2>1. PICK e \in Trailed("created") : trail[e[1]][e[2]].conversation = i /\ trail[e[1]][e[2]].tenant = talk[i].tenant
        BY DEF CopilotInv, StoreTold
    <2>2. own = {e}
        BY <2>1 DEF CopilotInv, StoreTold
    <2> QED
        BY <2>2, FS_Singleton
<1>4. DeletedStayDeleted
    BY <1>3 DEF CopilotInv, StoreTold, TalkShapes, DeletedStayDeleted
<1> QED
    BY <1>1, <1>2, <1>4

LEMMA SequenceFacts ==
    ASSUME NEW s, IsSequence(s)
    PROVE  /\ Len(s) \in Nat /\ DOMAIN s = 1 .. Len(s)
           /\ s = <<>> <=> Len(s) = 0
<1>1. PICK S : s \in Seq(S)
    BY DEF IsSequence
<1> QED
    BY <1>1, EmptySeq

LEMMA JoinedFacts ==
    ASSUME NEW s, NEW t, IsSequence(s), IsSequence(t)
    PROVE  /\ IsSequence(s \o t) /\ Len(s \o t) = Len(s) + Len(t)
           /\ \A k \in 1 .. Len(s) : (s \o t)[k] = s[k]
           /\ \A k \in 1 .. Len(t) : (s \o t)[Len(s) + k] = t[k]
<1>1. PICK S : s \in Seq(S)
    BY DEF IsSequence
<1>2. PICK T : t \in Seq(T)
    BY DEF IsSequence
<1>3. s \in Seq(S \cup T) /\ t \in Seq(S \cup T)
    BY <1>1, <1>2, SeqMonotonic
<1>4. s \o t \in Seq(S \cup T)
    BY <1>3
<1>5. /\ Len(s \o t) = Len(s) + Len(t)
      /\ \A k \in 1 .. Len(s) : (s \o t)[k] = s[k]
      /\ \A k \in 1 .. Len(t) : (s \o t)[Len(s) + k] = t[k]
    BY <1>3
<1> QED
    BY <1>4, <1>5 DEF IsSequence

LEMMA AppendedFacts ==
    ASSUME NEW s, NEW x, IsSequence(s)
    PROVE  /\ IsSequence(Append(s, x)) /\ Len(Append(s, x)) = Len(s) + 1 /\ Append(s, x) # <<>>
           /\ \A k \in 1 .. Len(s) : Append(s, x)[k] = s[k]
           /\ Append(s, x)[Len(s) + 1] = x
<1>1. PICK S : s \in Seq(S)
    BY DEF IsSequence
<1>2. s \in Seq(S \cup {x}) /\ x \in S \cup {x}
    BY <1>1, SeqMonotonic
<1>3. Append(s, x) \in Seq(S \cup {x})
    BY <1>2
<1>4. /\ Len(Append(s, x)) = Len(s) + 1
      /\ \A k \in 1 .. Len(s) : Append(s, x)[k] = s[k]
      /\ Append(s, x)[Len(s) + 1] = x
    BY <1>2
<1>5. Append(s, x) # <<>>
    BY <1>2, <1>3, <1>4, EmptySeq
<1> QED
    BY <1>3, <1>4, <1>5 DEF IsSequence

LEMMA ShortSequences ==
    \A x, y : /\ IsSequence(<<>>) /\ IsSequence(<<x>>) /\ IsSequence(<<x, y>>)
              /\ Len(<<>>) = 0 /\ Len(<<x>>) = 1 /\ Len(<<x, y>>) = 2
              /\ <<x>>[1] = x /\ <<x, y>>[1] = x /\ <<x, y>>[2] = y
              /\ <<x>> \o <<y>> = <<x, y>> /\ <<>> \o <<y>> = <<y>> /\ <<x>> \o <<>> = <<x>> /\ <<>> \o <<>> = <<>>
<1> SUFFICES ASSUME NEW x, NEW y
             PROVE  /\ IsSequence(<<>>) /\ IsSequence(<<x>>) /\ IsSequence(<<x, y>>)
                    /\ Len(<<>>) = 0 /\ Len(<<x>>) = 1 /\ Len(<<x, y>>) = 2
                    /\ <<x>>[1] = x /\ <<x, y>>[1] = x /\ <<x, y>>[2] = y
                    /\ <<x>> \o <<y>> = <<x, y>> /\ <<>> \o <<y>> = <<y>> /\ <<x>> \o <<>> = <<x>> /\ <<>> \o <<>> = <<>>
    OBVIOUS
<1>1. <<>> \in Seq({x, y}) /\ <<x>> \in Seq({x, y}) /\ <<y>> \in Seq({x, y}) /\ <<x, y>> \in Seq({x, y})
    OBVIOUS
<1>2. /\ Len(<<>>) = 0 /\ Len(<<x>>) = 1 /\ Len(<<x, y>>) = 2
      /\ <<x>>[1] = x /\ <<x, y>>[1] = x /\ <<x, y>>[2] = y
    OBVIOUS
<1>3. <<>> \o <<y>> = <<y>> /\ <<x>> \o <<>> = <<x>> /\ <<>> \o <<>> = <<>>
    BY <1>1, ConcatEmptySeq
<1>4. <<x>> \o <<y>> = <<x, y>>
    <2>1. IsSequence(<<x>>) /\ IsSequence(<<y>>) /\ Len(<<x>>) = 1 /\ Len(<<y>>) = 1 /\ <<y>>[1] = y
        BY <1>1 DEF IsSequence
    <2>2. Len(<<x>> \o <<y>>) = 2 /\ (<<x>> \o <<y>>)[1] = x /\ (<<x>> \o <<y>>)[2] = y
        BY <1>2, <2>1, JoinedFacts
    <2>3. <<x>> \o <<y>> \in Seq({x, y})
        BY <1>1
    <2>4. \A k \in 1 .. Len(<<x>> \o <<y>>) : (<<x>> \o <<y>>)[k] = <<x, y>>[k]
        BY <1>2, <2>2
    <2> QED
        BY <1>1, <1>2, <2>2, <2>3, <2>4, SeqEqual
<1> QED
    BY <1>1, <1>2, <1>3, <1>4 DEF IsSequence

LEMMA LedFacts ==
    ASSUME NEW x, NEW s, IsSequence(s)
    PROVE  /\ IsSequence(<<x>> \o s) /\ Len(<<x>> \o s) = 1 + Len(s) /\ (<<x>> \o s)[1] = x
           /\ \A k \in 1 .. Len(s) : (<<x>> \o s)[1 + k] = s[k]
<1>1. IsSequence(<<x>>) /\ Len(<<x>>) = 1 /\ <<x>>[1] = x
    BY ShortSequences
<1>2. PICK first : first = <<x>>
    OBVIOUS
<1>3. /\ IsSequence(first \o s) /\ Len(first \o s) = Len(first) + Len(s)
      /\ \A k \in 1 .. Len(first) : (first \o s)[k] = first[k]
      /\ \A k \in 1 .. Len(s) : (first \o s)[Len(first) + k] = s[k]
    <2>1. IsSequence(first)
        BY <1>1, <1>2
    <2> QED
        BY <2>1, JoinedFacts
<1> QED
    BY <1>1, <1>2, <1>3

\* Entries are added to a chat's trail, behind those it has.
LEMMA RecordGrows ==
    ASSUME TrailShapes, NEW n \in 0 .. MaxChats, NEW entries, IsSequence(entries), Record(n, entries)
    PROVE  /\ TrailShapes'
           /\ \A e, action : e \in Trailed(action)' <=>
                 \/ e \in Trailed(action)
                 \/ \E k \in 1 .. Len(entries) : e = <<n, Len(trail[n]) + k>> /\ entries[k].action = action
           /\ \A k \in 1 .. Len(entries) : trail'[n][Len(trail[n]) + k] = entries[k]
           /\ \A action : \A e \in Trailed(action) :
                 trail'[e[1]][e[2]] = trail[e[1]][e[2]] /\ \A k \in 1 .. Len(entries) : e # <<n, Len(trail[n]) + k>>
<1>1. trail' = [trail EXCEPT ![n] = trail[n] \o entries]
    BY DEF Record
<1>2. IsSequence(trail[n])
    BY DEF TrailShapes
<1> DEFINE joined == trail[n] \o entries
<1>3. /\ IsSequence(joined) /\ Len(joined) = Len(trail[n]) + Len(entries)
      /\ \A k \in 1 .. Len(trail[n]) : joined[k] = trail[n][k]
      /\ \A k \in 1 .. Len(entries) : joined[Len(trail[n]) + k] = entries[k]
    BY <1>2, JoinedFacts
<1>4. /\ DOMAIN joined = 1 .. Len(trail[n]) + Len(entries) /\ DOMAIN trail[n] = 1 .. Len(trail[n])
      /\ Len(trail[n]) \in Nat /\ Len(entries) \in Nat
    BY <1>2, <1>3, SequenceFacts
<1>5. /\ trail'[n] = joined /\ \A m \in 0 .. MaxChats : m # n => trail'[m] = trail[m]
      /\ DOMAIN trail' = 0 .. MaxChats /\ DOMAIN trail = 0 .. MaxChats
    BY <1>1 DEF TrailShapes
<1> HIDE DEF joined
<1>6. TrailShapes'
    BY <1>1, <1>3, <1>5 DEF TrailShapes
<1>7. ASSUME NEW action, NEW e \in Trailed(action)
      PROVE  /\ e \in Trailed(action)' /\ trail'[e[1]][e[2]] = trail[e[1]][e[2]]
             /\ \A k \in 1 .. Len(entries) : e # <<n, Len(trail[n]) + k>>
    <2>1. PICK m \in DOMAIN trail : \E k \in DOMAIN trail[m] : e = <<m, k>> /\ trail[m][k].action = action
        BY <1>7, InTrailed
    <2>2. PICK k \in DOMAIN trail[m] : e = <<m, k>> /\ trail[m][k].action = action
        BY <2>1
    <2>3. k \in DOMAIN trail'[m] /\ trail'[m][k] = trail[m][k]
        BY <1>3, <1>4, <1>5, <2>1, <2>2
    <2>4. e \in Trailed(action)'
        BY <1>5, <2>1, <2>2, <2>3 DEF Trailed
    <2>5. \A j \in 1 .. Len(entries) : m = n => k # Len(trail[n]) + j
        BY <1>4, <2>2
    <2> QED
        BY <2>2, <2>3, <2>4, <2>5
<1>8. ASSUME NEW action, NEW k \in 1 .. Len(entries), entries[k].action = action
      PROVE  <<n, Len(trail[n]) + k>> \in Trailed(action)'
    <2>1. Len(trail[n]) + k \in DOMAIN trail'[n] /\ trail'[n][Len(trail[n]) + k].action = action
        BY <1>3, <1>4, <1>5, <1>8
    <2> QED
        BY <1>5, <2>1 DEF Trailed
<1>9. ASSUME NEW action, NEW e \in Trailed(action)', e \notin Trailed(action)
      PROVE  \E k \in 1 .. Len(entries) : e = <<n, Len(trail[n]) + k>> /\ entries[k].action = action
    <2>1. PICK m \in DOMAIN trail' : \E k \in DOMAIN trail'[m] : e = <<m, k>> /\ trail'[m][k].action = action
        BY <1>9 DEF Trailed
    <2>2. PICK k \in DOMAIN trail'[m] : e = <<m, k>> /\ trail'[m][k].action = action
        BY <2>1
    <2>3. m = n /\ k \notin 1 .. Len(trail[n])
        BY <1>3, <1>4, <1>5, <1>9, <2>1, <2>2, InTrailed
    <2>4. PICK j \in 1 .. Len(entries) : k = Len(trail[n]) + j
        <3>1. k \in 1 .. Len(trail[n]) + Len(entries)
            BY <1>4, <1>5, <2>2, <2>3
        <3>2. k - Len(trail[n]) \in 1 .. Len(entries) /\ k = Len(trail[n]) + (k - Len(trail[n]))
            BY <1>4, <2>3, <3>1
        <3> QED
            BY <3>2
    <2> QED
        BY <1>3, <1>5, <2>2, <2>3, <2>4
<1>10. ASSUME NEW e, NEW action
       PROVE  e \in Trailed(action)' <=>
                 \/ e \in Trailed(action)
                 \/ \E k \in 1 .. Len(entries) : e = <<n, Len(trail[n]) + k>> /\ entries[k].action = action
    <2>1. CASE e \in Trailed(action)
        BY <1>7, <2>1
    <2>2. CASE \E k \in 1 .. Len(entries) : e = <<n, Len(trail[n]) + k>> /\ entries[k].action = action
        BY <1>8, <2>2
    <2>3. CASE e \in Trailed(action)' /\ e \notin Trailed(action)
        BY <1>9, <2>3
    <2> QED
        BY <2>1, <2>2, <2>3
<1>11. \A k \in 1 .. Len(entries) : trail'[n][Len(trail[n]) + k] = entries[k]
    BY <1>3, <1>5
<1> QED
    BY <1>6, <1>7, <1>10, <1>11, Zenon

\* Entries of different actions count one each.
LEMMA RecordCounts ==
    ASSUME TrailShapes, NEW n \in 0 .. MaxChats, NEW entries, IsSequence(entries), Record(n, entries),
           \A j, k \in 1 .. Len(entries) : entries[j].action = entries[k].action => j = k,
           NEW action, IsFiniteSet(Trailed(action))
    PROVE  /\ IsFiniteSet(Trailed(action)') /\ Cardinality(Trailed(action)) \in Nat
           /\ Cardinality(Trailed(action)') =
                  Cardinality(Trailed(action)) + IF \E k \in 1 .. Len(entries) : entries[k].action = action THEN 1 ELSE 0
<1> DEFINE before == Trailed(action)
           after == Trailed(action)'
<1>1. IsFiniteSet(before) /\ Cardinality(before) \in Nat
    BY FS_CardinalityType
<1>2. \A e : e \in after <=>
          \/ e \in before
          \/ \E k \in 1 .. Len(entries) : e = <<n, Len(trail[n]) + k>> /\ entries[k].action = action
    <2>1. \A e, made : e \in Trailed(made)' <=>
              \/ e \in Trailed(made)
              \/ \E k \in 1 .. Len(entries) : e = <<n, Len(trail[n]) + k>> /\ entries[k].action = made
        BY RecordGrows
    <2> QED
        BY <2>1
<1>3. ASSUME NEW k \in 1 .. Len(entries), entries[k].action = action
      PROVE  IsFiniteSet(after) /\ Cardinality(after) = Cardinality(before) + 1
    <2>1. <<n, Len(trail[n]) + k>> \notin before
        BY RecordGrows
    <2>2. \A e : e \in after <=> e \in before \/ e = <<n, Len(trail[n]) + k>>
        BY <1>2, <1>3
    <2> HIDE DEF before, after
    <2>3. after = before \cup {<<n, Len(trail[n]) + k>>}
        BY <2>2
    <2> QED
        BY <1>1, <2>1, <2>3, FS_AddElement
<1>4. ASSUME ~ \E k \in 1 .. Len(entries) : entries[k].action = action
      PROVE  IsFiniteSet(after) /\ Cardinality(after) = Cardinality(before)
    <2>1. \A e : e \in after <=> e \in before
        BY <1>2, <1>4
    <2> HIDE DEF before, after
    <2>2. after = before
        BY <2>1
    <2> QED
        BY <1>1, <2>2
<1> QED
    BY <1>1, <1>3, <1>4

\* A conversation stays whose it is and forgets nothing.
TalkKeeps ==
    \A i \in DOMAIN talk :
        /\ i \in DOMAIN talk' /\ talk'[i].tenant = talk[i].tenant
        /\ \A j \in DOMAIN talk[i].messages :
              j \in DOMAIN talk'[i].messages /\ talk'[i].messages[j] = talk[i].messages[j]

LEMMA MoreIsSaid ==
    ASSUME TalkRows, NEW i \in DOMAIN talk, NEW more, IsSequence(more), talk' = [talk EXCEPT ![i].messages = more],
           Len(talk[i].messages) <= Len(more),
           \A k \in 1 .. Len(talk[i].messages) : more[k] = talk[i].messages[k],
           \A k \in 1 .. Len(more) : k > Len(talk[i].messages) => more[k].role # "system"
    PROVE  TalkRows' /\ TalkKeeps /\ DOMAIN talk' = DOMAIN talk
<1> DEFINE old == talk[i].messages
<1>1. /\ IsSequence(old) /\ old # <<>> /\ talk[i] = [tenant |-> talk[i].tenant, messages |-> old]
      /\ \A k \in DOMAIN old : (k = 1) = (old[k].role = "system")
    BY DEF TalkRows
<1>2. /\ DOMAIN old = 1 .. Len(old) /\ Len(old) \in Nat /\ Len(old) # 0
      /\ DOMAIN more = 1 .. Len(more) /\ Len(more) \in Nat /\ (more = <<>> <=> Len(more) = 0)
    BY <1>1, SequenceFacts
<1>3. /\ DOMAIN talk' = DOMAIN talk /\ talk' = [j \in DOMAIN talk' |-> talk'[j]]
      /\ talk'[i] = [tenant |-> talk[i].tenant, messages |-> more]
      /\ \A j \in DOMAIN talk : j # i => talk'[j] = talk[j]
    BY <1>1 DEF TalkRows
<1>4. ASSUME NEW k \in DOMAIN more PROVE (k = 1) = (more[k].role = "system")
    <2>1. CASE k <= Len(old)
        BY <1>1, <1>2, <2>1
    <2>2. CASE k > Len(old)
        BY <1>1, <1>2, <2>2
    <2> QED
        BY <1>2, <2>1, <2>2
<1>5. more # <<>>
    BY <1>2
<1>6. TalkRows'
    BY <1>3, <1>4, <1>5 DEF TalkRows
<1>7. TalkKeeps
    BY <1>1, <1>2, <1>3 DEF TalkKeeps
<1> QED
    BY <1>3, <1>6, <1>7

LEMMA SaidIsAdded ==
    ASSUME TalkRows, NEW i \in DOMAIN talk, NEW message, message.role # "system", Say(i, message)
    PROVE  TalkRows' /\ TalkKeeps /\ DOMAIN talk' = DOMAIN talk
<1> DEFINE old == talk[i].messages
           more == Append(old, message)
<1>1. IsSequence(old)
    BY DEF TalkRows
<1>2. /\ IsSequence(more) /\ Len(more) = Len(old) + 1 /\ Len(old) \in Nat
      /\ \A k \in 1 .. Len(old) : more[k] = old[k]
      /\ more[Len(old) + 1] = message
    BY <1>1, AppendedFacts, SequenceFacts
<1>3. talk' = [talk EXCEPT ![i].messages = more]
    BY DEF Say
<1>4. Len(old) <= Len(more) /\ \A k \in 1 .. Len(more) : k > Len(old) => more[k].role # "system"
    BY <1>2
<1> HIDE DEF more
<1> QED
    BY <1>2, <1>3, <1>4, MoreIsSaid, Zenon

LEMMA AnswerIsAdded ==
    ASSUME TalkRows, NEW i \in DOMAIN talk, NEW message, message.role # "system",
           talk' = [talk EXCEPT ![i].messages = @ \o <<message>>]
    PROVE  TalkRows' /\ TalkKeeps /\ DOMAIN talk' = DOMAIN talk
<1> DEFINE old == talk[i].messages
           more == old \o <<message>>
<1>1. IsSequence(old)
    BY DEF TalkRows
<1>2. IsSequence(<<message>>) /\ Len(<<message>>) = 1 /\ <<message>>[1] = message
    BY ShortSequences
<1>3. /\ IsSequence(more) /\ Len(more) = Len(old) + 1 /\ Len(old) \in Nat
      /\ \A k \in 1 .. Len(old) : more[k] = old[k]
      /\ more[Len(old) + 1] = message
    BY <1>1, <1>2, JoinedFacts, SequenceFacts
<1>4. talk' = [talk EXCEPT ![i].messages = more]
    OBVIOUS
<1>5. Len(old) <= Len(more) /\ \A k \in 1 .. Len(more) : k > Len(old) => more[k].role # "system"
    BY <1>3
<1> HIDE DEF more
<1> QED
    BY <1>3, <1>4, <1>5, MoreIsSaid, Zenon

LEMMA NewIsAdded ==
    ASSUME TalkRows, NEW tenant, NEW messages, IsSequence(messages), DOMAIN talk # Conversations,
           \A k \in 1 .. Len(messages) : messages[k].role # "system",
           talk' = NewTalk(tenant, messages)
    PROVE  /\ TalkRows' /\ TalkKeeps /\ NextId \in Conversations /\ NextId \notin DOMAIN talk
           /\ DOMAIN talk' = DOMAIN talk \cup {NextId} /\ talk'[NextId].tenant = tenant
<1> DEFINE begun == <<Plain("system", 0)>> \o messages
           id == NextId
<1>1. id \in Conversations /\ id \notin DOMAIN talk
    <2>1. Conversations \ DOMAIN talk \in SUBSET Nat /\ Conversations \ DOMAIN talk # {}
        BY CopilotAssumption DEF TalkRows
    <2>2. PICK i \in Conversations \ DOMAIN talk : \A j \in Conversations \ DOMAIN talk : i <= j
        BY <2>1, LeastId
    <2> QED
        BY <2>2 DEF NextId
<1>2. /\ IsSequence(begun) /\ Len(begun) = 1 + Len(messages) /\ Len(messages) \in Nat
      /\ begun[1] = Plain("system", 0) /\ \A k \in 1 .. Len(messages) : begun[1 + k] = messages[k]
    <2>1. /\ IsSequence(<<Plain("system", 0)>>) /\ Len(<<Plain("system", 0)>>) = 1
          /\ <<Plain("system", 0)>>[1] = Plain("system", 0)
        BY ShortSequences
    <2> QED
        BY <2>1, JoinedFacts, SequenceFacts
<1>3. /\ DOMAIN begun = 1 .. Len(begun) /\ begun # <<>>
    BY <1>2, SequenceFacts
<1>4. ASSUME NEW k \in DOMAIN begun PROVE (k = 1) = (begun[k].role = "system")
    <2>1. CASE k = 1
        BY <1>2, <2>1 DEF Plain, Message
    <2>2. CASE k # 1
        <3>1. k - 1 \in 1 .. Len(messages) /\ k = 1 + (k - 1)
            BY <1>2, <1>3, <2>2
        <3>2. begun[k] = messages[k - 1]
            BY <1>2, <3>1
        <3> QED
            BY <2>2, <3>1, <3>2
    <2> QED
        BY <2>1, <2>2
<1>5. /\ DOMAIN talk' = DOMAIN talk \cup {id} /\ talk' = [j \in DOMAIN talk' |-> talk'[j]]
      /\ talk'[id] = [tenant |-> tenant, messages |-> begun]
      /\ \A j \in DOMAIN talk : talk'[j] = talk[j]
    <2>1. talk' = [i \in DOMAIN talk \cup {id} |-> IF i = id THEN [tenant |-> tenant, messages |-> begun] ELSE talk[i]]
        BY DEF NewTalk, Session
    <2> HIDE DEF id, begun
    <2> QED
        BY <1>1, <2>1
<1> HIDE DEF id, begun
<1>6. TalkRows'
    BY <1>1, <1>2, <1>3, <1>4, <1>5 DEF TalkRows
<1>7. TalkKeeps
    BY <1>5 DEF TalkKeeps
<1> QED
    BY <1>1, <1>5, <1>6, <1>7 DEF id

LEMMA ShownWasSaid ==
    ASSUME NEW messages, IsSequence(messages), messages # <<>>, NEW history \in Int,
           \A k \in DOMAIN messages : (k = 1) = (messages[k].role = "system"),
           NEW k \in DOMAIN WindowMessages(messages, history)
    PROVE  LET m == WindowMessages(messages, history)[k]
           IN (k = 1) = (m.role = "system") /\ \E j \in DOMAIN messages : messages[j] = m
<1> DEFINE n == Len(messages)
           low == IF n - history < 2 THEN 2 ELSE n - history + 1
           rest == SubSeq(messages, low, n)
<1>1. PICK S : messages \in Seq(S)
    BY DEF IsSequence
<1>2. n \in Nat /\ n # 0 /\ DOMAIN messages = 1 .. n /\ low \in Nat /\ low >= 2
    BY SequenceFacts
<1>3. /\ IsSequence(rest) /\ Len(rest) = (IF low <= n THEN n - low + 1 ELSE 0)
      /\ \A j \in 1 .. Len(rest) : rest[j] = messages[low + j - 1]
    <2>1. n \in Int /\ low \in Int /\ \A j \in low .. n : messages[j] \in S
        BY <1>1, <1>2
    <2> HIDE DEF low, n
    <2>2. /\ rest \in Seq(S) /\ Len(rest) = (IF low <= n THEN n - low + 1 ELSE 0)
          /\ \A j \in 1 .. n - low + 1 : rest[j] = messages[low + j - 1]
        BY <2>1, SubSeqProperties
    <2>3. Len(rest) # 0 => Len(rest) = n - low + 1
        BY <2>2
    <2> HIDE DEF rest
    <2> QED
        BY <1>2, <2>1, <2>2, <2>3 DEF IsSequence
<1>4. WindowMessages(messages, history) = <<messages[1]>> \o rest
    <2>1. Head(messages) = messages[1]
        BY <1>1, <1>2, HeadTailProperties
    <2> QED
        BY <2>1 DEF WindowMessages
<1> DEFINE view == <<messages[1]>> \o rest
<1>6. /\ IsSequence(view) /\ Len(view) = 1 + Len(rest) /\ view[1] = messages[1]
      /\ \A j \in 1 .. Len(rest) : view[1 + j] = rest[j]
    <2>1. PICK s : s = rest
        OBVIOUS
    <2>2. /\ IsSequence(<<messages[1]>> \o s) /\ Len(<<messages[1]>> \o s) = 1 + Len(s)
          /\ (<<messages[1]>> \o s)[1] = messages[1]
          /\ \A j \in 1 .. Len(s) : (<<messages[1]>> \o s)[1 + j] = s[j]
        <3>1. IsSequence(s)
            BY <1>3, <2>1
        <3> QED
            BY <3>1, LedFacts
    <2> HIDE DEF rest
    <2> QED
        BY <2>1, <2>2
<1>7. DOMAIN view = 1 .. 1 + Len(rest) /\ Len(rest) \in Nat
    BY <1>3, <1>6, SequenceFacts
<1> HIDE DEF low, n, rest, view
<1>8. k \in DOMAIN view
    BY <1>4 DEF view
<1>9. CASE k = 1
    BY <1>2, <1>4, <1>6, <1>9 DEF view
<1>10. CASE k # 1
    <2>1. PICK j \in 1 .. Len(rest) : k = 1 + j
        <3>1. k - 1 \in 1 .. Len(rest) /\ k = 1 + (k - 1)
            BY <1>7, <1>8, <1>10
        <3> QED
            BY <3>1
    <2>2. view[k] = messages[low + j - 1]
        BY <1>3, <1>6, <2>1
    <2>3. low + j - 1 \in 1 .. n /\ low + j - 1 # 1
        <3>1. Len(rest) = (IF low <= n THEN n - low + 1 ELSE 0)
            BY <1>3
        <3>2. low <= n /\ Len(rest) = n - low + 1
            BY <1>7, <2>1, <3>1
        <3>3. j \in Int /\ 1 <= j /\ j <= n - low + 1
            BY <1>2, <2>1, <3>2
        <3>4. n \in Int /\ low \in Int /\ 2 <= low
            BY <1>2
        <3> QED
            BY <3>3, <3>4
    <2>4. PICK p \in 1 .. n : p = low + j - 1 /\ p # 1
        BY <2>3
    <2>5. WindowMessages(messages, history)[k] = messages[p]
        BY <1>4, <2>2, <2>4 DEF view
    <2>6. messages[p].role # "system" /\ p \in DOMAIN messages
        BY <1>2, <2>4
    <2> QED
        BY <1>10, <2>5, <2>6
<1> QED
    BY <1>9, <1>10

-----------------------------------------------------------------------------
(* What each step of a chat keeps *)

\* A chat that goes on is shown what is in its conversation and has executed one tool more, if any.
LEMMA ChatGoesOn ==
    ASSUME NEW c, NEW chat, ChatHolds(c, chat), TalkKeeps, TalkRows', chat.conversation \notin lost',
           NEW x, NEW call,
           x = [id |-> c, request |-> chat.request, conversation |-> chat.conversation, at |-> x.at,
                turn |-> x.turn, shown |-> x.shown, calls |-> x.calls, executed |-> x.executed],
           \/ x.shown = chat.shown
           \/ x.shown = WindowMessages(talk'[chat.conversation].messages, chat.request.history),
           \/ x.executed = chat.executed
           \/ x.executed = Append(chat.executed, call) /\ (call.ok => Allowed(chat.request.role, call.tool))
    PROVE  ChatHolds(c, x)'
<1> DEFINE i == chat.conversation
           said == talk'[i].messages
<1>1. /\ x.id = c /\ x.request = chat.request /\ x.conversation = i
      /\ x = [id |-> c, request |-> x.request, conversation |-> x.conversation, at |-> x.at,
              turn |-> x.turn, shown |-> x.shown, calls |-> x.calls, executed |-> x.executed]
    OBVIOUS
<1>2. /\ chat.request.history \in Int /\ i \in DOMAIN talk /\ i \in DOMAIN talk'
      /\ talk'[i].tenant = talk[i].tenant /\ talk[i].tenant = chat.request.tenant
      /\ \A j \in DOMAIN talk[i].messages : j \in DOMAIN said /\ said[j] = talk[i].messages[j]
    BY DEF ChatHolds, TalkKeeps
<1>3. /\ IsSequence(said) /\ said # <<>>
      /\ \A k \in DOMAIN said : (k = 1) = (said[k].role = "system")
    BY <1>2 DEF TalkRows
<1>4. ASSUME NEW k \in DOMAIN x.shown
      PROVE  (k = 1) = (x.shown[k].role = "system") /\ \E j \in DOMAIN said : said[j] = x.shown[k]
    <2>1. CASE x.shown = chat.shown
        <3>1. /\ (k = 1) = (chat.shown[k].role = "system")
              /\ \E j \in DOMAIN talk[i].messages : talk[i].messages[j] = chat.shown[k]
            BY <2>1 DEF ChatHolds
        <3> QED
            BY <1>2, <2>1, <3>1
    <2>2. CASE x.shown = WindowMessages(said, chat.request.history)
        <3>1. PICK m : m = said
            OBVIOUS
        <3>2. /\ IsSequence(m) /\ m # <<>> /\ k \in DOMAIN WindowMessages(m, chat.request.history)
              /\ \A j \in DOMAIN m : (j = 1) = (m[j].role = "system")
            BY <1>3, <2>2, <3>1
        <3>3. /\ (k = 1) = (WindowMessages(m, chat.request.history)[k].role = "system")
              /\ \E j \in DOMAIN m : m[j] = WindowMessages(m, chat.request.history)[k]
            BY <1>2, <3>2, ShownWasSaid
        <3> QED
            BY <2>2, <3>1, <3>3
    <2> QED
        BY <2>1, <2>2
<1>5. /\ IsSequence(x.executed)
      /\ \A k \in DOMAIN x.executed : x.executed[k].ok => Allowed(chat.request.role, x.executed[k].tool)
    <2>1. /\ IsSequence(chat.executed)
          /\ \A k \in DOMAIN chat.executed : chat.executed[k].ok => Allowed(chat.request.role, chat.executed[k].tool)
        BY DEF ChatHolds
    <2>2. CASE x.executed = Append(chat.executed, call) /\ (call.ok => Allowed(chat.request.role, call.tool))
        <3>1. /\ IsSequence(x.executed) /\ Len(x.executed) = Len(chat.executed) + 1
              /\ \A k \in 1 .. Len(chat.executed) : x.executed[k] = chat.executed[k]
              /\ x.executed[Len(chat.executed) + 1] = call
            BY <2>1, <2>2, AppendedFacts
        <3>2. /\ DOMAIN chat.executed = 1 .. Len(chat.executed) /\ Len(chat.executed) \in Nat
              /\ DOMAIN x.executed = 1 .. Len(x.executed)
            BY <2>1, <3>1, SequenceFacts
        <3>3. ASSUME NEW k \in DOMAIN x.executed, x.executed[k].ok
              PROVE  Allowed(chat.request.role, x.executed[k].tool)
            <4>1. CASE k \in 1 .. Len(chat.executed)
                BY <2>1, <3>1, <3>2, <3>3, <4>1
            <4>2. CASE k = Len(chat.executed) + 1
                BY <2>2, <3>1, <3>3, <4>2
            <4> QED
                BY <3>1, <3>2, <4>1, <4>2
        <3> QED
            BY <3>1, <3>3
    <2> QED
        BY <2>1, <2>2
<1> QED
    BY <1>1, <1>2, <1>4, <1>5 DEF ChatHolds

LEMMA ChatStays ==
    ASSUME NEW c, NEW chat, ChatHolds(c, chat), TalkKeeps, TalkRows', chat.conversation \notin lost'
    PROVE  ChatHolds(c, chat)'
<1>1. chat = [id |-> c, request |-> chat.request, conversation |-> chat.conversation, at |-> chat.at,
              turn |-> chat.turn, shown |-> chat.shown, calls |-> chat.calls, executed |-> chat.executed]
    BY DEF ChatHolds
<1> QED
    BY <1>1, ChatGoesOn

LEMMA OthersGoOn ==
    ASSUME ChatsHold, TalkKeeps, TalkRows', NEW c \in ChatIds, NEW x, chats' = [chats EXCEPT ![c] = x],
           lost' = lost, x # NoChat => ChatHolds(c, x)'
    PROVE  ChatsHold'
<1>1. /\ chats' = [d \in ChatIds |-> chats'[d]] /\ chats'[c] = x
      /\ \A d \in ChatIds : d # c => chats'[d] = chats[d]
    BY DEF ChatsHold
<1>2. ASSUME NEW d \in ChatIds, chats'[d] # NoChat, NEW chat, chat = chats'[d]
      PROVE  ChatHolds(d, chat)'
    <2>1. CASE d = c
        BY <1>1, <1>2, <2>1
    <2>2. CASE d # c
        <3>1. chat = chats[d] /\ chat # NoChat
            BY <1>1, <1>2, <2>2
        <3>2. ChatHolds(d, chat)
            BY <3>1 DEF ChatsHold
        <3>3. chat.conversation \notin lost'
            BY <3>2 DEF ChatHolds
        <3> QED
            BY <3>2, <3>3, ChatStays
    <2> QED
        BY <2>1, <2>2
<1>3. \A d \in ChatIds : chats'[d] # NoChat => ChatHolds(d, chats[d])'
    BY <1>2 DEF ChatHolds
<1> QED
    BY <1>1, <1>3 DEF ChatsHold

LEMMA AllGoOn ==
    ASSUME ChatsHold, TalkKeeps, TalkRows', chats' = chats,
           \A c \in ChatIds : chats[c] # NoChat => chats[c].conversation \notin lost'
    PROVE  ChatsHold'
<1>1. ASSUME NEW d \in ChatIds, chats'[d] # NoChat, NEW chat, chat = chats'[d]
      PROVE  ChatHolds(d, chat)'
    <2>1. ChatHolds(d, chat) /\ chat.conversation \notin lost'
        BY <1>1 DEF ChatsHold
    <2> QED
        BY <2>1, ChatStays
<1>2. \A d \in ChatIds : chats'[d] # NoChat => ChatHolds(d, chats[d])'
    BY <1>1 DEF ChatHolds
<1> QED
    BY <1>2 DEF ChatsHold

LEMMA NothingRecorded ==
    ASSUME TrailShapes, trail' = trail, NEW n \in 0 .. MaxChats
    PROVE  Record(n, <<>>)
<1>1. IsSequence(trail[n])
    BY DEF TrailShapes
<1>2. trail[n] \o <<>> = trail[n]
    BY <1>1, ConcatEmptySeq DEF IsSequence
<1>3. trail' = [trail EXCEPT ![n] = trail[n]]
    BY DEF TrailShapes
<1> QED
    BY <1>2, <1>3 DEF Record

\* No conversation is created, and one that leaves the store is told of.
LEMMA NoneCreated ==
    ASSUME StoreTold, TrailShapes, TalkKeeps, DOMAIN talk' = DOMAIN talk,
           NEW n \in 0 .. MaxChats, NEW entries, IsSequence(entries), Record(n, entries),
           \A k \in 1 .. Len(entries) : entries[k].action # "created",
           \A i \in kept \ kept' : \E k \in 1 .. Len(entries) : entries[k].action = "deleted" /\ entries[k].conversation = i
    PROVE  StoreTold'
<1>1. /\ \A e : e \in Trailed("created")' <=> e \in Trailed("created")
      /\ \A e \in Trailed("created") : trail'[e[1]][e[2]] = trail[e[1]][e[2]]
    BY RecordGrows
<1>2. /\ \A e \in Trailed("deleted") : e \in Trailed("deleted")' /\ trail'[e[1]][e[2]] = trail[e[1]][e[2]]
      /\ \A k \in 1 .. Len(entries) : entries[k].action = "deleted" =>
             <<n, Len(trail[n]) + k>> \in Trailed("deleted")' /\ trail'[n][Len(trail[n]) + k] = entries[k]
    BY RecordGrows
<1>3. /\ \A e \in Trailed("created")' : trail'[e[1]][e[2]].conversation \in DOMAIN talk'
      /\ \A e, x \in Trailed("created")' : trail'[e[1]][e[2]].conversation = trail'[x[1]][x[2]].conversation => e = x
    <2>1. /\ \A e \in Trailed("created") : trail[e[1]][e[2]].conversation \in DOMAIN talk
          /\ \A e, x \in Trailed("created") : trail[e[1]][e[2]].conversation = trail[x[1]][x[2]].conversation => e = x
        BY DEF StoreTold
    <2>2. ASSUME NEW e \in Trailed("created")' PROVE trail'[e[1]][e[2]].conversation \in DOMAIN talk'
        BY <1>1, <2>1
    <2>3. ASSUME NEW e \in Trailed("created")', NEW x \in Trailed("created")',
                 trail'[e[1]][e[2]].conversation = trail'[x[1]][x[2]].conversation
          PROVE  e = x
        BY <1>1, <2>1, <2>3
    <2> QED
        BY <2>2, <2>3
<1>4. ASSUME NEW i \in DOMAIN talk'
      PROVE  \E e \in Trailed("created")' : trail'[e[1]][e[2]].conversation = i /\ trail'[e[1]][e[2]].tenant = talk'[i].tenant
    <2>1. PICK e \in Trailed("created") : trail[e[1]][e[2]].conversation = i /\ trail[e[1]][e[2]].tenant = talk[i].tenant
        BY DEF StoreTold
    <2>2. talk'[i].tenant = talk[i].tenant
        BY DEF TalkKeeps
    <2> QED
        BY <1>1, <2>1, <2>2
<1>5. ASSUME NEW i \in DOMAIN talk' \ kept'
      PROVE  \E e \in Trailed("deleted")' : trail'[e[1]][e[2]].conversation = i
    <2>1. CASE i \in kept
        <3>1. PICK k \in 1 .. Len(entries) : entries[k].action = "deleted" /\ entries[k].conversation = i
            BY <2>1
        <3>2. /\ <<n, Len(trail[n]) + k>> \in Trailed("deleted")'
              /\ trail'[<<n, Len(trail[n]) + k>>[1]][<<n, Len(trail[n]) + k>>[2]].conversation = i
            BY <1>2, <3>1
        <3> QED
            BY <3>2
    <2>2. CASE i \notin kept
        BY <1>2, <2>2 DEF StoreTold
    <2> QED
        BY <2>1, <2>2
<1> QED
    BY <1>3, <1>4, <1>5 DEF StoreTold

\* One conversation is created, and told of first.
LEMMA OneCreated ==
    ASSUME StoreTold, TrailShapes, TalkKeeps, NEW id, id \notin DOMAIN talk, DOMAIN talk' = DOMAIN talk \cup {id},
           kept' = kept \cup {id},
           NEW n \in 0 .. MaxChats, NEW entries, IsSequence(entries), Record(n, entries), Len(entries) # 0,
           entries[1].action = "created", entries[1].conversation = id, entries[1].tenant = talk'[id].tenant,
           \A k \in 1 .. Len(entries) : entries[k].action = "created" => k = 1
    PROVE  StoreTold'
<1> DEFINE new == <<n, Len(trail[n]) + 1>>
<1>1. 1 \in 1 .. Len(entries)
    BY SequenceFacts
<1>2. /\ \A e : e \in Trailed("created")' <=> e \in Trailed("created") \/ e = new
      /\ \A e \in Trailed("created") : trail'[e[1]][e[2]] = trail[e[1]][e[2]] /\ e # new
      /\ trail'[new[1]][new[2]] = entries[1]
    BY <1>1, RecordGrows
<1>3. \A e \in Trailed("deleted") : e \in Trailed("deleted")' /\ trail'[e[1]][e[2]] = trail[e[1]][e[2]]
    BY RecordGrows
<1> HIDE DEF new
<1>4. /\ \A e \in Trailed("created")' : trail'[e[1]][e[2]].conversation \in DOMAIN talk'
      /\ \A e, x \in Trailed("created")' : trail'[e[1]][e[2]].conversation = trail'[x[1]][x[2]].conversation => e = x
    <2>1. /\ \A e \in Trailed("created") : trail[e[1]][e[2]].conversation \in DOMAIN talk
          /\ \A e, x \in Trailed("created") : trail[e[1]][e[2]].conversation = trail[x[1]][x[2]].conversation => e = x
        BY DEF StoreTold
    <2>2. ASSUME NEW e \in Trailed("created")' PROVE trail'[e[1]][e[2]].conversation \in DOMAIN talk'
        BY <1>2, <2>1
    <2>3. ASSUME NEW e \in Trailed("created")', NEW x \in Trailed("created")',
                 trail'[e[1]][e[2]].conversation = trail'[x[1]][x[2]].conversation
          PROVE  e = x
        BY <1>2, <2>1, <2>3
    <2> QED
        BY <2>2, <2>3
<1>5. ASSUME NEW i \in DOMAIN talk'
      PROVE  \E e \in Trailed("created")' : trail'[e[1]][e[2]].conversation = i /\ trail'[e[1]][e[2]].tenant = talk'[i].tenant
    <2>1. CASE i = id
        BY <1>2, <2>1
    <2>2. CASE i # id
        <3>1. i \in DOMAIN talk /\ talk'[i].tenant = talk[i].tenant
            BY <2>2 DEF TalkKeeps
        <3>2. PICK e \in Trailed("created") : trail[e[1]][e[2]].conversation = i /\ trail[e[1]][e[2]].tenant = talk[i].tenant
            BY <3>1 DEF StoreTold
        <3> QED
            BY <1>2, <3>1, <3>2
    <2> QED
        BY <2>1, <2>2
<1>6. \A i \in DOMAIN talk' \ kept' : \E e \in Trailed("deleted")' : trail'[e[1]][e[2]].conversation = i
    BY <1>3 DEF StoreTold
<1> QED
    BY <1>4, <1>5, <1>6 DEF StoreTold

\* A chat begins or ends at most.
LEMMA GoingMoves ==
    ASSUME ChatsHold, NEW c \in ChatIds, NEW x, chats' = [chats EXCEPT ![c] = x]
    PROVE  /\ Cardinality(Going) \in Nat /\ Cardinality(Going') \in Nat
           /\ Cardinality(Going') <= Cardinality(Going) + 1
           /\ chats[c] # NoChat => Cardinality(Going') <= Cardinality(Going)
           /\ chats[c] # NoChat /\ x = NoChat => Cardinality(Going') = Cardinality(Going) - 1
<1>1. /\ chats'[c] = x /\ \A d \in ChatIds : d # c => chats'[d] = chats[d]
    BY DEF ChatsHold
<1>2. \A d : d \in Going' <=> d \in ChatIds /\ chats'[d] # NoChat
    BY DEF Going
<1>3. \A d : d \in Going <=> d \in ChatIds /\ chats[d] # NoChat
    BY DEF Going
<1>4. IsFiniteSet(ChatIds)
    BY FS_Interval, CopilotAssumption DEF ChatIds
<1> DEFINE before == Going
           after == Going'
<1>5. IsFiniteSet(before) /\ IsFiniteSet(after)
    BY <1>2, <1>3, <1>4, FS_Subset
<1>6. Cardinality(before) \in Nat /\ Cardinality(after) \in Nat
    BY <1>5, FS_CardinalityType
<1>7. after \subseteq before \cup {c} /\ (chats[c] # NoChat => after \subseteq before)
    BY <1>1, <1>2, <1>3
<1>8. chats[c] # NoChat /\ x = NoChat => after = before \ {c} /\ c \in before
    BY <1>1, <1>2, <1>3
<1> HIDE DEF before, after
<1>9. /\ IsFiniteSet(before \cup {c}) /\ Cardinality(before \cup {c}) \in Nat
      /\ Cardinality(before \cup {c}) <= Cardinality(before) + 1
    <2>1. IsFiniteSet(before \cup {c}) /\ Cardinality(before \cup {c}) = IF c \in before THEN Cardinality(before) ELSE Cardinality(before) + 1
        BY <1>5, FS_AddElement
    <2> QED
        BY <1>6, <2>1
<1>10. Cardinality(after) <= Cardinality(before) + 1
    <2>1. Cardinality(after) <= Cardinality(before \cup {c})
        BY <1>7, <1>9, FS_Subset
    <2> QED
        BY <1>6, <1>9, <2>1
<1>11. chats[c] # NoChat => Cardinality(after) <= Cardinality(before)
    BY <1>5, <1>7, FS_Subset
<1>12. chats[c] # NoChat /\ x = NoChat => Cardinality(after) = Cardinality(before) - 1
    <2>1. c \in before => Cardinality(before \ {c}) = Cardinality(before) - 1
        BY <1>5, <1>6, FS_RemoveElement
    <2> QED
        BY <1>8, <2>1
<1> QED
    BY <1>6, <1>10, <1>11, <1>12 DEF before, after

LEMMA TurnsCover ==
    ASSUME NEW turns \in Nat, NEW messages \in Nat, NEW failed \in Nat, NEW going \in Nat, NEW after \in Nat,
           NEW t \in Nat, NEW m \in Nat, NEW f \in Nat,
           turns >= messages + failed + going, t + going >= m + f + after
    PROVE  turns + t >= (messages + m) + (failed + f) + after
OBVIOUS

\* The counters of the audited actions are counted up with the entries, and a turn with the chat that begins it.
LEMMA CountsKept ==
    ASSUME Counted, TrailShapes, NEW n \in 0 .. MaxChats, NEW entries, IsSequence(entries), Record(n, entries),
           \A j, k \in 1 .. Len(entries) : entries[j].action = entries[k].action => j = k,
           NEW names, counters' = Bumped(names), Cardinality(Going) \in Nat, Cardinality(Going') \in Nat,
           "messages" \in names <=> \E k \in 1 .. Len(entries) : entries[k].action = "chat",
           "sessions" \in names <=> \E k \in 1 .. Len(entries) : entries[k].action = "created",
           "toolCalls" \in names <=> \E k \in 1 .. Len(entries) : entries[k].action = "tool",
           "permissionDenied" \in names <=> \E k \in 1 .. Len(entries) : entries[k].action = "denied",
           "toolErrors" \in names => "toolCalls" \in names,
           (IF "turns" \in names THEN 1 ELSE 0) + Cardinality(Going) >=
               (IF "messages" \in names THEN 1 ELSE 0) + (IF "modelErrors" \in names THEN 1 ELSE 0) + Cardinality(Going')
    PROVE  Counted'
<1> DEFINE bump(name) == IF name \in names THEN 1 ELSE 0
<1>1. /\ counters \in [CounterNames -> Nat]
      /\ \A action \in AuditActions : IsFiniteSet(Trailed(action))
    BY DEF Counted
<1>2. \A name \in CounterNames : bump(name) \in {0, 1}
    OBVIOUS
<1>3. \A name \in CounterNames : counters'[name] = counters[name] + bump(name) /\ counters'[name] \in Nat /\ counters[name] \in Nat
    BY <1>1 DEF Bumped
<1>4. counters' \in [CounterNames -> Nat]
    <2>1. counters' = [name \in CounterNames |-> counters'[name]]
        BY DEF Bumped
    <2> QED
        BY <1>3, <2>1
<1>5. ASSUME NEW action \in AuditActions
      PROVE  /\ IsFiniteSet(Trailed(action)')
             /\ Cardinality(Trailed(action)') = Cardinality(Trailed(action)) +
                    IF \E k \in 1 .. Len(entries) : entries[k].action = action THEN 1 ELSE 0
    BY <1>1, RecordCounts
<1>6. /\ {"chat", "created", "tool", "denied"} \subseteq AuditActions
      /\ {"messages", "sessions", "toolCalls", "permissionDenied", "turns", "modelErrors", "toolErrors"} \subseteq CounterNames
    BY DEF AuditActions, CounterNames
<1> DEFINE made(action) == \E k \in 1 .. Len(entries) : entries[k].action = action
<1>7. ASSUME NEW name \in CounterNames, NEW action \in AuditActions, name \in names <=> made(action),
             counters[name] = Cardinality(Trailed(action))
      PROVE  counters'[name] = Cardinality(Trailed(action)')
    <2>1. counters'[name] = counters[name] + bump(name)
        BY <1>3
    <2>2. bump(name) = IF made(action) THEN 1 ELSE 0
        BY <1>7
    <2> HIDE DEF bump
    <2> QED
        BY <1>5, <1>7, <2>1, <2>2
<1>8. /\ "messages" \in names <=> made("chat")
      /\ "sessions" \in names <=> made("created")
      /\ "toolCalls" \in names <=> made("tool")
      /\ "permissionDenied" \in names <=> made("denied")
    OBVIOUS
<1> HIDE DEF made
<1>9. /\ counters["messages"] = Cardinality(Trailed("chat")) /\ counters["sessions"] = Cardinality(Trailed("created"))
      /\ counters["toolCalls"] = Cardinality(Trailed("tool")) /\ counters["permissionDenied"] = Cardinality(Trailed("denied"))
      /\ counters["turns"] >= counters["messages"] + counters["modelErrors"] + Cardinality(Going)
      /\ counters["toolErrors"] <= counters["toolCalls"]
    BY DEF Counted
<1>10. /\ counters'["messages"] = Cardinality(Trailed("chat")') /\ counters'["sessions"] = Cardinality(Trailed("created")')
       /\ counters'["toolCalls"] = Cardinality(Trailed("tool")') /\ counters'["permissionDenied"] = Cardinality(Trailed("denied")')
    BY <1>6, <1>7, <1>8, <1>9
<1>11. bump("turns") + Cardinality(Going) >= bump("messages") + bump("modelErrors") + Cardinality(Going')
    OBVIOUS
<1>12. bump("toolErrors") <= bump("toolCalls")
    OBVIOUS
<1> HIDE DEF bump
<1>13. /\ counters'["turns"] >= counters'["messages"] + counters'["modelErrors"] + Cardinality(Going')
       /\ counters'["toolErrors"] <= counters'["toolCalls"]
    <2>1. ASSUME NEW name \in CounterNames
          PROVE  counters'[name] = counters[name] + bump(name) /\ counters[name] \in Nat /\ bump(name) \in Nat
        <3>1. bump(name) \in Nat
            BY <1>2
        <3> QED
            BY <1>3, <3>1
    <2>2. counters'["turns"] = counters["turns"] + bump("turns") /\ counters["turns"] \in Nat /\ bump("turns") \in Nat
        BY <1>6, <2>1
    <2>3. counters'["messages"] = counters["messages"] + bump("messages") /\ counters["messages"] \in Nat /\ bump("messages") \in Nat
        BY <1>6, <2>1
    <2>4. counters'["modelErrors"] = counters["modelErrors"] + bump("modelErrors") /\ counters["modelErrors"] \in Nat /\ bump("modelErrors") \in Nat
        BY <1>6, <2>1
    <2>5. counters'["toolErrors"] = counters["toolErrors"] + bump("toolErrors") /\ counters["toolErrors"] \in Nat /\ bump("toolErrors") \in Nat
        BY <1>6, <2>1
    <2>6. counters'["toolCalls"] = counters["toolCalls"] + bump("toolCalls") /\ counters["toolCalls"] \in Nat /\ bump("toolCalls") \in Nat
        BY <1>6, <2>1
    <2>7. counters'["turns"] >= counters'["messages"] + counters'["modelErrors"] + Cardinality(Going')
        <3>1. PICK going \in Nat, after \in Nat : going = Cardinality(Going) /\ after = Cardinality(Going')
            OBVIOUS
        <3>2. /\ counters["turns"] >= counters["messages"] + counters["modelErrors"] + going
              /\ bump("turns") + going >= bump("messages") + bump("modelErrors") + after
            BY <1>9, <1>11, <3>1
        <3>3. counters["turns"] + bump("turns") >=
                  (counters["messages"] + bump("messages")) + (counters["modelErrors"] + bump("modelErrors")) + after
            BY <2>2, <2>3, <2>4, <3>2, TurnsCover
        <3> QED
            BY <2>2, <2>3, <2>4, <3>1, <3>3
    <2>8. counters'["toolErrors"] <= counters'["toolCalls"]
        BY <1>9, <1>12, <2>5, <2>6
    <2> QED
        BY <2>7, <2>8
<1>14. \A action \in AuditActions : IsFiniteSet(Trailed(action)')
    BY <1>5
<1> QED
    BY <1>4, <1>10, <1>13, <1>14 DEF Counted

LEMMA NothingCounted ==
    ASSUME Counted, counters' = counters
    PROVE  counters' = Bumped({})
BY DEF Counted, Bumped

LEMMA TalkSame ==
    ASSUME TalkRows, talk' = talk
    PROVE  TalkRows' /\ TalkKeeps /\ DOMAIN talk' = DOMAIN talk
BY DEF TalkRows, TalkKeeps

\* A step of a chat that goes on, with what it leaves of the chat, the entry it makes and the counters it counts up.
LEMMA ChatStep ==
    ASSUME CopilotInv, NEW c \in ChatIds, chats[c] # NoChat,
           TalkRows', TalkKeeps, DOMAIN talk' = DOMAIN talk, lost' = lost,
           kept \subseteq kept', kept' \subseteq kept \cup {chats[c].conversation},
           NEW x, chats' = [chats EXCEPT ![c] = x], x # NoChat => ChatHolds(c, x)',
           NEW entries, NEW e, entries = <<>> \/ entries = <<e>>, e.action # "created", Record(c, entries),
           NEW names, counters' = Bumped(names), "sessions" \notin names,
           "messages" \in names <=> entries # <<>> /\ e.action = "chat",
           "toolCalls" \in names <=> entries # <<>> /\ e.action = "tool",
           "permissionDenied" \in names <=> entries # <<>> /\ e.action = "denied",
           "toolErrors" \in names => "toolCalls" \in names,
           {"messages", "modelErrors"} \cap names # {} => x = NoChat,
           ~ ("messages" \in names /\ "modelErrors" \in names)
    PROVE  CopilotInv'
<1>1. TalkShapes /\ ChatsHold /\ TrailShapes /\ StoreTold /\ Counted
    BY DEF CopilotInv
<1>2. chats[c].conversation \in DOMAIN talk \ lost
    BY <1>1 DEF ChatsHold, ChatHolds
<1>3. TalkShapes'
    BY <1>1, <1>2 DEF TalkShapes
<1>4. ChatsHold'
    BY <1>1, OthersGoOn
<1>5. c \in 0 .. MaxChats
    BY CopilotAssumption DEF ChatIds
<1>6. /\ IsSequence(entries) /\ Len(entries) \in {0, 1}
      /\ (entries = <<>> <=> Len(entries) = 0) /\ (Len(entries) = 1 => entries[1] = e)
    <2>1. /\ IsSequence(<<>>) /\ Len(<<>>) = 0 /\ IsSequence(<<e>>) /\ Len(<<e>>) = 1 /\ <<e>>[1] = e
        BY ShortSequences
    <2>2. CASE entries = <<>>
        BY <2>1, <2>2
    <2>3. CASE entries = <<e>>
        <3>1. IsSequence(entries) /\ Len(entries) = 1 /\ entries[1] = e
            BY <2>1, <2>3
        <3>2. entries # <<>>
            BY <2>1, <3>1
        <3> QED
            BY <3>1, <3>2
    <2> QED
        BY <2>2, <2>3
<1>7. ASSUME NEW k \in 1 .. Len(entries) PROVE k = 1 /\ entries # <<>> /\ entries[k] = e
    <2>1. PICK length \in {0, 1} : length = Len(entries)
        BY <1>6
    <2>2. k \in 1 .. length
        BY <2>1
    <2>3. length = 1 /\ k = 1
        BY <2>2
    <2> QED
        BY <1>6, <2>1, <2>3
<1>8. TrailShapes'
    BY <1>1, <1>5, <1>6, RecordGrows
<1>9. StoreTold'
    <2>1. /\ \A k \in 1 .. Len(entries) : entries[k].action # "created"
          /\ kept \ kept' = {}
        BY <1>7
    <2> QED
        BY <1>1, <1>5, <1>6, <2>1, NoneCreated
<1>10. Counted'
    <2>1. \A j, k \in 1 .. Len(entries) : entries[j].action = entries[k].action => j = k
        BY <1>7
    <2>2. ASSUME NEW action
          PROVE  (\E k \in 1 .. Len(entries) : entries[k].action = action) <=> entries # <<>> /\ e.action = action
        <3>1. entries # <<>> => 1 \in 1 .. Len(entries)
            BY <1>6
        <3> QED
            BY <1>7, <3>1
    <2>3. /\ Cardinality(Going) \in Nat /\ Cardinality(Going') \in Nat
          /\ Cardinality(Going') <= Cardinality(Going)
          /\ x = NoChat => Cardinality(Going') = Cardinality(Going) - 1
        BY <1>1, GoingMoves
    <2>4. (IF "turns" \in names THEN 1 ELSE 0) + Cardinality(Going) >=
               (IF "messages" \in names THEN 1 ELSE 0) + (IF "modelErrors" \in names THEN 1 ELSE 0) + Cardinality(Going')
        <3>1. PICK g, h : g = Cardinality(Going) /\ h = Cardinality(Going')
            OBVIOUS
        <3>2. CASE x = NoChat
            BY <2>3, <3>1, <3>2
        <3>3. CASE x # NoChat
            <4>1. "messages" \notin names /\ "modelErrors" \notin names
                BY <3>3
            <4> QED
                BY <2>3, <3>1, <4>1
        <3> QED
            BY <3>2, <3>3
    <2>5. /\ "messages" \in names <=> \E k \in 1 .. Len(entries) : entries[k].action = "chat"
          /\ "sessions" \in names <=> \E k \in 1 .. Len(entries) : entries[k].action = "created"
          /\ "toolCalls" \in names <=> \E k \in 1 .. Len(entries) : entries[k].action = "tool"
          /\ "permissionDenied" \in names <=> \E k \in 1 .. Len(entries) : entries[k].action = "denied"
        BY <2>2
    <2> QED
        BY <1>1, <1>5, <1>6, <2>1, <2>3, <2>4, <2>5, CountsKept
<1> QED
    BY <1>3, <1>4, <1>8, <1>9, <1>10 DEF CopilotInv

LEMMA ModelAnswersKeeps ==
    ASSUME CopilotInv, NEW c \in ChatIds, ModelAnswers(c)
    PROVE  CopilotInv'
<1>1. /\ TalkRows /\ ChatsHold /\ TrailShapes /\ Counted /\ chats[c] # NoChat /\ c \in 0 .. MaxChats
    BY CopilotAssumption DEF CopilotInv, TalkShapes, ModelAnswers, ChatIds
<1>2. ChatHolds(c, chats[c]) /\ chats[c].conversation \in DOMAIN talk \ lost
    BY <1>1 DEF ChatsHold, ChatHolds
<1>3. /\ lost' = lost /\ Record(c, <<>>) /\ counters' = Bumped({})
    BY <1>1, NothingRecorded, NothingCounted DEF ModelAnswers
<1>4. PICK chunks \in Answers :
         IF chunks = <<>> THEN Answer(c, <<Plain("assistant", chats[c].id)>>)
         ELSE /\ chats' = [chats EXCEPT ![c].at = "tools", ![c].calls = CallsById(chunks)]
              /\ UNCHANGED <<talk, kept>>
    BY DEF ModelAnswers
<1>5. /\ TalkRows' /\ TalkKeeps /\ DOMAIN talk' = DOMAIN talk
      /\ kept \subseteq kept' /\ kept' \subseteq kept \cup {chats[c].conversation}
    <2>1. CASE chunks = <<>>
        <3>1. PICK m : m = Plain("assistant", chats[c].id)
            OBVIOUS
        <3>2. m.role # "system"
            BY <3>1 DEF Plain, Message
        <3>3. talk' = [talk EXCEPT ![chats[c].conversation].messages = @ \o <<m>>]
            BY <1>4, <2>1, <3>1 DEF Answer
        <3>4. kept' = kept \cup {chats[c].conversation}
            BY <1>4, <2>1 DEF Answer
        <3> QED
            BY <1>1, <1>2, <3>2, <3>3, <3>4, AnswerIsAdded
    <2>2. CASE chunks # <<>>
        BY <1>1, <1>4, <2>2, TalkSame
    <2> QED
        BY <2>1, <2>2
<1>6. PICK x : /\ chats' = [chats EXCEPT ![c] = x]
               /\ \/ x = [chats[c] EXCEPT !.at = "finish"]
                  \/ x = [chats[c] EXCEPT !.at = "tools", !.calls = CallsById(chunks)]
    BY <1>4 DEF Answer
<1>7. ChatHolds(c, x)'
    <2>1. PICK chat, calls : chat = chats[c] /\ calls = CallsById(chunks)
        OBVIOUS
    <2>2. chat = [id |-> c, request |-> chat.request, conversation |-> chat.conversation, at |-> chat.at,
                  turn |-> chat.turn, shown |-> chat.shown, calls |-> chat.calls, executed |-> chat.executed]
        BY <1>2, <2>1 DEF ChatHolds
    <2>3. /\ x = [id |-> c, request |-> chat.request, conversation |-> chat.conversation, at |-> x.at,
                  turn |-> x.turn, shown |-> x.shown, calls |-> x.calls, executed |-> x.executed]
          /\ x.shown = chat.shown /\ x.executed = chat.executed
        <3>1. x = [chat EXCEPT !.at = "finish"] \/ x = [chat EXCEPT !.at = "tools", !.calls = calls]
            BY <1>6, <2>1
        <3>2. CASE x = [chat EXCEPT !.at = "finish"]
            BY <2>2, <3>2
        <3>3. CASE x = [chat EXCEPT !.at = "tools", !.calls = calls]
            <4>1. PICK y : y = [chat EXCEPT !.at = "tools"]
                OBVIOUS
            <4>2. /\ y = [id |-> c, request |-> chat.request, conversation |-> chat.conversation, at |-> "tools",
                           turn |-> chat.turn, shown |-> chat.shown, calls |-> chat.calls, executed |-> chat.executed]
                BY <2>2, <4>1
            <4>3. x = [y EXCEPT !.calls = calls]
                BY <2>2, <3>3, <4>1, <4>2
            <4> QED
                BY <4>2, <4>3
        <3> QED
            BY <3>1, <3>2, <3>3
    <2>4. ChatHolds(c, chat) /\ chat.conversation \notin lost'
        BY <1>2, <1>3, <2>1
    <2> QED
        BY <1>5, <2>3, <2>4, ChatGoesOn
<1>8. PICK e, entries, names : e = [action |-> "none"] /\ entries = <<>> /\ names = {}
    OBVIOUS
<1>9. /\ Record(c, entries) /\ counters' = Bumped(names) /\ (entries = <<>> \/ entries = <<e>>) /\ e.action # "created"
      /\ \A name : name \notin names
      /\ {"messages", "modelErrors"} \cap names # {} => x = NoChat
    BY <1>3, <1>8
<1> QED
    BY <1>1, <1>3, <1>5, <1>6, <1>7, <1>8, <1>9, ChatStep

LEMMA ModelFailsKeeps ==
    ASSUME CopilotInv, NEW c \in ChatIds, ModelFails(c)
    PROVE  CopilotInv'
<1>1. /\ TalkRows /\ TrailShapes /\ chats[c] # NoChat /\ c \in 0 .. MaxChats /\ talk' = talk
    BY CopilotAssumption DEF CopilotInv, TalkShapes, ModelFails, ChatIds
<1>2. /\ lost' = lost /\ kept' = kept /\ Record(c, <<>>)
      /\ chats' = [chats EXCEPT ![c] = NoChat]
    BY <1>1, NothingRecorded DEF ModelFails
<1>3. TalkRows' /\ TalkKeeps /\ DOMAIN talk' = DOMAIN talk
    BY <1>1, TalkSame
<1>4. PICK e, entries, names, x :
          e = [action |-> "none"] /\ entries = <<>> /\ names = {"modelErrors"} /\ x = NoChat
    OBVIOUS
<1>5. /\ Record(c, entries) /\ counters' = Bumped(names) /\ (entries = <<>> \/ entries = <<e>>) /\ e.action # "created"
      /\ chats' = [chats EXCEPT ![c] = x] /\ kept \subseteq kept' /\ kept' \subseteq kept \cup {chats[c].conversation}
      /\ \A name : name \in names => name = "modelErrors"
    BY <1>2, <1>4 DEF ModelFails, CountUp
<1> QED
    BY <1>1, <1>2, <1>3, <1>4, <1>5, ChatStep

LEMMA LeaveChatKeeps ==
    ASSUME CopilotInv, NEW c \in ChatIds, LeaveChat(c)
    PROVE  CopilotInv'
<1>1. /\ TalkRows /\ TrailShapes /\ Counted /\ chats[c] # NoChat /\ c \in 0 .. MaxChats /\ talk' = talk
    BY CopilotAssumption DEF CopilotInv, TalkShapes, LeaveChat, ChatIds
<1>2. /\ lost' = lost /\ kept' = kept /\ Record(c, <<>>) /\ counters' = Bumped({})
      /\ chats' = [chats EXCEPT ![c] = NoChat]
    BY <1>1, NothingRecorded, NothingCounted DEF LeaveChat
<1>3. TalkRows' /\ TalkKeeps /\ DOMAIN talk' = DOMAIN talk
    BY <1>1, TalkSame
<1>4. PICK e, entries, names, x : e = [action |-> "none"] /\ entries = <<>> /\ names = {} /\ x = NoChat
    OBVIOUS
<1>5. /\ Record(c, entries) /\ counters' = Bumped(names) /\ (entries = <<>> \/ entries = <<e>>) /\ e.action # "created"
      /\ chats' = [chats EXCEPT ![c] = x] /\ kept \subseteq kept' /\ kept' \subseteq kept \cup {chats[c].conversation}
      /\ \A name : name \notin names
    BY <1>2, <1>4
<1> QED
    BY <1>1, <1>2, <1>3, <1>4, <1>5, ChatStep

LEMMA FinishChatKeeps ==
    ASSUME CopilotInv, NEW c \in ChatIds, FinishChat(c)
    PROVE  CopilotInv'
<1>1. /\ TalkRows /\ ChatsHold /\ chats[c] # NoChat /\ c \in 0 .. MaxChats /\ talk' = talk
    BY CopilotAssumption DEF CopilotInv, TalkShapes, FinishChat, ChatIds
<1>2. chats[c].id = c
    BY <1>1 DEF ChatsHold, ChatHolds
<1>3. PICK e : e = Entry("chat", talk[chats[c].conversation].tenant, chats[c].conversation, "none")
    OBVIOUS
<1>4. /\ lost' = lost /\ kept' = kept /\ Record(c, <<e>>) /\ e.action = "chat"
      /\ chats' = [chats EXCEPT ![c] = NoChat]
    BY <1>2, <1>3 DEF FinishChat, Entry
<1>5. TalkRows' /\ TalkKeeps /\ DOMAIN talk' = DOMAIN talk
    BY <1>1, TalkSame
<1>6. PICK entries, names, x : entries = <<e>> /\ names = {"messages"} /\ x = NoChat
    OBVIOUS
<1>7. /\ Record(c, entries) /\ counters' = Bumped(names) /\ entries # <<>>
      /\ chats' = [chats EXCEPT ![c] = x] /\ kept \subseteq kept' /\ kept' \subseteq kept \cup {chats[c].conversation}
      /\ \A name : name \in names <=> name = "messages"
    BY <1>4, <1>6 DEF FinishChat, CountUp
<1> QED
    BY <1>1, <1>4, <1>5, <1>6, <1>7, ChatStep

LEMMA EndTurnKeeps ==
    ASSUME CopilotInv, NEW c \in ChatIds, EndTurn(c)
    PROVE  CopilotInv'
<1>1. /\ TalkRows /\ ChatsHold /\ TrailShapes /\ Counted /\ chats[c] # NoChat /\ c \in 0 .. MaxChats
    BY CopilotAssumption DEF CopilotInv, TalkShapes, EndTurn, ChatIds
<1>2. ChatHolds(c, chats[c]) /\ chats[c].conversation \in DOMAIN talk \ lost
    BY <1>1 DEF ChatsHold, ChatHolds
<1>3. PICK chat : chat = chats[c]
    OBVIOUS
<1>4. /\ lost' = lost /\ trail' = trail /\ ChatHolds(c, chat) /\ chat.conversation \notin lost'
      /\ chat = [id |-> c, request |-> chat.request, conversation |-> chat.conversation, at |-> chat.at,
                 turn |-> chat.turn, shown |-> chat.shown, calls |-> chat.calls, executed |-> chat.executed]
    BY <1>2, <1>3 DEF EndTurn, ChatHolds
<1>5. PICK e, entries : e = [action |-> "none"] /\ entries = <<>>
    OBVIOUS
<1>6. Record(c, entries) /\ (entries = <<>> \/ entries = <<e>>) /\ e.action # "created"
    BY <1>1, <1>4, <1>5, NothingRecorded
<1>7. CASE chat.turn = chat.request.turns - 1
    <2>1. Answer(c, Excuse(chat)) /\ counters' = counters
        BY <1>3, <1>7 DEF EndTurn
    <2>2. PICK m : m = Plain("assistant", chat.id)
        OBVIOUS
    <2>3. m.role # "system"
        BY <2>2 DEF Plain, Message
    <2>4. talk' = [talk EXCEPT ![chats[c].conversation].messages = @ \o <<m>>]
        BY <1>3, <2>1, <2>2 DEF Answer, Excuse
    <2>5. TalkRows' /\ TalkKeeps /\ DOMAIN talk' = DOMAIN talk
        BY <1>1, <1>2, <2>3, <2>4, AnswerIsAdded
    <2>6. kept' = kept \cup {chats[c].conversation}
        BY <2>1 DEF Answer
    <2>7. PICK x : x = [chat EXCEPT !.at = "finish"] /\ chats' = [chats EXCEPT ![c] = x]
        BY <1>3, <2>1 DEF Answer
    <2>8. /\ x = [id |-> c, request |-> chat.request, conversation |-> chat.conversation, at |-> x.at,
                  turn |-> x.turn, shown |-> x.shown, calls |-> x.calls, executed |-> x.executed]
          /\ x.shown = chat.shown /\ x.executed = chat.executed
        BY <1>4, <2>7
    <2>9. ChatHolds(c, x)'
        BY <1>4, <2>5, <2>8, ChatGoesOn
    <2>10. PICK names : names = {}
        OBVIOUS
    <2>11. /\ counters' = Bumped(names) /\ \A name : name \notin names
           /\ {"messages", "modelErrors"} \cap names # {} => x = NoChat
        BY <1>1, <2>1, <2>10, NothingCounted
    <2> QED
        BY <1>1, <1>4, <1>5, <1>6, <2>5, <2>6, <2>7, <2>9, <2>11, ChatStep
<1>8. CASE chat.turn # chat.request.turns - 1
    <2>1. PICK next : next = [chat EXCEPT !.turn = @ + 1]
        OBVIOUS
    <2>2. /\ StartTurn(c, next, talk[chat.conversation].messages)
          /\ talk' = talk /\ kept' = kept
        BY <1>3, <1>8, <2>1 DEF EndTurn
    <2>3. TalkRows' /\ TalkKeeps /\ DOMAIN talk' = DOMAIN talk
        BY <1>1, <2>2, TalkSame
    <2>4. PICK x : /\ chats' = [chats EXCEPT ![c] = x]
                   /\ \/ x = NoChat
                      \/ x = [next EXCEPT !.at = "model",
                                          !.shown = WindowMessages(talk[chat.conversation].messages, next.request.history)]
        BY <2>2 DEF StartTurn
    <2>5. ASSUME x # NoChat PROVE ChatHolds(c, x)'
        <3>1. PICK view : view = WindowMessages(talk'[chat.conversation].messages, chat.request.history)
            OBVIOUS
        <3>2. next = [id |-> c, request |-> chat.request, conversation |-> chat.conversation, at |-> chat.at,
                      turn |-> next.turn, shown |-> chat.shown, calls |-> chat.calls, executed |-> chat.executed]
            BY <1>4, <2>1
        <3>3. x = [next EXCEPT !.at = "model", !.shown = view]
            <4>1. next.request.history = chat.request.history
                BY <3>2
            <4> QED
                BY <2>2, <2>4, <2>5, <3>1, <4>1
        <3>4. PICK y : y = [next EXCEPT !.at = "model"]
            OBVIOUS
        <3>5. y = [id |-> c, request |-> chat.request, conversation |-> chat.conversation, at |-> "model",
                   turn |-> next.turn, shown |-> chat.shown, calls |-> chat.calls, executed |-> chat.executed]
            BY <3>2, <3>4
        <3>6. x = [y EXCEPT !.shown = view]
            BY <3>2, <3>3, <3>4, <3>5
        <3>7. /\ x = [id |-> c, request |-> chat.request, conversation |-> chat.conversation, at |-> x.at,
                      turn |-> x.turn, shown |-> x.shown, calls |-> x.calls, executed |-> x.executed]
              /\ x.shown = view /\ x.executed = chat.executed
            BY <3>5, <3>6
        <3> QED
            BY <1>4, <2>3, <3>1, <3>7, ChatGoesOn
    <2>6. PICK names : names = {"turns"}
        OBVIOUS
    <2>7. /\ counters' = Bumped(names) /\ \A name : name \in names => name = "turns"
          /\ {"messages", "modelErrors"} \cap names # {} => x = NoChat
        BY <1>3, <1>8, <2>6 DEF EndTurn, CountUp
    <2>8. kept \subseteq kept' /\ kept' \subseteq kept \cup {chats[c].conversation} /\ chats' = [chats EXCEPT ![c] = x]
        BY <2>2, <2>4
    <2>9. /\ x # NoChat => ChatHolds(c, x)'
          /\ {"messages", "modelErrors", "sessions", "toolCalls", "toolErrors", "permissionDenied"} \cap names = {}
        BY <2>5, <2>7
    <2> QED
        BY <1>1, <1>4, <1>5, <1>6, <2>3, <2>7, <2>8, <2>9, ChatStep
<1> QED
    BY <1>7, <1>8

LEMMA ExecuteToolKeeps ==
    ASSUME CopilotInv, NEW c \in ChatIds, ExecuteTool(c)
    PROVE  CopilotInv'
<1>1. /\ TalkRows /\ ChatsHold /\ TrailShapes /\ Counted /\ chats[c] # NoChat /\ c \in 0 .. MaxChats
    <2>1. TalkRows /\ ChatsHold /\ TrailShapes /\ Counted
        BY DEF CopilotInv, TalkShapes
    <2>2. chats[c] # NoChat
        BY DEF ExecuteTool
    <2>3. c \in 0 .. MaxChats
        BY CopilotAssumption DEF ChatIds
    <2> QED
        BY <2>1, <2>2, <2>3
<1>2. ChatHolds(c, chats[c]) /\ chats[c].conversation \in DOMAIN talk \ lost
    BY <1>1 DEF ChatsHold, ChatHolds
<1>3. PICK chat : chat = chats[c]
    OBVIOUS
<1>4. /\ lost' = lost /\ kept' = kept /\ ChatHolds(c, chat) /\ chat.conversation \notin lost'
      /\ chat = [id |-> c, request |-> chat.request, conversation |-> chat.conversation, at |-> chat.at,
                 turn |-> chat.turn, shown |-> chat.shown, calls |-> chat.calls, executed |-> chat.executed]
    <2>1. lost' = lost /\ kept' = kept
        BY DEF ExecuteTool
    <2>2. ChatHolds(c, chat) /\ chat.conversation \notin lost
        BY <1>2, <1>3
    <2> QED
        BY <2>1, <2>2 DEF ChatHolds
<1> DEFINE call == Head(chat.calls)
           known == call.tool \in DOMAIN DefaultTools
           allowed == known /\ Allowed(chat.request.role, call.tool)
           entry == Entry(IF allowed THEN "tool" ELSE "denied", chat.request.tenant, chat.conversation, call.tool)
<1>5. PICK ok \in IF allowed THEN Outcomes(call) ELSE {FALSE} :
          /\ Say(chat.conversation, Message("tool", chat.id, call.tool, ok, IF ok THEN Output(call) ELSE <<>>))
          /\ chats' = [chats EXCEPT ![c].calls = Tail(@), ![c].executed = Append(@, [tool |-> call.tool, ok |-> ok])]
          /\ Record(chat.id, IF known THEN <<entry>> ELSE <<>>)
          /\ CountUp(CASE ~known -> {} [] known /\ ~allowed -> {"permissionDenied"}
                         [] ok -> {"toolCalls"} [] OTHER -> {"toolCalls", "toolErrors"})
    BY <1>3 DEF ExecuteTool
<1>6. ok \in BOOLEAN /\ (ok => allowed)
    BY DEF Outcomes
<1>7. TalkRows' /\ TalkKeeps /\ DOMAIN talk' = DOMAIN talk
    <2>1. PICK m : m = Message("tool", chat.id, call.tool, ok, IF ok THEN Output(call) ELSE <<>>)
        OBVIOUS
    <2>2. m.role # "system"
        BY <2>1 DEF Message
    <2>3. chat.conversation \in DOMAIN talk /\ Say(chat.conversation, m)
        BY <1>2, <1>3, <1>5, <2>1
    <2> QED
        BY <1>1, <2>2, <2>3, SaidIsAdded
<1>8. PICK done : done = [tool |-> call.tool, ok |-> ok]
    OBVIOUS
<1>9. PICK x : chats' = [chats EXCEPT ![c] = x] /\ x = [chat EXCEPT !.calls = Tail(@), !.executed = Append(@, done)]
    BY <1>3, <1>5, <1>8
<1>10. ChatHolds(c, x)'
    <2>1. PICK left, executed : left = Tail(chat.calls) /\ executed = Append(chat.executed, done)
        OBVIOUS
    <2>2. x = [chat EXCEPT !.calls = left, !.executed = executed]
        BY <1>4, <1>9, <2>1
    <2>3. PICK y : y = [chat EXCEPT !.calls = left]
        OBVIOUS
    <2>4. y = [id |-> c, request |-> chat.request, conversation |-> chat.conversation, at |-> chat.at,
               turn |-> chat.turn, shown |-> chat.shown, calls |-> left, executed |-> chat.executed]
        BY <1>4, <2>3
    <2>5. x = [y EXCEPT !.executed = executed]
        BY <1>4, <2>2, <2>3, <2>4
    <2>6. /\ x = [id |-> c, request |-> chat.request, conversation |-> chat.conversation, at |-> x.at,
                  turn |-> x.turn, shown |-> x.shown, calls |-> x.calls, executed |-> x.executed]
          /\ x.shown = chat.shown /\ x.executed = executed
        BY <2>4, <2>5
    <2>7. done.ok => Allowed(chat.request.role, done.tool)
        BY <1>6, <1>8
    <2> QED
        BY <1>4, <1>7, <2>1, <2>6, <2>7, ChatGoesOn
<1>11. PICK e, entries, names :
          /\ e = entry /\ entries = IF known THEN <<e>> ELSE <<>>
          /\ names = CASE ~known -> {} [] known /\ ~allowed -> {"permissionDenied"}
                       [] ok -> {"toolCalls"} [] OTHER -> {"toolCalls", "toolErrors"}
    OBVIOUS
<1>12. Record(c, entries) /\ counters' = Bumped(names)
    <2>1. chat.id = c
        BY <1>4
    <2> QED
        BY <1>5, <1>11, <2>1 DEF CountUp
<1>14. /\ entries = <<>> \/ entries = <<e>>
       /\ (entries # <<>>) <=> known
       /\ e.action = IF allowed THEN "tool" ELSE "denied"
    <2>1. <<e>> # <<>>
        OBVIOUS
    <2>2. e.action = IF allowed THEN "tool" ELSE "denied"
        BY <1>11 DEF Entry
    <2> HIDE DEF known, allowed
    <2> QED
        BY <1>11, <2>1, <2>2
<1>15. allowed => known
    OBVIOUS
<1> HIDE DEF known, allowed
<1>16. /\ "toolCalls" \in names <=> allowed
       /\ "permissionDenied" \in names <=> known /\ ~allowed
       /\ {"messages", "sessions", "modelErrors"} \cap names = {}
       /\ "toolErrors" \in names => "toolCalls" \in names
    <2>1. CASE ~known
        BY <1>6, <1>11, <1>15, <2>1
    <2>2. CASE known /\ ~allowed
        BY <1>6, <1>11, <2>2
    <2>3. CASE allowed /\ ok
        BY <1>11, <1>15, <2>3
    <2>4. CASE allowed /\ ~ok
        BY <1>11, <1>15, <2>4
    <2> QED
        BY <1>15, <2>1, <2>2, <2>3, <2>4
<1>17. /\ e.action # "created" /\ "sessions" \notin names
       /\ "messages" \in names <=> entries # <<>> /\ e.action = "chat"
       /\ "toolCalls" \in names <=> entries # <<>> /\ e.action = "tool"
       /\ "permissionDenied" \in names <=> entries # <<>> /\ e.action = "denied"
       /\ "toolErrors" \in names => "toolCalls" \in names
       /\ {"messages", "modelErrors"} \cap names # {} => x = NoChat
       /\ ~ ("messages" \in names /\ "modelErrors" \in names)
    BY <1>14, <1>15, <1>16
<1>18. /\ kept \subseteq kept' /\ kept' \subseteq kept \cup {chats[c].conversation} /\ lost' = lost
       /\ chats' = [chats EXCEPT ![c] = x]
    BY <1>4, <1>9
<1>19. entries = <<>> \/ entries = <<e>>
    BY <1>14
<1> QED
    BY <1>1, <1>7, <1>10, <1>12, <1>17, <1>18, <1>19, ChatStep

LEMMA StartConversationKeeps ==
    ASSUME CopilotInv, StartConversation
    PROVE  CopilotInv'
<1>1. TalkShapes /\ TalkRows /\ ChatsHold /\ TrailShapes /\ StoreTold /\ Counted /\ 0 \in 0 .. MaxChats
    BY CopilotAssumption DEF CopilotInv, TalkShapes
<1>2. PICK t \in ChatTenants : talk' = NewTalk(t, <<>>) /\ Record(0, <<Entry("created", t, NextId, "none")>>)
    BY DEF StartConversation
<1>3. /\ DOMAIN talk # Conversations /\ kept' = kept \cup {NextId} /\ chats' = chats /\ lost' = lost
    BY CopilotAssumption DEF StartConversation
<1>4. PICK none : none = <<>> /\ IsSequence(none) /\ Len(none) = 0
    BY ShortSequences
<1>5. /\ TalkRows' /\ TalkKeeps /\ NextId \in Conversations /\ NextId \notin DOMAIN talk
      /\ DOMAIN talk' = DOMAIN talk \cup {NextId} /\ talk'[NextId].tenant = t
    <2>1. talk' = NewTalk(t, none) /\ \A k \in 1 .. Len(none) : none[k].role # "system"
        BY <1>2, <1>4
    <2> QED
        BY <1>1, <1>3, <1>4, <2>1, NewIsAdded
<1>6. PICK id : id = NextId
    OBVIOUS
<1>7. TalkShapes'
    BY <1>1, <1>3, <1>5 DEF TalkShapes
<1>8. ChatsHold'
    <2>1. \A c \in ChatIds : chats[c] # NoChat => chats[c].conversation \notin lost'
        BY <1>1, <1>3 DEF ChatsHold, ChatHolds
    <2> QED
        BY <1>1, <1>3, <1>5, <2>1, AllGoOn
<1>9. PICK e, entries, names : e = Entry("created", t, id, "none") /\ entries = <<e>> /\ names = {"sessions"}
    OBVIOUS
<1>10. /\ IsSequence(entries) /\ Len(entries) = 1 /\ entries[1] = e /\ Record(0, entries)
       /\ e.action = "created" /\ e.conversation = id /\ e.tenant = t
    BY <1>2, <1>6, <1>9, ShortSequences DEF Entry
<1>11. \A k \in 1 .. Len(entries) : k = 1
    BY <1>10
<1>12. TrailShapes'
    BY <1>1, <1>10, RecordGrows
<1>13. StoreTold'
    <2>1. id \notin DOMAIN talk /\ DOMAIN talk' = DOMAIN talk \cup {id} /\ kept' = kept \cup {id} /\ talk'[id].tenant = t
        BY <1>3, <1>5, <1>6
    <2>2. /\ IsSequence(entries) /\ Record(0, entries) /\ Len(entries) # 0
          /\ entries[1].action = "created" /\ entries[1].conversation = id /\ entries[1].tenant = talk'[id].tenant
        BY <1>10, <2>1
    <2> QED
        BY <1>1, <1>5, <1>11, <2>1, <2>2, OneCreated
<1>14. Counted'
    <2>1. Going' = Going
        BY <1>3 DEF Going
    <2>2. Cardinality(Going) \in Nat
        <3>1. Going \subseteq 1 .. MaxChats /\ IsFiniteSet(1 .. MaxChats)
            BY FS_Interval, CopilotAssumption DEF Going, ChatIds
        <3> QED
            BY <3>1, FS_Subset, FS_CardinalityType
    <2>3. counters' = Bumped(names)
        BY <1>9 DEF StartConversation, CountUp
    <2>4. /\ "sessions" \in names <=> \E k \in 1 .. Len(entries) : entries[k].action = "created"
          /\ "messages" \in names <=> \E k \in 1 .. Len(entries) : entries[k].action = "chat"
          /\ "toolCalls" \in names <=> \E k \in 1 .. Len(entries) : entries[k].action = "tool"
          /\ "permissionDenied" \in names <=> \E k \in 1 .. Len(entries) : entries[k].action = "denied"
          /\ "toolErrors" \in names => "toolCalls" \in names
        <3>1. 1 \in 1 .. Len(entries)
            BY <1>10
        <3> QED
            BY <1>9, <1>10, <1>11, <3>1
    <2>5. \A j, k \in 1 .. Len(entries) : entries[j].action = entries[k].action => j = k
        BY <1>11
    <2>6. (IF "turns" \in names THEN 1 ELSE 0) + Cardinality(Going) >=
               (IF "messages" \in names THEN 1 ELSE 0) + (IF "modelErrors" \in names THEN 1 ELSE 0) + Cardinality(Going')
        <3>1. PICK g \in Nat : g = Cardinality(Going) /\ g = Cardinality(Going')
            BY <2>1, <2>2
        <3> QED
            BY <1>9, <3>1
    <2>7. Cardinality(Going') \in Nat
        BY <2>1, <2>2
    <2>8. IsSequence(entries) /\ Record(0, entries)
        BY <1>10
    <2> QED
        BY <1>1, <2>2, <2>3, <2>4, <2>5, <2>6, <2>7, <2>8, CountsKept
<1> QED
    BY <1>7, <1>8, <1>12, <1>13, <1>14 DEF CopilotInv

LEMMA DeleteConversationKeeps ==
    ASSUME CopilotInv, DeleteConversation
    PROVE  CopilotInv'
<1>1. TalkShapes /\ TalkRows /\ ChatsHold /\ TrailShapes /\ StoreTold /\ Counted /\ 0 \in 0 .. MaxChats
    BY CopilotAssumption DEF CopilotInv, TalkShapes
<1>2. PICK i \in kept :
         /\ kept' = kept \ {i}
         /\ Record(0, <<Entry("deleted", talk[i].tenant, i, "none")>>)
         /\ lost' = IF \E c \in ChatIds : chats[c] # NoChat /\ chats[c].conversation = i THEN lost
                    ELSE lost \cup {i}
    BY DEF DeleteConversation
<1>3. talk' = talk /\ chats' = chats /\ counters' = counters
    BY DEF DeleteConversation
<1>4. TalkRows' /\ TalkKeeps /\ DOMAIN talk' = DOMAIN talk
    BY <1>1, <1>3, TalkSame
<1>5. TalkShapes'
    BY <1>1, <1>2, <1>4 DEF TalkShapes
<1>6. ChatsHold'
    <2>1. \A c \in ChatIds : chats[c] # NoChat => chats[c].conversation \notin lost
        BY <1>1 DEF ChatsHold, ChatHolds
    <2>2. \A c \in ChatIds : chats[c] # NoChat => chats[c].conversation \notin lost'
        BY <1>2, <2>1
    <2> QED
        BY <1>1, <1>3, <1>4, <2>2, AllGoOn
<1>7. PICK e, entries, names : e = Entry("deleted", talk[i].tenant, i, "none") /\ entries = <<e>> /\ names = {}
    OBVIOUS
<1>8. /\ IsSequence(entries) /\ Len(entries) = 1 /\ entries[1] = e /\ Record(0, entries)
      /\ e.action = "deleted" /\ e.conversation = i
    BY <1>2, <1>7, ShortSequences DEF Entry
<1>9. \A k \in 1 .. Len(entries) : k = 1
    BY <1>8
<1>10. TrailShapes'
    BY <1>1, <1>8, RecordGrows
<1>11. StoreTold'
    <2>1. /\ \A k \in 1 .. Len(entries) : entries[k].action # "created"
          /\ \A j \in kept \ kept' : \E k \in 1 .. Len(entries) : entries[k].action = "deleted" /\ entries[k].conversation = j
        <3>1. 1 \in 1 .. Len(entries)
            BY <1>8
        <3> QED
            BY <1>2, <1>8, <1>9, <3>1
    <2> QED
        BY <1>1, <1>4, <1>8, <2>1, NoneCreated
<1>12. Counted'
    <2>1. Going' = Going
        BY <1>3 DEF Going
    <2>2. Cardinality(Going) \in Nat
        <3>1. Going \subseteq 1 .. MaxChats /\ IsFiniteSet(1 .. MaxChats)
            BY FS_Interval, CopilotAssumption DEF Going, ChatIds
        <3> QED
            BY <3>1, FS_Subset, FS_CardinalityType
    <2>3. counters' = Bumped(names)
        BY <1>1, <1>3, <1>7, NothingCounted
    <2>4. /\ "sessions" \in names <=> \E k \in 1 .. Len(entries) : entries[k].action = "created"
          /\ "messages" \in names <=> \E k \in 1 .. Len(entries) : entries[k].action = "chat"
          /\ "toolCalls" \in names <=> \E k \in 1 .. Len(entries) : entries[k].action = "tool"
          /\ "permissionDenied" \in names <=> \E k \in 1 .. Len(entries) : entries[k].action = "denied"
          /\ "toolErrors" \in names => "toolCalls" \in names
        BY <1>7, <1>8, <1>9
    <2>5. \A j, k \in 1 .. Len(entries) : entries[j].action = entries[k].action => j = k
        BY <1>9
    <2>6. (IF "turns" \in names THEN 1 ELSE 0) + Cardinality(Going) >=
               (IF "messages" \in names THEN 1 ELSE 0) + (IF "modelErrors" \in names THEN 1 ELSE 0) + Cardinality(Going')
        <3>1. PICK g \in Nat : g = Cardinality(Going) /\ g = Cardinality(Going')
            BY <2>1, <2>2
        <3> QED
            BY <1>7, <3>1
    <2>7. Cardinality(Going') \in Nat
        BY <2>1, <2>2
    <2>8. IsSequence(entries) /\ Record(0, entries)
        BY <1>8
    <2> QED
        BY <1>1, <2>2, <2>3, <2>4, <2>5, <2>6, <2>7, <2>8, CountsKept
<1> QED
    BY <1>5, <1>6, <1>10, <1>11, <1>12 DEF CopilotInv

LEMMA NewChatHolds ==
    ASSUME TalkRows', NEW c, NEW i \in DOMAIN talk', i \notin lost', NEW request, request.history \in Int,
           talk'[i].tenant = request.tenant, NEW x,
           x = [id |-> c, request |-> request, conversation |-> i, at |-> "model", turn |-> 0,
                shown |-> WindowMessages(talk'[i].messages, request.history), calls |-> <<>>, executed |-> <<>>]
    PROVE  ChatHolds(c, x)'
<1> DEFINE said == talk'[i].messages
<1>1. /\ x = [id |-> c, request |-> x.request, conversation |-> x.conversation, at |-> x.at,
              turn |-> x.turn, shown |-> x.shown, calls |-> x.calls, executed |-> x.executed]
      /\ x.request = request /\ x.conversation = i
    OBVIOUS
<1>2. /\ IsSequence(said) /\ said # <<>>
      /\ \A k \in DOMAIN said : (k = 1) = (said[k].role = "system")
    BY DEF TalkRows
<1>3. x.executed = <<>> /\ IsSequence(x.executed)
    BY ShortSequences
<1>4. \A k \in DOMAIN x.executed : x.executed[k].ok => Allowed(request.role, x.executed[k].tool)
    <2>1. DOMAIN x.executed = 1 .. 0
        BY <1>3, SequenceFacts, ShortSequences
    <2> QED
        BY <2>1
<1>5. ASSUME NEW k \in DOMAIN x.shown
      PROVE  (k = 1) = (x.shown[k].role = "system") /\ \E j \in DOMAIN said : said[j] = x.shown[k]
    <2>1. PICK m, h : m = said /\ h = request.history
        OBVIOUS
    <2>2. x.shown = WindowMessages(m, h)
        BY <2>1
    <2>3. /\ IsSequence(m) /\ m # <<>> /\ k \in DOMAIN WindowMessages(m, h) /\ h \in Int
          /\ \A j \in DOMAIN m : (j = 1) = (m[j].role = "system")
        BY <1>2, <2>1, <2>2
    <2>4. /\ (k = 1) = (WindowMessages(m, h)[k].role = "system")
          /\ \E j \in DOMAIN m : m[j] = WindowMessages(m, h)[k]
        BY <2>3, ShownWasSaid
    <2> QED
        BY <2>1, <2>2, <2>4
<1> QED
    BY <1>1, <1>3, <1>4, <1>5 DEF ChatHolds

EntriesOf(a, b, first, second, entries) ==
    /\ a.action # b.action /\ entries = first \o second
    /\ first = <<>> \/ first = <<a>>
    /\ second = <<>> \/ second = <<b>>

LEMMA TwoEntries ==
    ASSUME NEW a, NEW b, NEW first, NEW second, NEW entries, EntriesOf(a, b, first, second, entries)
    PROVE  /\ IsSequence(entries)
           /\ \A j, k \in 1 .. Len(entries) : entries[j].action = entries[k].action => j = k
           /\ \A k \in 1 .. Len(entries) : (first # <<>> /\ k = 1 /\ entries[k] = a) \/ (second # <<>> /\ entries[k] = b)
           /\ first # <<>> => Len(entries) # 0 /\ 1 \in 1 .. Len(entries) /\ entries[1] = a
           /\ second # <<>> => \E k \in 1 .. Len(entries) : entries[k] = b
<1> USE DEF EntriesOf
<1>1. /\ <<a>> \o <<b>> = <<a, b>> /\ <<a>> \o <<>> = <<a>> /\ <<>> \o <<b>> = <<b>> /\ <<>> \o <<>> = <<>>
      /\ IsSequence(<<a, b>>) /\ Len(<<a, b>>) = 2 /\ <<a, b>>[1] = a /\ <<a, b>>[2] = b
      /\ IsSequence(<<a>>) /\ Len(<<a>>) = 1 /\ <<a>>[1] = a
      /\ IsSequence(<<b>>) /\ Len(<<b>>) = 1 /\ <<b>>[1] = b
      /\ IsSequence(<<>>) /\ Len(<<>>) = 0
    BY ShortSequences
<1>2. CASE first = <<a>> /\ second = <<b>>
    <2>1. entries = <<a, b>>
        BY <1>1, <1>2
    <2>2. IsSequence(entries) /\ Len(entries) = 2 /\ entries[1] = a /\ entries[2] = b
        BY <1>1, <2>1
    <2>3. 1 .. Len(entries) = {1, 2}
        BY <2>2
    <2>4. ASSUME NEW j \in {1, 2}, NEW k \in {1, 2}, entries[j].action = entries[k].action
          PROVE  j = k
        BY <2>2, <2>4
    <2>5. \A k \in {1, 2} : (k = 1 /\ entries[k] = a) \/ entries[k] = b
        BY <2>2
    <2>6. \E k \in {1, 2} : entries[k] = b
        BY <2>2
    <2>7. Len(entries) # 0 /\ 1 \in 1 .. Len(entries) /\ entries[1] = a /\ IsSequence(entries)
        BY <2>2
    <2>8. /\ \A j, k \in 1 .. Len(entries) : entries[j].action = entries[k].action => j = k
          /\ \A k \in 1 .. Len(entries) : (k = 1 /\ entries[k] = a) \/ entries[k] = b
          /\ \E k \in 1 .. Len(entries) : entries[k] = b
        BY <2>3, <2>4, <2>5, <2>6
    <2>9. first # <<>> /\ second # <<>>
        BY <1>2
    <2> QED
        BY <2>7, <2>8, <2>9
<1>3. CASE first = <<a>> /\ second = <<>>
    <2>1. entries = <<a>>
        BY <1>1, <1>3
    <2>2. IsSequence(entries) /\ Len(entries) = 1 /\ entries[1] = a
        BY <1>1, <2>1
    <2>3. 1 .. Len(entries) = {1}
        BY <2>2
    <2> QED
        BY <1>3, <2>2, <2>3
<1>4. CASE first = <<>> /\ second = <<b>>
    <2>1. entries = <<b>>
        BY <1>1, <1>4
    <2>2. IsSequence(entries) /\ Len(entries) = 1 /\ entries[1] = b
        BY <1>1, <2>1
    <2>3. 1 .. Len(entries) = {1}
        BY <2>2
    <2> QED
        BY <1>4, <2>2, <2>3
<1>5. CASE first = <<>> /\ second = <<>>
    <2>1. entries = <<>>
        BY <1>1, <1>5
    <2>2. IsSequence(entries) /\ Len(entries) = 0
        BY <1>1, <2>1
    <2>3. 1 .. Len(entries) = {}
        BY <2>2
    <2> QED
        BY <1>5, <2>2, <2>3
<1> QED
    BY <1>2, <1>3, <1>4, <1>5

\* A question is put in a conversation of the tenant, or in one that it begins.
LEMMA ChatKeeps ==
    ASSUME CopilotInv, NEW c \in ChatIds, Chat(c)
    PROVE  CopilotInv'
<1>1. TalkShapes /\ TalkRows /\ ChatsHold /\ TrailShapes /\ StoreTold /\ Counted /\ c \in 0 .. MaxChats
    BY CopilotAssumption DEF CopilotInv, TalkShapes, ChatIds
<1>2. PICK r \in ChatRequests :
         LET new == r.conversation = NewConversation
             i == IF new THEN NextId ELSE r.conversation
             question == Plain("user", c)
             allowed == "tenant.read" \in Grants[r.role]
             created == IF new THEN <<Entry("created", r.tenant, i, "none")>> ELSE <<>>
             denied == IF allowed THEN <<>> ELSE <<Entry("denied", r.tenant, i, "none")>>
         IN /\ IF new THEN DOMAIN talk # Conversations ELSE i \in kept /\ talk[i].tenant = r.tenant
            /\ IF new THEN talk' = NewTalk(r.tenant, <<question>>) ELSE Say(i, question)
            /\ kept' = kept \cup {i}
            /\ IF allowed THEN StartTurn(c, NewChat(c, r, i), talk'[i].messages) ELSE UNCHANGED chats
            /\ Record(c, created \o denied)
            /\ CountUp((IF new THEN {"sessions"} ELSE {}) \cup {IF allowed THEN "turns" ELSE "permissionDenied"})
            /\ lastChat' = c
    BY DEF Chat
<1>3. PICK new \in BOOLEAN, allowed \in BOOLEAN :
          (new <=> r.conversation = NewConversation) /\ (allowed <=> "tenant.read" \in Grants[r.role])
    OBVIOUS
<1>4. PICK i, question : i = (IF new THEN NextId ELSE r.conversation) /\ question = Plain("user", c)
    OBVIOUS
<1>5. PICK a, b : a = Entry("created", r.tenant, i, "none") /\ b = Entry("denied", r.tenant, i, "none")
    OBVIOUS
<1>6. /\ IF new THEN DOMAIN talk # Conversations ELSE i \in kept /\ talk[i].tenant = r.tenant
      /\ IF new THEN talk' = NewTalk(r.tenant, <<question>>) ELSE Say(i, question)
      /\ kept' = kept \cup {i}
    BY <1>2, <1>3, <1>4
<1>7. PICK entries, names :
          /\ entries = (IF new THEN <<a>> ELSE <<>>) \o (IF allowed THEN <<>> ELSE <<b>>)
          /\ names = (IF new THEN {"sessions"} ELSE {}) \cup {IF allowed THEN "turns" ELSE "permissionDenied"}
    OBVIOUS
<1>8. Record(c, entries) /\ counters' = Bumped(names) /\ lost' = lost
    BY <1>2, <1>3, <1>4, <1>5, <1>7 DEF CountUp, Chat
<1>9. IF allowed THEN StartTurn(c, NewChat(c, r, i), talk'[i].messages) ELSE chats' = chats
    BY <1>2, <1>3, <1>4
<1>10. question.role # "system"
    BY <1>4 DEF Plain, Message
<1>11. /\ TalkRows' /\ TalkKeeps /\ i \in DOMAIN talk' \ lost /\ talk'[i].tenant = r.tenant
       /\ DOMAIN talk' = DOMAIN talk \cup {i} /\ (new => i \notin DOMAIN talk) /\ (~new => i \in DOMAIN talk)
    <2>1. CASE new
        <3>1. PICK messages : messages = <<question>> /\ IsSequence(messages) /\ Len(messages) = 1 /\ messages[1] = question
            BY ShortSequences
        <3>2. talk' = NewTalk(r.tenant, messages) /\ DOMAIN talk # Conversations /\ i = NextId
            BY <1>4, <1>6, <2>1, <3>1
        <3>3. \A k \in 1 .. Len(messages) : messages[k].role # "system"
            BY <1>10, <3>1
        <3>4. /\ TalkRows' /\ TalkKeeps /\ NextId \in Conversations /\ NextId \notin DOMAIN talk
              /\ DOMAIN talk' = DOMAIN talk \cup {NextId} /\ talk'[NextId].tenant = r.tenant
            BY <1>1, <3>1, <3>2, <3>3, NewIsAdded
        <3> QED
            BY <1>1, <2>1, <3>2, <3>4 DEF TalkShapes
    <2>2. CASE ~new
        <3>1. i \in kept /\ talk[i].tenant = r.tenant /\ Say(i, question) /\ i \in DOMAIN talk /\ i \notin lost
            BY <1>1, <1>6, <2>2 DEF TalkShapes
        <3>2. TalkRows' /\ TalkKeeps /\ DOMAIN talk' = DOMAIN talk
            BY <1>1, <1>10, <3>1, SaidIsAdded
        <3>3. talk'[i].tenant = talk[i].tenant
            BY <3>1, <3>2 DEF TalkKeeps
        <3> QED
            BY <2>2, <3>1, <3>2, <3>3
    <2> QED
        BY <2>1, <2>2
<1>12. TalkShapes'
    BY <1>1, <1>6, <1>8, <1>11 DEF TalkShapes
<1>13. PICK x : chats' = [chats EXCEPT ![c] = x] /\ (x # NoChat => ChatHolds(c, x)') /\ (~allowed => chats' = chats)
    <2>1. CASE allowed
        <3>1. PICK chat, messages : chat = NewChat(c, r, i) /\ messages = talk'[i].messages
            OBVIOUS
        <3>2. StartTurn(c, chat, messages)
            BY <1>9, <2>1, <3>1
        <3>3. PICK x : /\ chats' = [chats EXCEPT ![c] = x]
                       /\ \/ x = NoChat
                          \/ x = [chat EXCEPT !.at = "model", !.shown = WindowMessages(messages, chat.request.history)]
            BY <3>2 DEF StartTurn
        <3>4. ASSUME x # NoChat PROVE ChatHolds(c, x)'
            <4>1. /\ r = [tenant |-> r.tenant, conversation |-> r.conversation, role |-> r.role, words |-> r.words,
                          history |-> r.history, turns |-> r.turns]
                  /\ r.history \in Int /\ r.turns \in Int
                BY CopilotAssumption
            <4>2. PICK h, t : h = Clamped(r.history, 0, 100) /\ t = Clamped(r.turns, 1, 20)
                OBVIOUS
            <4>3. h \in Int
                BY <4>1, <4>2 DEF Clamped
            <4>4. PICK request : request = [r EXCEPT !.history = h, !.turns = t]
                OBVIOUS
            <4>5. request.tenant = r.tenant /\ request.history = h
                BY <4>1, <4>4
            <4>6. chat = [id |-> c, request |-> request, conversation |-> i, at |-> "model", turn |-> 0, shown |-> <<>>,
                          calls |-> <<>>, executed |-> <<>>]
                BY <3>1, <4>2, <4>4 DEF NewChat
            <4>7. PICK view, y : view = WindowMessages(messages, h) /\ y = [chat EXCEPT !.at = "model"]
                OBVIOUS
            <4>8. y = chat /\ chat.request.history = h
                BY <4>5, <4>6, <4>7
            <4>9. x = [chat EXCEPT !.shown = view]
                BY <3>3, <3>4, <4>7, <4>8
            <4>10. x = [id |-> c, request |-> request, conversation |-> i, at |-> "model", turn |-> 0,
                        shown |-> view, calls |-> <<>>, executed |-> <<>>]
                BY <4>6, <4>9
            <4>11. /\ request.history \in Int /\ talk'[i].tenant = request.tenant /\ i \in DOMAIN talk' /\ i \notin lost'
                   /\ view = WindowMessages(talk'[i].messages, request.history)
                BY <1>8, <1>11, <3>1, <4>3, <4>5, <4>7
            <4> QED
                BY <1>11, <4>10, <4>11, NewChatHolds
        <3> QED
            BY <2>1, <3>3, <3>4
    <2>2. CASE ~allowed
        <3>1. PICK x : x = chats[c]
            OBVIOUS
        <3>2. chats' = chats /\ chats' = [chats EXCEPT ![c] = x]
            BY <1>1, <1>9, <2>2, <3>1 DEF ChatsHold
        <3>3. ASSUME x # NoChat PROVE ChatHolds(c, x)'
            <4>1. ChatHolds(c, x) /\ x.conversation \notin lost'
                BY <1>1, <1>8, <3>1, <3>3 DEF ChatsHold, ChatHolds
            <4> QED
                BY <1>11, <4>1, ChatStays
        <3> QED
            BY <3>2, <3>3
    <2> QED
        BY <2>1, <2>2
<1>14. ChatsHold'
    BY <1>1, <1>8, <1>11, <1>13, OthersGoOn
<1>15. PICK refused \in BOOLEAN : refused <=> ~allowed
    OBVIOUS
<1>16. PICK first, second :
          /\ first = (IF new THEN <<a>> ELSE <<>>) /\ second = (IF refused THEN <<b>> ELSE <<>>) /\ entries = first \o second
    <2>1. CASE allowed
        BY <1>7, <1>15, <2>1
    <2>2. CASE ~allowed
        BY <1>7, <1>15, <2>2
    <2> QED
        BY <2>1, <2>2
<1>17. a.action = "created" /\ a.conversation = i /\ a.tenant = r.tenant /\ b.action = "denied"
    BY <1>5 DEF Entry
<1>18. /\ IsSequence(entries)
       /\ \A j, k \in 1 .. Len(entries) : entries[j].action = entries[k].action => j = k
       /\ \A k \in 1 .. Len(entries) : (new /\ k = 1 /\ entries[k] = a) \/ (refused /\ entries[k] = b)
       /\ new => Len(entries) # 0 /\ 1 \in 1 .. Len(entries) /\ entries[1] = a
       /\ refused => \E k \in 1 .. Len(entries) : entries[k] = b
    <2>1. EntriesOf(a, b, first, second, entries)
        BY <1>16, <1>17 DEF EntriesOf
    <2>2. /\ IsSequence(entries)
          /\ \A j, k \in 1 .. Len(entries) : entries[j].action = entries[k].action => j = k
          /\ \A k \in 1 .. Len(entries) : (first # <<>> /\ k = 1 /\ entries[k] = a) \/ (second # <<>> /\ entries[k] = b)
          /\ first # <<>> => Len(entries) # 0 /\ 1 \in 1 .. Len(entries) /\ entries[1] = a
          /\ second # <<>> => \E k \in 1 .. Len(entries) : entries[k] = b
        BY <2>1, TwoEntries
    <2>3. (first # <<>> <=> new) /\ (second # <<>> <=> refused)
        <3>1. <<a>> # <<>> /\ <<b>> # <<>>
            OBVIOUS
        <3> QED
            BY <1>16, <3>1
    <2> QED
        BY <2>2, <2>3
<1>19. TrailShapes'
    BY <1>1, <1>8, <1>18, RecordGrows
<1>20. StoreTold'
    <2>1. CASE new
        <3>1. /\ Len(entries) # 0 /\ entries[1].action = "created" /\ entries[1].conversation = i
              /\ entries[1].tenant = talk'[i].tenant /\ i \notin DOMAIN talk
              /\ \A k \in 1 .. Len(entries) : entries[k].action = "created" => k = 1
            BY <1>11, <1>17, <1>18, <2>1
        <3> QED
            BY <1>1, <1>6, <1>8, <1>11, <1>18, <3>1, OneCreated
    <2>2. CASE ~new
        <3>1. /\ \A k \in 1 .. Len(entries) : entries[k].action # "created"
              /\ kept \ kept' = {} /\ DOMAIN talk' = DOMAIN talk
            BY <1>6, <1>11, <1>17, <1>18, <2>2
        <3> QED
            BY <1>1, <1>8, <1>11, <1>18, <3>1, NoneCreated
    <2> QED
        BY <2>1, <2>2
<1>21. Counted'
    <2>1. /\ Cardinality(Going) \in Nat /\ Cardinality(Going') \in Nat
          /\ Cardinality(Going') <= Cardinality(Going) + 1
        BY <1>1, <1>13, GoingMoves
    <2>2. ~allowed => Cardinality(Going') = Cardinality(Going)
        <3>1. ~allowed => Going' = Going
            BY <1>13 DEF Going
        <3> QED
            BY <3>1
    <2>3. /\ "messages" \notin names /\ "toolCalls" \notin names /\ "toolErrors" \notin names /\ "modelErrors" \notin names
          /\ "sessions" \in names <=> new
          /\ "permissionDenied" \in names <=> refused
          /\ "turns" \in names <=> allowed
        BY <1>7, <1>15
    <2>4. (IF "turns" \in names THEN 1 ELSE 0) + Cardinality(Going) >=
               (IF "messages" \in names THEN 1 ELSE 0) + (IF "modelErrors" \in names THEN 1 ELSE 0) + Cardinality(Going')
        <3>1. PICK g \in Nat, h \in Nat : g = Cardinality(Going) /\ h = Cardinality(Going')
            BY <2>1
        <3>2. CASE allowed
            BY <2>1, <2>3, <3>1, <3>2
        <3>3. CASE ~allowed
            BY <2>2, <2>3, <3>1, <3>3
        <3> QED
            BY <3>2, <3>3
    <2>5. /\ "messages" \in names <=> \E k \in 1 .. Len(entries) : entries[k].action = "chat"
          /\ "toolCalls" \in names <=> \E k \in 1 .. Len(entries) : entries[k].action = "tool"
        BY <1>17, <1>18, <2>3
    <2>6. "sessions" \in names <=> \E k \in 1 .. Len(entries) : entries[k].action = "created"
        <3>1. CASE new
            BY <1>17, <1>18, <2>3, <3>1
        <3>2. CASE ~new
            BY <1>17, <1>18, <2>3, <3>2
        <3> QED
            BY <3>1, <3>2
    <2>7. "permissionDenied" \in names <=> \E k \in 1 .. Len(entries) : entries[k].action = "denied"
        <3>1. CASE refused
            BY <1>17, <1>18, <2>3, <3>1
        <3>2. CASE ~refused
            BY <1>17, <1>18, <2>3, <3>2
        <3> QED
            BY <3>1, <3>2
    <2>8. "toolErrors" \in names => "toolCalls" \in names
        BY <2>3
    <2> QED
        BY <1>1, <1>8, <1>18, <2>1, <2>4, <2>5, <2>6, <2>7, <2>8, CountsKept
<1> QED
    BY <1>12, <1>14, <1>19, <1>20, <1>21 DEF CopilotInv

LEMMA CopilotStutters ==
    ASSUME CopilotInv, UNCHANGED copilotVars
    PROVE  CopilotInv'
<1>1. /\ talk' = talk /\ kept' = kept /\ chats' = chats /\ trail' = trail /\ counters' = counters /\ lost' = lost
    BY DEF copilotVars
<1>2. TalkShapes'
    BY <1>1 DEF CopilotInv, TalkShapes, TalkRows
<1>3. ChatsHold'
    <2>1. /\ TalkRows' /\ TalkKeeps
          /\ \A c \in ChatIds : chats[c] # NoChat => chats[c].conversation \notin lost'
        BY <1>1, <1>2, TalkSame DEF CopilotInv, TalkShapes, ChatsHold, ChatHolds
    <2> QED
        BY <1>1, <2>1, AllGoOn DEF CopilotInv
<1>4. TrailShapes' /\ (\A action : Trailed(action)' = Trailed(action)) /\ Going' = Going
    BY <1>1 DEF CopilotInv, TrailShapes, Trailed, Going
<1>5. StoreTold'
    BY <1>1, <1>4 DEF CopilotInv, StoreTold
<1>6. Counted'
    BY <1>1, <1>4 DEF CopilotInv, Counted
<1> QED
    BY <1>2, <1>3, <1>4, <1>5, <1>6 DEF CopilotInv

\* However the chats on the conversations interleave, and whoever deletes one
\* meanwhile (service.ts 128-342, memory.ts): a chat is shown, and writes to,
\* a conversation of its tenant alone, with the data of tools its role may
\* use; the metrics count what the audit trail has; and a conversation that
\* was deleted while nobody chatted on it stays so.
THEOREM ChatsApart == CopilotSpec => [](MetricsCount /\ ChatsStayApart /\ DeletedStayDeleted)
<1>1. CopilotInv /\ [CopilotNext]_copilotVars => CopilotInv'
    <2> SUFFICES ASSUME CopilotInv, [CopilotNext]_copilotVars PROVE CopilotInv'
        OBVIOUS
    <2>1. CASE StartConversation
        BY <2>1, StartConversationKeeps
    <2>2. CASE DeleteConversation
        BY <2>2, DeleteConversationKeeps
    <2>3. ASSUME NEW c \in ChatIds,
                 \/ Chat(c) \/ ModelAnswers(c) \/ ModelFails(c) \/ ExecuteTool(c)
                 \/ EndTurn(c) \/ FinishChat(c) \/ LeaveChat(c)
          PROVE  CopilotInv'
        BY <2>3, ChatKeeps, ModelAnswersKeeps, ModelFailsKeeps, ExecuteToolKeeps, EndTurnKeeps, FinishChatKeeps, LeaveChatKeeps
    <2>4. CASE UNCHANGED copilotVars
        BY <2>4, CopilotStutters
    <2> QED
        BY <2>1, <2>2, <2>3, <2>4 DEF CopilotNext
<1> QED
    BY <1>1, CopilotStart, CopilotHolds, PTL DEF CopilotSpec
=============================================================================
