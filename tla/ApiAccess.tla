------------------------------ MODULE ApiAccess ------------------------------
(***************************************************************************)
(* Who may administer a tenant through the API: roles, API keys and the    *)
(* audit log (apps/api/src: permissions.ts, guards.ts, controllers/        *)
(* admin.ts, packages/enterprise/src: apikeys.ts, audit.ts, rbac.ts).      *)
(* Everything is in memory.  guard awaits authenticate, and the handler    *)
(* runs later with the principal that was resolved: other requests are     *)
(* handled in between.  A key is known by its place in keys; its           *)
(* plaintext, name, prefix and last use are left out, and of a timestamp   *)
(* all but the day.  Only auth.ts records in the audit log; an entry is     *)
(* known by its place among all that were ever recorded.                   *)
(***************************************************************************)
EXTENDS Integers, Sequences, FiniteSets

CONSTANTS
    AccessRequests,    \* requests that can be in flight
    MemberTenant,      \* signed-in users, each with its tenant
    FirstRoles,        \* the role each was given
    RolesGiven,        \* roles that PATCH asks for
    ScopesAsked,       \* scopes that POST asks for: sets of names, known or not, or Unset
    ExpiryAsked,       \* days, or Unset
    CustomRoles,       \* [name, permissions]: what defineRole is called with
    LimitsAsked,       \* limits of queries
    MaxQueryLimit,     \* MAX_LIMIT
    RetentionDays,
    NoAccess, Unset,
    MaxKeys, MaxEntries, LastDay  \* bounds: keys, audit entries, the clock

Members == DOMAIN MemberTenant
AccessTenants == {MemberTenant[u] : u \in Members}

ASSUME AccessAssumption ==
    /\ {MaxKeys, RetentionDays, MaxQueryLimit} \subseteq Nat
    /\ LimitsAsked \subseteq Int /\ ExpiryAsked \subseteq Int \cup {Unset}
    /\ FirstRoles \in [Members -> {"owner", "admin", "member", "viewer"}]

VARIABLES
    accessDay,     \* the day
    roleOf,        \* roleOf[u]: the role of the user
    customRoles,   \* the roles defined besides the built-in ones
    keys,          \* the API keys, in the order of their creation
    access,        \* access[r]: the principal of a request in flight, or NoAccess
    overtaken,     \* history: requests whose key was revoked or expired while they were in flight
    auditLog,      \* the entries that are kept
    logged,        \* every entry that was recorded, in that order
    cutoff         \* history: the day up to which a tenant's entries were purged

logVars == <<customRoles, auditLog, logged, cutoff>>
accessVars == <<accessDay, roleOf, keys, access, overtaken, logVars>>

----------------------------------------------------------------------------
(* Roles and permissions *)

Features == {"crawl", "seo", "execution", "reports", "copilot", "admin", "settings", "plugins"}
PlatformPermissions ==
    {<<f, "read">> : f \in Features \cup {"dashboard", "observability", "notifications"}}
        \cup {<<f, "write">> : f \in Features}
ReadPermissions == {p \in PlatformPermissions : p[2] = "read" /\ p[1] \notin {"admin", "plugins"}}
AdminRead == <<"admin", "read">>
AdminWrite == <<"admin", "write">>

\* Any other role has none.
PermissionsForRole(role) ==
    CASE role \in {"owner", "admin"} -> PlatformPermissions
      [] role = "member" -> ReadPermissions \cup {<<"copilot", "write">>, <<"reports", "write">>}
      [] role = "viewer" -> ReadPermissions
      [] OTHER -> {}

\* The role counts only for a principal that has no permissions of its own.
MayDo(principal, permission) ==
    permission \in (IF principal.permissions # {} THEN principal.permissions ELSE PermissionsForRole(principal.role))

\* The permissions within an organization are another vocabulary.
OrgPermissions ==
    {<<f, "read">> : f \in {"tenant", "org", "team", "audit", "billing"}}
        \cup {<<f, "manage">> : f \in {"tenant", "org", "team", "member", "apikey", "webhook", "billing"}}
BuiltInRoles ==
    [owner |-> OrgPermissions, admin |-> OrgPermissions,
     member |-> {<<f, "read">> : f \in {"tenant", "org", "team", "audit"}},
     viewer |-> {<<f, "read">> : f \in {"tenant", "org", "team"}}]
OrgPermissionsFor(role) ==
    IF role \in DOMAIN BuiltInRoles THEN BuiltInRoles[role]
    ELSE UNION {custom.permissions : custom \in {c \in customRoles : c.name = role}}

\* A built-in role cannot be overridden, and a permission must be known; a role defined again is replaced.
DefineRole(role) ==
    /\ role.name \notin DOMAIN BuiltInRoles /\ role.permissions \subseteq OrgPermissions
    /\ customRoles' = {c \in customRoles : c.name # role.name} \cup {role}
    /\ UNCHANGED <<accessDay, roleOf, keys, access, overtaken, auditLog, logged, cutoff>>

----------------------------------------------------------------------------
(* API keys *)

KeyScopes == {"tenant.read", "tenant.write", "orgs.read", "orgs.write", "teams.write", "audit.read",
              "apikeys.manage", "webhooks.manage", "billing.read", "billing.manage"}
ScopePermission(scope) ==
    CASE scope = "tenant.read" -> <<"dashboard", "read">>
      [] scope = "tenant.write" -> <<"settings", "write">>
      [] scope \in {"orgs.read", "audit.read", "billing.read"} -> AdminRead
      [] OTHER -> AdminWrite
PermissionsFromScopes(scopes) == {ScopePermission(scope) : scope \in scopes \cap KeyScopes}

\* createdBy is the name of the principal; the rest of it is history.
Key(tenant, scopes, by, expiresAt) ==
    [tenant |-> tenant, scopes |-> scopes, status |-> "active", createdBy |-> by, expiresAt |-> expiresAt]

\* A key is good through the day it expires.
Verifies(k) ==
    /\ keys[k].status # "revoked"
    /\ keys[k].expiresAt # Unset => accessDay <= keys[k].expiresAt

\* What the route makes of the scopes it is sent: unknown ones are dropped, none given is the right to read.
Granted(scopes) == IF scopes = Unset THEN {"tenant.read"} ELSE scopes \cap KeyScopes
IssueThrows(scopes, days) == Granted(scopes) = {} \/ (days # Unset /\ days < 1)
ExpiresAt(days) == IF days = Unset THEN Unset ELSE accessDay + days

\* getOrThrow.
KeyOf(tenant, k) == k \in DOMAIN keys /\ keys[k].tenant = tenant

----------------------------------------------------------------------------
(* The audit log *)

AuditEntry(tenant, actor, action) == [tenant |-> tenant, actor |-> actor, action |-> action, day |-> accessDay]

RecordEntry(entry) ==
    /\ Len(logged) < MaxEntries
    /\ logged' = Append(logged, entry) /\ auditLog' = auditLog \cup {Len(logged) + 1}

\* Newest first; entries of one time in the order they were recorded.
ShownBefore(i, j) == logged[i].day > logged[j].day \/ (logged[i].day = logged[j].day /\ i < j)

\* The first ones that match, as many as the limit.
PageLimit(limit) == IF limit < 1 THEN 1 ELSE IF limit > MaxQueryLimit THEN MaxQueryLimit ELSE limit
QueryLog(tenant, action, limit) ==
    LET matches == {i \in auditLog : logged[i].tenant = tenant /\ action \in {Unset, logged[i].action}}
    IN  {i \in matches : Cardinality({j \in matches : ShownBefore(j, i)}) < PageLimit(limit)}

\* The entries of the tenant that are older than the window go.
PurgeExpired(tenant) ==
    LET before == accessDay - RetentionDays
    IN /\ auditLog' = {i \in auditLog : ~(logged[i].tenant = tenant /\ logged[i].day < before)}
       /\ cutoff' = [cutoff EXCEPT ![tenant] = before]
       /\ UNCHANGED <<accessDay, roleOf, keys, access, overtaken, customRoles, logged>>

SignIn(user, action) ==
    /\ RecordEntry(AuditEntry(MemberTenant[user], user, action))
    /\ UNCHANGED <<accessDay, roleOf, keys, access, overtaken, customRoles, cutoff>>

----------------------------------------------------------------------------
(* Requests *)

Principal(kind, name, role, tenant, permissions) ==
    [kind |-> kind, name |-> name, role |-> role, tenant |-> tenant, permissions |-> permissions]
UserPrincipal(u) == Principal("user", u, roleOf[u], MemberTenant[u], PermissionsForRole(roleOf[u]))
KeyPrincipal(k) == Principal("api_key", k, "api_key", keys[k].tenant, PermissionsFromScopes(keys[k].scopes))

\* History: what becomes of a key that a request already went by.
OutOfUse(k) == keys[k].status = "revoked" \/ (keys[k].expiresAt # Unset /\ accessDay > keys[k].expiresAt)
ByKeyOutOfUse(r) == access[r] # NoAccess /\ access[r].kind = "api_key" /\ OutOfUse(access[r].name)
Overtakes == overtaken' = {r \in AccessRequests : access[r] # NoAccess /\ ByKeyOutOfUse(r)'}

\* authenticate: by the session of a user (Sessions), or by a key; what does not authenticate ends there.
ByUser(r, u) ==
    /\ access[r] = NoAccess
    /\ access' = [access EXCEPT ![r] = UserPrincipal(u)]
    /\ UNCHANGED <<accessDay, roleOf, keys, overtaken, logVars>>
ByKey(r, k) ==
    /\ access[r] = NoAccess /\ k \in DOMAIN keys /\ Verifies(k)
    /\ access' = [access EXCEPT ![r] = KeyPrincipal(k)]
    /\ UNCHANGED <<accessDay, roleOf, keys, overtaken, logVars>>

Handled(r) == access[r] # NoAccess /\ access' = [access EXCEPT ![r] = NoAccess]
MayHandle(r, permission) == access[r] # NoAccess /\ MayDo(access[r], permission)

\* A route that reads, one that the principal may not take, or one that throws.
ReadOrRefused(r) ==
    /\ Handled(r)
    /\ UNCHANGED <<accessDay, roleOf, keys, logVars>> /\ Overtakes

IssueKey(r, scopes, days) ==
    /\ MayHandle(r, AdminWrite) /\ Handled(r)
    /\ ~IssueThrows(scopes, days) /\ Len(keys) < MaxKeys
    /\ keys' = Append(keys, Key(access[r].tenant, Granted(scopes), access[r], ExpiresAt(days)))
    /\ UNCHANGED <<accessDay, roleOf, logVars>> /\ Overtakes

\* Revoked again, it stays as it is.
RevokeKey(r, k) ==
    /\ MayHandle(r, AdminWrite) /\ Handled(r)
    /\ KeyOf(access[r].tenant, k)
    /\ keys' = [keys EXCEPT ![k].status = "revoked"]
    /\ UNCHANGED <<accessDay, roleOf, logVars>> /\ Overtakes

\* The organizations the user is in are Accounts' matter.
ChangeRole(r, u, role) ==
    /\ MayHandle(r, AdminWrite) /\ Handled(r)
    /\ MemberTenant[u] = access[r].tenant
    /\ roleOf' = [roleOf EXCEPT ![u] = role]
    /\ UNCHANGED <<accessDay, keys, logVars>> /\ Overtakes

NextDay ==
    /\ accessDay < LastDay /\ accessDay' = accessDay + 1
    /\ UNCHANGED <<roleOf, keys, access, logVars>> /\ Overtakes
----------------------------------------------------------------------------

AccessInit ==
    /\ accessDay = 0 /\ roleOf = FirstRoles /\ customRoles = {} /\ keys = <<>>
    /\ access = [r \in AccessRequests |-> NoAccess] /\ overtaken = {}
    /\ auditLog = {} /\ logged = <<>> /\ cutoff = [t \in AccessTenants |-> -RetentionDays]

KeysNext ==
    \/ \E r \in AccessRequests :
         \/ \E u \in Members : ByUser(r, u) \/ \E role \in RolesGiven : ChangeRole(r, u, role)
         \/ \E k \in 1 .. MaxKeys : ByKey(r, k) \/ RevokeKey(r, k)
         \/ \E scopes \in ScopesAsked, days \in ExpiryAsked : IssueKey(r, scopes, days)
         \/ ReadOrRefused(r)
    \/ NextDay

\* Neither is read nor written by a request for a key.
LogNext ==
    \/ \E role \in CustomRoles : DefineRole(role)
    \/ \E u \in Members : SignIn(u, "auth.login")
    \/ \E t \in AccessTenants : PurgeExpired(t)
    \/ NextDay

----------------------------------------------------------------------------
(* Properties *)

AccessTypeOK ==
    /\ accessDay \in 0 .. LastDay /\ roleOf \in [Members -> {"owner", "admin", "member", "viewer"}]
    /\ \A k \in DOMAIN keys : /\ keys[k].tenant \in AccessTenants /\ keys[k].scopes \subseteq KeyScopes
                              /\ keys[k].status \in {"active", "revoked"}
    /\ \A r \in AccessRequests : access[r] # NoAccess => access[r].permissions \subseteq PlatformPermissions
    /\ \A role \in customRoles : OrgPermissionsFor(role.name) = role.permissions

\* Every key descends from an owner or admin of its tenant through keys that may administer it, whatever became of them
\* since; a request in flight by a key out of use came while the key was good.  The audit log is short of no entry but
\* those of a tenant that were past its window, and a page of it leaves out no newer one than it shows (guards.ts
\* 49-121, apikeys.ts 45-135, audit.ts 33-120).
AdministrationIsTraced ==
    /\ \A k \in DOMAIN keys :
         /\ keys[k].createdBy.tenant = keys[k].tenant
         /\ IF keys[k].createdBy.kind = "user" THEN keys[k].createdBy.role \in {"owner", "admin"}
            ELSE /\ keys[k].createdBy.name \in 1 .. k - 1
                 /\ AdminWrite \in PermissionsFromScopes(keys[keys[k].createdBy.name].scopes)
    /\ \A r \in AccessRequests : ByKeyOutOfUse(r) => r \in overtaken
    /\ auditLog = {i \in DOMAIN logged : logged[i].day >= cutoff[logged[i].tenant]}
    /\ \A t \in AccessTenants, limit \in LimitsAsked :
         LET page == QueryLog(t, Unset, limit)
         IN \A e \in auditLog \ page : logged[e].tenant = t =>
                \A shown \in page : logged[e].day <= logged[shown].day
=============================================================================
