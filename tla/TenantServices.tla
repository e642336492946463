--------------------------- MODULE TenantServices ---------------------------
(***************************************************************************)
(* What the API keeps for a tenant, in one process (apps/api/src/          *)
(* platform.ts makes it): accounts and organizations, sessions,            *)
(* subscriptions and webhooks, roles, keys and the audit log.  A request   *)
(* that concerns two of them, as a change of role does the memberships and *)
(* the permissions, is a step of each: together they promise that each     *)
(* keeps its promise, whatever the others do meanwhile.                    *)
(***************************************************************************)
EXTENDS Accounts, Sessions, Billing, ApiAccess

tenantVars == <<accountVars, sessionVars, billVars, accessVars>>

TenantInit == AccountsInit /\ SessionsInit /\ BillingInit /\ AccessInit

TenantNext ==
    \/ AccountsNext /\ UNCHANGED <<sessionVars, billVars, accessVars>>
    \/ SessionsNext /\ UNCHANGED <<accountVars, billVars, accessVars>>
    \/ BillingNext /\ UNCHANGED <<accountVars, sessionVars, accessVars>>
    \/ (KeysNext \/ LogNext) /\ UNCHANGED <<accountVars, sessionVars, billVars>>

TenantSpec == TenantInit /\ [][TenantNext]_tenantVars

\* What a tenant relies on: its memberships can be reached from the accounts,
\* its spent sessions stay spent, its subscription and webhooks are as the
\* outside was told, and who administers it can be traced.
TenantsAreServed ==
    MembershipsReachable /\ SpentSessionsStaySpent /\ OutsideAgrees /\ AdministrationIsTraced
=============================================================================
