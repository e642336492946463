--------------------------- MODULE Organizations ---------------------------
(***************************************************************************)
(* Organizations, teams and their members (packages/enterprise/src/        *)
(* orgs.ts).  The service keeps four maps and each of its operations runs  *)
(* without waiting for anything, so that each is one step.  Every          *)
(* operation is given the tenant it works for; a record of another tenant  *)
(* makes it throw, and one that throws changes nothing.  Operations that   *)
(* change only a name are left out.  Ids are random in the code and        *)
(* numbered here, each given once.                                         *)
(***************************************************************************)
EXTENDS Integers, FiniteSets

CONSTANTS
    Tenants,
    OrgIds, TeamIds,     \* initial segments of Nat \ {0}
    UserIds,             \* the users there may be, see Accounts
    MemberRoles          \* MEMBER_ROLES

ASSUME OrganizationsAssumption ==
    /\ OrgIds \subseteq Nat \ {0} /\ TeamIds \subseteq Nat \ {0} /\ UserIds \subseteq Nat \ {0}
    /\ "owner" \in MemberRoles

VARIABLES
    organizations,   \* [org, tenant]
    teams,           \* [team, tenant, org]
    memberships,     \* [tenant, org, user, role]
    teamMembers,     \* [tenant, team, user, role]
    given            \* how many ids were given of each kind

orgVars == <<organizations, teams, memberships, teamMembers, given>>

MembershipRec == [tenant : Tenants, org : OrgIds, user : UserIds, role : MemberRoles]
TeamMemberRec == [tenant : Tenants, team : TeamIds, user : UserIds, role : MemberRoles]

OrgTypeOK ==
    /\ organizations \subseteq [org : OrgIds, tenant : Tenants]
    /\ teams \subseteq [team : TeamIds, tenant : Tenants, org : OrgIds]
    /\ memberships \subseteq MembershipRec /\ teamMembers \subseteq TeamMemberRec
    /\ given \in [org : Nat, team : Nat]

OrgInit ==
    /\ organizations = {} /\ teams = {} /\ memberships = {} /\ teamMembers = {}
    /\ given = [org |-> 0, team |-> 0]

\* getOrgOrThrow, getTeamOrThrow: there is one of that id, and it is the tenant's.
HasOrg(tenant, org) == [org |-> org, tenant |-> tenant] \in organizations
TeamsOf(tenant, team) == {t \in teams : t.team = team /\ t.tenant = tenant}
MembershipsOf(tenant, org, user) ==
    {m \in memberships : m.tenant = tenant /\ m.org = org /\ m.user = user}
TeamMembershipsOf(tenant, team, user) ==
    {m \in teamMembers : m.tenant = tenant /\ m.team = team /\ m.user = user}

----------------------------------------------------------------------------
(* Organizations and their members *)

CreateOrganization(tenant) ==
    /\ given.org + 1 \in OrgIds
    /\ organizations' = organizations \cup {[org |-> given.org + 1, tenant |-> tenant]}
    /\ given' = [given EXCEPT !.org = @ + 1]
    /\ UNCHANGED <<teams, memberships, teamMembers>>

\* Mutant: an organization goes and leaves its members.
RemoveOrganizationAlone(tenant, org) ==
    /\ HasOrg(tenant, org)
    /\ organizations' = organizations \ {[org |-> org, tenant |-> tenant]}
    /\ teams' = {t \in teams : t.org # org \/ t.tenant # tenant}
    /\ UNCHANGED <<memberships, teamMembers, given>>

\* Its teams and members go with it, the members of its teams stay.
RemoveOrganization(tenant, org) ==
    /\ HasOrg(tenant, org)
    /\ organizations' = organizations \ {[org |-> org, tenant |-> tenant]}
    /\ teams' = {t \in teams : t.org # org \/ t.tenant # tenant}
    /\ memberships' = {m \in memberships : m.org # org \/ m.tenant # tenant}
    /\ UNCHANGED <<teamMembers, given>>

\* What addMember makes of the memberships; it throws if it cannot.
CanAddMember(tenant, org, user) == HasOrg(tenant, org) /\ MembershipsOf(tenant, org, user) = {}
Membership(tenant, org, user, role) == [tenant |-> tenant, org |-> org, user |-> user, role |-> role]

WithRole(members, role) == {[m EXCEPT !.role = role] : m \in members}

UpdateMemberRole(tenant, org, user, role) ==
    LET old == MembershipsOf(tenant, org, user) IN
    /\ old # {}
    /\ memberships' = (memberships \ old) \cup WithRole(old, role)
    /\ UNCHANGED <<organizations, teams, teamMembers, given>>

RemoveMember(tenant, org, user) ==
    /\ MembershipsOf(tenant, org, user) # {}
    /\ memberships' = memberships \ MembershipsOf(tenant, org, user)
    /\ UNCHANGED <<organizations, teams, teamMembers, given>>

----------------------------------------------------------------------------
(* Teams and their members *)

CreateTeam(tenant, org) ==
    /\ HasOrg(tenant, org) /\ given.team + 1 \in TeamIds
    /\ teams' = teams \cup {[team |-> given.team + 1, tenant |-> tenant, org |-> org]}
    /\ given' = [given EXCEPT !.team = @ + 1]
    /\ UNCHANGED <<organizations, memberships, teamMembers>>

RemoveTeam(tenant, team) ==
    /\ TeamsOf(tenant, team) # {}
    /\ teams' = teams \ TeamsOf(tenant, team)
    /\ teamMembers' = {m \in teamMembers : m.team # team \/ m.tenant # tenant}
    /\ UNCHANGED <<organizations, memberships, given>>

\* Any user may be put on a team, a member of its organization or not.
AddTeamMember(tenant, team, user, role) ==
    /\ TeamsOf(tenant, team) # {} /\ TeamMembershipsOf(tenant, team, user) = {}
    /\ teamMembers' = teamMembers \cup
         {[tenant |-> tenant, team |-> team, user |-> user, role |-> role]}
    /\ UNCHANGED <<organizations, teams, memberships, given>>

\* These two look for the member only, the team may be gone.
UpdateTeamMemberRole(tenant, team, user, role) ==
    LET old == TeamMembershipsOf(tenant, team, user) IN
    /\ old # {}
    /\ teamMembers' = (teamMembers \ old) \cup WithRole(old, role)
    /\ UNCHANGED <<organizations, teams, memberships, given>>

RemoveTeamMember(tenant, team, user) ==
    /\ TeamMembershipsOf(tenant, team, user) # {}
    /\ teamMembers' = teamMembers \ TeamMembershipsOf(tenant, team, user)
    /\ UNCHANGED <<organizations, teams, memberships, given>>

OrgNext ==
    \E tenant \in Tenants :
        \/ CreateOrganization(tenant)
        \/ \E org \in OrgIds :
             \/ RemoveOrganization(tenant, org) \/ CreateTeam(tenant, org)
             \/ \E user \in UserIds :
                  \/ RemoveMember(tenant, org, user)
                  \/ \E role \in MemberRoles : UpdateMemberRole(tenant, org, user, role)
        \/ \E team \in TeamIds :
             \/ RemoveTeam(tenant, team)
             \/ \E user \in UserIds :
                  \/ RemoveTeamMember(tenant, team, user)
                  \/ \E role \in MemberRoles :
                       AddTeamMember(tenant, team, user, role) \/ UpdateTeamMemberRole(tenant, team, user, role)
=============================================================================
