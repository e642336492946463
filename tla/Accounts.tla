------------------------------ MODULE Accounts ------------------------------
(***************************************************************************)
(* The accounts of the users (apps/api/src/auth.ts: register, inviteUser,  *)
(* updateUserRole) over the organizations of the enterprise service.       *)
(* Registration and invitation look the email up, hash a password, which   *)
(* takes a while, and only then write the account and add the member, so   *)
(* that calls of one email overlap and the organization may be gone.       *)
(* Users and emails are numbered and abstract; a tenant stands for its     *)
(* slug, which is used once.                                               *)
(***************************************************************************)
EXTENDS Organizations, Sequences, SequencesExt

CONSTANTS
    Emails,
    AccountCalls,    \* calls of register and inviteUser that can be in flight
    MaxOrgOps,       \* bound: operations on organizations and teams
    NoAccount        \* an id or an email without a user

AccountRec == [email : Emails, role : MemberRoles, tenant : Tenants, orgIds : Seq(OrgIds)]
CallRec == [email : Emails, role : MemberRoles, tenant : Tenants, org : OrgIds]

ASSUME AccountsAssumption ==
    NoAccount \notin UserIds /\ NoAccount \notin AccountRec /\ NoAccount \notin CallRec

VARIABLES
    provisioned,   \* tenants that exist
    accounts,      \* accounts[u]: users, by id
    usersByEmail,
    usersGiven,    \* how many user ids were given
    accountCall,   \* accountCall[c]: what a call does once the password is hashed
    orgOps

accountVars == <<provisioned, accounts, usersByEmail, usersGiven, accountCall, orgOps, orgVars>>

AccountsTypeOK ==
    /\ OrgTypeOK
    /\ provisioned \subseteq Tenants /\ usersGiven \in Nat /\ orgOps \in 0 .. MaxOrgOps
    /\ accounts \in [UserIds -> AccountRec \cup {NoAccount}]
    /\ usersByEmail \in [Emails -> UserIds \cup {NoAccount}]
    /\ accountCall \in [AccountCalls -> CallRec \cup {NoAccount}]

AccountsInit ==
    /\ OrgInit
    /\ provisioned = {} /\ usersGiven = 0 /\ orgOps = 0
    /\ accounts = [u \in UserIds |-> NoAccount]
    /\ usersByEmail = [e \in Emails |-> NoAccount]
    /\ accountCall = [c \in AccountCalls |-> NoAccount]

\* The tenant and its organization are made at once, the owner later.
Register(c, tenant, email) ==
    /\ accountCall[c] = NoAccount /\ usersByEmail[email] = NoAccount
    /\ tenant \notin provisioned
    /\ provisioned' = provisioned \cup {tenant}
    /\ CreateOrganization(tenant)
    /\ accountCall' = [accountCall EXCEPT ![c] =
         [email |-> email, role |-> "owner", tenant |-> tenant, org |-> given.org + 1]]
    /\ UNCHANGED <<accounts, usersByEmail, usersGiven, orgOps>>

\* The administrator names an organization or the tenant's first is taken;
\* a tenant without one cannot invite.  Nothing says that the named one exists.
InvitesTo(tenant, org) == org <= given.org /\ \E o \in OrgIds : HasOrg(tenant, o)

InviteNew(c, tenant, org, email, role) ==
    /\ accountCall[c] = NoAccount /\ InvitesTo(tenant, org)
    /\ usersByEmail[email] = NoAccount
    /\ accountCall' = [accountCall EXCEPT ![c] =
         [email |-> email, role |-> role, tenant |-> tenant, org |-> org]]
    /\ UNCHANGED <<provisioned, accounts, usersByEmail, usersGiven, orgOps, orgVars>>

\* A user of the tenant joins another organization, in the role of the invitation.
InviteExisting(tenant, org, email, role) ==
    LET user == usersByEmail[email] IN
    /\ InvitesTo(tenant, org) /\ user # NoAccount
    /\ accounts[user].tenant = tenant /\ org \notin ToSet(accounts[user].orgIds)
    /\ CanAddMember(tenant, org, user)
    /\ memberships' = memberships \cup {Membership(tenant, org, user, role)}
    /\ accounts' = [accounts EXCEPT ![user].orgIds = Append(@, org)]
    /\ UNCHANGED <<provisioned, usersByEmail, usersGiven, accountCall, organizations, teams,
                   teamMembers, given, orgOps>>

\* The account is written first, whoever took the email meanwhile; if the
\* member cannot be added the call throws and the account stays.
FinishAccount(c) ==
    LET call == accountCall[c] user == usersGiven + 1 IN
    /\ call # NoAccount /\ user \in UserIds
    /\ accounts' = [accounts EXCEPT ![user] =
         [email |-> call.email, role |-> call.role, tenant |-> call.tenant, orgIds |-> <<call.org>>]]
    /\ usersByEmail' = [usersByEmail EXCEPT ![call.email] = user]
    /\ usersGiven' = user
    /\ memberships' = memberships \cup
         {m \in {Membership(call.tenant, call.org, user, call.role)} : CanAddMember(call.tenant, call.org, user)}
    /\ accountCall' = [accountCall EXCEPT ![c] = NoAccount]
    /\ UNCHANGED <<provisioned, organizations, teams, teamMembers, given, orgOps>>

\* The organizations up to the first of which the user is no member.
Reached(tenant, user) ==
    LET known == accounts[user].orgIds
        missing == {i \in DOMAIN known : MembershipsOf(tenant, known[i], user) = {}}
    IN  {known[i] : i \in {j \in DOMAIN known : \A k \in missing : j < k}}

\* The role changes even if a membership is missing, at which the call throws.
UpdateUserRole(tenant, user, role) ==
    /\ accounts[user] # NoAccount /\ accounts[user].tenant = tenant
    /\ accounts' = [accounts EXCEPT ![user].role = role]
    /\ memberships' = {IF m.user = user /\ m.tenant = tenant /\ m.org \in Reached(tenant, user)
                         THEN [m EXCEPT !.role = role] ELSE m : m \in memberships}
    /\ UNCHANGED <<provisioned, usersByEmail, usersGiven, accountCall, organizations, teams,
                   teamMembers, given, orgOps>>

AccountsNext ==
    \/ /\ OrgNext /\ orgOps < MaxOrgOps /\ orgOps' = orgOps + 1
       /\ UNCHANGED <<provisioned, accounts, usersByEmail, usersGiven, accountCall>>
    \/ \E c \in AccountCalls :
         \/ FinishAccount(c)
         \/ \E tenant \in Tenants, email \in Emails :
              \/ Register(c, tenant, email)
              \/ \E org \in OrgIds, role \in MemberRoles : InviteNew(c, tenant, org, email, role)
    \/ \E tenant \in Tenants, role \in MemberRoles :
         \/ \E user \in UserIds : UpdateUserRole(tenant, user, role)
         \/ \E org \in OrgIds, email \in Emails : InviteExisting(tenant, org, email, role)

AccountsSpec == AccountsInit /\ [][AccountsNext]_accountVars

----------------------------------------------------------------------------
(* Properties *)

\* Every membership can be found from its account, as inviting again, changing
\* the role and removing need: its organization exists and is of the account's
\* tenant, the user has one membership there, and the account lists the
\* organization, though invitations finish after their organization was
\* removed and two accounts of one email overlap.  That a change of role is made
\* "across every org membership in the tenant" (auth.ts:300) asks for more, and
\* is not so: updateUserRole throws at the first listed organization that is gone
\* (auth.ts:307-309), and the memberships listed behind it keep the old role
\* beside an account that has the new one (Reached).
MembershipsReachable ==
    \A m \in memberships :
        /\ HasOrg(m.tenant, m.org)
        /\ MembershipsOf(m.tenant, m.org, m.user) = {m}
        /\ accounts[m.user] # NoAccount
        /\ accounts[m.user].tenant = m.tenant
        /\ m.org \in ToSet(accounts[m.user].orgIds)
=============================================================================
