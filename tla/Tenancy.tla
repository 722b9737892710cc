------------------------------ MODULE Tenancy ------------------------------
(***************************************************************************)
(* Accounts, organizations, memberships and invites: signup, inviting,     *)
(* accepting, removing a member and changing a role.  Every request is one *)
(* database transaction under READ COMMITTED: each SELECT is a step that   *)
(* sees what is committed at that moment, and everything the request       *)
(* writes takes effect in its last step, the commit.  Unique constraints   *)
(* are conjuncts of the commits that insert; a request whose check or      *)
(* constraint fails, or that crashes, is rolled back (Fail).               *)
(***************************************************************************)
EXTENDS Integers, FiniteSets

CONSTANTS Emails,      \* an account is its e-mail address (unique column)
          Founders,    \* the addresses that sign up
          Invitees,    \* the addresses that get invited
          Names,       \* organization names
          Slugs,       \* an organization is its slug (unique column)
          MaxSuffix,   \* bound: suffixes the slug loop tries
          SlugOf,      \* the slug of a name with suffix number k, 0 for none
          InviteIds,   \* bound: the invites there can ever be
          InviteRoles, \* the roles an invite or a role change may carry
          Requests     \* bound: requests in flight at once

ASSUME EmailsAssumption == Founders \subseteq Emails /\ Invitees \subseteq Emails
ASSUME SlugsAssumption ==
  MaxSuffix \in Nat /\ SlugOf \in [Names \X (0..MaxSuffix) -> Slugs]
ASSUME RolesAssumption == InviteRoles \subseteq {"admin", "analyst", "viewer"}
ASSUME RequestsAssumption == IsFiniteSet(Requests)

VARIABLES users,    \* addresses of the rows of table users
          orgs,     \* slugs of the rows of table organizations
          member,   \* table memberships: <<email, slug>> -> role, deleted_at unset?
          invite,   \* table invites
          req       \* where each request stands in its transaction

vars == <<users, orgs, member, invite, req>>

Roles == InviteRoles \union {"owner"}
AdminRoles == {"owner", "admin"}

Idle == [at |-> "idle"]

SignupSteps == {"signup.slug", "signup.commit"}
InviteSteps == {"invite.pending", "invite.user", "invite.member",
                "invite.elsewhere", "invite.commit"}
AcceptSteps == {"accept.user", "accept.newcomer", "accept.elsewhere",
                "accept.member", "accept.join", "accept.restore",
                "accept.undelete"}
RemoveSteps == {"remove.read", "remove.commit"}
RoleSteps   == {"role.read", "role.commit"}

SignupRequest == [at : SignupSteps, email : Founders, name : Names, k : 0..MaxSuffix]
InviteRequest == [at : InviteSteps, email : Invitees, org : Slugs, role : InviteRoles]
AcceptRequest == [at : AcceptSteps, invite : InviteIds]
RemoveRequest == [at : RemoveSteps, email : Emails, org : Slugs, by : AdminRoles]
RoleRequest   == [at : RoleSteps, email : Emails, org : Slugs, by : AdminRoles,
                  role : InviteRoles]
Request == {Idle} \union SignupRequest \union InviteRequest \union AcceptRequest
                  \union RemoveRequest \union RoleRequest

Membership == [role : Roles, active : BOOLEAN]
Invite == [email : Invitees, org : Slugs, role : InviteRoles,
           accepted : BOOLEAN]

\* Every column holds a value of its kind, and a request is at one of the
\* steps of its handler: no role outside the pattern of the request schemas
\* (schemas/auth.py:55, schemas/organization.py:37) reaches a row.
TypeOK ==
  /\ users \subseteq Emails
  /\ orgs \subseteq Slugs
  /\ DOMAIN member \subseteq Emails \X Slugs
  /\ member \in [DOMAIN member -> Membership]
  /\ DOMAIN invite \subseteq InviteIds
  /\ invite \in [DOMAIN invite -> Invite]
  /\ req \in [Requests -> Request]

Init ==
  /\ users = {}
  /\ orgs = {}
  /\ member = [m \in {} |-> Idle]
  /\ invite = [i \in {} |-> Idle]
  /\ req = [r \in Requests |-> Idle]

----------------------------------------------------------------------------
\* What the queries see.

\* Table t with row v at key k, inserted or overwritten.
With(t, k, v) == [x \in DOMAIN t \union {k} |-> IF x = k THEN v ELSE t[x]]

IsActive(e, o) == <<e, o>> \in DOMAIN member /\ member[<<e, o>>].active

ActiveElsewhereOwnOrg(e, o) == IsActive(e, o)   \* mutant: != became =

ActiveElsewhere(e, o) == \E p \in orgs \ {o} : IsActive(e, p)

PendingInvites(e, o) ==
  {i \in DOMAIN invite : /\ invite[i].email = e
                         /\ invite[i].org = o
                         /\ ~invite[i].accepted}

\* The role gate of the organization routes: RequireAdmin.
Admins(o) == {e \in Emails : IsActive(e, o) /\ member[<<e, o>>].role \in AdminRoles}

\* The pattern InviteRequest and UpdateMemberRoleRequest put on a role.
AnyRole == Roles   \* mutant: no pattern

RequestedRoles == InviteRoles

\* The rank rules that remove_member and update_member_role share.
MayTouchOwner(by, role) == ~(by = "admin" /\ role = "admin")  \* mutant: no owner rule
MayTouchAdmin(by, role) == role # "owner"                     \* mutant: no admin rule

MayTouch(by, role) == role # "owner" /\ ~(by = "admin" /\ role = "admin")

----------------------------------------------------------------------------
\* The life of a request.

Begin(r, q) == req' = [req EXCEPT ![r] = q]
Goto(r, step) == req' = [req EXCEPT ![r].at = step]
Commit(r) == req' = [req EXCEPT ![r] = Idle]

\* The request raises, violates a constraint, or its process dies: get_db
\* rolls the transaction back.
Fail(r) ==
  /\ req[r] # Idle
  /\ Commit(r)
  /\ UNCHANGED <<users, orgs, member, invite>>

OnlyReads == UNCHANGED <<users, orgs, member, invite>>

\* Step `at` of a request passes its check and goes on to step `next`.
Read(r, at, check, next) ==
  /\ req[r].at = at
  /\ check
  /\ Goto(r, next)
  /\ OnlyReads

----------------------------------------------------------------------------
\* Signing up.

StartSignup(r) == req[r] = Idle /\ \E e \in Founders, n \in Names :
  /\ e \notin users
  /\ Begin(r, [at |-> "signup.slug", email |-> e, name |-> n, k |-> 0])
  /\ OnlyReads

SignupSlug(q) == SlugOf[<<q.name, q.k>>]

TakeSlug(r) ==
  Read(r, "signup.slug", SignupSlug(req[r]) \notin orgs, "signup.commit")

NextSlug(r) ==
  /\ req[r].at = "signup.slug"
  /\ SignupSlug(req[r]) \in orgs
  /\ req[r].k < MaxSuffix
  /\ req' = [req EXCEPT ![r].k = @ + 1]
  /\ OnlyReads

\* The unique constraints of users.email and organizations.slug.
EmailConflict(q) == q.email \in users   \* mutant: slugs are not unique

SignupConflict(q) == q.email \in users \/ SignupSlug(q) \in orgs

SignupAccountOnly(r) ==   \* mutant: the account is committed by itself
  /\ req[r].at = "signup.commit"
  /\ users' = users \union {req[r].email}
  /\ Commit(r)
  /\ UNCHANGED <<orgs, member, invite>>

SignupCommit(r) == LET e == req[r].email
                       o == SignupSlug(req[r]) IN
  /\ req[r].at = "signup.commit"
  /\ ~SignupConflict(req[r])
  /\ users' = users \union {e}
  /\ orgs' = orgs \union {o}
  /\ member' = With(member, <<e, o>>, [role |-> "owner", active |-> TRUE])
  /\ Commit(r)
  /\ UNCHANGED invite

Signup(r) == StartSignup(r) \/ TakeSlug(r) \/ NextSlug(r) \/ SignupCommit(r)

----------------------------------------------------------------------------
\* Inviting an address.

StartInvite(r) == req[r] = Idle /\ \E o \in orgs, e \in Invitees, role \in RequestedRoles :
  /\ Admins(o) # {}
  /\ Begin(r, [at |-> "invite.pending", email |-> e, org |-> o, role |-> role])
  /\ OnlyReads

InvitePending(r) ==
  Read(r, "invite.pending", PendingInvites(req[r].email, req[r].org) = {},
       "invite.user")

InviteUser(r) ==
  Read(r, "invite.user", TRUE,
       IF req[r].email \in users THEN "invite.member" ELSE "invite.commit")

InviteMember(r) ==
  Read(r, "invite.member", ~IsActive(req[r].email, req[r].org),
       "invite.elsewhere")

InviteElsewhere(r) ==
  Read(r, "invite.elsewhere", ~ActiveElsewhere(req[r].email, req[r].org),
       "invite.commit")

InviteCommit(r) == \E i \in InviteIds \ DOMAIN invite :
  /\ req[r].at = "invite.commit"
  /\ invite' = With(invite, i, [email |-> req[r].email, org |-> req[r].org,
                                role |-> req[r].role, accepted |-> FALSE])
  /\ Commit(r)
  /\ UNCHANGED <<users, orgs, member>>

Inviting(r) == \/ StartInvite(r) \/ InvitePending(r) \/ InviteUser(r)
               \/ InviteMember(r) \/ InviteElsewhere(r) \/ InviteCommit(r)

----------------------------------------------------------------------------
\* Accepting an invite.

\* An invite is refused when its seven days are over.  That is all that the date
\* does, and nobody is obliged to accept in time: an invite that has expired is one
\* that is never accepted any more, and it goes on waiting (PendingInvites).
StartAccept(r) == req[r] = Idle /\ \E i \in DOMAIN invite :
  /\ ~invite[i].accepted
  /\ Begin(r, [at |-> "accept.user", invite |-> i])
  /\ OnlyReads

\* The invite request r accepts; its address, organization and role are
\* never updated, so it does not matter when they were read.
Accepted(r) == invite[req[r].invite]
Joining(r) == <<Accepted(r).email, Accepted(r).org>>

AcceptUser(r) ==
  Read(r, "accept.user", TRUE,
       IF Accepted(r).email \in users THEN "accept.elsewhere" ELSE "accept.newcomer")

AcceptElsewhere(r) ==
  Read(r, "accept.elsewhere",
       ~ActiveElsewhere(Accepted(r).email, Accepted(r).org), "accept.member")

AcceptMemberNone(r) ==
  Read(r, "accept.member", Joining(r) \notin DOMAIN member, "accept.join")

\* A soft-deleted row comes back; the UPDATE carries the role column only
\* when the role read here differs from the invite's.
AcceptMemberDeleted(r) ==
  Read(r, "accept.member",
       Joining(r) \in DOMAIN member /\ ~member[Joining(r)].active,
       IF member[Joining(r)].role = Accepted(r).role
         THEN "accept.undelete" ELSE "accept.restore")

\* The commit of an accept, with `row` as the membership of the invitee.
AcceptUnmarked(r, row) ==   \* mutant: accepted_at is not set
  /\ member' = With(member, Joining(r), row)
  /\ Commit(r)
  /\ UNCHANGED <<orgs, invite>>

AcceptCommit(r, row) ==
  /\ member' = With(member, Joining(r), row)
  /\ invite' = [invite EXCEPT ![req[r].invite].accepted = TRUE]
  /\ Commit(r)
  /\ UNCHANGED orgs

InvitedAs(r) == [role |-> Accepted(r).role, active |-> TRUE]

AcceptNewcomer(r) ==
  /\ req[r].at = "accept.newcomer"
  /\ Accepted(r).email \notin users
  /\ users' = users \union {Accepted(r).email}
  /\ AcceptCommit(r, InvitedAs(r))

AcceptJoin(r) ==
  /\ req[r].at = "accept.join"
  /\ Joining(r) \notin DOMAIN member
  /\ AcceptCommit(r, InvitedAs(r))
  /\ UNCHANGED users

AcceptRestore(r) ==
  /\ req[r].at = "accept.restore"
  /\ AcceptCommit(r, InvitedAs(r))
  /\ UNCHANGED users

AcceptUndelete(r) ==
  /\ req[r].at = "accept.undelete"
  /\ AcceptCommit(r, [member[Joining(r)] EXCEPT !.active = TRUE])
  /\ UNCHANGED users

Accepting(r) == \/ StartAccept(r) \/ AcceptUser(r) \/ AcceptElsewhere(r)
                \/ AcceptMemberNone(r) \/ AcceptMemberDeleted(r)
                \/ AcceptNewcomer(r) \/ AcceptJoin(r)
                \/ AcceptRestore(r) \/ AcceptUndelete(r)

----------------------------------------------------------------------------
\* Removing a member and changing a role.  Nobody may remove himself, and a
\* role change of oneself is always refused (an owner's role never changes, an
\* admin meets an admin), so the target is someone else.

StartRemove(r) == req[r] = Idle /\ \E o \in orgs : \E a \in Admins(o), e \in Emails :
  /\ e # a
  /\ Begin(r, [at |-> "remove.read", email |-> e, org |-> o,
               by |-> member[<<a, o>>].role])
  /\ OnlyReads

StartRole(r) == req[r] = Idle /\ \E o \in orgs, role \in RequestedRoles :
  \E a \in Admins(o), e \in Emails :
    /\ e # a
    /\ Begin(r, [at |-> "role.read", email |-> e, org |-> o,
                 by |-> member[<<a, o>>].role, role |-> role])
    /\ OnlyReads

Target(r) == <<req[r].email, req[r].org>>

RemoveRead(r) ==
  Read(r, "remove.read",
       /\ IsActive(req[r].email, req[r].org)
       /\ MayTouch(req[r].by, member[Target(r)].role),
       "remove.commit")

RemoveCommit(r) ==
  /\ req[r].at = "remove.commit"
  /\ member' = [member EXCEPT ![Target(r)].active = FALSE]
  /\ Commit(r)
  /\ UNCHANGED <<users, orgs, invite>>

\* Setting the role a member already has writes nothing.
RoleRead(r) ==
  Read(r, "role.read",
       /\ IsActive(req[r].email, req[r].org)
       /\ MayTouch(req[r].by, member[Target(r)].role)
       /\ member[Target(r)].role # req[r].role,
       "role.commit")

RoleCommit(r) ==
  /\ req[r].at = "role.commit"
  /\ member' = [member EXCEPT ![Target(r)].role = req[r].role]
  /\ Commit(r)
  /\ UNCHANGED <<users, orgs, invite>>

Managing(r) == \/ StartRemove(r) \/ RemoveRead(r) \/ RemoveCommit(r)
               \/ StartRole(r) \/ RoleRead(r) \/ RoleCommit(r)

----------------------------------------------------------------------------
Next == \E r \in Requests : \/ Signup(r) \/ Inviting(r)
                            \/ Accepting(r) \/ Managing(r) \/ Fail(r)

Spec == Init /\ [][Next]_vars

----------------------------------------------------------------------------
\* Properties that hold however requests overlap.

OwnersOf(o) ==
  {e \in users : <<e, o>> \in DOMAIN member /\ member[<<e, o>>].role = "owner"}

\* An organization has one owner at every moment, and that owner is an active
\* member: no race of invites, removals and role changes leaves it without
\* one, adds a second, or gives the role to somebody else's row
\* (organization_service.py:166 and 194, auth_service.py:351-363).
OneOwnerPerOrg ==
  \A o \in orgs : \E e \in users :
    OwnersOf(o) = {e} /\ member[<<e, o>>].active

\* An owner is active in no other organization: the one-organization policy of
\* auth_service.py:330 survives overlapping accepts for the accounts that own one.
OwnersBelongNowhereElse ==
  \A o, p \in orgs : \A e \in OwnersOf(o) : p # o => ~IsActive(e, p)

\* No account is left over from a signup or an accept that failed half way:
\* every user has a membership row, and rows and invites name what exists.
EveryAccountWasPlaced ==
  /\ \A e \in users : \E o \in orgs : <<e, o>> \in DOMAIN member
  /\ \A m \in DOMAIN member : m[1] \in users /\ m[2] \in orgs
  /\ \A i \in DOMAIN invite : invite[i].org \in orgs

\* A membership other than an owner's was granted by an invite of that
\* organization to that address, and an invite marked accepted did grant one
\* (auth_service.py:351-364).
MembershipsComeFromInvites ==
  /\ \A m \in DOMAIN member : member[m].role # "owner" =>
       \E i \in DOMAIN invite :
         invite[i].accepted /\ <<invite[i].email, invite[i].org>> = m
  /\ \A i \in DOMAIN invite : invite[i].accepted =>
       <<invite[i].email, invite[i].org>> \in DOMAIN member

\* What a request has read still carries its commit, whatever committed in
\* between: an account stays an account, an account that owned no other
\* organization still owns none, and the row about to be restored, removed or
\* given a role is there and is not an owner's (auth_service.py:310-356,
\* organization_service.py:152-200).
KnownSteps == AcceptSteps \ {"accept.user", "accept.newcomer"}
Footing(r) ==
  /\ req[r].at \in InviteSteps => req[r].org \in orgs
  /\ req[r].at \in AcceptSteps => req[r].invite \in DOMAIN invite
  /\ req[r].at \in KnownSteps => Accepted(r).email \in users
  /\ req[r].at \in KnownSteps \ {"accept.elsewhere"} =>
       \A o \in orgs \ {Accepted(r).org} : Accepted(r).email \notin OwnersOf(o)
  /\ req[r].at \in {"accept.restore", "accept.undelete"} =>
       Joining(r) \in DOMAIN member /\ member[Joining(r)].role # "owner"
  /\ req[r].at \in {"remove.commit", "role.commit"} =>
       Target(r) \in DOMAIN member /\ member[Target(r)].role # "owner"
ReadsStayTrue == \A r \in Requests : Footing(r)

\* Ownership, as an instance of the registry.
Owner(o) == CHOOSE e \in OwnersOf(o) : TRUE
Registry == INSTANCE OrgRegistry WITH
  Accounts <- Emails, OrgNames <- Slugs, ownerOf <- [o \in orgs |-> Owner(o)]

\* Organizations come with their owner, keep that owner for ever, and no
\* account ever owns two (auth_service.py:46-114 against everything else).
OwnershipIsARegistry == Registry!Spec

\* The rank rule of a pending removal or role change, at the row's present role.
RankHolds(r) ==
  req[r].at \in {"remove.commit", "role.commit"} /\ req[r].by = "admin"
    => member[Target(r)].role \notin AdminRoles

\* Request s makes the member of row m an admin.
Promotes(s, m) == \/ RoleCommit(s) /\ Target(s) = m /\ req[s].role = "admin"
                  \/ AcceptRestore(s) /\ Joining(s) = m /\ Accepted(s).role = "admin"

\* The rank an admin's removal or role change has read is overtaken by one thing
\* only: another request that commits, meanwhile, the promotion of that very member,
\* by a role change or by an invite that restores him.  Neither the request itself
\* nor any other invite, removal or failure brings an admin to touch an admin
\* (organization_service.py:169-173 and 197-201, auth_service.py:355-356).
PromotionsAloneOvertake ==
  [][\A r \in Requests : RankHolds(r) /\ ~RankHolds(r)' =>
       \E s \in Requests \ {r} : Promotes(s, Target(r))]_vars

----------------------------------------------------------------------------
\* Properties that the code claims and loses when requests overlap.

\* "Check for any active membership in any org -- one account, one org policy"
\* (auth_service.py:330): an account is active in at most one organization.
OneAccountOneOrg ==
  \A e \in users : \A o, p \in orgs : IsActive(e, o) /\ IsActive(e, p) => o = p

\* At most one invite of an organization waits for an address: the second one
\* is refused, "A pending invite already exists" (organization_service.py:87).
SinglePendingInvite ==
  \A i, j \in DOMAIN invite :
    /\ ~invite[i].accepted /\ ~invite[j].accepted
    /\ invite[i].email = invite[j].email /\ invite[i].org = invite[j].org
    => i = j

\* An admin never removes or demotes somebody who is an admin at that moment:
\* "Admins cannot remove other admins" (organization_service.py:170 and 198).
AdminsDoNotTouchAdmins ==
  [][\A r \in Requests :
       (RemoveCommit(r) \/ RoleCommit(r)) /\ req[r].by = "admin"
         => req[r].email \notin Admins(req[r].org)]_vars
============================================================================
