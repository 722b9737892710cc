--------------------------- MODULE TenancyProofs ---------------------------
(***************************************************************************)
(* Proofs about Tenancy for every set of addresses, slugs, invites and     *)
(* overlapping requests: first what holds in every interleaving (IInv),    *)
(* and the refinement of OrgRegistry; then how far overlap can go, which   *)
(* is as many organizations of an account, and as many invites of an       *)
(* address, as there are requests (Reach, Budgeted), hence one of each     *)
(* when requests do not overlap; and that an admin's rank is overtaken by  *)
(* nothing but the promotion of the member he acts on (RankHolds).         *)
(***************************************************************************)
EXTENDS Tenancy, FiniteSetTheorems, TLAPS

\* The step a request is at tells which handler it belongs to.
LEMMA RequestKind ==
  ASSUME NEW q \in Request
  PROVE  /\ q.at \in SignupSteps => q \in SignupRequest
         /\ q.at \in InviteSteps => q \in InviteRequest
         /\ q.at \in AcceptSteps => q \in AcceptRequest
         /\ q.at \in RemoveSteps => q \in RemoveRequest
         /\ q.at \in RoleSteps   => q \in RoleRequest
BY DEF Request, Idle, SignupRequest, SignupSteps, InviteRequest, InviteSteps,
  AcceptRequest, AcceptSteps, RemoveRequest, RemoveSteps, RoleRequest, RoleSteps


LEMMA GotoKeepsRequest ==
  ASSUME NEW r \in Requests, NEW step, req \in [Requests -> Request],
         \/ req[r].at \in SignupSteps /\ step \in SignupSteps
         \/ req[r].at \in InviteSteps /\ step \in InviteSteps
         \/ req[r].at \in AcceptSteps /\ step \in AcceptSteps
         \/ req[r].at \in RemoveSteps /\ step \in RemoveSteps
         \/ req[r].at \in RoleSteps   /\ step \in RoleSteps,
         Goto(r, step)
  PROVE  req' \in [Requests -> Request]
<1> DEFINE q == [req[r] EXCEPT !.at = step]
<1>1. q \in Request
  BY SMT DEF Request, Idle, SignupRequest, InviteRequest, AcceptRequest,
    RemoveRequest, RoleRequest, SignupSteps, InviteSteps, AcceptSteps,
    RemoveSteps, RoleSteps
<1>2. req' = [req EXCEPT ![r] = q]
  BY DEF Goto
<1> QED BY <1>1, <1>2

----------------------------------------------------------------------------
\* The inductive invariant.
IInv == /\ TypeOK
        /\ EveryAccountWasPlaced
        /\ OneOwnerPerOrg
        /\ OwnersBelongNowhereElse
        /\ ReadsStayTrue

\* What every step leaves of the tables: rows and invites stay, a row that is
\* not an owner's never becomes one, and only a new account owns a new
\* organization.
TablesGrow ==
  /\ users \subseteq users'
  /\ orgs \subseteq orgs'
  /\ DOMAIN member \subseteq DOMAIN member'
  /\ \A m \in DOMAIN member : member[m].role # "owner" => member'[m].role # "owner"
  /\ \A o \in orgs : OwnersOf(o)' \subseteq OwnersOf(o)
  /\ \A o \in orgs' \ orgs : OwnersOf(o)' \intersect users = {}
  /\ DOMAIN invite \subseteq DOMAIN invite'
  /\ \A i \in DOMAIN invite :
       invite'[i].email = invite[i].email /\ invite'[i].org = invite[i].org

GoodStep == IInv' /\ TablesGrow

LEMMA NoChangeGrows ==
  ASSUME TypeOK, UNCHANGED <<users, orgs, member, invite>>
  PROVE  TablesGrow
BY DEF TypeOK, TablesGrow, OwnersOf

\* A request that does not move keeps its footing.
LEMMA FootingFramed ==
  ASSUME TypeOK, EveryAccountWasPlaced, TablesGrow, NEW r \in Requests,
         req'[r] = req[r], Footing(r)
  PROVE  Footing(r)'
<1>1. req[r].at \in InviteSteps => req'[r].org \in orgs'
  BY DEF TablesGrow, Footing
<1>2. ASSUME req[r].at \in AcceptSteps
      PROVE  /\ req'[r].invite \in DOMAIN invite'
             /\ Accepted(r)'.email = Accepted(r).email
             /\ Accepted(r)'.org = Accepted(r).org
  BY <1>2 DEF TablesGrow, Footing, Accepted
<1>3. ASSUME req[r].at \in KnownSteps
      PROVE  Accepted(r)'.email \in users'
  BY <1>2, <1>3 DEF TablesGrow, Footing, KnownSteps
<1>4. ASSUME req[r].at \in KnownSteps \ {"accept.elsewhere"}
      PROVE  \A o \in orgs' \ {Accepted(r)'.org} : Accepted(r)'.email \notin OwnersOf(o)'
  BY <1>2, <1>4 DEF TablesGrow, Footing, KnownSteps
<1>5. ASSUME req[r].at \in {"accept.restore", "accept.undelete"}
      PROVE  Joining(r)' \in DOMAIN member' /\ member'[Joining(r)'].role # "owner"
  BY <1>2, <1>5 DEF TablesGrow, Footing, KnownSteps, AcceptSteps, Joining
<1>6. ASSUME req[r].at \in {"remove.commit", "role.commit"}
      PROVE  Target(r)' \in DOMAIN member' /\ member'[Target(r)'].role # "owner"
  BY <1>6 DEF TablesGrow, Footing, Target
<1> QED BY <1>1, <1>2, <1>3, <1>4, <1>5, <1>6 DEF Footing
LEMMA IdleFooting ==
  ASSUME NEW r \in Requests, req'[r] = Idle
  PROVE  Footing(r)'
BY DEF Footing, Idle, InviteSteps, AcceptSteps, KnownSteps

\* Request r moves to q, the others stay.
Moves(r, q) == req' = [req EXCEPT ![r] = q]

\* A step that only reads preserves the invariant if the request is typed and
\* has its footing after it.
LEMMA ReadingStep ==
  ASSUME IInv, NEW r \in Requests, NEW q \in Request, Moves(r, q),
         UNCHANGED <<users, orgs, member, invite>>, Footing(r)'
  PROVE  GoodStep
<1>1. TypeOK'
  BY DEF IInv, TypeOK, Moves
<1>2. EveryAccountWasPlaced' /\ OneOwnerPerOrg' /\ OwnersBelongNowhereElse'
  BY DEF IInv, EveryAccountWasPlaced, OneOwnerPerOrg, OwnersBelongNowhereElse,
    OwnersOf, IsActive
<1>3. ReadsStayTrue'
  <2>1. TablesGrow
    BY NoChangeGrows DEF IInv
  <2>2. ASSUME NEW p \in Requests, p # r
        PROVE  Footing(p)'
    <3>1. req'[p] = req[p]
      BY <2>2 DEF IInv, TypeOK, Moves
    <3> QED BY <2>1, <3>1, FootingFramed DEF IInv, ReadsStayTrue
  <2> QED BY <2>2 DEF ReadsStayTrue
<1> QED BY <1>1, <1>2, <1>3, NoChangeGrows DEF IInv, GoodStep

\* Writing a row that neither was nor becomes an owner's, for an account that
\* owns nothing elsewhere if the row is active.
NonOwnerWrite(e, o, row) ==
  /\ e \in Emails /\ o \in orgs
  /\ users' = users \union {e}
  /\ orgs' = orgs
  /\ member' = With(member, <<e, o>>, row)
  /\ row \in Membership /\ row.role # "owner"
  /\ <<e, o>> \in DOMAIN member => member[<<e, o>>].role # "owner"
  /\ row.active => \A p \in orgs \ {o} : e \notin OwnersOf(p)

LEMMA NonOwnerWriteKeepsTables ==
  ASSUME TypeOK, EveryAccountWasPlaced, OneOwnerPerOrg, OwnersBelongNowhereElse,
         NEW e, NEW o, NEW row, NonOwnerWrite(e, o, row),
         \A i \in DOMAIN invite' : invite'[i].org \in orgs
  PROVE  /\ users' \subseteq Emails /\ orgs' \subseteq Slugs
         /\ DOMAIN member' \subseteq Emails \X Slugs
         /\ member' \in [DOMAIN member' -> Membership]
         /\ \A p \in orgs : OwnersOf(p)' = OwnersOf(p)
         /\ EveryAccountWasPlaced'
         /\ OneOwnerPerOrg'
         /\ OwnersBelongNowhereElse'
<1> USE DEF NonOwnerWrite
<1>0. /\ DOMAIN member' = DOMAIN member \union {<<e, o>>}
      /\ member'[<<e, o>>] = row
      /\ \A m \in DOMAIN member : m # <<e, o>> => member'[m] = member[m]
  BY DEF With
<1>1. /\ users' \subseteq Emails /\ orgs' \subseteq Slugs
      /\ DOMAIN member' \subseteq Emails \X Slugs
  BY <1>0 DEF TypeOK
<1>2. member' \in [DOMAIN member' -> Membership]
  BY DEF TypeOK, With
<1>3. \A p \in orgs : OwnersOf(p)' = OwnersOf(p)
  <2> SUFFICES ASSUME NEW p \in orgs, NEW u
               PROVE  u \in OwnersOf(p)' <=> u \in OwnersOf(p)
    OBVIOUS
  <2>1. <<u, p>> # <<e, o>> => (<<u, p>> \in DOMAIN member' <=> <<u, p>> \in DOMAIN member)
    BY <1>0
  <2>2. <<u, p>> \in DOMAIN member => u \in users
    BY DEF EveryAccountWasPlaced
  <2> QED BY <1>0, <2>1, <2>2 DEF OwnersOf
<1>4. EveryAccountWasPlaced'
  <2>1. \A u \in users' : \E p \in orgs' : <<u, p>> \in DOMAIN member'
    BY <1>0 DEF EveryAccountWasPlaced
  <2>2. \A m \in DOMAIN member' : m[1] \in users' /\ m[2] \in orgs'
    BY <1>0 DEF EveryAccountWasPlaced
  <2> QED BY <2>1, <2>2 DEF EveryAccountWasPlaced
<1>5. OneOwnerPerOrg'
  <2> SUFFICES ASSUME NEW p \in orgs
               PROVE  \E u \in users' : OwnersOf(p)' = {u} /\ member'[<<u, p>>].active
    BY DEF OneOwnerPerOrg
  <2>1. PICK u \in users : OwnersOf(p) = {u} /\ member[<<u, p>>].active
    BY DEF OneOwnerPerOrg
  <2>2. <<u, p>> \in DOMAIN member /\ member[<<u, p>>].role = "owner"
    BY <2>1 DEF OwnersOf
  <2> QED BY <1>0, <1>3, <2>1, <2>2
<1>6. OwnersBelongNowhereElse'
  <2> SUFFICES ASSUME NEW p \in orgs, NEW q \in orgs, NEW u \in OwnersOf(p), p # q,
                      IsActive(u, q)'
               PROVE  FALSE
    BY <1>3 DEF OwnersBelongNowhereElse
  <2>1. CASE <<u, q>> = <<e, o>>
    BY <1>0, <2>1 DEF IsActive
  <2>2. CASE <<u, q>> # <<e, o>>
    BY <1>0, <2>2 DEF IsActive, OwnersBelongNowhereElse
  <2> QED BY <2>1, <2>2
<1> QED BY <1>1, <1>2, <1>3, <1>4, <1>5, <1>6
\* The invites of a step that changes none of their addresses and organizations.
InvitesKept ==
  /\ DOMAIN invite' = DOMAIN invite
  /\ invite' \in [DOMAIN invite' -> Invite]
  /\ \A i \in DOMAIN invite :
       invite'[i].email = invite[i].email /\ invite'[i].org = invite[i].org

\* A commit that writes such a row ends its request and preserves the invariant.
LEMMA NonOwnerCommit ==
  ASSUME IInv, NEW r \in Requests, Moves(r, Idle), InvitesKept,
         NEW e, NEW o, NEW row, NonOwnerWrite(e, o, row)
  PROVE  GoodStep
<1>1. \A i \in DOMAIN invite' : invite'[i].org \in orgs
  BY DEF IInv, EveryAccountWasPlaced, InvitesKept
<1>2. /\ users' \subseteq Emails /\ orgs' \subseteq Slugs
      /\ DOMAIN member' \subseteq Emails \X Slugs
      /\ member' \in [DOMAIN member' -> Membership]
      /\ \A p \in orgs : OwnersOf(p)' = OwnersOf(p)
      /\ EveryAccountWasPlaced'
      /\ OneOwnerPerOrg'
      /\ OwnersBelongNowhereElse'
  BY <1>1, NonOwnerWriteKeepsTables DEF IInv
<1>3. TypeOK'
  BY <1>2 DEF IInv, TypeOK, InvitesKept, Moves, Request
<1>4. TablesGrow
  <2>1. /\ DOMAIN member' = DOMAIN member \union {<<e, o>>}
        /\ member'[<<e, o>>] = row
        /\ \A m \in DOMAIN member : m # <<e, o>> => member'[m] = member[m]
    BY DEF NonOwnerWrite, With
  <2> QED BY <1>2, <2>1 DEF TablesGrow, NonOwnerWrite, InvitesKept
<1>5. ReadsStayTrue'
  <2>1. req'[r] = Idle /\ \A q \in Requests \ {r} : req'[q] = req[q]
    BY DEF IInv, TypeOK, Moves
  <2>2. ASSUME NEW q \in Requests, q # r
        PROVE  Footing(q)'
    BY <2>1, <2>2, <1>4, FootingFramed DEF IInv, ReadsStayTrue
  <2> QED BY <2>1, <2>2, IdleFooting DEF ReadsStayTrue
<1> QED BY <1>2, <1>3, <1>4, <1>5 DEF IInv, GoodStep

----------------------------------------------------------------------------
\* One lemma per handler.

LEMMA MovesByGoto ==
  ASSUME NEW r \in Requests, req \in [Requests -> Request], NEW step, Goto(r, step)
  PROVE  /\ req'[r] = [req[r] EXCEPT !.at = step]
         /\ Moves(r, req'[r])
BY DEF Goto, Moves

\* What a passed check leaves, for any of the checks: the same request, one
\* step further.
LEMMA ReadMoves ==
  ASSUME TypeOK, NEW r \in Requests, NEW at, NEW step, NEW check,
         Read(r, at, check, step),
         \/ at \in SignupSteps /\ step \in SignupSteps
         \/ at \in InviteSteps /\ step \in InviteSteps
         \/ at \in AcceptSteps /\ step \in AcceptSteps
         \/ at \in RemoveSteps /\ step \in RemoveSteps
         \/ at \in RoleSteps   /\ step \in RoleSteps
  PROVE  /\ req[r].at = at /\ check
         /\ req'[r] \in Request
         /\ Moves(r, req'[r])
         /\ req'[r] = [req[r] EXCEPT !.at = step]
         /\ UNCHANGED <<users, orgs, member, invite>>
<1>1. req' \in [Requests -> Request]
  BY GotoKeepsRequest DEF TypeOK, Read
<1> QED BY <1>1, MovesByGoto DEF TypeOK, Read, OnlyReads

LEMMA SignupPreserves ==
  ASSUME IInv, NEW r \in Requests, Signup(r)
  PROVE  GoodStep
<1>1. CASE StartSignup(r)
  <2>1. PICK e \in Founders, n \in Names :
          Begin(r, [at |-> "signup.slug", email |-> e, name |-> n, k |-> 0])
    BY <1>1 DEF StartSignup
  <2> DEFINE q == [at |-> "signup.slug", email |-> e, name |-> n, k |-> 0]
  <2>2. q \in Request
    BY SlugsAssumption DEF Request, SignupRequest, SignupSteps
  <2>3. Moves(r, q) /\ req'[r] = q
    BY <2>1 DEF Begin, Moves, IInv, TypeOK
  <2>4. Footing(r)'
    BY <2>3 DEF Footing, InviteSteps, AcceptSteps, KnownSteps
  <2> QED BY <1>1, <2>2, <2>3, <2>4, ReadingStep DEF StartSignup, OnlyReads
<1>2. CASE TakeSlug(r)
  <2>1. /\ req[r].at = "signup.slug" /\ req'[r] \in Request /\ Moves(r, req'[r])
        /\ req'[r] = [req[r] EXCEPT !.at = "signup.commit"]
        /\ UNCHANGED <<users, orgs, member, invite>>
    BY <1>2, ReadMoves DEF TakeSlug, IInv, SignupSteps
  <2>2. req'[r].at = "signup.commit"
    BY <2>1 DEF IInv, TypeOK, Request, Idle, SignupRequest, InviteRequest,
      AcceptRequest, RemoveRequest, RoleRequest
  <2>3. Footing(r)'
    BY <2>2 DEF Footing, InviteSteps, AcceptSteps, KnownSteps
  <2> QED BY <2>1, <2>3, ReadingStep
<1>3. CASE NextSlug(r)
  <2>1. req[r] \in SignupRequest /\ req[r].k < MaxSuffix
    BY <1>3, RequestKind DEF NextSlug, SignupSteps, IInv, TypeOK
  <2> DEFINE q == [req[r] EXCEPT !.k = @ + 1]
  <2>2. q \in Request /\ q.at = "signup.slug"
    BY <1>3, <2>1, SlugsAssumption DEF NextSlug, Request, SignupRequest
  <2>3. Moves(r, q) /\ req'[r] = q
    BY <1>3 DEF NextSlug, Moves, IInv, TypeOK
  <2>4. Footing(r)'
    BY <2>2, <2>3 DEF Footing, InviteSteps, AcceptSteps, KnownSteps
  <2> QED BY <1>3, <2>2, <2>3, <2>4, ReadingStep DEF NextSlug, OnlyReads
<1>4. CASE SignupCommit(r)
  <2> DEFINE row == [role |-> "owner", active |-> TRUE]
  <2>0. req[r] \in SignupRequest
    BY <1>4, RequestKind DEF SignupCommit, SignupSteps, IInv, TypeOK
  <2>1. PICK e \in Emails, o \in Slugs :
          e = req[r].email /\ o = SignupSlug(req[r]) /\ e \notin users /\ o \notin orgs
    <3>1. req[r].email \in Emails /\ SignupSlug(req[r]) \in Slugs
      BY <2>0, EmailsAssumption, SlugsAssumption DEF SignupRequest, SignupSlug
    <3> QED BY <1>4, <3>1 DEF SignupCommit, SignupConflict
  <2>2. /\ users' = users \union {e}
        /\ orgs' = orgs \union {o}
        /\ member' = With(member, <<e, o>>, row)
        /\ invite' = invite
        /\ Moves(r, Idle)
    BY <1>4, <2>1 DEF SignupCommit, Commit, Moves
  <2>3. /\ DOMAIN member' = DOMAIN member \union {<<e, o>>}
        /\ member'[<<e, o>>] = row
        /\ <<e, o>> \notin DOMAIN member
        /\ \A m \in DOMAIN member : member'[m] = member[m]
        /\ \A m \in DOMAIN member : m[1] \in users /\ m[2] \in orgs
    BY <2>1, <2>2 DEF With, IInv, EveryAccountWasPlaced
  <2>4. TypeOK'
    <3>1. row \in Membership
      BY DEF Membership, Roles
    <3>2. member' \in [DOMAIN member' -> Membership]
      BY <2>2, <3>1 DEF With, IInv, TypeOK
    <3> QED BY <2>1, <2>2, <2>3, <3>2 DEF IInv, TypeOK, Moves, Request
  <2>5. /\ \A p \in orgs : OwnersOf(p)' = OwnersOf(p)
        /\ OwnersOf(o)' = {e}
    <3>1. ASSUME NEW p \in orgs, NEW u
          PROVE  u \in OwnersOf(p)' <=> u \in OwnersOf(p)
      <4>1. <<u, p>> # <<e, o>>
        BY <2>1
      <4>2. <<u, p>> \in DOMAIN member => u \in users
        BY <2>3
      <4> QED BY <2>2, <2>3, <4>1, <4>2 DEF OwnersOf
    <3>2. ASSUME NEW u
          PROVE  u \in OwnersOf(o)' <=> u = e
      <4>1. <<u, o>> \notin DOMAIN member
        BY <2>1, <2>3
      <4> QED BY <2>2, <2>3, <4>1 DEF OwnersOf
    <3> QED BY <3>1, <3>2
  <2>6. EveryAccountWasPlaced'
    <3>1. \A u \in users' : \E p \in orgs' : <<u, p>> \in DOMAIN member'
      BY <2>2, <2>3 DEF IInv, EveryAccountWasPlaced
    <3>2. \A m \in DOMAIN member' : m[1] \in users' /\ m[2] \in orgs'
      BY <2>2, <2>3
    <3>3. \A i \in DOMAIN invite' : invite'[i].org \in orgs'
      BY <2>2 DEF IInv, EveryAccountWasPlaced
    <3> QED BY <3>1, <3>2, <3>3 DEF EveryAccountWasPlaced
  <2>7. OneOwnerPerOrg'
    <3>1. ASSUME NEW p \in orgs
          PROVE  \E u \in users' : OwnersOf(p)' = {u} /\ member'[<<u, p>>].active
      <4>1. PICK u \in users : OwnersOf(p) = {u} /\ member[<<u, p>>].active
        BY DEF IInv, OneOwnerPerOrg
      <4>2. <<u, p>> \in DOMAIN member
        BY <4>1 DEF OwnersOf
      <4> QED BY <2>2, <2>3, <2>5, <4>1, <4>2
    <3>2. OwnersOf(o)' = {e} /\ member'[<<e, o>>].active
      BY <2>3, <2>5
    <3> QED BY <2>2, <3>1, <3>2 DEF OneOwnerPerOrg
  <2>8. OwnersBelongNowhereElse'
    <3> SUFFICES ASSUME NEW p \in orgs', NEW q \in orgs', NEW u \in OwnersOf(p)',
                        p # q, IsActive(u, q)'
                 PROVE  FALSE
      BY DEF OwnersBelongNowhereElse
    <3>1. CASE u = e
      BY <2>1, <2>2, <2>3, <2>5, <3>1 DEF IsActive, OwnersOf
    <3>2. CASE u # e
      <4>1. p \in orgs /\ u \in OwnersOf(p)
        BY <2>2, <2>5, <3>2
      <4>2. <<u, q>> \in DOMAIN member /\ member[<<u, q>>].active /\ q \in orgs
        BY <2>2, <2>3, <3>2 DEF IsActive
      <4> QED BY <4>1, <4>2 DEF IInv, OwnersBelongNowhereElse, IsActive
    <3> QED BY <3>1, <3>2
  <2>9. TablesGrow
    BY <2>1, <2>2, <2>3, <2>5 DEF TablesGrow
  <2>10. ReadsStayTrue'
    <3>1. req'[r] = Idle /\ \A q \in Requests \ {r} : req'[q] = req[q]
      BY <2>2 DEF IInv, TypeOK, Moves
    <3>2. ASSUME NEW q \in Requests, q # r
          PROVE  Footing(q)'
      BY <2>9, <3>1, <3>2, FootingFramed DEF IInv, ReadsStayTrue
    <3> QED BY <3>1, <3>2, IdleFooting DEF ReadsStayTrue
  <2> QED BY <2>4, <2>6, <2>7, <2>8, <2>9, <2>10 DEF IInv, GoodStep
<1> QED BY <1>1, <1>2, <1>3, <1>4 DEF Signup
LEMMA InvitingPreserves ==
  ASSUME IInv, NEW r \in Requests, Inviting(r)
  PROVE  GoodStep
<1>1. CASE StartInvite(r)
  <2>1. PICK o \in orgs, e \in Invitees, role \in RequestedRoles :
          Begin(r, [at |-> "invite.pending", email |-> e, org |-> o, role |-> role])
    BY <1>1 DEF StartInvite
  <2> DEFINE q == [at |-> "invite.pending", email |-> e, org |-> o, role |-> role]
  <2>2. q \in Request
    BY DEF Request, InviteRequest, InviteSteps, RequestedRoles, IInv, TypeOK
  <2>3. Moves(r, q) /\ req'[r] = q
    BY <2>1 DEF Begin, Moves, IInv, TypeOK
  <2>4. UNCHANGED <<users, orgs, member, invite>>
    BY <1>1 DEF StartInvite, OnlyReads
  <2>5. Footing(r)'
    BY <2>3, <2>4 DEF Footing, InviteSteps, AcceptSteps, KnownSteps
  <2> QED BY <2>2, <2>3, <2>4, <2>5, ReadingStep
<1>2. ASSUME NEW at \in InviteSteps, NEW step \in InviteSteps, NEW check,
             Read(r, at, check, step)
      PROVE  GoodStep
  <2>1. /\ req[r].at = at /\ req'[r] \in Request /\ Moves(r, req'[r])
        /\ req'[r] = [req[r] EXCEPT !.at = step]
        /\ UNCHANGED <<users, orgs, member, invite>>
    BY <1>2, ReadMoves DEF IInv
  <2>2. req[r] \in InviteRequest
    BY <2>1, RequestKind DEF IInv, TypeOK
  <2>3. req'[r].at = step /\ req'[r].org = req[r].org
    BY <2>1, <2>2 DEF InviteRequest
  <2>4. req[r].org \in orgs
    BY <2>1 DEF IInv, ReadsStayTrue, Footing
  <2>5. Footing(r)'
    BY <2>1, <2>3, <2>4 DEF Footing, InviteSteps, AcceptSteps, KnownSteps
  <2> QED BY <2>1, <2>5, ReadingStep
<1>3. CASE InvitePending(r) \/ InviteUser(r) \/ InviteMember(r) \/ InviteElsewhere(r)
  BY <1>2, <1>3 DEF InvitePending, InviteUser, InviteMember, InviteElsewhere, InviteSteps
<1>4. CASE InviteCommit(r)
  <2> DEFINE new == [email |-> req[r].email, org |-> req[r].org, role |-> req[r].role,
                     accepted |-> FALSE]
  <2>1. PICK i \in InviteIds \ DOMAIN invite :
          /\ invite' = With(invite, i, new)
          /\ Moves(r, Idle)
          /\ UNCHANGED <<users, orgs, member>>
    BY <1>4 DEF InviteCommit, Commit, Moves
  <2>2. req[r] \in InviteRequest /\ req[r].org \in orgs
    BY <1>4, RequestKind DEF InviteCommit, InviteSteps, IInv, TypeOK, ReadsStayTrue, Footing
  <2>3. new \in Invite
    BY <2>2 DEF InviteRequest, Invite
  <2>4. /\ DOMAIN invite' = DOMAIN invite \union {i}
        /\ invite' \in [DOMAIN invite' -> Invite]
        /\ invite'[i] = new
        /\ \A j \in DOMAIN invite : invite'[j] = invite[j]
    BY <2>1, <2>3 DEF With, IInv, TypeOK
  <2>5. TypeOK'
    BY <2>1, <2>4 DEF IInv, TypeOK, Moves, Request
  <2>6. EveryAccountWasPlaced'
    <3>1. \A u \in users' : \E p \in orgs' : <<u, p>> \in DOMAIN member'
      BY <2>1 DEF IInv, EveryAccountWasPlaced
    <3>2. \A m \in DOMAIN member' : m[1] \in users' /\ m[2] \in orgs'
      BY <2>1 DEF IInv, EveryAccountWasPlaced
    <3>3. \A j \in DOMAIN invite' : invite'[j].org \in orgs'
      <4>1. invite'[i].org = req[r].org
        BY <2>4
      <4> QED BY <2>1, <2>2, <2>4, <4>1 DEF IInv, EveryAccountWasPlaced
    <3> QED BY <3>1, <3>2, <3>3 DEF EveryAccountWasPlaced
  <2>7. OneOwnerPerOrg' /\ OwnersBelongNowhereElse'
    BY <2>1 DEF IInv, OneOwnerPerOrg, OwnersBelongNowhereElse, OwnersOf, IsActive
  <2>8. TablesGrow
    BY <2>1, <2>4 DEF TablesGrow, OwnersOf
  <2>9. ReadsStayTrue'
    <3>1. req'[r] = Idle /\ \A q \in Requests \ {r} : req'[q] = req[q]
      BY <2>1 DEF IInv, TypeOK, Moves
    <3>2. ASSUME NEW q \in Requests, q # r
          PROVE  Footing(q)'
      BY <2>8, <3>1, <3>2, FootingFramed DEF IInv, ReadsStayTrue
    <3> QED BY <3>1, <3>2, IdleFooting DEF ReadsStayTrue
  <2> QED BY <2>5, <2>6, <2>7, <2>8, <2>9 DEF IInv, GoodStep
<1> QED BY <1>1, <1>3, <1>4 DEF Inviting

LEMMA OwnersAreActive ==
  ASSUME OneOwnerPerOrg, NEW o \in orgs, NEW e \in OwnersOf(o)
  PROVE  IsActive(e, o)
BY DEF OneOwnerPerOrg, OwnersOf, IsActive

\* The invite being accepted names an address and an existing organization.
LEMMA AcceptedInvite ==
  ASSUME IInv, NEW r \in Requests, req[r].at \in AcceptSteps
  PROVE  /\ req[r] \in AcceptRequest
         /\ req[r].invite \in DOMAIN invite
         /\ Accepted(r) \in Invite
         /\ Accepted(r).email \in Emails
         /\ Accepted(r).org \in orgs
<1>1. req[r] \in AcceptRequest /\ req[r].invite \in DOMAIN invite
  BY RequestKind DEF IInv, TypeOK, ReadsStayTrue, Footing
<1>2. Accepted(r) \in Invite /\ Accepted(r).org \in orgs
  BY <1>1 DEF Accepted, IInv, TypeOK, EveryAccountWasPlaced
<1> QED BY <1>1, <1>2, EmailsAssumption DEF Invite

LEMMA AcceptReadingPreserves ==
  ASSUME IInv, NEW r \in Requests,
         \/ StartAccept(r) \/ AcceptUser(r) \/ AcceptElsewhere(r)
         \/ AcceptMemberNone(r) \/ AcceptMemberDeleted(r)
  PROVE  GoodStep
<1>1. CASE StartAccept(r)
  <2>1. PICK i \in DOMAIN invite : Begin(r, [at |-> "accept.user", invite |-> i])
    BY <1>1 DEF StartAccept
  <2> DEFINE q == [at |-> "accept.user", invite |-> i]
  <2>2. q \in Request
    BY DEF Request, AcceptRequest, AcceptSteps, IInv, TypeOK
  <2>3. Moves(r, q) /\ req'[r] = q
    BY <2>1 DEF Begin, Moves, IInv, TypeOK
  <2>4. UNCHANGED <<users, orgs, member, invite>>
    BY <1>1 DEF StartAccept, OnlyReads
  <2>5. Footing(r)'
    BY <2>3, <2>4 DEF Footing, InviteSteps, AcceptSteps, KnownSteps
  <2> QED BY <2>2, <2>3, <2>4, <2>5, ReadingStep
<1>2. ASSUME NEW at \in AcceptSteps, NEW step \in AcceptSteps, NEW check,
             Read(r, at, check, step)
      PROVE  /\ req[r].at = at /\ check
             /\ req'[r] \in Request /\ Moves(r, req'[r])
             /\ req'[r].at = step /\ req'[r].invite = req[r].invite
             /\ UNCHANGED <<users, orgs, member, invite>>
             /\ Accepted(r)' = Accepted(r) /\ Joining(r)' = Joining(r)
             /\ \A o : OwnersOf(o)' = OwnersOf(o)
  <2>1. /\ req[r].at = at /\ check /\ req'[r] \in Request /\ Moves(r, req'[r])
        /\ req'[r] = [req[r] EXCEPT !.at = step]
        /\ UNCHANGED <<users, orgs, member, invite>>
    BY <1>2, ReadMoves DEF IInv
  <2>2. req[r] \in AcceptRequest
    BY <2>1, RequestKind DEF IInv, TypeOK
  <2>3. req'[r].at = step /\ req'[r].invite = req[r].invite
    BY <2>1, <2>2 DEF AcceptRequest
  <2> QED BY <2>1, <2>3 DEF Accepted, Joining, OwnersOf
<1>3. CASE AcceptUser(r)
  <2> DEFINE step == IF Accepted(r).email \in users THEN "accept.elsewhere"
                                                    ELSE "accept.newcomer"
  <2>1. step \in AcceptSteps /\ "accept.user" \in AcceptSteps
    BY DEF AcceptSteps
  <2>2. Footing(r)'
    BY <1>2, <1>3, <2>1, AcceptedInvite DEF AcceptUser, Footing, InviteSteps,
      AcceptSteps, KnownSteps
  <2> QED BY <1>2, <1>3, <2>1, <2>2, ReadingStep DEF AcceptUser
<1>4. CASE AcceptElsewhere(r)
  <2>1. "accept.elsewhere" \in AcceptSteps /\ "accept.member" \in AcceptSteps
    BY DEF AcceptSteps
  <2>2. /\ Accepted(r).email \in users
        /\ \A o \in orgs \ {Accepted(r).org} : ~IsActive(Accepted(r).email, o)
    BY <1>4 DEF AcceptElsewhere, Read, ActiveElsewhere, IInv, ReadsStayTrue, Footing,
      KnownSteps, AcceptSteps
  <2>3. \A o \in orgs \ {Accepted(r).org} : Accepted(r).email \notin OwnersOf(o)
    BY <2>2, OwnersAreActive DEF IInv
  <2>4. Footing(r)'
    BY <1>2, <1>4, <2>1, <2>2, <2>3, AcceptedInvite DEF AcceptElsewhere, Footing,
      InviteSteps, AcceptSteps, KnownSteps
  <2> QED BY <1>2, <1>4, <2>1, <2>4, ReadingStep DEF AcceptElsewhere
<1>5. ASSUME req[r].at = "accept.member"
      PROVE  /\ Accepted(r).email \in users
             /\ \A o \in orgs \ {Accepted(r).org} : Accepted(r).email \notin OwnersOf(o)
  BY <1>5 DEF IInv, ReadsStayTrue, Footing, KnownSteps, AcceptSteps
<1>6. CASE AcceptMemberNone(r)
  <2>1. "accept.member" \in AcceptSteps /\ "accept.join" \in AcceptSteps
    BY DEF AcceptSteps
  <2>2. Footing(r)'
    BY <1>2, <1>5, <1>6, <2>1, AcceptedInvite DEF AcceptMemberNone, Footing,
      InviteSteps, AcceptSteps, KnownSteps
  <2> QED BY <1>2, <1>6, <2>1, <2>2, ReadingStep DEF AcceptMemberNone
<1>7. CASE AcceptMemberDeleted(r)
  <2> DEFINE step == IF member[Joining(r)].role = Accepted(r).role
                       THEN "accept.undelete" ELSE "accept.restore"
  <2>1. step \in AcceptSteps /\ "accept.member" \in AcceptSteps
    BY DEF AcceptSteps
  <2>2. /\ req[r].at = "accept.member"
        /\ Joining(r) \in DOMAIN member /\ ~member[Joining(r)].active
    BY <1>7 DEF AcceptMemberDeleted, Read
  <2>3. member[Joining(r)].role # "owner"
    <3>1. Accepted(r).org \in orgs /\ Accepted(r).email \in users
      BY <1>5, <2>1, <2>2, AcceptedInvite
    <3> QED BY <2>2, <3>1, OwnersAreActive DEF Joining, IInv, OwnersOf, IsActive
  <2>4. Footing(r)'
    BY <1>2, <1>5, <1>7, <2>1, <2>2, <2>3, AcceptedInvite DEF AcceptMemberDeleted,
      Footing, InviteSteps, AcceptSteps, KnownSteps
  <2> QED BY <1>2, <1>7, <2>1, <2>4, ReadingStep DEF AcceptMemberDeleted
<1> QED BY <1>1, <1>3, <1>4, <1>6, <1>7
LEMMA AcceptCommitPreserves ==
  ASSUME IInv, NEW r \in Requests,
         \/ AcceptNewcomer(r) \/ AcceptJoin(r) \/ AcceptRestore(r) \/ AcceptUndelete(r)
  PROVE  GoodStep
<1>1. PICK e \in Emails, o \in orgs :
        /\ e = Accepted(r).email /\ o = Accepted(r).org
        /\ Joining(r) = <<e, o>>
        /\ req[r].invite \in DOMAIN invite
        /\ Accepted(r) \in Invite
  BY AcceptedInvite DEF AcceptNewcomer, AcceptJoin, AcceptRestore, AcceptUndelete,
    AcceptSteps, Joining
<1>2. InvitedAs(r) \in Membership /\ InvitedAs(r).role # "owner"
  BY <1>1, RolesAssumption DEF InvitedAs, Invite, Membership, Roles
<1>3. ASSUME NEW row, AcceptCommit(r, row)
      PROVE  /\ Moves(r, Idle) /\ InvitesKept /\ orgs' = orgs
             /\ member' = With(member, <<e, o>>, row)
  BY <1>1, <1>3 DEF AcceptCommit, Commit, Moves, InvitesKept, Invite, IInv, TypeOK
<1>4. CASE AcceptNewcomer(r)
  <2>1. users' = users \union {e} /\ e \notin users
    BY <1>1, <1>4 DEF AcceptNewcomer
  <2>2. <<e, o>> \notin DOMAIN member /\ \A p \in orgs : e \notin OwnersOf(p)
    BY <2>1 DEF IInv, EveryAccountWasPlaced, OwnersOf
  <2>3. NonOwnerWrite(e, o, InvitedAs(r))
    BY <1>2, <1>3, <1>4, <2>1, <2>2 DEF AcceptNewcomer, NonOwnerWrite
  <2> QED BY <1>3, <1>4, <2>3, NonOwnerCommit DEF AcceptNewcomer
<1>5. ASSUME req[r].at \in {"accept.join", "accept.restore", "accept.undelete"}
      PROVE  /\ users = users \union {e}
             /\ \A p \in orgs \ {o} : e \notin OwnersOf(p)
             /\ req[r].at # "accept.join" =>
                  <<e, o>> \in DOMAIN member /\ member[<<e, o>>].role # "owner"
  <2>1. e \in users
    BY <1>1, <1>5 DEF IInv, ReadsStayTrue, Footing, KnownSteps, AcceptSteps
  <2>2. \A p \in orgs \ {o} : e \notin OwnersOf(p)
    BY <1>1, <1>5 DEF IInv, ReadsStayTrue, Footing, KnownSteps, AcceptSteps
  <2>3. req[r].at # "accept.join" =>
          <<e, o>> \in DOMAIN member /\ member[<<e, o>>].role # "owner"
    BY <1>1, <1>5 DEF IInv, ReadsStayTrue, Footing
  <2> QED BY <2>1, <2>2, <2>3
<1>6. CASE AcceptJoin(r)
  <2>1. NonOwnerWrite(e, o, InvitedAs(r))
    BY <1>1, <1>2, <1>3, <1>5, <1>6 DEF AcceptJoin, NonOwnerWrite
  <2> QED BY <1>3, <1>6, <2>1, NonOwnerCommit DEF AcceptJoin
<1>7. CASE AcceptRestore(r)
  <2>1. NonOwnerWrite(e, o, InvitedAs(r))
    BY <1>1, <1>2, <1>3, <1>5, <1>7 DEF AcceptRestore, NonOwnerWrite
  <2> QED BY <1>3, <1>7, <2>1, NonOwnerCommit DEF AcceptRestore
<1>8. CASE AcceptUndelete(r)
  <2> DEFINE row == [member[Joining(r)] EXCEPT !.active = TRUE]
  <2>1. row \in Membership /\ row.role # "owner"
    BY <1>1, <1>5, <1>8 DEF AcceptUndelete, IInv, TypeOK, Membership
  <2>2. AcceptCommit(r, row) /\ users' = users
    BY <1>8 DEF AcceptUndelete
  <2>3. NonOwnerWrite(e, o, row)
    BY <1>1, <1>3, <1>5, <1>8, <2>1, <2>2 DEF AcceptUndelete, NonOwnerWrite
  <2> QED BY <1>3, <2>2, <2>3, NonOwnerCommit
<1> QED BY <1>4, <1>6, <1>7, <1>8

LEMMA ManagingReadingPreserves ==
  ASSUME IInv, NEW r \in Requests,
         \/ StartRemove(r) \/ RemoveRead(r) \/ StartRole(r) \/ RoleRead(r)
  PROVE  GoodStep
<1>1. ASSUME NEW q \in Request, Begin(r, q), OnlyReads,
             q.at = "remove.read" \/ q.at = "role.read"
      PROVE  GoodStep
  <2>1. Moves(r, q) /\ req'[r] = q
    BY <1>1 DEF Begin, Moves, IInv, TypeOK
  <2>2. Footing(r)'
    BY <1>1, <2>1 DEF Footing, InviteSteps, AcceptSteps, KnownSteps
  <2> QED BY <1>1, <2>1, <2>2, ReadingStep DEF OnlyReads
<1>2. CASE StartRemove(r)
  <2>1. PICK o \in orgs : \E a \in Admins(o) : \E e \in Emails \ {a} :
          Begin(r, [at |-> "remove.read", email |-> e, org |-> o,
                    by |-> member[<<a, o>>].role])
    BY <1>2 DEF StartRemove
  <2>2. PICK a \in Admins(o), e \in Emails :
          Begin(r, [at |-> "remove.read", email |-> e, org |-> o,
                    by |-> member[<<a, o>>].role])
    BY <2>1
  <2> DEFINE q == [at |-> "remove.read", email |-> e, org |-> o,
                   by |-> member[<<a, o>>].role]
  <2>3. q \in Request /\ q.at = "remove.read"
    BY DEF Admins, Request, RemoveRequest, RemoveSteps, IInv, TypeOK
  <2>4. OnlyReads
    BY <1>2 DEF StartRemove
  <2> QED BY <1>1, <2>2, <2>3, <2>4
<1>3. CASE StartRole(r)
  <2>1. PICK o \in orgs, role \in RequestedRoles :
          \E a \in Admins(o) : \E e \in Emails \ {a} :
            Begin(r, [at |-> "role.read", email |-> e, org |-> o,
                      by |-> member[<<a, o>>].role, role |-> role])
    BY <1>3 DEF StartRole
  <2>2. PICK a \in Admins(o), e \in Emails :
          Begin(r, [at |-> "role.read", email |-> e, org |-> o,
                    by |-> member[<<a, o>>].role, role |-> role])
    BY <2>1
  <2> DEFINE q == [at |-> "role.read", email |-> e, org |-> o,
                   by |-> member[<<a, o>>].role, role |-> role]
  <2>3. q \in Request /\ q.at = "role.read"
    BY DEF Admins, RequestedRoles, Request, RoleRequest, RoleSteps, IInv, TypeOK
  <2>4. OnlyReads
    BY <1>3 DEF StartRole
  <2> QED BY <1>1, <2>2, <2>3, <2>4
<1>4. ASSUME NEW step \in {"remove.commit", "role.commit"},
             req'[r].at = step, Target(r)' = Target(r),
             UNCHANGED member,
             Target(r) \in DOMAIN member, member[Target(r)].role # "owner"
      PROVE  Footing(r)'
  BY <1>4 DEF Footing, InviteSteps, AcceptSteps, KnownSteps
<1>5. CASE RemoveRead(r)
  <2>1. /\ req[r].at = "remove.read" /\ req'[r] \in Request /\ Moves(r, req'[r])
        /\ req'[r] = [req[r] EXCEPT !.at = "remove.commit"]
        /\ UNCHANGED <<users, orgs, member, invite>>
    BY <1>5, ReadMoves DEF RemoveRead, RemoveSteps, IInv
  <2>2. req[r] \in RemoveRequest
    BY <2>1, RequestKind DEF RemoveSteps, IInv, TypeOK
  <2>3. req'[r].at = "remove.commit" /\ Target(r)' = Target(r)
    BY <2>1, <2>2 DEF RemoveRequest, Target
  <2>4. Target(r) \in DOMAIN member /\ member[Target(r)].role # "owner"
    BY <1>5 DEF RemoveRead, Read, IsActive, MayTouch, Target
  <2> QED BY <1>4, <2>1, <2>3, <2>4, ReadingStep
<1>6. CASE RoleRead(r)
  <2>1. /\ req[r].at = "role.read" /\ req'[r] \in Request /\ Moves(r, req'[r])
        /\ req'[r] = [req[r] EXCEPT !.at = "role.commit"]
        /\ UNCHANGED <<users, orgs, member, invite>>
    BY <1>6, ReadMoves DEF RoleRead, RoleSteps, IInv
  <2>2. req[r] \in RoleRequest
    BY <2>1, RequestKind DEF RoleSteps, IInv, TypeOK
  <2>3. req'[r].at = "role.commit" /\ Target(r)' = Target(r)
    BY <2>1, <2>2 DEF RoleRequest, Target
  <2>4. Target(r) \in DOMAIN member /\ member[Target(r)].role # "owner"
    BY <1>6 DEF RoleRead, Read, IsActive, MayTouch, Target
  <2> QED BY <1>4, <2>1, <2>3, <2>4, ReadingStep
<1> QED BY <1>2, <1>3, <1>5, <1>6

LEMMA ManagingCommitPreserves ==
  ASSUME IInv, NEW r \in Requests, RemoveCommit(r) \/ RoleCommit(r)
  PROVE  GoodStep
<1>1. PICK e \in Emails, o \in orgs :
        /\ Target(r) = <<e, o>> /\ e \in users
        /\ <<e, o>> \in DOMAIN member /\ member[<<e, o>>].role # "owner"
  <2>1. Target(r) \in DOMAIN member /\ member[Target(r)].role # "owner"
    BY DEF RemoveCommit, RoleCommit, IInv, ReadsStayTrue, Footing
  <2>2. req[r].email \in users /\ req[r].org \in orgs
    BY <2>1 DEF Target, IInv, EveryAccountWasPlaced
  <2> QED BY <2>1, <2>2 DEF Target, IInv, TypeOK
<1>2. ASSUME NEW row, row \in Membership, row.role # "owner",
             row.active => member[<<e, o>>].active,
             member' = With(member, <<e, o>>, row), Commit(r),
             UNCHANGED <<users, orgs, invite>>
      PROVE  GoodStep
  <2>1. member[<<e, o>>].active => \A p \in orgs \ {o} : e \notin OwnersOf(p)
    BY <1>1 DEF IInv, OwnersBelongNowhereElse, IsActive
  <2>2. NonOwnerWrite(e, o, row)
    BY <1>1, <1>2, <2>1 DEF NonOwnerWrite
  <2>3. InvitesKept /\ Moves(r, Idle)
    BY <1>2 DEF InvitesKept, Moves, Commit, IInv, TypeOK
  <2> QED BY <2>2, <2>3, NonOwnerCommit
<1>3. member[<<e, o>>] \in Membership
  BY <1>1 DEF IInv, TypeOK
<1>4. CASE RemoveCommit(r)
  <2> DEFINE row == [member[<<e, o>>] EXCEPT !.active = FALSE]
  <2>1. row \in Membership /\ row.role # "owner" /\ ~row.active
    BY <1>1, <1>3 DEF Membership
  <2>2. member' = With(member, <<e, o>>, row)
    BY <1>1, <1>4 DEF RemoveCommit, With, IInv, TypeOK
  <2> QED BY <1>2, <1>4, <2>1, <2>2 DEF RemoveCommit
<1>5. CASE RoleCommit(r)
  <2> DEFINE row == [member[<<e, o>>] EXCEPT !.role = req[r].role]
  <2>1. req[r].role \in InviteRoles
    BY <1>5, RequestKind DEF RoleCommit, RoleSteps, RoleRequest, IInv, TypeOK
  <2>2. row \in Membership /\ row.role # "owner" /\ row.active = member[<<e, o>>].active
    BY <1>3, <2>1, RolesAssumption DEF Membership, Roles
  <2>3. member' = With(member, <<e, o>>, row)
    BY <1>1, <1>5 DEF RoleCommit, With, IInv, TypeOK
  <2> QED BY <1>2, <1>5, <2>2, <2>3 DEF RoleCommit
<1> QED BY <1>4, <1>5
LEMMA InitHolds == Init => IInv
<1> SUFFICES ASSUME Init PROVE IInv
  OBVIOUS
<1>1. TypeOK
  BY DEF Init, TypeOK, Request
<1>2. EveryAccountWasPlaced /\ OneOwnerPerOrg /\ OwnersBelongNowhereElse
  BY DEF Init, EveryAccountWasPlaced, OneOwnerPerOrg, OwnersBelongNowhereElse
<1>3. ReadsStayTrue
  BY DEF Init, ReadsStayTrue, Footing, Idle, InviteSteps, AcceptSteps, KnownSteps
<1> QED BY <1>1, <1>2, <1>3 DEF IInv

LEMMA StepPreserves == IInv /\ [Next]_vars => GoodStep
<1> SUFFICES ASSUME IInv, [Next]_vars PROVE GoodStep
  OBVIOUS
<1>1. CASE UNCHANGED vars
  <2>1. TablesGrow
    BY <1>1, NoChangeGrows DEF vars, IInv
  <2>2. IInv'
    BY <1>1 DEF vars, IInv, TypeOK, EveryAccountWasPlaced, OneOwnerPerOrg,
    OwnersBelongNowhereElse, OwnersOf, IsActive, ReadsStayTrue, Footing, Accepted,
    Joining, Target
  <2> QED BY <2>1, <2>2 DEF GoodStep
<1>2. ASSUME NEW r \in Requests, Signup(r) PROVE GoodStep
  BY <1>2, SignupPreserves
<1>3. ASSUME NEW r \in Requests, Inviting(r) PROVE GoodStep
  BY <1>3, InvitingPreserves
<1>4. ASSUME NEW r \in Requests, Accepting(r) PROVE GoodStep
  BY <1>4, AcceptReadingPreserves, AcceptCommitPreserves DEF Accepting
<1>5. ASSUME NEW r \in Requests, Managing(r) PROVE GoodStep
  BY <1>5, ManagingReadingPreserves, ManagingCommitPreserves DEF Managing
<1>6. ASSUME NEW r \in Requests, Fail(r) PROVE GoodStep
  <2>1. Moves(r, Idle) /\ req'[r] = Idle /\ Idle \in Request
    BY <1>6 DEF Fail, Commit, Moves, Request, IInv, TypeOK
  <2> QED BY <1>6, <2>1, IdleFooting, ReadingStep DEF Fail
<1> QED BY <1>1, <1>2, <1>3, <1>4, <1>5, <1>6 DEF Next

----------------------------------------------------------------------------
\* The invariant holds in every reachable state, for any number of addresses,
\* organizations, invites and overlapping requests.
THEOREM Invariance == Spec => []IInv
<1>1. IInv /\ [Next]_vars => IInv'
  BY StepPreserves DEF GoodStep
<1> QED BY <1>1, InitHolds, PTL DEF Spec

\* Every column and every request keeps its type.
THEOREM TypeCorrect == Spec => []TypeOK
<1>1. IInv => TypeOK
  BY DEF IInv
<1> QED BY <1>1, Invariance, PTL

\* However requests overlap, an organization has exactly one owner, an active
\* member (organization_service.py:166 and 194, auth_service.py:351-363).
THEOREM OneOwnerAlways == Spec => []OneOwnerPerOrg
<1>1. IInv => OneOwnerPerOrg
  BY DEF IInv
<1> QED BY <1>1, Invariance, PTL

\* However accepts overlap, an account that owns an organization is active in
\* no other (auth_service.py:330-342).
THEOREM OwnersStayHome == Spec => []OwnersBelongNowhereElse
<1>1. IInv => OwnersBelongNowhereElse
  BY DEF IInv
<1> QED BY <1>1, Invariance, PTL

\* No signup or accept leaves an account without a membership, nor a membership
\* or an invite without its organization.
THEOREM NoStrayAccount == Spec => []EveryAccountWasPlaced
<1>1. IInv => EveryAccountWasPlaced
  BY DEF IInv
<1> QED BY <1>1, Invariance, PTL

\* What a request relies on at its commit is still true there.
THEOREM ReadsCarryCommits == Spec => []ReadsStayTrue
<1>1. IInv => ReadsStayTrue
  BY DEF IInv
<1> QED BY <1>1, Invariance, PTL
----------------------------------------------------------------------------
\* Tenancy implements OrgRegistry.

LEMMA OwnerIsTheOwner ==
  ASSUME OneOwnerPerOrg, NEW o \in orgs
  PROVE  Owner(o) \in users /\ OwnersOf(o) = {Owner(o)}
BY DEF OneOwnerPerOrg, Owner

LEMMA OneNewOrg ==
  ASSUME [Next]_vars
  PROVE  orgs' = orgs \/ \E o : orgs' = orgs \union {o}
<1>1. CASE UNCHANGED vars
  BY <1>1 DEF vars
<1>2. ASSUME NEW r \in Requests, Signup(r) PROVE orgs' = orgs \/ \E o : orgs' = orgs \union {o}
  BY <1>2 DEF Signup, StartSignup, TakeSlug, NextSlug, SignupCommit, Read, OnlyReads
<1>3. ASSUME NEW r \in Requests, Inviting(r) PROVE orgs' = orgs
  BY <1>3 DEF Inviting, StartInvite, InvitePending, InviteUser, InviteMember,
    InviteElsewhere, InviteCommit, Read, OnlyReads
<1>4. ASSUME NEW r \in Requests, Accepting(r) PROVE orgs' = orgs
  BY <1>4 DEF Accepting, StartAccept, AcceptUser, AcceptElsewhere, AcceptMemberNone,
    AcceptMemberDeleted, AcceptNewcomer, AcceptJoin, AcceptRestore, AcceptUndelete,
    AcceptCommit, Read, OnlyReads
<1>5. ASSUME NEW r \in Requests, Managing(r) PROVE orgs' = orgs
  BY <1>5 DEF Managing, StartRemove, RemoveRead, RemoveCommit, StartRole, RoleRead,
    RoleCommit, Read, OnlyReads
<1>6. ASSUME NEW r \in Requests, Fail(r) PROVE orgs' = orgs
  BY <1>6 DEF Fail
<1> QED BY <1>1, <1>2, <1>3, <1>4, <1>5, <1>6 DEF Next

Registered == [o \in orgs |-> Owner(o)]

LEMMA StepRefines ==
  ASSUME IInv, IInv', TablesGrow, orgs' = orgs \/ \E o : orgs' = orgs \union {o}
  PROVE  [Registry!Next]_Registered
<1>1. \A o \in orgs : Owner(o)' = Owner(o)
  <2> SUFFICES ASSUME NEW o \in orgs PROVE Owner(o)' = Owner(o)
    OBVIOUS
  <2>1. Owner(o) \in users /\ OwnersOf(o) = {Owner(o)}
    BY OwnerIsTheOwner DEF IInv
  <2>2. o \in orgs'
    BY DEF TablesGrow
  <2>3. PICK e \in users' : OwnersOf(o)' = {e}
    BY <2>2 DEF IInv, OneOwnerPerOrg
  <2>4. e = Owner(o)
    BY <2>1, <2>3 DEF TablesGrow
  <2>5. OwnersOf(o)' = OwnersOf(o)
    BY <2>1, <2>3, <2>4
  <2> QED BY <2>5 DEF Owner
<1>2. CASE orgs' = orgs
  BY <1>1, <1>2 DEF Registered
<1>3. CASE \E o : orgs' = orgs \union {o} /\ o \notin orgs
  <2>1. PICK o : orgs' = orgs \union {o} /\ o \notin orgs
    BY <1>3
  <2>2. PICK e \in users' : OwnersOf(o)' = {e}
    BY <2>1 DEF IInv, OneOwnerPerOrg
  <2>3. Owner(o)' = e
    BY <2>2 DEF Owner
  <2>4. e \notin users /\ e \in Emails /\ o \in Slugs
    BY <2>1, <2>2 DEF TablesGrow, IInv, TypeOK
  <2>5. \A p \in orgs : Owner(p) \in users
    BY OwnerIsTheOwner DEF IInv
  <2>6. Registered' = [p \in DOMAIN Registered \union {o} |->
                         IF p = o THEN e ELSE Registered[p]]
    BY <1>1, <2>1, <2>3 DEF Registered
  <2>7. Registry!Register(e, o)
    BY <2>1, <2>4, <2>5, <2>6 DEF Registered, Registry!Register, Registry!Owners
  <2>8. o \in Slugs \ DOMAIN Registered
    BY <2>1, <2>4 DEF Registered
  <2> QED BY <2>4, <2>7, <2>8 DEF Registry!Next, Registered
<1> QED BY <1>2, <1>3

\* Organizations come with their owner and keep it, and no account owns two,
\* whatever overlaps (auth_service.py:46-114).
THEOREM TenancyImplementsOrgRegistry == Spec => OwnershipIsARegistry
<1>1. Init => Registry!Init
  BY DEF Init, Registry!Init
<1>2. IInv /\ [Next]_vars => [Registry!Next]_Registered
  BY StepPreserves, OneNewOrg, StepRefines DEF GoodStep
<1> QED BY <1>1, <1>2, Invariance, PTL DEF Spec, OwnershipIsARegistry, Registry!Spec,
    Registered

----------------------------------------------------------------------------
\* Where memberships come from: rows and invites stay, and what is new of
\* either is matched by the other.
LEMMA GrantsKept ==
  ASSUME MembershipsComeFromInvites,
         DOMAIN member \subseteq DOMAIN member', DOMAIN invite \subseteq DOMAIN invite',
         \A i \in DOMAIN invite :
           /\ invite'[i].email = invite[i].email /\ invite'[i].org = invite[i].org
           /\ invite[i].accepted => invite'[i].accepted,
         \A i \in DOMAIN invite' : invite'[i].accepted =>
           \/ i \in DOMAIN invite /\ invite[i].accepted
           \/ <<invite'[i].email, invite'[i].org>> \in DOMAIN member',
         \A m \in DOMAIN member' : member'[m].role # "owner" =>
           \/ m \in DOMAIN member /\ member[m].role # "owner"
           \/ \E i \in DOMAIN invite' :
                invite'[i].accepted /\ <<invite'[i].email, invite'[i].org>> = m
  PROVE  MembershipsComeFromInvites'
<1>1. ASSUME NEW m \in DOMAIN member', member'[m].role # "owner"
      PROVE  \E i \in DOMAIN invite' :
               invite'[i].accepted /\ <<invite'[i].email, invite'[i].org>> = m
  BY <1>1 DEF MembershipsComeFromInvites
<1>2. ASSUME NEW i \in DOMAIN invite', invite'[i].accepted
      PROVE  <<invite'[i].email, invite'[i].org>> \in DOMAIN member'
  BY <1>2 DEF MembershipsComeFromInvites
<1> QED BY <1>1, <1>2 DEF MembershipsComeFromInvites

LEMMA AcceptGrants ==
  ASSUME IInv, MembershipsComeFromInvites, NEW r \in Requests, NEW row,
         req[r].at \in AcceptSteps, AcceptCommit(r, row)
  PROVE  MembershipsComeFromInvites'
<1> DEFINE j == req[r].invite
           key == Joining(r)
<1>1. j \in DOMAIN invite /\ key = <<invite[j].email, invite[j].org>> /\ invite[j] \in Invite
  BY DEF IInv, TypeOK, ReadsStayTrue, Footing, Joining, Accepted
<1>2. /\ DOMAIN member' = DOMAIN member \union {key}
      /\ \A m \in DOMAIN member : m # key => member'[m] = member[m]
  BY DEF AcceptCommit, With
<1>3. /\ DOMAIN invite' = DOMAIN invite
      /\ \A i \in DOMAIN invite : /\ i # j => invite'[i] = invite[i]
                                  /\ invite'[i].email = invite[i].email
                                  /\ invite'[i].org = invite[i].org
      /\ invite'[j].accepted
  BY <1>1 DEF AcceptCommit, Invite, IInv, TypeOK
<1> HIDE DEF j, key
<1> QED BY <1>1, <1>2, <1>3, GrantsKept

LEMMA MemberRowsKeepGrants ==
  ASSUME MembershipsComeFromInvites, invite' = invite, DOMAIN member' = DOMAIN member,
         \A m \in DOMAIN member : member'[m].role # "owner" => member[m].role # "owner"
  PROVE  MembershipsComeFromInvites'
BY GrantsKept

LEMMA StepKeepsGrants ==
  IInv /\ MembershipsComeFromInvites /\ [Next]_vars => MembershipsComeFromInvites'
<1> SUFFICES ASSUME IInv, MembershipsComeFromInvites, [Next]_vars
             PROVE  MembershipsComeFromInvites'
  OBVIOUS
<1>1. ASSUME UNCHANGED <<member, invite>>
      PROVE  MembershipsComeFromInvites'
  BY <1>1, MemberRowsKeepGrants
<1>2. ASSUME NEW r \in Requests, SignupCommit(r)
      PROVE  MembershipsComeFromInvites'
  <2> DEFINE key == <<req[r].email, SignupSlug(req[r])>>
             row == [role |-> "owner", active |-> TRUE]
  <2>1. invite' = invite /\ member' = With(member, key, row) /\ row.role = "owner"
    BY <1>2 DEF SignupCommit
  <2> HIDE DEF key, row
  <2>2. DOMAIN member' = DOMAIN member \union {key} /\ member'[key] = row
        /\ \A m \in DOMAIN member : m # key => member'[m] = member[m]
    BY <2>1 DEF With
  <2> QED BY <2>1, <2>2, GrantsKept
<1>3. ASSUME NEW r \in Requests, Signup(r)
      PROVE  MembershipsComeFromInvites'
  BY <1>1, <1>2, <1>3 DEF Signup, StartSignup, TakeSlug, NextSlug, Read, OnlyReads
<1>4. ASSUME NEW r \in Requests, InviteCommit(r)
      PROVE  MembershipsComeFromInvites'
  <2> DEFINE row == [email |-> req[r].email, org |-> req[r].org, role |-> req[r].role,
                     accepted |-> FALSE]
  <2>1. PICK i \in InviteIds \ DOMAIN invite : invite' = With(invite, i, row) /\ member' = member
    BY <1>4 DEF InviteCommit
  <2>2. ~row.accepted
    OBVIOUS
  <2> HIDE DEF row
  <2>3. DOMAIN invite' = DOMAIN invite \union {i} /\ invite'[i] = row
        /\ \A k \in DOMAIN invite : invite'[k] = invite[k]
    BY <2>1 DEF With
  <2> QED BY <2>1, <2>2, <2>3, GrantsKept
<1>5. ASSUME NEW r \in Requests, Inviting(r)
      PROVE  MembershipsComeFromInvites'
  BY <1>1, <1>4, <1>5 DEF Inviting, StartInvite, InvitePending, InviteUser, InviteMember,
    InviteElsewhere, Read, OnlyReads
<1>6. ASSUME NEW r \in Requests, Accepting(r)
      PROVE  MembershipsComeFromInvites'
  <2>1. CASE AcceptNewcomer(r) \/ AcceptJoin(r) \/ AcceptRestore(r) \/ AcceptUndelete(r)
    <3>1. req[r].at \in AcceptSteps
      BY <2>1 DEF AcceptNewcomer, AcceptJoin, AcceptRestore, AcceptUndelete, AcceptSteps
    <3>2. \E row : AcceptCommit(r, row)
      BY <2>1 DEF AcceptNewcomer, AcceptJoin, AcceptRestore, AcceptUndelete
    <3> QED BY <3>1, <3>2, AcceptGrants
  <2>2. CASE ~(AcceptNewcomer(r) \/ AcceptJoin(r) \/ AcceptRestore(r) \/ AcceptUndelete(r))
    BY <1>1, <1>6, <2>2 DEF Accepting, StartAccept, AcceptUser, AcceptElsewhere,
      AcceptMemberNone, AcceptMemberDeleted, Read, OnlyReads
  <2> QED BY <2>1, <2>2
<1>7. ASSUME NEW r \in Requests, RemoveCommit(r) \/ RoleCommit(r)
      PROVE  MembershipsComeFromInvites'
  <2>1. Target(r) \in DOMAIN member /\ member[Target(r)].role # "owner"
    BY <1>7 DEF RemoveCommit, RoleCommit, IInv, ReadsStayTrue, Footing
  <2>2. /\ invite' = invite /\ DOMAIN member' = DOMAIN member
        /\ \A m \in DOMAIN member : m # Target(r) => member'[m] = member[m]
    BY <1>7 DEF RemoveCommit, RoleCommit
  <2> QED BY <2>1, <2>2, MemberRowsKeepGrants
<1>8. ASSUME NEW r \in Requests, Managing(r)
      PROVE  MembershipsComeFromInvites'
  BY <1>1, <1>7, <1>8 DEF Managing, StartRemove, RemoveRead, StartRole, RoleRead, Read, OnlyReads
<1>9. ASSUME NEW r \in Requests, Fail(r)
       PROVE  MembershipsComeFromInvites'
  BY <1>1, <1>9 DEF Fail
<1> QED BY <1>1, <1>3, <1>5, <1>6, <1>8, <1>9 DEF Next, vars

\* Whoever is a member without owning the organization was invited to it, and an
\* accepted invite did make a member, whatever failed half way and whoever was
\* removed or promoted since (auth_service.py:351-364).
THEOREM MembersWereInvited == Spec => []MembershipsComeFromInvites
<1>1. Init => MembershipsComeFromInvites
  BY DEF Init, MembershipsComeFromInvites
<1> QED BY <1>1, StepKeepsGrants, Invariance, PTL DEF Spec

----------------------------------------------------------------------------
\* Where each action takes its request.

Waiting(r) == \A q \in Requests \ {r} : req'[q] = req[q]
Goes(r, step) == req'[r].at = step /\ Waiting(r)

LEMMA BeginGoes ==
  ASSUME TypeOK, NEW r \in Requests, NEW q, Begin(r, q)
  PROVE  Goes(r, q.at)
BY DEF Begin, TypeOK, Goes, Waiting

LEMMA CommitGoes ==
  ASSUME TypeOK, NEW r \in Requests, Commit(r)
  PROVE  Goes(r, "idle")
BY DEF Commit, TypeOK, Goes, Waiting, Idle

\* A request that goes on keeps its arguments.
LEMMA GotoGoes ==
  ASSUME TypeOK, NEW r \in Requests, NEW step, Goto(r, step)
  PROVE  /\ Goes(r, step)
         /\ req[r].at \in AcceptSteps => req'[r].invite = req[r].invite
         /\ req[r].at \in InviteSteps =>
              req'[r].email = req[r].email /\ req'[r].org = req[r].org
         /\ req[r].at \in RemoveSteps \union RoleSteps =>
              /\ req'[r].email = req[r].email /\ req'[r].org = req[r].org
              /\ req'[r].by = req[r].by
<1> DEFINE q == req[r]
           x == [q EXCEPT !.at = step]
<1>1. req'[r] = x /\ Waiting(r) /\ q \in Request
  BY DEF Goto, TypeOK, Waiting
<1> HIDE DEF q
<1>2. x.at = step
  BY <1>1 DEF Request, Idle, SignupRequest, InviteRequest, AcceptRequest, RemoveRequest, RoleRequest
<1>3. q.at \in AcceptSteps => x.invite = q.invite
  BY <1>1, RequestKind DEF AcceptRequest
<1>4. q.at \in InviteSteps => x.email = q.email /\ x.org = q.org
  BY <1>1, RequestKind DEF InviteRequest
<1>5. q.at \in RemoveSteps \union RoleSteps =>
        x.email = q.email /\ x.org = q.org /\ x.by = q.by
  BY <1>1, RequestKind DEF RemoveRequest, RoleRequest
<1> QED BY <1>1, <1>2, <1>3, <1>4, <1>5 DEF Goes, q

LEMMA SignupGoes ==
  ASSUME TypeOK, NEW r \in Requests
  PROVE  /\ StartSignup(r) \/ NextSlug(r) => Goes(r, "signup.slug")
         /\ TakeSlug(r) => Goes(r, "signup.commit")
         /\ SignupCommit(r) => Goes(r, "idle")
<1>1. StartSignup(r) => Goes(r, "signup.slug")
  BY BeginGoes DEF StartSignup
<1>2. ASSUME NextSlug(r) PROVE Goes(r, "signup.slug")
  <2> DEFINE x == [req[r] EXCEPT !.k = @ + 1]
  <2>1. req[r] \in SignupRequest /\ req' = [req EXCEPT ![r] = x]
    BY <1>2, RequestKind DEF NextSlug, SignupSteps, TypeOK
  <2>2. x.at = "signup.slug"
    BY <1>2, <2>1 DEF NextSlug, SignupRequest
  <2> HIDE DEF x
  <2> QED BY <2>1, <2>2 DEF TypeOK, Goes, Waiting
<1>3. TakeSlug(r) => Goes(r, "signup.commit")
  BY GotoGoes DEF TakeSlug, Read
<1>4. SignupCommit(r) => Goes(r, "idle")
  BY CommitGoes DEF SignupCommit
<1> QED BY <1>1, <1>2, <1>3, <1>4

LEMMA InvitingGoes ==
  ASSUME TypeOK, NEW r \in Requests
  PROVE  /\ StartInvite(r) => Goes(r, "invite.pending")
         /\ InvitePending(r) => Goes(r, "invite.user")
         /\ InviteUser(r) => Goes(r, "invite.member") \/ Goes(r, "invite.commit")
         /\ InviteMember(r) => Goes(r, "invite.elsewhere")
         /\ InviteElsewhere(r) => Goes(r, "invite.commit")
         /\ InviteCommit(r) => Goes(r, "idle")
<1>1. StartInvite(r) => Goes(r, "invite.pending")
  BY BeginGoes DEF StartInvite
<1>2. InviteCommit(r) => Goes(r, "idle")
  BY CommitGoes DEF InviteCommit
<1> QED BY <1>1, <1>2, GotoGoes DEF InvitePending, InviteUser, InviteMember, InviteElsewhere, Read

LEMMA AcceptingGoes ==
  ASSUME TypeOK, NEW r \in Requests
  PROVE  /\ StartAccept(r) => Goes(r, "accept.user")
         /\ AcceptUser(r) =>
              Goes(r, IF Accepted(r).email \in users THEN "accept.elsewhere" ELSE "accept.newcomer")
         /\ AcceptElsewhere(r) => Goes(r, "accept.member")
         /\ AcceptMemberNone(r) => Goes(r, "accept.join")
         /\ AcceptMemberDeleted(r) => Goes(r, "accept.undelete") \/ Goes(r, "accept.restore")
         /\ AcceptNewcomer(r) \/ AcceptJoin(r) \/ AcceptRestore(r) \/ AcceptUndelete(r) =>
              Goes(r, "idle")
<1>1. StartAccept(r) => Goes(r, "accept.user")
  BY BeginGoes DEF StartAccept
<1>2. AcceptNewcomer(r) \/ AcceptJoin(r) \/ AcceptRestore(r) \/ AcceptUndelete(r) => Goes(r, "idle")
  BY CommitGoes DEF AcceptNewcomer, AcceptJoin, AcceptRestore, AcceptUndelete, AcceptCommit
<1>3. AcceptUser(r) =>
        Goes(r, IF Accepted(r).email \in users THEN "accept.elsewhere" ELSE "accept.newcomer")
  BY GotoGoes DEF AcceptUser, Read
<1>4. AcceptMemberDeleted(r) => Goes(r, "accept.undelete") \/ Goes(r, "accept.restore")
  BY GotoGoes DEF AcceptMemberDeleted, Read
<1> QED BY <1>1, <1>2, <1>3, <1>4, GotoGoes DEF AcceptElsewhere, AcceptMemberNone, Read

LEMMA ManagingGoes ==
  ASSUME TypeOK, NEW r \in Requests
  PROVE  /\ StartRemove(r) => Goes(r, "remove.read")
         /\ StartRole(r) => Goes(r, "role.read")
         /\ RemoveRead(r) => Goes(r, "remove.commit")
         /\ RoleRead(r) => Goes(r, "role.commit")
         /\ RemoveCommit(r) \/ RoleCommit(r) \/ Fail(r) => Goes(r, "idle")
<1>1. StartRemove(r) => Goes(r, "remove.read")
  BY BeginGoes DEF StartRemove
<1>2. StartRole(r) => Goes(r, "role.read")
  BY BeginGoes DEF StartRole
<1>3. RemoveCommit(r) \/ RoleCommit(r) \/ Fail(r) => Goes(r, "idle")
  BY CommitGoes DEF RemoveCommit, RoleCommit, Fail
<1> QED BY <1>1, <1>2, <1>3, GotoGoes DEF RemoveRead, RoleRead, Read

----------------------------------------------------------------------------
\* How far overlapping requests can bend the one-organization rule.  An account
\* reaches the organizations it is active in and those that accepts past the check
\* of auth_service.py:332 are about to put it in.  Whoever passes that check finds
\* the account active nowhere else, so what is reached then is what the requests
\* under way hold, one organization each.

JoinSteps == (KnownSteps \ {"accept.elsewhere"}) \union {"accept.newcomer"}
Settled(e) == {o \in orgs : IsActive(e, o)}
Joiners(e) == {r \in Requests : req[r].at \in JoinSteps /\ Accepted(r).email = e}
Reach(e) == Settled(e) \union {Accepted(r).org : r \in Joiners(e)}

\* No more elements than requests.
Fits(S) == IsFiniteSet(S) /\ Cardinality(S) <= Cardinality(Requests)
Covered(S) == \E f : S \subseteq {f[r] : r \in Requests}

LEMMA SubsetFits ==
  ASSUME NEW S, Fits(S), NEW T, T \subseteq S
  PROVE  Fits(T)
<1>1. IsFiniteSet(T) /\ Cardinality(T) <= Cardinality(S)
  BY FS_Subset DEF Fits
<1>2. Cardinality(T) \in Nat /\ Cardinality(S) \in Nat /\ Cardinality(Requests) \in Nat
  BY <1>1, RequestsAssumption, FS_CardinalityType DEF Fits
<1> QED BY <1>1, <1>2 DEF Fits

LEMMA CoveredFits ==
  ASSUME NEW S, Covered(S)
  PROVE  Fits(S)
<1>1. PICK f : S \subseteq {f[r] : r \in Requests}
  BY DEF Covered
<1> DEFINE g == [r \in Requests |-> f[r]]
           T == {f[r] : r \in Requests}
<1>2. g \in Surjection(Requests, T)
  BY DEF Surjection
<1>3. Fits(T)
  BY <1>2, RequestsAssumption, FS_Surjection DEF Fits
<1> QED BY <1>1, <1>3, SubsetFits

\* The invite an accept has in hand stays what it is.
LEMMA InviteInHand ==
  ASSUME IInv, TablesGrow, NEW q \in Requests, req[q].at \in AcceptSteps,
         req'[q].invite = req[q].invite
  PROVE  Accepted(q)'.email = Accepted(q).email /\ Accepted(q)'.org = Accepted(q).org
<1>1. req[q].invite \in DOMAIN invite
  BY DEF IInv, ReadsStayTrue, Footing
<1> QED BY <1>1 DEF TablesGrow, Accepted

JoinsOn(q) == req[q].at \in JoinSteps /\ req'[q].invite = req[q].invite

LEMMA JoinStepsAccept == JoinSteps \subseteq AcceptSteps
BY DEF JoinSteps, KnownSteps, AcceptSteps

\* Nobody begins to join: nothing new is reached.
LEMMA ReachShrinks ==
  ASSUME IInv, TablesGrow, NEW e, Settled(e)' \subseteq Reach(e),
         \A q \in Joiners(e)' : JoinsOn(q)
  PROVE  Reach(e)' \subseteq Reach(e)
<1>1. ASSUME NEW q \in Joiners(e)'
      PROVE  q \in Joiners(e) /\ Accepted(q)'.org = Accepted(q).org
  <2>1. q \in Requests /\ Accepted(q)'.email = e /\ JoinsOn(q)
    BY DEF Joiners
  <2>2. Accepted(q)'.email = Accepted(q).email /\ Accepted(q)'.org = Accepted(q).org
    BY <2>1, InviteInHand, JoinStepsAccept DEF JoinsOn
  <2> QED BY <2>1, <2>2 DEF Joiners, JoinsOn
<1> QED BY <1>1 DEF Reach

\* The account is active in p at most, and request r puts it there or nowhere.
LEMMA ReachRenewed ==
  ASSUME NEW e, NEW p, NEW r \in Requests, Settled(e)' \subseteq {p},
         r \in Joiners(e)' => Accepted(r)'.org = p
  PROVE  Covered(Reach(e)')
<1> DEFINE f == [q \in Requests |-> IF q = r THEN p ELSE Accepted(q)'.org]
<1>1. p \in {f[q] : q \in Requests}
  <2>1. f[r] = p
    OBVIOUS
  <2> QED BY <2>1
<1>2. ASSUME NEW q \in Joiners(e)'
      PROVE  Accepted(q)'.org \in {f[x] : x \in Requests}
  <2>1. q \in Requests
    BY DEF Joiners
  <2>2. f[q] = Accepted(q)'.org
    BY <2>1, <1>2
  <2> QED BY <2>1, <2>2
<1> HIDE DEF f
<1>3. Reach(e)' \subseteq {f[q] : q \in Requests}
  BY <1>1, <1>2 DEF Reach
<1> QED BY <1>3 DEF Covered

\* A request other than r joins on, if at all.
LEMMA OthersJoinOn ==
  ASSUME NEW r \in Requests, NEW step, Goes(r, step), NEW e, NEW q \in Joiners(e)',
         q = r => JoinsOn(q)
  PROVE  JoinsOn(q)
BY DEF Joiners, Goes, Waiting, JoinsOn

LEMMA NobodyElseJoins ==
  ASSUME NEW r \in Requests, NEW step, Goes(r, step), step \notin JoinSteps, NEW e
  PROVE  \A q \in Joiners(e)' : JoinsOn(q)
BY OthersJoinOn DEF Joiners, Goes

ReachBounded == \A e \in Emails : Fits(Reach(e))

ReachStep(e) == Reach(e)' \subseteq Reach(e) \/ Covered(Reach(e)')

\* Steps that write no membership.
LEMMA NoMembershipWritten ==
  ASSUME UNCHANGED <<orgs, member>>, NEW e
  PROVE  Settled(e)' = Settled(e)
BY DEF Settled, IsActive

LEMMA QuietReach ==
  ASSUME IInv, TablesGrow, NEW r \in Requests, NEW e, UNCHANGED <<orgs, member>>,
         NEW step, Goes(r, step), step \notin JoinSteps
  PROVE  ReachStep(e)
BY NoMembershipWritten, NobodyElseJoins, ReachShrinks DEF Reach, ReachStep

\* An account without a row is active nowhere.
LEMMA StrangersAreNowhere ==
  ASSUME IInv, NEW e, e \notin users
  PROVE  Settled(e) = {} /\ \A o : <<e, o>> \notin DOMAIN member
BY DEF IInv, EveryAccountWasPlaced, Settled, IsActive

LEMMA AcceptUserReach ==
  ASSUME IInv, TablesGrow, NEW r \in Requests, AcceptUser(r), NEW e
  PROVE  ReachStep(e)
<1>1. UNCHANGED <<users, orgs, member, invite>> /\ req[r].at = "accept.user"
  BY DEF AcceptUser, Read, OnlyReads
<1>2. req'[r].invite = req[r].invite
  BY <1>1, GotoGoes DEF IInv, AcceptUser, Read, AcceptSteps
<1>3. Accepted(r)' = Accepted(r)
  BY <1>1, <1>2 DEF Accepted
<1>4. CASE Accepted(r).email \in users
  <2>1. Goes(r, "accept.elsewhere")
    BY <1>4, AcceptingGoes DEF IInv
  <2> QED BY <1>1, <2>1, QuietReach DEF JoinSteps, KnownSteps
<1>5. CASE Accepted(r).email \notin users
  <2>1. Goes(r, "accept.newcomer")
    BY <1>5, AcceptingGoes DEF IInv
  <2>2. CASE e = Accepted(r).email
    <3>1. Settled(e)' = {}
      BY <1>1, <1>5, <2>2, NoMembershipWritten, StrangersAreNowhere
    <3> QED BY <1>3, <3>1, ReachRenewed DEF ReachStep
  <2>3. CASE e # Accepted(r).email
    <3>1. r \notin Joiners(e)'
      BY <1>3, <2>3 DEF Joiners
    <3>2. \A q \in Joiners(e)' : JoinsOn(q)
      BY <2>1, <3>1, OthersJoinOn
    <3> QED BY <1>1, <3>2, NoMembershipWritten, ReachShrinks DEF Reach, ReachStep
  <2> QED BY <2>2, <2>3
<1> QED BY <1>4, <1>5

LEMMA AcceptElsewhereReach ==
  ASSUME IInv, TablesGrow, NEW r \in Requests, AcceptElsewhere(r), NEW e
  PROVE  ReachStep(e)
<1>1. /\ UNCHANGED <<users, orgs, member, invite>> /\ req[r].at = "accept.elsewhere"
      /\ ~ActiveElsewhere(Accepted(r).email, Accepted(r).org)
  BY DEF AcceptElsewhere, Read, OnlyReads
<1>2. req'[r].invite = req[r].invite
  BY <1>1, GotoGoes DEF IInv, AcceptElsewhere, Read, AcceptSteps
<1>3. Accepted(r)' = Accepted(r)
  BY <1>1, <1>2 DEF Accepted
<1>4. Goes(r, "accept.member")
  BY AcceptingGoes DEF IInv
<1>5. CASE e = Accepted(r).email
  <2>1. Settled(e)' \subseteq {Accepted(r).org}
    BY <1>1, <1>5, NoMembershipWritten DEF Settled, ActiveElsewhere
  <2> QED BY <1>3, <2>1, ReachRenewed DEF ReachStep
<1>6. CASE e # Accepted(r).email
  <2>1. r \notin Joiners(e)'
    BY <1>3, <1>6 DEF Joiners
  <2>2. \A q \in Joiners(e)' : JoinsOn(q)
    BY <1>4, <2>1, OthersJoinOn
  <2> QED BY <1>1, <2>2, NoMembershipWritten, ReachShrinks DEF Reach, ReachStep
<1> QED BY <1>5, <1>6

LEMMA AcceptMemberReach ==
  ASSUME IInv, TablesGrow, NEW r \in Requests, AcceptMemberNone(r) \/ AcceptMemberDeleted(r), NEW e
  PROVE  ReachStep(e)
<1>1. UNCHANGED <<orgs, member>> /\ req[r].at = "accept.member"
  BY DEF AcceptMemberNone, AcceptMemberDeleted, Read, OnlyReads
<1>2. PICK step : Goto(r, step)
  BY DEF AcceptMemberNone, AcceptMemberDeleted, Read
<1>3. Goes(r, step) /\ JoinsOn(r)
  BY <1>1, <1>2, GotoGoes DEF IInv, AcceptSteps, JoinSteps, KnownSteps, JoinsOn
<1>4. \A q \in Joiners(e)' : JoinsOn(q)
  BY <1>3, OthersJoinOn
<1> QED BY <1>1, <1>4, NoMembershipWritten, ReachShrinks DEF Reach, ReachStep

\* An accept's commit puts the account where it was about to be.
LEMMA AcceptCommitReach ==
  ASSUME IInv, TablesGrow, NEW r \in Requests, NEW e,
         \/ AcceptNewcomer(r) \/ AcceptJoin(r) \/ AcceptRestore(r) \/ AcceptUndelete(r)
  PROVE  ReachStep(e)
<1>1. Goes(r, "idle")
  BY AcceptingGoes DEF IInv
<1>2. req[r].at \in JoinSteps
  BY DEF AcceptNewcomer, AcceptJoin, AcceptRestore, AcceptUndelete, JoinSteps, KnownSteps, AcceptSteps
<1>3. \E row : AcceptCommit(r, row)
  BY DEF AcceptNewcomer, AcceptJoin, AcceptRestore, AcceptUndelete
<1>4. PICK row : orgs' = orgs /\ member' = With(member, Joining(r), row)
  BY <1>3 DEF AcceptCommit
<1>5. Settled(e)' \subseteq Reach(e)
  <2> SUFFICES ASSUME NEW o \in orgs, IsActive(e, o)'
               PROVE  o \in Reach(e)
    BY <1>4 DEF Settled
  <2>1. CASE <<e, o>> = Joining(r)
    <3>1. r \in Joiners(e) /\ o = Accepted(r).org
      BY <1>2, <2>1 DEF Joiners, Joining
    <3> QED BY <3>1 DEF Reach
  <2>2. CASE <<e, o>> # Joining(r)
    <3>1. IsActive(e, o)
      BY <1>4, <2>2 DEF IsActive, With
    <3> QED BY <3>1 DEF Reach, Settled
  <2> QED BY <2>1, <2>2
<1> QED BY <1>1, <1>5, NobodyElseJoins, ReachShrinks DEF ReachStep, JoinSteps, KnownSteps, AcceptSteps

\* A new account begins with its own organization.
LEMMA SignupReach ==
  ASSUME IInv, TablesGrow, NEW r \in Requests, SignupCommit(r), NEW e
  PROVE  ReachStep(e)
<1> DEFINE u == req[r].email
           o == SignupSlug(req[r])
           row == [role |-> "owner", active |-> TRUE]
<1>1. /\ u \notin users /\ o \notin orgs /\ orgs' = orgs \union {o}
      /\ member' = With(member, <<u, o>>, row)
  BY DEF SignupCommit, SignupConflict
<1>2. Goes(r, "idle") /\ "idle" \notin JoinSteps
  BY SignupGoes DEF IInv, JoinSteps, KnownSteps, AcceptSteps
<1> HIDE DEF u, o, row
<1>3. CASE e = u
  <2>1. Settled(e)' \subseteq {o}
    BY <1>1, <1>3, StrangersAreNowhere DEF Settled, IsActive, With
  <2>2. r \notin Joiners(e)'
    BY <1>2 DEF Goes, Joiners
  <2> QED BY <2>1, <2>2, ReachRenewed DEF ReachStep
<1>4. CASE e # u
  <2>1. \A p : <<e, p>> # <<u, o>>
    BY <1>4
  <2>2. \A p \in DOMAIN member : p[2] \in orgs
    BY DEF IInv, EveryAccountWasPlaced
  <2>3. <<e, o>> \notin DOMAIN member
    BY <1>1, <2>2
  <2>4. Settled(e)' \subseteq Settled(e)
    BY <1>1, <2>1, <2>3 DEF Settled, IsActive, With
  <2> QED BY <1>2, <2>4, NobodyElseJoins, ReachShrinks DEF Reach, ReachStep
<1> QED BY <1>3, <1>4

LEMMA ManageReach ==
  ASSUME IInv, TablesGrow, NEW r \in Requests, RemoveCommit(r) \/ RoleCommit(r), NEW e
  PROVE  ReachStep(e)
<1>1. Goes(r, "idle") /\ "idle" \notin JoinSteps
  BY ManagingGoes DEF IInv, JoinSteps, KnownSteps, AcceptSteps
<1>2. /\ orgs' = orgs /\ DOMAIN member' = DOMAIN member
      /\ \A m \in DOMAIN member : member'[m].active => member[m].active
  <2>1. member \in [DOMAIN member -> Membership]
    BY DEF IInv, TypeOK
  <2>2. CASE RemoveCommit(r)
    BY <2>1, <2>2 DEF RemoveCommit, Membership
  <2>3. CASE RoleCommit(r)
    BY <2>1, <2>3 DEF RoleCommit, Membership
  <2> QED BY <2>2, <2>3
<1>3. Settled(e)' \subseteq Settled(e)
  BY <1>2 DEF Settled, IsActive
<1> QED BY <1>1, <1>3, NobodyElseJoins, ReachShrinks DEF Reach, ReachStep

LEMMA EachReach ==
  ASSUME IInv, [Next]_vars, NEW e
  PROVE  ReachStep(e)
<1> USE DEF JoinSteps, KnownSteps, AcceptSteps
<1>0. TypeOK /\ TablesGrow
  BY StepPreserves DEF IInv, GoodStep
<1>1. CASE UNCHANGED vars
  BY <1>1 DEF vars, ReachStep, Reach, Settled, IsActive, Joiners, Accepted
<1>2. ASSUME NEW r \in Requests, Signup(r) PROVE ReachStep(e)
  <2>1. CASE StartSignup(r) \/ TakeSlug(r) \/ NextSlug(r)
    <3>1. UNCHANGED <<orgs, member>>
      BY <2>1 DEF StartSignup, TakeSlug, NextSlug, Read, OnlyReads
    <3>2. PICK step \in {"signup.slug", "signup.commit"} : Goes(r, step)
      BY <1>0, <2>1, SignupGoes
    <3> QED BY <1>0, <3>1, <3>2, QuietReach
  <2> QED BY <1>0, <1>2, <2>1, SignupReach DEF Signup
<1>3. ASSUME NEW r \in Requests, Inviting(r) PROVE ReachStep(e)
  <2>1. UNCHANGED <<orgs, member>>
    BY <1>3 DEF Inviting, StartInvite, InvitePending, InviteUser, InviteMember,
      InviteElsewhere, InviteCommit, Read, OnlyReads
  <2>2. PICK step \in InviteSteps \union {"idle"} : Goes(r, step)
    BY <1>0, <1>3, InvitingGoes DEF Inviting, InviteSteps
  <2> QED BY <1>0, <2>1, <2>2, QuietReach DEF InviteSteps
<1>4. ASSUME NEW r \in Requests, Accepting(r) PROVE ReachStep(e)
  <2>1. CASE StartAccept(r)
    <3>1. UNCHANGED <<orgs, member>> /\ Goes(r, "accept.user")
      BY <1>0, <2>1, AcceptingGoes DEF StartAccept, OnlyReads
    <3> QED BY <1>0, <3>1, QuietReach
  <2> QED BY <1>0, <1>4, <2>1, AcceptUserReach, AcceptElsewhereReach, AcceptMemberReach,
             AcceptCommitReach DEF Accepting
<1>5. ASSUME NEW r \in Requests, Managing(r) PROVE ReachStep(e)
  <2>1. CASE StartRemove(r) \/ RemoveRead(r) \/ StartRole(r) \/ RoleRead(r)
    <3>1. UNCHANGED <<orgs, member>>
      BY <2>1 DEF StartRemove, RemoveRead, StartRole, RoleRead, Read, OnlyReads
    <3>2. PICK step \in RemoveSteps \union RoleSteps : Goes(r, step)
      BY <1>0, <2>1, ManagingGoes DEF RemoveSteps, RoleSteps
    <3> QED BY <1>0, <3>1, <3>2, QuietReach DEF RemoveSteps, RoleSteps
  <2> QED BY <1>0, <1>5, <2>1, ManageReach DEF Managing
<1>6. ASSUME NEW r \in Requests, Fail(r) PROVE ReachStep(e)
  <2>1. UNCHANGED <<orgs, member>> /\ Goes(r, "idle")
    BY <1>0, <1>6, ManagingGoes DEF Fail
  <2> QED BY <1>0, <2>1, QuietReach
<1> QED BY <1>1, <1>2, <1>3, <1>4, <1>5, <1>6 DEF Next

LEMMA ReachInvariant == Spec => []ReachBounded
<1>1. Init => ReachBounded
  <2> SUFFICES ASSUME Init, NEW e \in Emails PROVE Fits(Reach(e))
    BY DEF ReachBounded
  <2>1. Reach(e) = {}
    BY DEF Init, Reach, Settled, Joiners, Idle, JoinSteps, KnownSteps, AcceptSteps
  <2>2. Covered({})
    BY DEF Covered
  <2> QED BY <2>1, <2>2, CoveredFits
<1>2. IInv /\ ReachBounded /\ [Next]_vars => ReachBounded'
  <2> SUFFICES ASSUME IInv, ReachBounded, [Next]_vars, NEW e \in Emails PROVE Fits(Reach(e)')
    BY DEF ReachBounded, Fits
  <2> QED BY EachReach, SubsetFits, CoveredFits DEF ReachBounded, ReachStep
<1> QED BY <1>1, <1>2, Invariance, PTL DEF Spec

\* The policy "one account, one org" of auth_service.py:330 is a check before a
\* write, and overlapping requests can break it; but an account is never active in
\* more organizations than requests overlap.
AccountsAreBounded ==
  \A e \in Emails : Cardinality({o \in orgs : IsActive(e, o)}) <= Cardinality(Requests)

THEOREM OrgsPerAccount == Spec => []AccountsAreBounded
<1>1. ReachBounded => AccountsAreBounded
  <2> SUFFICES ASSUME ReachBounded, NEW e \in Emails
               PROVE  Cardinality({o \in orgs : IsActive(e, o)}) <= Cardinality(Requests)
    BY DEF AccountsAreBounded
  <2>1. Fits(Settled(e))
    BY SubsetFits DEF ReachBounded, Reach
  <2> QED BY <2>1 DEF Fits, Settled
<1> QED BY <1>1, ReachInvariant, PTL

LEMMA AtMostOne ==
  ASSUME NEW S, Fits(S), Cardinality(Requests) <= 1, NEW x \in S, NEW y \in S
  PROVE  x = y
<1> SUFFICES ASSUME x # y PROVE FALSE
  OBVIOUS
<1>1. IsFiniteSet({x}) /\ Cardinality({x}) = 1
  BY FS_Singleton
<1>2. Cardinality({x} \union {y}) = 2
  <2>1. Cardinality({x} \union {y}) = IF y \in {x} THEN Cardinality({x}) ELSE Cardinality({x}) + 1
    BY <1>1, FS_AddElement
  <2> QED BY <1>1, <2>1
<1>3. Cardinality({x} \union {y}) <= Cardinality(S) /\ Cardinality(S) \in Nat
  BY FS_Subset, FS_CardinalityType DEF Fits
<1>4. Cardinality(Requests) \in Nat
  BY RequestsAssumption, FS_CardinalityType
<1> QED BY <1>2, <1>3, <1>4 DEF Fits

\* One request at a time, an account is active in one organization at most
\* (auth_service.py:330).
THEOREM OneOrgOneAtATime == Cardinality(Requests) <= 1 => (Spec => []OneAccountOneOrg)
<1> SUFFICES ASSUME Cardinality(Requests) <= 1 PROVE Spec => []OneAccountOneOrg
  OBVIOUS
<1>1. IInv /\ ReachBounded => OneAccountOneOrg
  <2> SUFFICES ASSUME IInv, ReachBounded, NEW e \in users,
                      NEW o \in orgs, NEW p \in orgs, IsActive(e, o), IsActive(e, p)
               PROVE  o = p
    BY DEF OneAccountOneOrg
  <2>1. Fits(Reach(e))
    BY DEF ReachBounded, IInv, TypeOK
  <2>2. o \in Reach(e) /\ p \in Reach(e)
    BY DEF Reach, Settled
  <2> QED BY <2>1, <2>2, AtMostOne
<1> QED BY <1>1, Invariance, ReachInvariant, PTL

----------------------------------------------------------------------------
\* How many invites of an organization can wait for an address: those there are and
\* those that requests past the check of organization_service.py:87 are about to
\* insert are together no more than the requests.  The check finds none waiting, so
\* then it is the requests alone; after that an insertion turns one into the other.

PastPending == InviteSteps \ {"invite.pending"}
Inviters(e, o) ==
  {r \in Requests : req[r].at \in PastPending /\ req[r].email = e /\ req[r].org = o}

Budgeted(e, o) ==
  /\ IsFiniteSet(PendingInvites(e, o))
  /\ Cardinality(PendingInvites(e, o)) + Cardinality(Inviters(e, o)) <= Cardinality(Requests)

LEMMA SomeRequests ==
  ASSUME NEW S, S \subseteq Requests
  PROVE  /\ IsFiniteSet(S) /\ Cardinality(S) \in Nat /\ Cardinality(Requests) \in Nat
         /\ Cardinality(S) <= Cardinality(Requests)
BY RequestsAssumption, FS_Subset, FS_CardinalityType

\* Fewer of either kind.
LEMMA InvitesShrink ==
  ASSUME NEW e, NEW o, Budgeted(e, o),
         PendingInvites(e, o)' \subseteq PendingInvites(e, o),
         Inviters(e, o)' \subseteq Inviters(e, o)
  PROVE  Budgeted(e, o)'
<1> DEFINE P == PendingInvites(e, o)
           Q == Inviters(e, o)
           P1 == PendingInvites(e, o)'
           Q1 == Inviters(e, o)'
<1>1. /\ P1 \subseteq P /\ Q1 \subseteq Q /\ IsFiniteSet(P) /\ Q \subseteq Requests
      /\ Cardinality(P) + Cardinality(Q) <= Cardinality(Requests)
  BY DEF Budgeted, Inviters
<1> SUFFICES IsFiniteSet(P1) /\ Cardinality(P1) + Cardinality(Q1) <= Cardinality(Requests)
  BY DEF Budgeted
<1> HIDE DEF P, Q, P1, Q1
<1>2. IsFiniteSet(P1) /\ Cardinality(P1) <= Cardinality(P)
  BY <1>1, FS_Subset
<1>3. IsFiniteSet(Q) /\ Cardinality(Q1) <= Cardinality(Q)
  BY <1>1, SomeRequests, FS_Subset
<1>4. /\ Cardinality(P) \in Nat /\ Cardinality(P1) \in Nat /\ Cardinality(Q) \in Nat
      /\ Cardinality(Q1) \in Nat /\ Cardinality(Requests) \in Nat
  BY <1>1, <1>2, SomeRequests, FS_CardinalityType
<1> QED BY <1>1, <1>2, <1>3, <1>4

\* None waits.
LEMMA NoneWaits ==
  ASSUME NEW e, NEW o, PendingInvites(e, o)' = {}
  PROVE  Budgeted(e, o)'
<1>1. Inviters(e, o)' \subseteq Requests
  BY DEF Inviters
<1>2. /\ Cardinality(Inviters(e, o)') \in Nat /\ Cardinality(Requests) \in Nat
      /\ Cardinality(Inviters(e, o)') <= Cardinality(Requests)
  BY <1>1, SomeRequests
<1> QED BY <1>2, FS_EmptySet DEF Budgeted

\* An inviter turns into an invite.
LEMMA InviteInserted ==
  ASSUME NEW e, NEW o, Budgeted(e, o), NEW i, NEW r \in Inviters(e, o),
         i \notin PendingInvites(e, o),
         PendingInvites(e, o)' = PendingInvites(e, o) \union {i},
         Inviters(e, o)' = Inviters(e, o) \ {r}
  PROVE  Budgeted(e, o)'
<1> DEFINE P == PendingInvites(e, o)
           Q == Inviters(e, o)
<1>1. /\ IsFiniteSet(P) /\ Q \subseteq Requests /\ r \in Q /\ i \notin P
      /\ Cardinality(P) + Cardinality(Q) <= Cardinality(Requests)
  BY DEF Budgeted, Inviters
<1> SUFFICES /\ IsFiniteSet(P \union {i})
             /\ Cardinality(P \union {i}) + Cardinality(Q \ {r}) <= Cardinality(Requests)
  BY DEF Budgeted
<1> HIDE DEF P, Q
<1>2. IsFiniteSet(P \union {i}) /\ Cardinality(P \union {i}) = Cardinality(P) + 1
  BY <1>1, FS_AddElement
<1>3. IsFiniteSet(Q) /\ Cardinality(Q \ {r}) = Cardinality(Q) - 1
  BY <1>1, SomeRequests, FS_RemoveElement
<1>4. Cardinality(P) \in Nat /\ Cardinality(Q) \in Nat /\ Cardinality(Requests) \in Nat
  BY <1>1, SomeRequests, FS_CardinalityType
<1> QED BY <1>1, <1>2, <1>3, <1>4

\* An inviter that goes on.
InvitesOn(q) ==
  req[q].at \in PastPending /\ req'[q].email = req[q].email /\ req'[q].org = req[q].org

LEMMA InvitersStay ==
  ASSUME NEW e, NEW o, \A q \in Inviters(e, o)' : InvitesOn(q)
  PROVE  Inviters(e, o)' \subseteq Inviters(e, o)
BY DEF Inviters, InvitesOn

LEMMA NobodyElseInvites ==
  ASSUME NEW r \in Requests, NEW step, Goes(r, step), step \notin PastPending, NEW e, NEW o
  PROVE  Inviters(e, o)' \subseteq Inviters(e, o)
<1>1. ASSUME NEW q \in Inviters(e, o)'
      PROVE  InvitesOn(q)
  BY DEF Inviters, Goes, Waiting, InvitesOn
<1> QED BY <1>1, InvitersStay

LEMMA QuietInvites ==
  ASSUME invite' = invite, NEW r \in Requests, NEW step, Goes(r, step), step \notin PastPending,
         NEW e, NEW o, Budgeted(e, o)
  PROVE  Budgeted(e, o)'
<1>1. PendingInvites(e, o)' = PendingInvites(e, o)
  BY DEF PendingInvites
<1> QED BY <1>1, NobodyElseInvites, InvitesShrink

LEMMA InvitingBudget ==
  ASSUME IInv, TablesGrow, NEW r \in Requests, Inviting(r), NEW e, NEW o, Budgeted(e, o)
  PROVE  Budgeted(e, o)'
<1> USE DEF PastPending, InviteSteps
<1>1. CASE StartInvite(r)
  <2>1. invite' = invite /\ Goes(r, "invite.pending")
    BY <1>1, InvitingGoes DEF StartInvite, OnlyReads, IInv
  <2> QED BY <2>1, QuietInvites
<1>2. CASE InvitePending(r)
  <2>1. /\ invite' = invite /\ PendingInvites(req[r].email, req[r].org) = {}
        /\ Goes(r, "invite.user")
        /\ req'[r].email = req[r].email /\ req'[r].org = req[r].org
    BY <1>2, InvitingGoes, GotoGoes DEF InvitePending, Read, OnlyReads, IInv
  <2>2. PendingInvites(e, o)' = PendingInvites(e, o)
    BY <2>1 DEF PendingInvites
  <2>3. CASE req[r].email = e /\ req[r].org = o
    BY <2>1, <2>2, <2>3, NoneWaits
  <2>4. CASE ~(req[r].email = e /\ req[r].org = o)
    <3>1. ASSUME NEW q \in Inviters(e, o)'
          PROVE  InvitesOn(q)
      BY <2>1, <2>4 DEF Inviters, Goes, Waiting, InvitesOn
    <3> QED BY <2>2, <3>1, InvitersStay, InvitesShrink
  <2> QED BY <2>3, <2>4
<1>3. CASE InviteUser(r) \/ InviteMember(r) \/ InviteElsewhere(r)
  <2>1. PICK step : Goto(r, step)
    BY <1>3 DEF InviteUser, InviteMember, InviteElsewhere, Read
  <2>2. req[r].at \in PastPending /\ invite' = invite
    BY <1>3 DEF InviteUser, InviteMember, InviteElsewhere, Read, OnlyReads
  <2>3. Goes(r, step) /\ req'[r].email = req[r].email /\ req'[r].org = req[r].org
    BY <2>1, <2>2, GotoGoes DEF IInv
  <2>4. ASSUME NEW q \in Inviters(e, o)'
        PROVE  InvitesOn(q)
    BY <2>2, <2>3 DEF Inviters, Goes, Waiting, InvitesOn
  <2>5. PendingInvites(e, o)' = PendingInvites(e, o)
    BY <2>2 DEF PendingInvites
  <2> QED BY <2>4, <2>5, InvitersStay, InvitesShrink
<1>4. CASE InviteCommit(r)
  <2> DEFINE row == [email |-> req[r].email, org |-> req[r].org, role |-> req[r].role,
                     accepted |-> FALSE]
  <2>1. PICK i \in InviteIds \ DOMAIN invite : invite' = With(invite, i, row)
    BY <1>4 DEF InviteCommit
  <2>2. Goes(r, "idle") /\ req[r].at = "invite.commit"
    BY <1>4, InvitingGoes DEF InviteCommit, IInv
  <2>3. row.email = req[r].email /\ row.org = req[r].org /\ ~row.accepted
    OBVIOUS
  <2> HIDE DEF row
  <2>4. /\ DOMAIN invite' = DOMAIN invite \union {i} /\ invite'[i] = row
        /\ \A j \in DOMAIN invite : invite'[j] = invite[j]
    BY <2>1 DEF With
  <2>5. i \notin PendingInvites(e, o)
    BY <2>1 DEF PendingInvites
  <2>6. CASE req[r].email = e /\ req[r].org = o
    <3>1. PendingInvites(e, o)' = PendingInvites(e, o) \union {i}
      BY <2>1, <2>3, <2>4, <2>6 DEF PendingInvites
    <3>2. r \in Inviters(e, o) /\ Inviters(e, o)' = Inviters(e, o) \ {r}
      BY <2>2, <2>6 DEF Inviters, Goes, Waiting
    <3> QED BY <2>5, <3>1, <3>2, InviteInserted
  <2>7. CASE ~(req[r].email = e /\ req[r].org = o)
    <3>1. PendingInvites(e, o)' = PendingInvites(e, o)
      BY <2>1, <2>3, <2>4, <2>7 DEF PendingInvites
    <3> QED BY <2>2, <3>1, NobodyElseInvites, InvitesShrink
  <2> QED BY <2>6, <2>7
<1> QED BY <1>1, <1>2, <1>3, <1>4 DEF Inviting

\* An invite that was accepted waits no more.
LEMMA AcceptedInvites ==
  ASSUME IInv, TablesGrow, DOMAIN invite' = DOMAIN invite,
         \A i \in DOMAIN invite : invite[i].accepted => invite'[i].accepted, NEW e, NEW o
  PROVE  PendingInvites(e, o)' \subseteq PendingInvites(e, o)
BY DEF TablesGrow, PendingInvites

LEMMA EachBudget ==
  ASSUME IInv, [Next]_vars, NEW e, NEW o, Budgeted(e, o)
  PROVE  Budgeted(e, o)'
<1> USE DEF PastPending, InviteSteps
<1>0. TypeOK /\ TablesGrow
  BY StepPreserves DEF IInv, GoodStep
<1>1. CASE UNCHANGED vars
  <2>1. PendingInvites(e, o)' = PendingInvites(e, o) /\ Inviters(e, o)' = Inviters(e, o)
    BY <1>1 DEF vars, PendingInvites, Inviters
  <2> QED BY <2>1, InvitesShrink
<1>2. ASSUME NEW r \in Requests, Signup(r) PROVE Budgeted(e, o)'
  <2>1. invite' = invite
    BY <1>2 DEF Signup, StartSignup, TakeSlug, NextSlug, SignupCommit, Read, OnlyReads
  <2>2. PICK step \in {"signup.slug", "signup.commit", "idle"} : Goes(r, step)
    BY <1>0, <1>2, SignupGoes DEF Signup
  <2> QED BY <2>1, <2>2, QuietInvites
<1>3. ASSUME NEW r \in Requests, Accepting(r) PROVE Budgeted(e, o)'
  <2>1. PICK step \in AcceptSteps \union {"idle"} : Goes(r, step)
    BY <1>0, <1>3, AcceptingGoes DEF Accepting, AcceptSteps
  <2>2. DOMAIN invite' = DOMAIN invite
        /\ \A i \in DOMAIN invite : invite[i].accepted => invite'[i].accepted
    <3>1. CASE invite' = invite
      BY <3>1
    <3>2. CASE \E row : AcceptCommit(r, row)
      BY <1>0, <3>2 DEF AcceptCommit, TypeOK, Invite
    <3> QED BY <1>3, <3>1, <3>2 DEF Accepting, StartAccept, AcceptUser, AcceptElsewhere,
          AcceptMemberNone, AcceptMemberDeleted, AcceptNewcomer, AcceptJoin, AcceptRestore,
          AcceptUndelete, Read, OnlyReads
  <2> QED BY <1>0, <2>1, <2>2, AcceptedInvites, NobodyElseInvites, InvitesShrink DEF AcceptSteps
<1>4. ASSUME NEW r \in Requests, Managing(r) \/ Fail(r) PROVE Budgeted(e, o)'
  <2>1. invite' = invite
    BY <1>4 DEF Managing, StartRemove, RemoveRead, RemoveCommit, StartRole, RoleRead, RoleCommit,
      Fail, Read, OnlyReads
  <2>2. PICK step \in RemoveSteps \union RoleSteps \union {"idle"} : Goes(r, step)
    BY <1>0, <1>4, ManagingGoes DEF Managing, RemoveSteps, RoleSteps
  <2> QED BY <2>1, <2>2, QuietInvites DEF RemoveSteps, RoleSteps
<1> QED BY <1>0, <1>1, <1>2, <1>3, <1>4, InvitingBudget DEF Next

AllBudgeted == \A e \in Invitees, o \in Slugs : Budgeted(e, o)

LEMMA BudgetInvariant == Spec => []AllBudgeted
<1>1. Init => AllBudgeted
  <2> SUFFICES ASSUME Init, NEW e \in Invitees, NEW o \in Slugs PROVE Budgeted(e, o)
    BY DEF AllBudgeted
  <2>1. PendingInvites(e, o) = {} /\ Inviters(e, o) = {}
    BY DEF Init, PendingInvites, Inviters, Idle, PastPending, InviteSteps
  <2> QED BY <2>1, SomeRequests, FS_EmptySet DEF Budgeted
<1>2. IInv /\ AllBudgeted /\ [Next]_vars => AllBudgeted'
  <2> SUFFICES ASSUME IInv, AllBudgeted, [Next]_vars, NEW e \in Invitees, NEW o \in Slugs
               PROVE  Budgeted(e, o)'
    BY DEF AllBudgeted
  <2> QED BY EachBudget DEF AllBudgeted
<1> QED BY <1>1, <1>2, Invariance, PTL DEF Spec

\* No more invites of an organization wait for an address than requests overlap: the
\* check "A pending invite already exists" can be outrun by requests under way, and
\* by nothing else (organization_service.py:87).
InvitesAreBounded ==
  \A e \in Invitees, o \in Slugs : Cardinality(PendingInvites(e, o)) <= Cardinality(Requests)

THEOREM InvitesPerAddress == Spec => []InvitesAreBounded
<1>1. AllBudgeted => InvitesAreBounded
  <2> SUFFICES ASSUME AllBudgeted, NEW e \in Invitees, NEW o \in Slugs
               PROVE  Cardinality(PendingInvites(e, o)) <= Cardinality(Requests)
    BY DEF InvitesAreBounded
  <2>1. Budgeted(e, o) /\ Inviters(e, o) \subseteq Requests
    BY DEF AllBudgeted, Inviters
  <2>2. /\ Cardinality(PendingInvites(e, o)) \in Nat /\ Cardinality(Inviters(e, o)) \in Nat
        /\ Cardinality(Requests) \in Nat
    BY <2>1, SomeRequests, FS_CardinalityType DEF Budgeted
  <2> QED BY <2>1, <2>2 DEF Budgeted
<1> QED BY <1>1, BudgetInvariant, PTL

\* One request at a time, one invite at most waits for an address
\* (organization_service.py:87).
THEOREM OneInviteOneAtATime == Cardinality(Requests) <= 1 => (Spec => []SinglePendingInvite)
<1> SUFFICES ASSUME Cardinality(Requests) <= 1 PROVE Spec => []SinglePendingInvite
  OBVIOUS
<1>1. IInv /\ AllBudgeted /\ InvitesAreBounded => SinglePendingInvite
  <2> SUFFICES ASSUME IInv, AllBudgeted, InvitesAreBounded,
                      NEW i \in DOMAIN invite, NEW j \in DOMAIN invite,
                      ~invite[i].accepted, ~invite[j].accepted,
                      invite[i].email = invite[j].email, invite[i].org = invite[j].org
               PROVE  i = j
    BY DEF SinglePendingInvite
  <2> DEFINE P == PendingInvites(invite[i].email, invite[i].org)
  <2>1. invite[i].email \in Invitees /\ invite[i].org \in Slugs
    BY DEF IInv, TypeOK, Invite
  <2>2. Fits(P)
    BY <2>1 DEF AllBudgeted, Budgeted, InvitesAreBounded, Fits
  <2>3. i \in P /\ j \in P
    BY DEF PendingInvites
  <2> QED BY <2>2, <2>3, AtMostOne
<1> QED BY <1>1, Invariance, BudgetInvariant, InvitesPerAddress, PTL

----------------------------------------------------------------------------
\* How the rank rules of removals and role changes can be overtaken.

Acts(s) == Signup(s) \/ Inviting(s) \/ Accepting(s) \/ Managing(s) \/ Fail(s)

\* A request that reads its target's role finds the rule satisfied.
LEMMA RankRead ==
  ASSUME IInv, NEW r \in Requests, RemoveRead(r) \/ RoleRead(r)
  PROVE  RankHolds(r)' /\ Waiting(r)
<1>1. /\ member' = member /\ MayTouch(req[r].by, member[Target(r)].role)
      /\ req[r].at \in RemoveSteps \union RoleSteps
  BY DEF RemoveRead, RoleRead, Read, OnlyReads, RemoveSteps, RoleSteps
<1>2. PICK step : Goto(r, step)
  BY DEF RemoveRead, RoleRead, Read
<1>3. req'[r].by = req[r].by /\ Target(r)' = Target(r) /\ Waiting(r)
  BY <1>1, <1>2, GotoGoes DEF IInv, Target, Goes
<1> QED BY <1>1, <1>3 DEF RankHolds, MayTouch, AdminRoles

\* No other step takes a request to the commit of a removal or a role change.
LEMMA RankMoves ==
  ASSUME IInv, NEW s \in Requests, Acts(s)
  PROVE  RankHolds(s)' /\ Waiting(s)
<1> USE DEF SignupSteps, InviteSteps, AcceptSteps
<1>0. TypeOK
  BY DEF IInv
<1>1. ASSUME NEW step, Goes(s, step), step \notin {"remove.commit", "role.commit"}
      PROVE  RankHolds(s)' /\ Waiting(s)
  BY <1>1 DEF RankHolds, Goes
<1>2. CASE Signup(s)
  BY <1>0, <1>1, <1>2, SignupGoes DEF Signup
<1>3. CASE Inviting(s)
  BY <1>0, <1>1, <1>3, InvitingGoes DEF Inviting
<1>4. CASE Accepting(s)
  <2>1. PICK step \in AcceptSteps \union {"idle"} : Goes(s, step)
    BY <1>0, <1>4, AcceptingGoes DEF Accepting
  <2> QED BY <1>1, <2>1
<1>5. CASE RemoveRead(s) \/ RoleRead(s)
  BY <1>5, RankRead
<1>6. CASE Managing(s) \/ Fail(s)
  BY <1>0, <1>1, <1>5, <1>6, ManagingGoes DEF Managing
<1> QED BY <1>2, <1>3, <1>4, <1>6 DEF Acts

\* A membership becomes an admin's by a promotion and by nothing else.
LEMMA OnlyPromotionsPromote ==
  ASSUME IInv, NEW s \in Requests, Acts(s), NEW m \in DOMAIN member,
         member[m].role \notin AdminRoles, member'[m].role \in AdminRoles
  PROVE  Promotes(s, m)
<1>1. m[1] \in users /\ \A e, o : <<e, o>> = m => e \in users
  BY DEF IInv, EveryAccountWasPlaced
<1>2. member'[m] # member[m]
  OBVIOUS
<1>3. CASE Signup(s)
  BY <1>1, <1>2, <1>3 DEF Signup, StartSignup, TakeSlug, NextSlug, SignupCommit, SignupConflict,
    With, Read, OnlyReads
<1>4. CASE Inviting(s)
  BY <1>2, <1>4 DEF Inviting, StartInvite, InvitePending, InviteUser, InviteMember,
    InviteElsewhere, InviteCommit, Read, OnlyReads
<1>5. CASE AcceptNewcomer(s) \/ AcceptJoin(s)
  BY <1>1, <1>2, <1>5 DEF AcceptNewcomer, AcceptJoin, AcceptCommit, Joining, With
<1>6. CASE AcceptRestore(s)
  <2>1. Joining(s) = m /\ member'[m].role = Accepted(s).role
    BY <1>2, <1>6 DEF AcceptRestore, AcceptCommit, InvitedAs, With
  <2>2. Accepted(s).role \in InviteRoles
    BY <1>6, AcceptedInvite DEF AcceptRestore, AcceptSteps, Invite
  <2> QED BY <1>6, <2>1, <2>2, RolesAssumption DEF Promotes, AdminRoles
<1>7. CASE AcceptUndelete(s)
  <2>1. Joining(s) \in DOMAIN member
    BY <1>7 DEF AcceptUndelete, IInv, ReadsStayTrue, Footing
  <2>2. member[Joining(s)] \in Membership
    BY <2>1 DEF IInv, TypeOK
  <2>3. \A x \in DOMAIN member : member'[x].role = member[x].role
    BY <1>7, <2>2 DEF AcceptUndelete, AcceptCommit, With, Membership
  <2> QED BY <2>3
<1>8. CASE Accepting(s)
  BY <1>2, <1>5, <1>6, <1>7, <1>8 DEF Accepting, StartAccept, AcceptUser, AcceptElsewhere,
    AcceptMemberNone, AcceptMemberDeleted, Read, OnlyReads
<1>9. CASE RemoveCommit(s)
  <2>1. \A x \in DOMAIN member : member[x] \in Membership
    BY DEF IInv, TypeOK
  <2>2. member'[m].role = member[m].role
    BY <1>9, <2>1 DEF RemoveCommit, Membership
  <2> QED BY <2>2
<1>10. CASE RoleCommit(s)
  <2>1. req[s].role \in InviteRoles
    BY <1>10, RequestKind DEF RoleCommit, RoleSteps, RoleRequest, IInv, TypeOK
  <2>2. member[m] \in Membership
    BY DEF IInv, TypeOK
  <2>3. Target(s) = m /\ member'[m].role = req[s].role
    BY <1>2, <1>10, <2>2 DEF RoleCommit, Membership
  <2> QED BY <1>10, <2>1, <2>3, RolesAssumption DEF Promotes, AdminRoles
<1>11. CASE Managing(s) \/ Fail(s)
  BY <1>2, <1>9, <1>10, <1>11 DEF Managing, StartRemove, RemoveRead, StartRole, RoleRead, Fail,
    Read, OnlyReads
<1> QED BY <1>3, <1>4, <1>8, <1>11 DEF Acts

LEMMA RankOvertaken ==
  ASSUME IInv, [Next]_vars, NEW r \in Requests, RankHolds(r), ~RankHolds(r)'
  PROVE  \E s \in Requests \ {r} : Promotes(s, Target(r))
<1>1. ASSUME UNCHANGED <<member, req>> PROVE FALSE
  BY <1>1 DEF RankHolds, Target
<1>2. PICK s \in Requests : Acts(s)
  BY <1>1 DEF Next, vars, Acts
<1>3. s # r /\ req'[r] = req[r]
  BY <1>2, RankMoves DEF Waiting
<1>4. Target(r)' = Target(r)
  BY <1>3 DEF Target
<1>5. Target(r) \in DOMAIN member
  BY <1>3 DEF RankHolds, IInv, ReadsStayTrue, Footing
<1>6. member[Target(r)].role \notin AdminRoles /\ member'[Target(r)].role \in AdminRoles
  BY <1>3, <1>4 DEF RankHolds
<1> QED BY <1>2, <1>3, <1>5, <1>6, OnlyPromotionsPromote

\* However requests overlap, an admin comes to remove or demote an admin in one way
\* only: another request committed that member's promotion after his role was read
\* (organization_service.py:169-173 and 197-201).
THEOREM RanksYieldToPromotions == Spec => PromotionsAloneOvertake
<1>1. IInv /\ [Next]_vars =>
        \A r \in Requests : RankHolds(r) /\ ~RankHolds(r)' =>
          \E s \in Requests \ {r} : Promotes(s, Target(r))
  BY RankOvertaken
<1> QED BY <1>1, Invariance, PTL DEF Spec, PromotionsAloneOvertake
=============================================================================
