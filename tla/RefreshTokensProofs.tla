------------------------ MODULE RefreshTokensProofs ------------------------
(***************************************************************************)
(* Proofs about RefreshTokens for every set of users, tokens and requests. *)
(* The bound on successors is a counting argument: the successors a token  *)
(* has and the requests still holding it are together no more than the     *)
(* requests there are, because nobody can begin to hold it once the first  *)
(* successor exists.                                                       *)
(***************************************************************************)
EXTENDS RefreshTokens, FiniteSetTheorems, TLAPS

\* The requests that read t while it was live and may still trade it.
Holders(t) == {r \in Requests : /\ req[r].at \in {"refresh.member", "refresh.commit"}
                                /\ req[r].token = t}

Budgeted(t) == /\ IsFiniteSet(Children(t))
               /\ Cardinality(Children(t)) + Cardinality(Holders(t))
                    <= Cardinality(Requests)

\* Parents are rows that were revoked, a row without a parent is a login's, and
\* a request works on a row.
Linked ==
  /\ \A c \in DOMAIN token : token[c].parent # NoToken =>
       /\ token[c].parent \in DOMAIN token
       /\ token[token[c].parent].revoked
       /\ token[token[c].parent].user = token[c].user
  /\ \A r \in Requests : req[r] \in TokenRequest => req[r].token \in DOMAIN token

IInv == TypeOK /\ Linked /\ \A t \in DOMAIN token : Budgeted(t)

LEMMA HoldersFinite ==
  ASSUME NEW t
  PROVE  /\ IsFiniteSet(Holders(t))
         /\ Cardinality(Holders(t)) \in Nat
         /\ Cardinality(Requests) \in Nat
         /\ Cardinality(Holders(t)) <= Cardinality(Requests)
<1>1. Holders(t) \in SUBSET Requests
  BY DEF Holders
<1> QED BY <1>1, RequestsAssumption, FS_Subset, FS_CardinalityType

\* A token without successors is within its budget, whoever holds it.
LEMMA ChildlessBudgeted ==
  ASSUME NEW t, Children(t) = {}
  PROVE  Budgeted(t)
BY HoldersFinite, FS_EmptySet DEF Budgeted

\* Losing holders and keeping the successors stays within the budget.
LEMMA BudgetKept ==
  ASSUME NEW t, Budgeted(t), Children(t)' = Children(t), Holders(t)' \subseteq Holders(t)
  PROVE  Budgeted(t)'
<1>1. Holders(t)' \in SUBSET Holders(t)
  OBVIOUS
<1>2. /\ IsFiniteSet(Holders(t)')
      /\ Cardinality(Holders(t)') <= Cardinality(Holders(t))
  BY <1>1, HoldersFinite, FS_Subset
<1>3. /\ Cardinality(Holders(t)') \in Nat /\ Cardinality(Holders(t)) \in Nat
      /\ Cardinality(Children(t)) \in Nat /\ Cardinality(Requests) \in Nat
  BY <1>2, HoldersFinite, FS_CardinalityType DEF Budgeted
<1> QED BY <1>2, <1>3 DEF Budgeted

\* A holder that becomes a successor moves from one side to the other.
LEMMA BudgetTraded ==
  ASSUME NEW t, Budgeted(t), NEW n, n \notin Children(t), NEW r \in Holders(t),
         Children(t)' = Children(t) \union {n}, Holders(t)' = Holders(t) \ {r}
  PROVE  Budgeted(t)'
<1>1. /\ IsFiniteSet(Children(t)')
      /\ Cardinality(Children(t)') = Cardinality(Children(t)) + 1
  BY FS_AddElement DEF Budgeted
<1>2. Cardinality(Holders(t)') = Cardinality(Holders(t)) - 1
  BY HoldersFinite, FS_RemoveElement
<1>3. /\ Cardinality(Children(t)) \in Nat /\ Cardinality(Holders(t)) \in Nat
      /\ Cardinality(Requests) \in Nat
  BY HoldersFinite, FS_CardinalityType DEF Budgeted
<1> QED BY <1>1, <1>2, <1>3 DEF Budgeted

LEMMA LiveChildless ==
  ASSUME TypeOK, Linked, NEW t \in DOMAIN token, ~token[t].revoked
  PROVE  Children(t) = {}
BY NoTokenAssumption DEF Linked, Children, TypeOK

----------------------------------------------------------------------------
\* Steps that leave the rows alone.
LEMMA RequestStep ==
  ASSUME IInv, NEW r \in Requests, NEW q \in Request, req' = [req EXCEPT ![r] = q],
         placed' \subseteq Users, token' = token,
         q \in TokenRequest => q.token \in DOMAIN token,
         \A t \in DOMAIN token :
           r \in Holders(t)' => r \in Holders(t) \/ ~token[t].revoked
  PROVE  IInv'
<1>1. TypeOK'
  BY DEF IInv, TypeOK
<1>2. Linked'
  BY DEF IInv, TypeOK, Linked
<1>3. ASSUME NEW t \in DOMAIN token'
      PROVE  Budgeted(t)'
  <2>1. Children(t)' = Children(t)
    BY DEF Children
  <2>2. CASE token[t].revoked
    <3>1. Holders(t)' \subseteq Holders(t)
      BY <2>2 DEF Holders, IInv, TypeOK
    <3> QED BY <2>1, <3>1, BudgetKept DEF IInv
  <2>3. CASE ~token[t].revoked
    <3>1. Children(t)' = {}
      BY <2>1, <2>3, LiveChildless DEF IInv
    <3>2. /\ IsFiniteSet(Holders(t)') /\ Cardinality(Holders(t)') <= Cardinality(Requests)
          /\ Cardinality(Holders(t)') \in Nat /\ Cardinality(Requests) \in Nat
      <4>1. Holders(t)' \in SUBSET Requests
        BY DEF Holders
      <4> QED BY <4>1, RequestsAssumption, FS_Subset, FS_CardinalityType
    <3> QED BY <3>1, <3>2, FS_EmptySet DEF Budgeted
  <2> QED BY <2>2, <2>3
<1> QED BY <1>1, <1>2, <1>3 DEF IInv

\* Steps that only set flags of rows: a logout, an expiry.
LEMMA FlagStep ==
  ASSUME IInv, placed' = placed,
         DOMAIN token' = DOMAIN token, token' \in [DOMAIN token' -> Row],
         \A t \in DOMAIN token : /\ token'[t].parent = token[t].parent
                                 /\ token'[t].user = token[t].user
                                 /\ token[t].revoked => token'[t].revoked,
         NEW r \in Requests, req' = req \/ req' = [req EXCEPT ![r] = Idle]
  PROVE  IInv'
<1>1. TypeOK'
  BY DEF IInv, TypeOK, Request
<1>2. \A p \in Requests : req'[p] = req[p] \/ req'[p] = Idle
  BY DEF IInv, TypeOK
<1>3. Linked'
  BY <1>2 DEF IInv, TypeOK, Linked, TokenRequest, Idle
<1>4. ASSUME NEW t \in DOMAIN token'
      PROVE  Budgeted(t)'
  <2>1. Children(t)' = Children(t)
    BY DEF Children
  <2>2. Holders(t)' \subseteq Holders(t)
    BY <1>2 DEF Holders, Idle
  <2> QED BY <2>1, <2>2, BudgetKept DEF IInv
<1> QED BY <1>1, <1>3, <1>4 DEF IInv

\* A row that a login or a new member gets starts with no successor, and nobody's
\* budget changes.
LEMMA InsertStep ==
  ASSUME IInv, NEW n \in Fresh, NEW u \in Users, token' = Insert(token, n, u, NoToken),
         placed' \subseteq Users, req' \in [Requests -> Request],
         \A p \in Requests : req'[p] = req[p] \/ req'[p] = Idle
  PROVE  IInv'
<1>1. n \in Tokens /\ n \notin DOMAIN token
  BY DEF Fresh
<1>3. /\ DOMAIN token' = DOMAIN token \union {n}
      /\ token'[n] = NewRow(u, NoToken)
      /\ \A t \in DOMAIN token : token'[t] = token[t]
      /\ NewRow(u, NoToken) \in Row
  BY <1>1 DEF Insert, NewRow, Row
<1>4. TypeOK'
  <2>1. token' \in [DOMAIN token' -> Row]
    BY <1>1, <1>3 DEF Insert, IInv, TypeOK
  <2> QED BY <1>1, <1>3, <2>1 DEF IInv, TypeOK, Request
<1>5. \A p \in Requests : req'[p] = req[p] \/ req'[p] = Idle
  OBVIOUS
<1>6. Linked'
  <2>1. \A c \in DOMAIN token' : token'[c].parent # NoToken =>
          /\ token'[c].parent \in DOMAIN token'
          /\ token'[token'[c].parent].revoked
          /\ token'[token'[c].parent].user = token'[c].user
    BY <1>3 DEF IInv, Linked, NewRow
  <2>2. \A p \in Requests : req'[p] \in TokenRequest => req'[p].token \in DOMAIN token'
    BY <1>3, <1>5 DEF IInv, Linked, TokenRequest, Idle
  <2> QED BY <2>1, <2>2 DEF Linked
<1>7. ASSUME NEW t \in DOMAIN token'
      PROVE  Budgeted(t)'
  <2>1. t # NoToken
    BY <1>4, NoTokenAssumption DEF TypeOK
  <2>2. CASE t = n
    <3>1. Children(t)' = {}
      BY <1>1, <1>3, <2>1, <2>2 DEF Children, NewRow, IInv, Linked
    <3>2. /\ IsFiniteSet(Holders(t)') /\ Cardinality(Holders(t)') <= Cardinality(Requests)
          /\ Cardinality(Holders(t)') \in Nat /\ Cardinality(Requests) \in Nat
      <4>1. Holders(t)' \in SUBSET Requests
        BY DEF Holders
      <4> QED BY <4>1, RequestsAssumption, FS_Subset, FS_CardinalityType
    <3> QED BY <3>1, <3>2, FS_EmptySet DEF Budgeted
  <2>3. CASE t \in DOMAIN token
    <3>1. Children(t)' = Children(t)
      BY <1>1, <1>3, <2>1 DEF Children, NewRow
    <3>2. Holders(t)' \subseteq Holders(t)
      BY <1>5 DEF Holders, Idle
    <3> QED BY <2>3, <3>1, <3>2, BudgetKept DEF IInv
  <2> QED BY <1>3, <2>2, <2>3
<1> QED BY <1>4, <1>6, <1>7 DEF IInv

\* A refresh turns one holder of the old token into a successor.
LEMMA TradeStep ==
  ASSUME IInv, NEW r \in Requests, RefreshCommit(r)
  PROVE  IInv'
<1>1. PICK n \in Tokens, o \in DOMAIN token :
        /\ n \notin DOMAIN token /\ o = req[r].token
        /\ token' = Insert(Revoke(token, o), n, token[o].user, o)
        /\ req' = [req EXCEPT ![r] = Idle] /\ placed' = placed
  <2>1. req[r] \in TokenRequest
    BY DEF RefreshCommit, IInv, TypeOK, Request, Idle, LoginRequest
  <2> QED BY <2>1 DEF RefreshCommit, Fresh, Commit, IInv, Linked
<1> DEFINE new == NewRow(token[o].user, o)
<1>2. /\ DOMAIN token' = DOMAIN token \union {n}
      /\ token'[n] = new
      /\ \A t \in DOMAIN token \ {o} : token'[t] = token[t]
      /\ token'[o] = [token[o] EXCEPT !.revoked = TRUE]
      /\ token[o] \in Row /\ new \in Row
  BY <1>1 DEF Insert, Revoke, NewRow, Row, IInv, TypeOK
<1>3. TypeOK'
  <2>1. token' \in [DOMAIN token' -> Row]
    <3>1. [token[o] EXCEPT !.revoked = TRUE] \in Row
      BY <1>2 DEF Row
    <3>2. \A t \in DOMAIN token' : token'[t] \in Row
      BY <1>2, <3>1 DEF IInv, TypeOK
    <3> QED BY <1>1, <3>2 DEF Insert
  <2> QED BY <1>1, <1>2, <2>1 DEF IInv, TypeOK, Request
<1>4. \A p \in Requests : req'[p] = req[p] \/ req'[p] = Idle
  BY <1>1 DEF IInv, TypeOK
<1>5. /\ \A t \in DOMAIN token : /\ token'[t].parent = token[t].parent
                                 /\ token'[t].user = token[t].user
                                 /\ token[t].revoked => token'[t].revoked
      /\ token'[o].revoked
      /\ token'[n].parent = o /\ token'[n].user = token[o].user
  BY <1>2 DEF NewRow, Row, IInv, TypeOK
<1>6. Linked'
  <2>1. \A c \in DOMAIN token' : token'[c].parent # NoToken =>
          /\ token'[c].parent \in DOMAIN token'
          /\ token'[token'[c].parent].revoked
          /\ token'[token'[c].parent].user = token'[c].user
    <3> SUFFICES ASSUME NEW c \in DOMAIN token', token'[c].parent # NoToken
                 PROVE  /\ token'[c].parent \in DOMAIN token'
                        /\ token'[token'[c].parent].revoked
                        /\ token'[token'[c].parent].user = token'[c].user
      OBVIOUS
    <3>1. CASE c = n
      BY <1>2, <1>5, <3>1
    <3>2. CASE c \in DOMAIN token
      <4> DEFINE p == token[c].parent
      <4>1. token'[c].parent = p /\ token'[c].user = token[c].user
        BY <1>5, <3>2
      <4>2. p \in DOMAIN token /\ token[p].revoked /\ token[p].user = token[c].user
        BY <3>2, <4>1 DEF IInv, Linked
      <4> QED BY <1>2, <1>5, <4>1, <4>2
    <3> QED BY <1>2, <3>1, <3>2
  <2>2. \A p \in Requests : req'[p] \in TokenRequest => req'[p].token \in DOMAIN token'
    BY <1>2, <1>4 DEF IInv, Linked, TokenRequest, Idle
  <2> QED BY <2>1, <2>2 DEF Linked
<1>7. ASSUME NEW t \in DOMAIN token'
      PROVE  Budgeted(t)'
  <2>1. CASE t = o
    <3>1. Children(t)' = Children(t) \union {n} /\ n \notin Children(t)
      BY <1>1, <1>2, <1>5, <2>1 DEF Children
    <3>2. r \in Holders(t)
      BY <1>1, <2>1 DEF Holders, RefreshCommit
    <3>3. Holders(t)' = Holders(t) \ {r}
      BY <1>1, <2>1 DEF Holders, Idle, IInv, TypeOK
    <3> QED BY <2>1, <3>1, <3>2, <3>3, BudgetTraded DEF IInv
  <2>2. CASE t = n
    <3>1. Children(t)' = {}
      BY <1>1, <1>2, <1>5, <2>2, <1>3, NoTokenAssumption DEF Children, IInv, Linked, TypeOK
    <3>2. /\ IsFiniteSet(Holders(t)') /\ Cardinality(Holders(t)') <= Cardinality(Requests)
          /\ Cardinality(Holders(t)') \in Nat /\ Cardinality(Requests) \in Nat
      <4>1. Holders(t)' \in SUBSET Requests
        BY DEF Holders
      <4> QED BY <4>1, RequestsAssumption, FS_Subset, FS_CardinalityType
    <3> QED BY <3>1, <3>2, FS_EmptySet DEF Budgeted
  <2>3. CASE t \in DOMAIN token \ {o}
    <3>1. ASSUME NEW c PROVE c \in Children(t)' <=> c \in Children(t)
      <4>1. CASE c = n
        BY <1>1, <1>2, <1>5, <2>3, <4>1 DEF Children
      <4>2. CASE c # n
        BY <1>2, <1>5, <4>2 DEF Children
      <4> QED BY <4>1, <4>2
    <3>2. Holders(t)' \subseteq Holders(t)
      BY <1>4 DEF Holders, Idle
    <3>3. Children(t)' = Children(t)
      BY <3>1
    <3> QED BY <2>3, <3>2, <3>3, BudgetKept DEF IInv
  <2> QED BY <1>2, <2>1, <2>2, <2>3
<1> QED BY <1>3, <1>6, <1>7 DEF IInv

----------------------------------------------------------------------------
LEMMA InitHolds == Init => IInv
BY DEF Init, IInv, TypeOK, Linked, Request, Idle, TokenRequest

LEMMA StepPreserves == IInv /\ [Next]_vars => IInv'
<1> SUFFICES ASSUME IInv, [Next]_vars PROVE IInv'
  OBVIOUS
<1>1. CASE UNCHANGED vars
  BY <1>1 DEF vars, IInv, TypeOK, Linked, Budgeted, Children, Holders
<1>2. ASSUME NEW r \in Requests, StartLogin(r) PROVE IInv'
  <2>1. PICK u \in Accounts : req' = [req EXCEPT ![r] = [at |-> "login.member", user |-> u]]
    BY <1>2 DEF StartLogin, Begin
  <2> DEFINE q == [at |-> "login.member", user |-> u]
  <2>2. q \in Request /\ q \notin TokenRequest
    <3>1. u \in Users
      BY DEF Accounts, Row, IInv, TypeOK
    <3> QED BY <3>1 DEF Request, LoginRequest, TokenRequest
  <2>3. \A t : r \notin Holders(t)'
    BY <2>1 DEF Holders, IInv, TypeOK
  <2> QED BY <1>2, <2>1, <2>2, <2>3, RequestStep DEF StartLogin, IInv, TypeOK
<1>3. ASSUME NEW r \in Requests, LoginMember(r) PROVE IInv'
  <2> DEFINE q == [req[r] EXCEPT !.at = "login.commit"]
  <2>1. req[r] \in LoginRequest
    BY <1>3 DEF LoginMember, IInv, TypeOK, Request, Idle, TokenRequest
  <2>2. q \in Request /\ q \notin TokenRequest /\ q.at = "login.commit"
    BY <2>1 DEF Request, LoginRequest, TokenRequest
  <2>3. req' = [req EXCEPT ![r] = q] /\ token' = token /\ placed' = placed
    BY <1>3 DEF LoginMember
  <2>4. \A t : r \notin Holders(t)'
    BY <2>2, <2>3 DEF Holders, IInv, TypeOK
  <2> QED BY <2>2, <2>3, <2>4, RequestStep DEF IInv, TypeOK
<1>4. ASSUME NEW r \in Requests, LoginCommit(r) PROVE IInv'
  <2>1. PICK n \in Fresh : token' = Insert(token, n, req[r].user, NoToken)
    BY <1>4 DEF LoginCommit
  <2>2. req[r].user \in Users
    BY <1>4 DEF LoginCommit, IInv, TypeOK, Request, Idle, LoginRequest, TokenRequest
  <2>3. /\ req' \in [Requests -> Request]
        /\ \A p \in Requests : req'[p] = req[p] \/ req'[p] = Idle
    BY <1>4 DEF LoginCommit, Commit, IInv, TypeOK, Request
  <2> QED BY <1>4, <2>1, <2>2, <2>3, InsertStep DEF LoginCommit, IInv, TypeOK
<1>5. ASSUME NEW r \in Requests, StartRefresh(r) PROVE IInv'
  <2>1. PICK o \in DOMAIN token :
          Live(o) /\ req' = [req EXCEPT ![r] = [at |-> "refresh.member", token |-> o]]
    BY <1>5 DEF StartRefresh, Begin
  <2> DEFINE q == [at |-> "refresh.member", token |-> o]
  <2>2. q \in Request
    BY DEF Request, TokenRequest, IInv, TypeOK
  <2>3. ASSUME NEW t \in DOMAIN token, r \in Holders(t)' PROVE ~token[t].revoked
    BY <2>1, <2>3 DEF Holders, Live, Unrevoked, IInv, TypeOK
  <2> QED BY <1>5, <2>1, <2>2, <2>3, RequestStep DEF StartRefresh, IInv, TypeOK
<1>6. ASSUME NEW r \in Requests, RefreshMember(r) PROVE IInv'
  <2> DEFINE q == [req[r] EXCEPT !.at = "refresh.commit"]
  <2>1. req[r] \in TokenRequest
    BY <1>6 DEF RefreshMember, IInv, TypeOK, Request, Idle, LoginRequest
  <2>2. q \in Request /\ q.token = req[r].token /\ req[r].token \in DOMAIN token
    BY <2>1 DEF Request, TokenRequest, IInv, Linked
  <2>3. req' = [req EXCEPT ![r] = q] /\ token' = token /\ placed' = placed
    BY <1>6 DEF RefreshMember
  <2>4. ASSUME NEW t \in DOMAIN token, r \in Holders(t)' PROVE r \in Holders(t)
    BY <1>6, <2>2, <2>3, <2>4 DEF RefreshMember, Holders, IInv, TypeOK
  <2> QED BY <2>2, <2>3, <2>4, RequestStep DEF IInv, TypeOK
<1>7. ASSUME NEW r \in Requests, RefreshCommit(r) PROVE IInv'
  BY <1>7, TradeStep
<1>8. ASSUME NEW r \in Requests, StartLogout(r) PROVE IInv'
  <2>1. PICK o \in DOMAIN token :
          req' = [req EXCEPT ![r] = [at |-> "logout.commit", token |-> o]]
    BY <1>8 DEF StartLogout, Begin
  <2> DEFINE q == [at |-> "logout.commit", token |-> o]
  <2>2. q \in Request
    BY DEF Request, TokenRequest, IInv, TypeOK
  <2>3. \A t : r \notin Holders(t)'
    BY <2>1 DEF Holders, IInv, TypeOK
  <2> QED BY <1>8, <2>1, <2>2, <2>3, RequestStep DEF StartLogout, IInv, TypeOK
<1>9. ASSUME NEW r \in Requests, LogoutCommit(r) PROVE IInv'
  <2>1. /\ token' = [token EXCEPT ![req[r].token].revoked = TRUE]
        /\ req' = [req EXCEPT ![r] = Idle] /\ placed' = placed
    BY <1>9 DEF LogoutCommit, Revoke, Commit
  <2>2. /\ DOMAIN token' = DOMAIN token /\ token' \in [DOMAIN token' -> Row]
        /\ \A t \in DOMAIN token : /\ token'[t].parent = token[t].parent
                                   /\ token'[t].user = token[t].user
                                   /\ token[t].revoked => token'[t].revoked
    BY <2>1 DEF IInv, TypeOK, Row
  <2> QED BY <2>1, <2>2, FlagStep
<1>10. ASSUME NEW r \in Requests, Fail(r) PROVE IInv'
  <2>1. Idle \in Request /\ Idle \notin TokenRequest
    BY DEF Request, Idle, TokenRequest
  <2>2. \A t : r \notin Holders(t)'
    BY <1>10 DEF Fail, Commit, Holders, Idle, IInv, TypeOK
  <2> QED BY <1>10, <2>1, <2>2, RequestStep DEF Fail, Commit, IInv, TypeOK
<1>11. ASSUME NEW o \in DOMAIN token, Expire(o) PROVE IInv'
  <2>1. token' = [token EXCEPT ![o].expired = TRUE] /\ UNCHANGED <<placed, req>>
    BY <1>11 DEF Expire
  <2>2. /\ DOMAIN token' = DOMAIN token /\ token' \in [DOMAIN token' -> Row]
        /\ \A t \in DOMAIN token : /\ token'[t].parent = token[t].parent
                                   /\ token'[t].user = token[t].user
                                   /\ token[t].revoked => token'[t].revoked
    BY <2>1 DEF IInv, TypeOK, Row
  <2>3. TypeOK' /\ Linked'
    BY <2>1, <2>2 DEF IInv, TypeOK, Linked
  <2>4. ASSUME NEW t \in DOMAIN token' PROVE Budgeted(t)'
    BY <2>1, <2>2, BudgetKept DEF Children, Holders, IInv
  <2> QED BY <2>3, <2>4 DEF IInv
<1>12. ASSUME NEW u \in placed, Removed(u) PROVE IInv'
  BY <1>12 DEF Removed, IInv, TypeOK, Linked, Budgeted, Children, Holders
<1>13. ASSUME NEW u \in Users, Joined(u) PROVE IInv'
  <2>1. PICK n \in Fresh : token' = Insert(token, n, u, NoToken)
    BY <1>13 DEF Joined
  <2>2. placed' \subseteq Users /\ req' = req
    BY <1>13 DEF Joined, IInv, TypeOK
  <2> QED BY <2>1, <2>2, InsertStep DEF IInv, TypeOK
<1> QED BY <1>1, <1>2, <1>3, <1>4, <1>5, <1>6, <1>7, <1>8, <1>9, <1>10,
      <1>11, <1>12, <1>13 DEF Next

\* The counting invariant holds in every reachable state.
THEOREM Invariance == Spec => []IInv
BY InitHolds, StepPreserves, PTL DEF Spec

\* A successor never lives beside the token it was traded for.
THEOREM RotationReplaces == Spec => []SuccessorReplaces
<1>1. IInv => SuccessorReplaces
  BY NoTokenAssumption DEF IInv, Linked, SuccessorReplaces, Children, TypeOK
<1> QED BY <1>1, Invariance, PTL

\* However many requests overlap, and however long a token is replayed, it buys
\* no more successors than there are requests in flight at once.
THEOREM SuccessorsAreBounded == Spec => []SuccessorsBounded
<1>1. ASSUME IInv, NEW t \in DOMAIN token
      PROVE  Cardinality(Children(t)) <= Cardinality(Requests)
  <2>1. /\ Cardinality(Children(t)) \in Nat /\ Cardinality(Holders(t)) \in Nat
        /\ Cardinality(Requests) \in Nat
    BY <1>1, HoldersFinite, FS_CardinalityType DEF IInv, Budgeted
  <2> QED BY <1>1, <2>1 DEF IInv, Budgeted
<1>2. IInv => SuccessorsBounded
  BY <1>1 DEF SuccessorsBounded
<1> QED BY <1>2, Invariance, PTL

\* Rows and requests keep their shape (models/refresh_token.py, auth_service.py).
THEOREM TypeCorrect == Spec => []TypeOK
<1>1. IInv => TypeOK
  BY DEF IInv
<1> QED BY <1>1, Invariance, PTL

\* Only the commit that inserts the successor, or a logout, spends a live token
\* (auth_service.py:185-219).
THEOREM TokensAreTraded == Spec => NoTokenBurnt
<1> DEFINE Spent == \A t \in DOMAIN token : Live(t) /\ token'[t].revoked =>
       \/ \E c \in DOMAIN token' \ DOMAIN token : token'[c].parent = t
       \/ \E r \in Requests : req[r].at = "logout.commit" /\ req[r].token = t
<1>1. ASSUME IInv, [Next]_vars
      PROVE  Spent
  <2> SUFFICES ASSUME NEW t \in DOMAIN token, Live(t), token'[t].revoked
               PROVE  \/ \E c \in DOMAIN token' \ DOMAIN token : token'[c].parent = t
                      \/ \E r \in Requests : req[r].at = "logout.commit" /\ req[r].token = t
    OBVIOUS
  <2>1. ~token[t].revoked /\ token[t] \in Row /\ token'[t] # token[t]
    BY <1>1 DEF Live, Unrevoked, IInv, TypeOK
  <2>2. ASSUME NEW r \in Requests, RefreshCommit(r)
        PROVE  \E c \in DOMAIN token' \ DOMAIN token : token'[c].parent = t
    <3>1. PICK n \in Fresh :
            token' = Insert(Revoke(token, req[r].token), n, token[req[r].token].user, req[r].token)
      BY <2>2 DEF RefreshCommit
    <3>2. n \notin DOMAIN token /\ n \in DOMAIN token' /\ token'[n].parent = req[r].token
      BY <3>1 DEF Fresh, Insert, NewRow
    <3>3. t = req[r].token
      BY <2>1, <3>1, <3>2 DEF Insert, Revoke
    <3> QED BY <3>2, <3>3
  <2>3. ASSUME NEW r \in Requests, LogoutCommit(r)
        PROVE  req[r].at = "logout.commit" /\ req[r].token = t
    BY <2>1, <2>3 DEF LogoutCommit, Revoke
  <2>4. ASSUME NEW x \in DOMAIN token, Expire(x)
        PROVE  FALSE
    BY <2>1, <2>4 DEF Expire, Row
  <2>5. ASSUME NEW n \in Fresh, NEW u, token' = Insert(token, n, u, NoToken)
        PROVE  FALSE
    BY <2>1, <2>5 DEF Insert, Fresh
  <2>6. ASSUME NEW r \in Requests, LoginCommit(r)
        PROVE  FALSE
    BY <2>5, <2>6 DEF LoginCommit
  <2>7. ASSUME NEW u \in Users, Joined(u)
        PROVE  FALSE
    BY <2>5, <2>7 DEF Joined
  <2>8. ASSUME NEW r \in Requests,
               \/ StartLogin(r) \/ LoginMember(r) \/ StartRefresh(r) \/ RefreshMember(r)
               \/ StartLogout(r) \/ Fail(r)
        PROVE  FALSE
    BY <2>1, <2>8 DEF StartLogin, LoginMember, StartRefresh, RefreshMember, StartLogout, Fail
  <2> QED BY <1>1, <2>1, <2>2, <2>3, <2>4, <2>6, <2>7, <2>8 DEF Next, vars, Removed
<1>2. IInv /\ [Next]_vars => Spent
  BY <1>1
<1> QED BY <1>2, Invariance, PTL DEF Spec, NoTokenBurnt
============================================================================
