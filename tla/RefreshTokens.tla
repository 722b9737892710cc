--------------------------- MODULE RefreshTokens ---------------------------
(***************************************************************************)
(* The table refresh_tokens: a signup, an accepted invite and a login      *)
(* insert a token, a refresh revokes the token it is given and inserts a   *)
(* successor in one transaction, logout revokes.  Requests are             *)
(* transactions as in Tenancy: each SELECT is a step, the writes take      *)
(* effect at the commit, and a request that raises or dies is rolled back. *)
(* The row lock that the flushed UPDATE takes only delays the other        *)
(* commit; the UPDATE does not look at revoked_at.                         *)
(***************************************************************************)
EXTENDS Integers, FiniteSets

CONSTANTS Users,     \* accounts that log in
          Tokens,    \* bound: the tokens there can ever be
          Requests,  \* bound: requests in flight at once
          NoToken    \* the parent of a token that login inserted

ASSUME NoTokenAssumption == NoToken \notin Tokens
ASSUME RequestsAssumption == IsFiniteSet(Requests)

VARIABLES placed,   \* users with an undeleted membership
          token,    \* the rows, by token
          req       \* where each request stands

vars == <<placed, token, req>>

Row == [user : Users, parent : Tokens \union {NoToken},
        revoked : BOOLEAN, expired : BOOLEAN]

Idle == [at |-> "idle"]
LoginRequest == [at : {"login.member", "login.commit"}, user : Users]
TokenRequest == [at : {"refresh.member", "refresh.commit", "logout.commit"},
                 token : Tokens]
Request == {Idle} \union LoginRequest \union TokenRequest

\* Rows and requests have their shape.
TypeOK ==
  /\ placed \subseteq Users
  /\ DOMAIN token \subseteq Tokens
  /\ token \in [DOMAIN token -> Row]
  /\ req \in [Requests -> Request]

Init ==
  /\ placed = {}
  /\ token = [t \in {} |-> Idle]
  /\ req = [r \in Requests |-> Idle]

----------------------------------------------------------------------------
Unrevoked(t) == t \in DOMAIN token /\ ~token[t].revoked
Live(t) == Unrevoked(t) /\ ~token[t].expired

Children(t) == {c \in DOMAIN token : token[c].parent = t}

Begin(r, q) == req[r] = Idle /\ req' = [req EXCEPT ![r] = q]
Commit(r) == req' = [req EXCEPT ![r] = Idle]
Fresh == Tokens \ DOMAIN token

\* mutant: the arguments are swapped
NewRowSwapped(u, p) == [user |-> p, parent |-> u, revoked |-> FALSE, expired |-> FALSE]

NewRow(u, p) == [user |-> u, parent |-> p, revoked |-> FALSE, expired |-> FALSE]

\* Row n, the successor of p, is inserted.
Insert(tbl, n, u, p) ==
  [t \in DOMAIN tbl \union {n} |-> IF t = n THEN NewRow(u, p) ELSE tbl[t]]

Revoke(tbl, t) == [tbl EXCEPT ![t].revoked = TRUE]

Fail(r) ==
  /\ req[r] # Idle
  /\ Commit(r)
  /\ UNCHANGED <<placed, token>>

----------------------------------------------------------------------------
\* The accounts there are: a token came with each of them.
Accounts == {token[t].user : t \in DOMAIN token}

StartLogin(r) == \E u \in Accounts :
  /\ Begin(r, [at |-> "login.member", user |-> u])
  /\ UNCHANGED <<placed, token>>

LoginMember(r) ==
  /\ req[r].at = "login.member"
  /\ req[r].user \in placed
  /\ req' = [req EXCEPT ![r].at = "login.commit"]
  /\ UNCHANGED <<placed, token>>

LoginCommit(r) == \E n \in Fresh :
  /\ req[r].at = "login.commit"
  /\ token' = Insert(token, n, req[r].user, NoToken)
  /\ Commit(r)
  /\ UNCHANGED placed

StartRefresh(r) == \E t \in DOMAIN token :
  /\ Live(t)
  /\ Begin(r, [at |-> "refresh.member", token |-> t])
  /\ UNCHANGED <<placed, token>>

RefreshBurns(r) ==   \* mutant: the revocation is committed before the lookup
  /\ req[r].at = "refresh.member"
  /\ token' = Revoke(token, req[r].token)
  /\ req' = [req EXCEPT ![r].at = "refresh.commit"]
  /\ UNCHANGED placed

RefreshMember(r) ==
  /\ req[r].at = "refresh.member"
  /\ token[req[r].token].user \in placed
  /\ req' = [req EXCEPT ![r].at = "refresh.commit"]
  /\ UNCHANGED <<placed, token>>

RefreshForgets(r) ==   \* mutant: the old token is left as it is
  \E n \in Fresh : LET t == req[r].token IN
    /\ req[r].at = "refresh.commit"
    /\ token' = Insert(token, n, token[t].user, t)
    /\ Commit(r)
    /\ UNCHANGED placed

RefreshCommit(r) == \E n \in Fresh : LET t == req[r].token IN
  /\ req[r].at = "refresh.commit"
  /\ token' = Insert(Revoke(token, t), n, token[t].user, t)
  /\ Commit(r)
  /\ UNCHANGED placed

\* Logout looks at revoked_at only: an expired token is revoked all the same.
StartLogout(r) == \E t \in DOMAIN token :
  /\ Unrevoked(t)
  /\ Begin(r, [at |-> "logout.commit", token |-> t])
  /\ UNCHANGED <<placed, token>>

LogoutCommit(r) ==
  /\ req[r].at = "logout.commit"
  /\ token' = Revoke(token, req[r].token)
  /\ Commit(r)
  /\ UNCHANGED placed

\* A row's seven days pass.
Expire(t) ==
  /\ ~token[t].expired
  /\ token' = [token EXCEPT ![t].expired = TRUE]
  /\ UNCHANGED <<placed, req>>

\* The user is removed from the last organization.
Removed(u) == placed' = placed \ {u} /\ UNCHANGED <<token, req>>

\* A signup or an accepted invite commits the membership and a token together.
Joined(u) == \E n \in Fresh :
  /\ placed' = placed \union {u}
  /\ token' = Insert(token, n, u, NoToken)
  /\ UNCHANGED req

Next ==
  \/ \E r \in Requests :
       \/ StartLogin(r) \/ LoginMember(r) \/ LoginCommit(r)
       \/ StartRefresh(r) \/ RefreshMember(r) \/ RefreshCommit(r)
       \/ StartLogout(r) \/ LogoutCommit(r) \/ Fail(r)
  \/ \E t \in DOMAIN token : Expire(t)
  \/ \E u \in placed : Removed(u)
  \/ \E u \in Users : Joined(u)

Spec == Init /\ [][Next]_vars

----------------------------------------------------------------------------
\* A successor never lives beside the token it was traded for, and belongs to
\* the same user: rotation is all or nothing (auth_service.py:199-233).
SuccessorReplaces == \A t \in DOMAIN token : \A c \in Children(t) :
  t \in DOMAIN token /\ token[t].revoked /\ token[c].user = token[t].user

\* A token is never spent for nothing: it becomes revoked only in the commit
\* that inserts its successor or in a logout.  A refresh that finds no
\* organization after the flush of line 200 leaves it live (auth_service.py:213).
NoTokenBurnt ==
  [][\A t \in DOMAIN token : Live(t) /\ token'[t].revoked =>
       \/ \E c \in DOMAIN token' \ DOMAIN token : token'[c].parent = t
       \/ \E r \in Requests : req[r].at = "logout.commit" /\ req[r].token = t]_vars

\* A token buys at most one successor for every request that read it before it
\* was revoked: replaying it later buys nothing, and when requests do not
\* overlap it is good for one refresh (auth_service.py:185-194).
SuccessorsBounded == \A t \in DOMAIN token :
  Cardinality(Children(t)) <= Cardinality(Requests)
============================================================================
