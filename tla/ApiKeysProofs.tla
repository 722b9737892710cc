--------------------------- MODULE ApiKeysProofs ---------------------------
(***************************************************************************)
(* Proofs about ApiKeys for every set of keys and requests.  Every step is *)
(* of one shape: the table only grows, dead rows stay dead, a row whose    *)
(* use is recorded is not touched, and a row that gets a parent finds it   *)
(* dead (TableGrows); a request keeps its place, ends, or works on a row   *)
(* (RequestsFollow).  The invariant follows from the shape alone.  How many *)
(* successors a key gets is counted: successors and the requests about to  *)
(* rotate it are no more than the requests there are (RotationsBudgeted).  *)
(***************************************************************************)
EXTENDS ApiKeys, FiniteSetTheorems, TLAPS

Holding(q) == q.at \in {"use.queue", "use.commit"} /\ q.live

ParentsAreRows == \A c \in DOMAIN key :
  key[c].parent # NoKey => key[c].parent \in DOMAIN key
RequestsNameRows == \A r \in Requests : req[r] # Idle => req[r].key \in DOMAIN key

KInv == KeysTypeOK /\ ParentsAreRows /\ RequestsNameRows /\ UseHoldsItsKey /\ RotationReplaces

\* Usable, of any table.
Works(tbl, k) == k \in DOMAIN tbl /\ ~tbl[k].deleted /\ tbl[k].active

Kept(k) == /\ k \in DOMAIN key'
           /\ key'[k].parent = key[k].parent
           /\ ~key[k].active => ~key'[k].active
           /\ key[k].deleted => key'[k].deleted
           /\ Locked(k) => key'[k] = key[k]
Placed(n) == LET p == key'[n].parent IN
  p # NoKey => p \in DOMAIN key /\ ~key'[p].active /\ key'[p].deleted

TableGrows == /\ \A k \in DOMAIN key : Kept(k)
              /\ \A n \in DOMAIN key' \ DOMAIN key : Placed(n)

Follows(r) == \/ req'[r] = req[r]
              \/ req'[r] = Idle
              \/ /\ req'[r].key \in DOMAIN key
                 /\ Holding(req'[r]) => Works(key', req'[r].key)
RequestsFollow == \A r \in Requests : Follows(r)

\* A step of this shape preserves the invariant.
LEMMA ShapeSuffices ==
  ASSUME KInv, KeysTypeOK', TableGrows, RequestsFollow
  PROVE  KInv'
<1>1. ParentsAreRows'
  BY DEF KInv, ParentsAreRows, TableGrows, Kept, Placed
<1>2. RequestsNameRows'
  BY DEF KInv, RequestsNameRows, RequestsFollow, Follows, TableGrows, Kept
<1>3. UseHoldsItsKey'
  <2> SUFFICES ASSUME NEW r \in Requests, Holding(req'[r])
               PROVE  Works(key', req'[r].key)
    BY DEF UseHoldsItsKey, Holding, Usable, Present, Works
  <2>1. req'[r] # Idle
    BY DEF Holding, Idle
  <2>2. CASE req'[r] = req[r]
    <3>1. Usable(req[r].key) /\ Locked(req[r].key)
      BY <2>2 DEF KInv, UseHoldsItsKey, Holding, Locked
    <3>2. req[r].key \in DOMAIN key
      BY <3>1 DEF Usable, Present
    <3>3. key'[req[r].key] = key[req[r].key] /\ req[r].key \in DOMAIN key'
      BY <3>1, <3>2 DEF TableGrows, Kept
    <3> QED BY <2>2, <3>1, <3>3 DEF Usable, Present, Works
  <2>3. CASE Holding(req'[r]) => Works(key', req'[r].key)
    BY <2>3
  <2> QED BY <2>1, <2>2, <2>3 DEF RequestsFollow, Follows
<1>4. RotationReplaces'
  <2> SUFFICES ASSUME NEW k \in DOMAIN key', NEW c \in DOMAIN key', key'[c].parent = k
               PROVE  ~key'[k].active /\ key'[k].deleted
    BY DEF RotationReplaces, Successors
  <2>1. k # NoKey
    BY NoKeyAssumption DEF KeysTypeOK
  <2>2. CASE c \in DOMAIN key
    <3>1. key[c].parent = k /\ k \in DOMAIN key
      BY <2>1, <2>2 DEF KInv, ParentsAreRows, TableGrows, Kept
    <3>2. ~key[k].active /\ key[k].deleted
      BY <2>2, <3>1 DEF KInv, RotationReplaces, Successors
    <3> QED BY <3>1, <3>2 DEF TableGrows, Kept
  <2>3. CASE c \notin DOMAIN key
    BY <2>1, <2>3 DEF TableGrows, Placed
  <2> QED BY <2>2, <2>3
<1> QED BY <1>1, <1>2, <1>3, <1>4 DEF KInv

----------------------------------------------------------------------------
\* Steps that leave the table alone.
LEMMA RequestStep ==
  ASSUME KInv, key' = key, NEW r \in Requests, NEW q \in Request,
         req' = [req EXCEPT ![r] = q],
         q = Idle \/ (q.key \in DOMAIN key /\ (Holding(q) => Usable(q.key)))
  PROVE  KeysTypeOK' /\ TableGrows /\ RequestsFollow
<1>1. KeysTypeOK'
  BY DEF KInv, KeysTypeOK
<1>2. TableGrows
  BY DEF TableGrows, Kept
<1>3. \A p \in Requests : req'[p] = IF p = r THEN q ELSE req[p]
  BY DEF KInv, KeysTypeOK
<1>4. RequestsFollow
  BY <1>3 DEF RequestsFollow, Follows, Usable, Present, Works
<1> QED BY <1>1, <1>2, <1>4

\* Steps that kill row k and insert at most one row, n, whose parent is p.
LEMMA WriteStep ==
  ASSUME KInv, NEW k \in DOMAIN key, ~Locked(k), NEW row \in Row,
         row.parent = key[k].parent, ~row.active, key[k].deleted => row.deleted,
         NEW r \in Requests, req' = [req EXCEPT ![r] = Idle],
         \/ key' = [key EXCEPT ![k] = row]
         \/ \E n \in Fresh : key' = Insert([key EXCEPT ![k] = row], n, k) /\ row.deleted
  PROVE  KeysTypeOK' /\ TableGrows /\ RequestsFollow
<1>1. \A p \in Requests : req'[p] = req[p] \/ req'[p] = Idle
  BY DEF KInv, KeysTypeOK
<1>2. RequestsFollow
  BY <1>1 DEF RequestsFollow, Follows
<1>3. req' \in [Requests -> Request]
  BY DEF KInv, KeysTypeOK, Request
<1>4. CASE key' = [key EXCEPT ![k] = row]
  <2>1. DOMAIN key' = DOMAIN key /\ key' \in [DOMAIN key' -> Row]
    BY <1>4 DEF KInv, KeysTypeOK
  <2>2. \A x \in DOMAIN key : key'[x] = IF x = k THEN row ELSE key[x]
    BY <1>4 DEF KInv, KeysTypeOK
  <2>3. TableGrows
    BY <2>1, <2>2 DEF TableGrows, Kept
  <2> QED BY <1>2, <1>3, <2>1, <2>3 DEF KInv, KeysTypeOK
<1>5. ASSUME NEW n \in Fresh, key' = Insert([key EXCEPT ![k] = row], n, k), row.deleted
      PROVE  KeysTypeOK' /\ TableGrows
  <2>1. n \in KeyIds /\ n \notin DOMAIN key /\ n # k /\ k \in KeyIds
    BY DEF Fresh, KInv, KeysTypeOK
  <2>2. DOMAIN key' = DOMAIN key \union {n}
    BY <1>5 DEF Insert
  <2>3. /\ \A x \in DOMAIN key : key'[x] = IF x = k THEN row ELSE key[x]
        /\ key'[n] = [active |-> TRUE, deleted |-> FALSE, parent |-> k]
    BY <1>5, <2>1 DEF Insert, KInv, KeysTypeOK
  <2>4. key'[n] \in Row
    BY <2>1, <2>3 DEF Row
  <2>5. key' \in [DOMAIN key' -> Row]
    BY <1>5, <2>2, <2>3, <2>4 DEF Insert, KInv, KeysTypeOK
  <2>6. TableGrows
    BY <2>1, <2>2, <2>3 DEF TableGrows, Kept, Placed
  <2> QED BY <1>3, <2>1, <2>2, <2>5, <2>6 DEF KInv, KeysTypeOK
<1> QED BY <1>2, <1>4, <1>5

LEMMA CreateStep ==
  ASSUME KInv, CreateKey
  PROVE  KeysTypeOK' /\ TableGrows /\ RequestsFollow
<1>1. PICK n \in Fresh : key' = Insert(key, n, NoKey) /\ req' = req
  BY DEF CreateKey
<1>2. n \in KeyIds /\ n \notin DOMAIN key
  BY DEF Fresh
<1>3. /\ DOMAIN key' = DOMAIN key \union {n}
      /\ key'[n] = [active |-> TRUE, deleted |-> FALSE, parent |-> NoKey]
      /\ \A x \in DOMAIN key : key'[x] = key[x]
  BY <1>1, <1>2 DEF Insert
<1>4. key'[n] \in Row
  BY <1>3 DEF Row
<1>5. key' \in [DOMAIN key' -> Row]
  BY <1>1, <1>3, <1>4 DEF Insert, KInv, KeysTypeOK
<1>6. TableGrows /\ RequestsFollow
  BY <1>1, <1>3 DEF TableGrows, Kept, Placed, RequestsFollow, Follows
<1> QED BY <1>1, <1>2, <1>3, <1>5, <1>6 DEF KInv, KeysTypeOK

----------------------------------------------------------------------------
LEMMA EachStep ==
  ASSUME KInv, [KeysNext]_keyVars
  PROVE  KeysTypeOK' /\ TableGrows /\ RequestsFollow
<1> USE DEF Begin, End, Advance
<1>1. CASE UNCHANGED keyVars
  <2>1. key' = key /\ req' = req
    BY <1>1 DEF keyVars
  <2> QED BY <2>1 DEF KInv, KeysTypeOK, TableGrows, Kept, RequestsFollow, Follows
<1>2. CASE CreateKey
  BY <1>2, CreateStep
<1>3. ASSUME NEW r \in Requests, StartRevoke(r)
      PROVE  KeysTypeOK' /\ TableGrows /\ RequestsFollow
  <2>1. PICK k \in KeyIds : /\ k \in DOMAIN key /\ key' = key
                           /\ req' = [req EXCEPT ![r] = [at |-> "revoke.commit", key |-> k]]
    BY <1>3 DEF StartRevoke, Usable, Present
  <2> DEFINE q == [at |-> "revoke.commit", key |-> k]
  <2>2. q \in Request /\ q.key \in DOMAIN key /\ ~Holding(q)
    BY <2>1 DEF Request, AdminRequest, Holding
  <2> QED BY <2>1, <2>2, RequestStep
<1>8. ASSUME NEW r \in Requests, StartRotate(r)
      PROVE  KeysTypeOK' /\ TableGrows /\ RequestsFollow
  <2>1. PICK k \in KeyIds : /\ k \in DOMAIN key /\ key' = key
                           /\ req' = [req EXCEPT ![r] = [at |-> "rotate.commit", key |-> k]]
    BY <1>8 DEF StartRotate, Usable, Present
  <2> DEFINE q == [at |-> "rotate.commit", key |-> k]
  <2>2. q \in Request /\ q.key \in DOMAIN key /\ ~Holding(q)
    BY <2>1 DEF Request, AdminRequest, Holding
  <2> QED BY <2>1, <2>2, RequestStep
<1>9. ASSUME NEW r \in Requests, StartUse(r)
      PROVE  KeysTypeOK' /\ TableGrows /\ RequestsFollow
  <2>1. PICK k \in KeyIds : /\ k \in DOMAIN key /\ key' = key
                           /\ req' = [req EXCEPT ![r] = [at |-> "use.record", key |-> k, live |-> TRUE]]
    BY <1>9 DEF StartUse, Usable, Present
  <2> DEFINE q == [at |-> "use.record", key |-> k, live |-> TRUE]
  <2>2. q \in Request /\ q.key \in DOMAIN key /\ ~Holding(q)
    BY <2>1 DEF Request, Use, Holding
  <2> QED BY <2>1, <2>2, RequestStep
<1>4. ASSUME NEW r \in Requests, Fail(r) \/ UseCommit(r)
      PROVE  KeysTypeOK' /\ TableGrows /\ RequestsFollow
  <2>1. req' = [req EXCEPT ![r] = Idle] /\ key' = key
    BY <1>4 DEF Fail, UseCommit
  <2>2. KeysTypeOK' /\ \A p \in Requests : req'[p] = req[p] \/ req'[p] = Idle
    BY <2>1 DEF KInv, KeysTypeOK, Request
  <2> QED BY <2>1, <2>2 DEF TableGrows, Kept, RequestsFollow, Follows
<1>5. ASSUME NEW r \in Requests, RecordUse(r) \/ UseQueued(r)
      PROVE  KeysTypeOK' /\ TableGrows /\ RequestsFollow
  <2>1. req[r] \in Use /\ req[r].key \in DOMAIN key /\ key' = key
    BY <1>5 DEF RecordUse, UseQueued, KInv, KeysTypeOK, RequestsNameRows, Request,
                AdminRequest, Use, Idle
  <2>2. CASE RecordUse(r)
    <3> DEFINE q == [req[r] EXCEPT !.at = "use.queue", !.live = Usable(req[r].key)]
    <3>1. Usable(req[r].key) \in BOOLEAN
      BY <2>1, Zenon DEF Usable, Present, KInv, KeysTypeOK, Row
    <3>2. q \in Request /\ q.key = req[r].key /\ (Holding(q) => Usable(q.key))
      BY <2>1, <3>1 DEF Request, Use, Holding
    <3>3. req' = [req EXCEPT ![r] = q]
      BY <2>2 DEF RecordUse, KInv, KeysTypeOK
    <3> QED BY <2>1, <3>2, <3>3, RequestStep
  <2>3. CASE UseQueued(r)
    <3> DEFINE q == [req[r] EXCEPT !.at = "use.commit"]
    <3>1. q \in Request /\ q.key = req[r].key /\ q.live = req[r].live
      BY <2>1 DEF Request, Use
    <3>2. Holding(q) => Usable(q.key)
      BY <2>3, <3>1 DEF UseQueued, Holding, KInv, UseHoldsItsKey
    <3>3. req' = [req EXCEPT ![r] = q]
      BY <2>3 DEF UseQueued, KInv, KeysTypeOK
    <3> QED BY <2>1, <3>1, <3>2, <3>3, RequestStep
  <2> QED BY <1>5, <2>2, <2>3
<1>6. ASSUME NEW r \in Requests, RevokeCommit(r)
      PROVE  KeysTypeOK' /\ TableGrows /\ RequestsFollow
  <2> DEFINE k == req[r].key
             row == [key[k] EXCEPT !.active = FALSE]
  <2>1. k \in DOMAIN key /\ ~Locked(k) /\ req' = [req EXCEPT ![r] = Idle]
    BY <1>6 DEF RevokeCommit, KInv, RequestsNameRows, Idle
  <2>2. /\ row \in Row /\ row.parent = key[k].parent /\ ~row.active
        /\ key[k].deleted => row.deleted
    BY <2>1 DEF Row, KInv, KeysTypeOK
  <2>3. key' = [key EXCEPT ![k] = row]
    BY <1>6, <2>1 DEF RevokeCommit, KInv, KeysTypeOK
  <2> QED BY <2>1, <2>2, <2>3, WriteStep
<1>7. ASSUME NEW r \in Requests, RotateCommit(r)
      PROVE  KeysTypeOK' /\ TableGrows /\ RequestsFollow
  <2> DEFINE k == req[r].key
             row == [key[k] EXCEPT !.active = FALSE, !.deleted = TRUE]
  <2>1. k \in DOMAIN key /\ ~Locked(k) /\ req' = [req EXCEPT ![r] = Idle]
    BY <1>7 DEF RotateCommit, KInv, RequestsNameRows, Idle
  <2>2. /\ row \in Row /\ row.parent = key[k].parent /\ ~row.active /\ row.deleted
        /\ [key EXCEPT ![k] = row] = [key EXCEPT ![k].active = FALSE, ![k].deleted = TRUE]
    BY <2>1 DEF Row, KInv, KeysTypeOK
  <2>3. \E n \in Fresh : key' = Insert([key EXCEPT ![k] = row], n, k)
    BY <1>7, <2>2 DEF RotateCommit
  <2> QED BY <2>1, <2>2, <2>3, WriteStep
<1> QED BY <1>1, <1>2, <1>3, <1>4, <1>5, <1>6, <1>7, <1>8, <1>9 DEF KeysNext, KeysAdmin

LEMMA InitInvariant == KeysInit => KInv
BY DEF KeysInit, KInv, KeysTypeOK, ParentsAreRows, RequestsNameRows, UseHoldsItsKey,
       RotationReplaces, Successors, Request, Idle

LEMMA StepInvariant == KInv /\ [KeysNext]_keyVars => KInv'
BY EachStep, ShapeSuffices

\* Rows and requests keep their shape.
THEOREM TypeCorrect == KeysSpec => []KeysTypeOK
<1>1. KInv => KeysTypeOK
  BY DEF KInv
<1> QED BY InitInvariant, StepInvariant, <1>1, PTL DEF KeysSpec

\* No key dies under a request that has recorded its use (api_key_service.py:91-92).
THEOREM UsesHold == KeysSpec => []UseHoldsItsKey
<1>1. KInv => UseHoldsItsKey
  BY DEF KInv
<1> QED BY InitInvariant, StepInvariant, <1>1, PTL DEF KeysSpec

\* A successor never lives beside its predecessor (api_key_service.py:75-79).
THEOREM RotationIsWhole == KeysSpec => []RotationReplaces
<1>1. KInv => RotationReplaces
  BY DEF KInv
<1> QED BY InitInvariant, StepInvariant, <1>1, PTL DEF KeysSpec

\* No write of a request that read a key alive brings it back (api_key_repo.py:33-40).
THEOREM DeathIsFinal == KeysSpec => DeadKeysStayDead
<1>1. KInv /\ [KeysNext]_keyVars => \A k \in DOMAIN key : ~Usable(k) => ~Usable(k)'
  <2> SUFFICES ASSUME KInv, [KeysNext]_keyVars, NEW k \in DOMAIN key, ~Usable(k)
               PROVE  ~Usable(k)'
    OBVIOUS
  <2>1. Kept(k)
    BY EachStep DEF TableGrows
  <2> QED BY <2>1 DEF Kept, Usable, Present
<1> QED BY InitInvariant, StepInvariant, <1>1, PTL DEF KeysSpec, DeadKeysStayDead

----------------------------------------------------------------------------
\* The requests that have read key k and will replace it.  Nobody begins to when k
\* has a successor, and each rotation turns one of them into a successor.
Rotators(k) == {r \in Requests : req[r].at = "rotate.commit" /\ req[r].key = k}

Spent(S, R) ==
  /\ IsFiniteSet(S)
  /\ Cardinality(S) + Cardinality(R) <= Cardinality(Requests)
RotationsBudgeted == \A k \in DOMAIN key : Spent(Successors(k), Rotators(k))

LEMMA SomeRequests ==
  ASSUME NEW R \in SUBSET Requests
  PROVE  /\ IsFiniteSet(R) /\ Cardinality(R) \in Nat /\ Cardinality(Requests) \in Nat
         /\ Cardinality(R) <= Cardinality(Requests)
BY RequestsAssumption, FS_Subset, FS_CardinalityType

LEMMA NoneYet ==
  ASSUME NEW R \in SUBSET Requests
  PROVE  Spent({}, R)
BY SomeRequests, FS_EmptySet DEF Spent

LEMMA FewerHolders ==
  ASSUME NEW S, NEW R \in SUBSET Requests, NEW P \in SUBSET R, Spent(S, R)
  PROVE  Spent(S, P)
<1>1. Cardinality(P) <= Cardinality(R) /\ P \in SUBSET Requests
  BY SomeRequests, FS_Subset
<1>2. Cardinality(P) \in Nat /\ Cardinality(R) \in Nat /\ Cardinality(Requests) \in Nat
  BY <1>1, SomeRequests
<1>3. Cardinality(S) \in Nat
  BY FS_CardinalityType DEF Spent
<1> QED BY <1>1, <1>2, <1>3 DEF Spent

LEMMA HolderSpent ==
  ASSUME NEW S, NEW R \in SUBSET Requests, NEW n, NEW r \in R, Spent(S, R)
  PROVE  Spent(S \union {n}, R \ {r})
<1>1. /\ IsFiniteSet(S \union {n}) /\ Cardinality(S) \in Nat
      /\ Cardinality(S \union {n}) = IF n \in S THEN Cardinality(S) ELSE Cardinality(S) + 1
  BY FS_AddElement, FS_CardinalityType DEF Spent
<1>2. Cardinality(R \ {r}) = Cardinality(R) - 1 /\ Cardinality(R) \in Nat /\ Cardinality(Requests) \in Nat
  BY SomeRequests, FS_RemoveElement
<1> QED BY <1>1, <1>2 DEF Spent

\* When no key gets a successor, and who sets out to rotate finds one without.
LEMMA BudgetStays ==
  ASSUME KInv, KInv', RotationsBudgeted,
         \A c \in DOMAIN key : c \in DOMAIN key' /\ key'[c].parent = key[c].parent,
         \A c \in DOMAIN key' \ DOMAIN key : key'[c].parent = NoKey,
         \A k \in DOMAIN key : Successors(k) # {} => Rotators(k)' \subseteq Rotators(k)
  PROVE  RotationsBudgeted'
<1> SUFFICES ASSUME NEW k \in DOMAIN key' PROVE Spent(Successors(k)', Rotators(k)')
  BY DEF RotationsBudgeted, Spent
<1>1. k # NoKey
  BY NoKeyAssumption DEF KInv, KeysTypeOK
<1>2. Successors(k)' = Successors(k)
  BY <1>1 DEF Successors
<1>3. Rotators(k)' \in SUBSET Requests /\ Rotators(k) \in SUBSET Requests
  BY DEF Rotators
<1>4. CASE Successors(k) = {}
  BY <1>2, <1>3, <1>4, NoneYet
<1>5. CASE Successors(k) # {}
  <2>1. k \in DOMAIN key
    BY <1>1, <1>5 DEF Successors, KInv, ParentsAreRows
  <2> QED BY <1>2, <1>3, <1>5, <2>1, FewerHolders DEF RotationsBudgeted
<1> QED BY <1>4, <1>5

LEMMA RotateBudgeted ==
  ASSUME KInv, KInv', RotationsBudgeted, NEW r \in Requests, RotateCommit(r)
  PROVE  RotationsBudgeted'
<1> DEFINE o == req[r].key
<1>1. PICK n \in Fresh :
        key' = Insert([key EXCEPT ![o].active = FALSE, ![o].deleted = TRUE], n, o)
  BY DEF RotateCommit
<1>2. /\ req[r].at = "rotate.commit" /\ o \in DOMAIN key /\ o # NoKey
      /\ n \notin DOMAIN key /\ n # NoKey /\ n # o
  BY NoKeyAssumption DEF RotateCommit, KInv, KeysTypeOK, RequestsNameRows, Idle, Fresh
<1>3. /\ DOMAIN key' = DOMAIN key \union {n} /\ key'[n].parent = o
      /\ \A c \in DOMAIN key : key'[c].parent = key[c].parent
  BY <1>1, <1>2 DEF Insert, KInv, KeysTypeOK, Row
<1>4. \A p \in Requests : req'[p] = IF p = r THEN Idle ELSE req[p]
  BY DEF RotateCommit, End, KInv, KeysTypeOK
<1> SUFFICES ASSUME NEW k \in DOMAIN key' PROVE Spent(Successors(k)', Rotators(k)')
  BY DEF RotationsBudgeted, Spent
<1>5. Rotators(k)' \in SUBSET Requests /\ Rotators(k) \in SUBSET Requests
  BY DEF Rotators
<1>6. CASE k = n
  <2>1. Successors(k)' = {}
    BY <1>2, <1>3, <1>6 DEF Successors, KInv, ParentsAreRows
  <2> QED BY <1>5, <2>1, NoneYet
<1>7. CASE k = o
  <2>1. Successors(k)' = Successors(k) \union {n}
    BY <1>2, <1>3, <1>7 DEF Successors
  <2>2. Rotators(k)' = Rotators(k) \ {r} /\ r \in Rotators(k)
    BY <1>2, <1>4, <1>7 DEF Rotators, Idle
  <2>3. Spent(Successors(k), Rotators(k))
    BY <1>2, <1>7 DEF RotationsBudgeted
  <2>4. Spent(Successors(k) \union {n}, Rotators(k) \ {r})
    BY <1>5, <2>2, <2>3, HolderSpent
  <2> QED BY <2>1, <2>2, <2>4
<1>8. CASE k # n /\ k # o
  <2>1. Successors(k)' = Successors(k) /\ k \in DOMAIN key
    BY <1>3, <1>8 DEF Successors
  <2>2. Rotators(k)' \in SUBSET Rotators(k)
    BY <1>4 DEF Rotators, Idle
  <2> QED BY <1>5, <2>1, <2>2, FewerHolders DEF RotationsBudgeted
<1> QED BY <1>6, <1>7, <1>8

LEMMA BudgetStep ==
  ASSUME KInv, KInv', RotationsBudgeted, [KeysNext]_keyVars
  PROVE  RotationsBudgeted'
<1>1. CASE CreateKey
  <2>1. PICK n \in Fresh : key' = Insert(key, n, NoKey) /\ req' = req
    BY <1>1 DEF CreateKey
  <2>2. /\ \A c \in DOMAIN key : c \in DOMAIN key' /\ key'[c] = key[c]
        /\ \A c \in DOMAIN key' \ DOMAIN key : key'[c].parent = NoKey
    BY <2>1 DEF Insert, Fresh
  <2>3. \A k : Rotators(k)' = Rotators(k)
    BY <2>1 DEF Rotators
  <2> QED BY <2>2, <2>3, BudgetStays
<1>2. ASSUME NEW r \in Requests, RevokeCommit(r)
      PROVE  RotationsBudgeted'
  <2>1. DOMAIN key' = DOMAIN key /\ \A c \in DOMAIN key : key'[c].parent = key[c].parent
    BY <1>2 DEF RevokeCommit, KInv, KeysTypeOK, Row
  <2>2. \A k : Rotators(k)' \subseteq Rotators(k)
    BY <1>2 DEF RevokeCommit, End, Rotators, Idle, KInv, KeysTypeOK
  <2> QED BY <2>1, <2>2, BudgetStays
<1>3. ASSUME NEW r \in Requests, StartRotate(r)
      PROVE  RotationsBudgeted'
  <2>1. PICK o \in KeyIds :
          Present(o) /\ key' = key /\ req' = [req EXCEPT ![r] = [at |-> "rotate.commit", key |-> o]]
    BY <1>3 DEF StartRotate, Begin
  <2>2. Successors(o) = {}
    BY <2>1 DEF Present, KInv, RotationReplaces
  <2>3. \A k : k # o => Rotators(k)' \subseteq Rotators(k)
    BY <2>1 DEF Rotators, KInv, KeysTypeOK
  <2> QED BY <2>1, <2>2, <2>3, BudgetStays
<1>4. ASSUME NEW r \in Requests,
             StartRevoke(r) \/ StartUse(r) \/ RecordUse(r) \/ UseQueued(r) \/ UseCommit(r) \/ Fail(r)
      PROVE  RotationsBudgeted'
  <2>1. key' = key
    BY <1>4 DEF StartRevoke, StartUse, RecordUse, UseQueued, UseCommit, Fail
  <2>2. \A p \in Requests \ {r} : req'[p] = req[p]
    BY <1>4 DEF StartRevoke, StartUse, RecordUse, UseQueued, UseCommit, Fail, Begin, End, Advance,
       KInv, KeysTypeOK
  <2>3. req'[r].at # "rotate.commit"
    <3>1. CASE RecordUse(r)
      <4>1. req[r] \in Use
        BY <3>1 DEF RecordUse, KInv, KeysTypeOK, Request, AdminRequest, Use, Idle
      <4> QED BY <3>1, <4>1 DEF RecordUse, KInv, KeysTypeOK, Use
    <3>2. CASE UseQueued(r)
      <4>1. req[r] \in Use
        BY <3>2 DEF UseQueued, KInv, KeysTypeOK, Request, AdminRequest, Use, Idle
      <4> QED BY <3>2, <4>1 DEF UseQueued, Advance, KInv, KeysTypeOK, Use
    <3>3. CASE StartRevoke(r) \/ StartUse(r) \/ UseCommit(r) \/ Fail(r)
      BY <3>3 DEF StartRevoke, StartUse, UseCommit, Fail, Begin, End, Idle, KInv, KeysTypeOK
    <3> QED BY <1>4, <3>1, <3>2, <3>3
  <2>4. \A k : Rotators(k)' \subseteq Rotators(k)
    BY <2>2, <2>3 DEF Rotators
  <2> QED BY <2>1, <2>4, BudgetStays
<1>5. CASE UNCHANGED keyVars
  <2>1. key' = key /\ \A k : Rotators(k)' = Rotators(k)
    BY <1>5 DEF keyVars, Rotators
  <2> QED BY <2>1, BudgetStays
<1> QED BY <1>1, <1>2, <1>3, <1>4, <1>5, RotateBudgeted DEF KeysNext, KeysAdmin

\* Two rotations of one key can both succeed (api_key_service.py:69-79); but a key
\* gets no more successors than requests overlap, and one when they do not.
RotationsAreBounded == \A k \in DOMAIN key :
  Cardinality(Successors(k)) <= Cardinality(Requests)

THEOREM RotationsStayFew == KeysSpec => []RotationsAreBounded
<1>1. KeysInit => RotationsBudgeted
  BY DEF KeysInit, RotationsBudgeted
<1>2. KInv /\ KInv' /\ RotationsBudgeted /\ [KeysNext]_keyVars => RotationsBudgeted'
  BY BudgetStep
<1>3. RotationsBudgeted => RotationsAreBounded
  <2> SUFFICES ASSUME RotationsBudgeted, NEW k \in DOMAIN key
               PROVE  Cardinality(Successors(k)) <= Cardinality(Requests)
    BY DEF RotationsAreBounded
  <2>1. Rotators(k) \in SUBSET Requests
    BY DEF Rotators
  <2>2. /\ Cardinality(Rotators(k)) \in Nat /\ Cardinality(Requests) \in Nat
        /\ Cardinality(Successors(k)) \in Nat
    BY <2>1, SomeRequests, FS_CardinalityType DEF RotationsBudgeted, Spent
  <2> QED BY <2>2 DEF RotationsBudgeted, Spent
<1> QED BY <1>1, <1>2, <1>3, InitInvariant, StepInvariant, PTL DEF KeysSpec
============================================================================
