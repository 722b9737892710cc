------------------------------ MODULE ApiKeys ------------------------------
(***************************************************************************)
(* The table api_keys of one organization: admins create, revoke and       *)
(* rotate keys, and every ingestion request looks its key up and records   *)
(* the use.  Requests are transactions as in Tenancy, with one difference: *)
(* an ingestion request writes its key's row early and commits only when   *)
(* it has queued its events, and until then the row lock of that UPDATE    *)
(* keeps every other writer of the row waiting.                            *)
(***************************************************************************)
EXTENDS Integers, FiniteSets

CONSTANTS KeyIds,    \* bound: the keys there can ever be
          Requests,  \* bound: requests in flight at once
          NoKey      \* the parent of a key that was created, not rotated

ASSUME NoKeyAssumption == NoKey \notin KeyIds
ASSUME RequestsAssumption == IsFiniteSet(Requests)

VARIABLES key,  \* the rows, by key
          req   \* where each request stands

keyVars == <<key, req>>

Row == [active : BOOLEAN, deleted : BOOLEAN, parent : KeyIds \union {NoKey}]

Idle == [at |-> "idle"]
AdminRequest == [at : {"revoke.commit", "rotate.commit"}, key : KeyIds]
Use == [at : {"use.record", "use.queue", "use.commit"}, key : KeyIds,
        live : BOOLEAN]  \* could the key be used when its use was recorded?
Request == {Idle} \union AdminRequest \union Use

\* Rows and requests have their shape.
KeysTypeOK ==
  /\ DOMAIN key \subseteq KeyIds
  /\ key \in [DOMAIN key -> Row]
  /\ req \in [Requests -> Request]

KeysInit ==
  /\ key = [k \in {} |-> Idle]
  /\ req = [r \in Requests |-> Idle]

----------------------------------------------------------------------------
\* Every lookup by id leaves deleted rows out, the lookup by hash also
\* revoked ones.
Present(k) == k \in DOMAIN key /\ ~key[k].deleted
Usable(k) == Present(k) /\ key[k].active

Successors(k) == {c \in DOMAIN key : key[c].parent = k}

\* A key whose use is recorded and not committed yet.
Locked(k) == \E r \in Requests :
  req[r].at \in {"use.queue", "use.commit"} /\ req[r].key = k

Begin(r, q) == req[r] = Idle /\ req' = [req EXCEPT ![r] = q]
End(r) == req' = [req EXCEPT ![r] = Idle]
Advance(r, at) == req' = [req EXCEPT ![r].at = at]

\* Row n is inserted, the successor of p.
Insert(tbl, n, p) ==
  [k \in DOMAIN tbl \union {n} |->
     IF k = n THEN [active |-> TRUE, deleted |-> FALSE, parent |-> p] ELSE tbl[k]]

Fresh == KeyIds \ DOMAIN key

\* A check that raises, a limit that is exceeded, a lost connection, a crash.
Fail(r) == req[r] # Idle /\ End(r) /\ UNCHANGED key

----------------------------------------------------------------------------
CreateKey == \E n \in Fresh : key' = Insert(key, n, NoKey) /\ UNCHANGED req

StartRevoke(r) == \E k \in KeyIds :
  /\ Present(k)
  /\ Begin(r, [at |-> "revoke.commit", key |-> k])
  /\ UNCHANGED key

RevokeIgnoresLock(r) == LET k == req[r].key IN   \* mutant: no lock is held by a use
  /\ req[r].at = "revoke.commit"
  /\ key' = [key EXCEPT ![k].active = FALSE]
  /\ End(r)

RevokeCommit(r) == LET k == req[r].key IN
  /\ req[r].at = "revoke.commit"
  /\ ~Locked(k)
  /\ key' = [key EXCEPT ![k].active = FALSE]
  /\ End(r)

StartRotate(r) == \E k \in KeyIds :
  /\ Present(k)
  /\ Begin(r, [at |-> "rotate.commit", key |-> k])
  /\ UNCHANGED key

RotateKeepsOld(r) == \E n \in Fresh : LET k == req[r].key IN   \* mutant: the old key lives on
  /\ req[r].at = "rotate.commit"
  /\ ~Locked(k)
  /\ key' = Insert(key, n, k)
  /\ End(r)

\* The old row is flushed and the new one inserted in one transaction.
RotateCommit(r) == \E n \in Fresh : LET k == req[r].key IN
  /\ req[r].at = "rotate.commit"
  /\ ~Locked(k)
  /\ key' = Insert([key EXCEPT ![k].active = FALSE, ![k].deleted = TRUE], n, k)
  /\ End(r)

----------------------------------------------------------------------------
\* An ingestion request: the key is looked up, ...
StartUse(r) == \E k \in KeyIds :
  /\ Usable(k)
  /\ Begin(r, [at |-> "use.record", key |-> k, live |-> TRUE])
  /\ UNCHANGED key

RecordUseWholeRow(r) == LET k == req[r].key IN   \* mutant: the UPDATE writes every column as read
  /\ req[r].at = "use.record"
  /\ ~Locked(k)
  /\ key' = [key EXCEPT ![k].active = TRUE, ![k].deleted = FALSE]
  /\ req' = [req EXCEPT ![r].at = "use.queue", ![r].live = Usable(k)]

\* ... its last_used_at written (and nothing else: the key may be dead by now,
\* and stays so), ...
RecordUse(r) == LET k == req[r].key IN
  /\ req[r].at = "use.record"
  /\ ~Locked(k)
  /\ req' = [req EXCEPT ![r].at = "use.queue", ![r].live = Usable(k)]
  /\ UNCHANGED key

\* ... the task queued, and the transaction committed.
UseQueued(r) == req[r].at = "use.queue" /\ Advance(r, "use.commit") /\ UNCHANGED key
UseCommit(r) == req[r].at = "use.commit" /\ End(r) /\ UNCHANGED key

KeysAdmin ==
  \/ CreateKey
  \/ \E r \in Requests :
       \/ StartRevoke(r) \/ RevokeCommit(r) \/ StartRotate(r) \/ RotateCommit(r)
       \/ StartUse(r) \/ RecordUse(r) \/ UseCommit(r) \/ Fail(r)

KeysNext == KeysAdmin \/ \E r \in Requests : UseQueued(r)

KeysSpec == KeysInit /\ [][KeysNext]_keyVars

----------------------------------------------------------------------------
\* Once a request has recorded the use of a live key, no revocation and no
\* rotation of the key takes effect before that request is over: what it queues
\* was sent under a valid key (api_key_service.py:58, 75-77, 91-92).
UseHoldsItsKey == \A r \in Requests :
  req[r].at \in {"use.queue", "use.commit"} /\ req[r].live => Usable(req[r].key)

\* A successor never lives beside the key it replaced: rotation is all or
\* nothing, also when two of them and a revocation overlap (api_key_service.py:75-79).
RotationReplaces == \A k \in DOMAIN key :
  Successors(k) # {} => ~key[k].active /\ key[k].deleted

\* A revoked or rotated key never works again, whatever requests that read it
\* alive still write (api_key_service.py:58, 75-76, api_key_repo.py:39).
DeadKeysStayDead == [][\A k \in DOMAIN key : ~Usable(k) => ~Usable(k)']_keyVars
============================================================================
