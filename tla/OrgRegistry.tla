---------------------------- MODULE OrgRegistry ----------------------------
(***************************************************************************)
(* What tenancy promises about ownership, with no transaction, invite or   *)
(* role in sight: an organization is registered together with its owner,   *)
(* the pair is never revised, and an account owns at most one              *)
(* organization.  Tenancy is shown to implement this specification.        *)
(***************************************************************************)
CONSTANTS Accounts, OrgNames

VARIABLE ownerOf    \* the owner of every organization registered so far

Owners == {ownerOf[o] : o \in DOMAIN ownerOf}

Init == ownerOf = [o \in {} |-> CHOOSE a \in Accounts : TRUE]

Register(a, o) ==
  /\ a \notin Owners
  /\ ownerOf' = [p \in DOMAIN ownerOf \union {o} |->
                   IF p = o THEN a ELSE ownerOf[p]]

Next == \E o \in OrgNames \ DOMAIN ownerOf, a \in Accounts : Register(a, o)

Spec == Init /\ [][Next]_ownerOf
============================================================================
