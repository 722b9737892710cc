------------------------- MODULE RateLimiterProofs -------------------------
(***************************************************************************)
(* Proofs about RateLimiter for every set of keys and requests and all     *)
(* limits.  What a window lets through is a counting argument: the events  *)
(* queued and the requests that have passed a counter and may still queue  *)
(* are together no more than the counts that were within the limit and the *)
(* requests left over from the window before.                              *)
(***************************************************************************)
EXTENDS RateLimiter, FiniteSetTheorems, TLAPS

\* A request counts at its organization and then at its key; a counter with a
\* time to live exists; one request sets it.
OneArmer == \A r \in Requests, s \in Requests :
  req[r].at = "expire" /\ req[s].at = "expire" /\ req[r].counter = req[s].counter
    => r = s

WellFormed ==
  /\ \A r \in Requests : req[r] # Idle => req[r].counter \in {Org, req[r].key}
  /\ \A c \in Counters : armed[c] => count[c] > 0
  /\ OneArmer

IInv == TypeOK /\ WellFormed /\ WindowIsNotExtended

\* The requests that have been counted at c, within the limit, and may queue.
Passing(c) == {r \in Requests :
  \/ /\ req[r].at \in {"expire", "check"}
     /\ req[r].counter = c /\ req[r].seen <= Limit(c)
  \/ c = Org /\ req[r] # Idle /\ req[r].counter # Org}

Granted(c) == IF count[c] <= Limit(c) THEN count[c] ELSE Limit(c)

\* What may still be queued, in requests, and with E events in each at most.
Spare(c) == Granted(c) + Cardinality(Requests) - Cardinality(Passing(c))

Budgeted(E, c) == sent[c] <= E * Spare(c)

LEMMA Numbers ==
  ASSUME TypeOK, NEW c \in Counters
  PROVE  /\ count[c] \in 0..MaxCount /\ count[c] \in Nat
         /\ sent[c] \in Nat /\ Limit(c) \in Nat /\ Granted(c) \in Nat
         /\ Granted(c) <= Limit(c)
         /\ Cardinality(Requests) \in Nat
<1>1. Limit(c) \in Nat
  BY LimitsAssumption DEF Limit
<1>2. count[c] \in 0..MaxCount /\ sent[c] \in Nat /\ MaxCount \in Nat
  BY LimitsAssumption DEF TypeOK
<1>3. Cardinality(Requests) \in Nat
  BY RequestsAssumption, FS_CardinalityType
<1> QED BY <1>1, <1>2, <1>3 DEF Granted

LEMMA PassingFinite ==
  ASSUME NEW c
  PROVE  /\ IsFiniteSet(Passing(c))
         /\ Cardinality(Passing(c)) \in Nat
         /\ Cardinality(Passing(c)) <= Cardinality(Requests)
<1>1. Passing(c) \in SUBSET Requests
  BY DEF Passing
<1> QED BY <1>1, RequestsAssumption, FS_Subset, FS_CardinalityType

----------------------------------------------------------------------------
\* The type of a request after a step.
LEMMA Updated ==
  ASSUME NEW r \in Requests, req \in [Requests -> Request], NEW q \in Request,
         req' = [req EXCEPT ![r] = q]
  PROVE  req' \in [Requests -> Request] /\ req'[r] = q
         /\ \A s \in Requests \ {r} : req'[s] = req[s]
OBVIOUS

LEMMA ActiveRequest ==
  ASSUME NEW r \in Requests, req \in [Requests -> Request],
         req[r].at \in {"incr", "expire", "check"}
  PROVE  req[r] \in Active /\ req[r] # Idle
BY DEF Request, Idle, Active

----------------------------------------------------------------------------
LEMMA TypeStep ==
  ASSUME IInv, [Next]_vars
  PROVE  TypeOK'
<1> USE DEF IInv
<1>1. ASSUME NEW r \in Requests, Arrive(r) PROVE TypeOK'
  BY <1>1, LimitsAssumption DEF Arrive, TypeOK, Request, Active, Counters
<1>2. ASSUME NEW r \in Requests, Incr(r) PROVE TypeOK'
  <2>1. req[r] \in Active /\ req[r].counter \in Counters
    BY <1>2, ActiveRequest DEF Incr, TypeOK, Active
  <2>2. count[req[r].counter] + 1 \in 0..MaxCount
    BY <1>2, <2>1, LimitsAssumption DEF Incr, TypeOK
  <2>3. req'[r] \in Active
    BY <1>2, <2>1, <2>2 DEF Incr, TypeOK, Active
  <2>4. count' \in [Counters -> 0..MaxCount]
    BY <1>2, <2>1, <2>2 DEF Incr, TypeOK
  <2>5. req' \in [Requests -> Request]
    BY <1>2, <2>3 DEF Incr, TypeOK, Request
  <2> QED BY <1>2, <2>4, <2>5 DEF Incr, TypeOK
<1>3. ASSUME NEW r \in Requests, Arm(r) PROVE TypeOK'
  <2>1. req[r] \in Active /\ req[r].counter \in Counters
    BY <1>3, ActiveRequest DEF Arm, TypeOK, Active
  <2>2. req'[r] \in Active
    BY <1>3, <2>1 DEF Arm, TypeOK, Active
  <2>3. req' \in [Requests -> Request]
    BY <1>3, <2>2 DEF Arm, TypeOK, Request
  <2>4. armed' \in [Counters -> BOOLEAN]
    <3>1. (count[req[r].counter] > 0) \in BOOLEAN
      OBVIOUS
    <3> QED BY <1>3, <3>1, Zenon DEF Arm, TypeOK
  <2>5. count' = count /\ sent' = sent
    BY <1>3 DEF Arm
  <2> QED BY <2>3, <2>4, <2>5 DEF TypeOK
<1>4. ASSUME NEW r \in Requests, PassOrg(r) PROVE TypeOK'
  <2>1. req[r] \in Active
    BY <1>4, ActiveRequest DEF PassOrg, TypeOK
  <2>2. req'[r] \in Active
    BY <1>4, <2>1 DEF PassOrg, TypeOK, Active, Counters
  <2>3. req' \in [Requests -> Request]
    BY <1>4, <2>2 DEF PassOrg, TypeOK, Request
  <2> QED BY <1>4, <2>3 DEF PassOrg, TypeOK
<1>5. ASSUME NEW r \in Requests, Queue(r) PROVE TypeOK'
  <2>1. req[r] \in Active
    BY <1>5, ActiveRequest DEF Queue, TypeOK
  <2>2. req[r].key \in Counters /\ Org \in Counters /\ req[r].events \in Nat
    BY <2>1, LimitsAssumption DEF Active, Counters
  <2>3. sent' \in [Counters -> Nat]
    BY <1>5, <2>2 DEF Queue, TypeOK
  <2> QED BY <1>5, <2>3 DEF Queue, TypeOK, Request
<1>6. ASSUME NEW r \in Requests, Reject(r) \/ Die(r) PROVE TypeOK'
  BY <1>6 DEF Reject, Die, TypeOK, Request
<1>7. ASSUME NEW c \in Counters, Expire(c) PROVE TypeOK'
  BY <1>7, LimitsAssumption DEF Expire, TypeOK
<1>8. CASE UNCHANGED vars
  BY <1>8 DEF vars, TypeOK
<1> QED BY <1>1, <1>2, <1>3, <1>4, <1>5, <1>6, <1>7, <1>8, RequestsAssumption
      DEF Next, Handle

LEMMA SafetyStep ==
  ASSUME IInv, [Next]_vars
  PROVE  WellFormed' /\ WindowIsNotExtended'
<1> USE DEF IInv, WellFormed, WindowIsNotExtended
<1>1. ASSUME NEW r \in Requests, Arrive(r)
      PROVE  WellFormed' /\ WindowIsNotExtended'
  BY <1>1 DEF Arrive, TypeOK, Idle, OneArmer
<1>2. ASSUME NEW r \in Requests, Incr(r)
      PROVE  WellFormed' /\ WindowIsNotExtended'
  <2> DEFINE c == req[r].counter
  <2>1. c \in Counters /\ req[r] # Idle /\ req[r] \in Active /\ count[c] \in Nat
    BY <1>2, ActiveRequest, LimitsAssumption DEF Incr, TypeOK, Active
  <2>2. /\ req'[r].counter = c /\ req'[r].key = req[r].key
        /\ \A s \in Requests \ {r} : req'[s] = req[s]
        /\ req'[r].at = "expire" => count[c] = 0
    BY <1>2, <2>1 DEF Incr, TypeOK, Active, Arms
  <2>3. /\ count'[c] = count[c] + 1 /\ armed' = armed
        /\ \A d \in Counters \ {c} : count'[d] = count[d]
    BY <1>2, <2>1 DEF Incr, TypeOK
  <2>4. \A s \in Requests \ {r} : req[s].at = "expire" => req[s].counter \in Counters
    BY ActiveRequest DEF TypeOK, Active
  <2>5. \A s \in Requests \ {r} : req[s].at = "expire" /\ req[s].counter = c
          => count[c] > 0
    OBVIOUS
  <2>6. (\A s \in Requests : req[s] # Idle => req[s].counter \in {Org, req[s].key})'
    BY <2>1, <2>2
  <2>7. (\A d \in Counters : armed[d] => count[d] > 0)'
    BY <2>1, <2>3
  <2>8. WindowIsNotExtended'
    BY <2>1, <2>2, <2>3, <2>4
  <2>9. OneArmer'
    <3> SUFFICES ASSUME NEW s \in Requests, NEW t \in Requests,
                        req'[s].at = "expire", req'[t].at = "expire",
                        req'[s].counter = req'[t].counter
                 PROVE  s = t
      BY DEF OneArmer
    <3>1. CASE s # r /\ t # r
      BY <2>2, <3>1 DEF OneArmer
    <3>2. CASE s = r /\ t # r
      BY <2>1, <2>2, <2>5, <3>2
    <3>3. CASE s # r /\ t = r
      BY <2>1, <2>2, <2>5, <3>3
    <3> QED BY <3>1, <3>2, <3>3
  <2> QED BY <2>6, <2>7, <2>8, <2>9
<1>3. ASSUME NEW r \in Requests, Arm(r)
      PROVE  WellFormed' /\ WindowIsNotExtended'
  <2> DEFINE c == req[r].counter
  <2>1. c \in Counters /\ req[r] # Idle /\ req[r] \in Active /\ count[c] > 0
    BY <1>3, ActiveRequest DEF Arm, TypeOK, Active
  <2>2. /\ req'[r].counter = c /\ req'[r].key = req[r].key /\ req'[r].at = "check"
        /\ \A s \in Requests \ {r} : req'[s] = req[s]
    BY <1>3, <2>1 DEF Arm, TypeOK, Active
  <2>3. /\ count' = count /\ \A d \in Counters \ {c} : armed'[d] = armed[d]
    BY <1>3, <2>1 DEF Arm, TypeOK
  <2>4. \A s \in Requests \ {r} : req[s].at = "expire" =>
          req[s].counter \in Counters \ {c}
    BY <1>3, ActiveRequest DEF TypeOK, Active, Arm, OneArmer
  <2>5. (\A d \in Counters : armed[d] => count[d] > 0)'
    BY <2>1, <2>3
  <2>6. WindowIsNotExtended'
    BY <2>2, <2>3, <2>4
  <2>7. (\A s \in Requests : req[s] # Idle => req[s].counter \in {Org, req[s].key})'
    BY <2>1, <2>2
  <2>8. OneArmer'
    <3> SUFFICES ASSUME NEW s \in Requests, NEW t \in Requests,
                        req'[s].at = "expire", req'[t].at = "expire",
                        req'[s].counter = req'[t].counter
                 PROVE  s = t
      BY DEF OneArmer
    <3>1. s # r /\ t # r
      BY <2>2
    <3> QED BY <2>2, <3>1 DEF OneArmer
  <2> QED BY <2>5, <2>6, <2>7, <2>8
<1>4. ASSUME NEW r \in Requests, PassOrg(r)
      PROVE  WellFormed' /\ WindowIsNotExtended'
  <2>1. req[r] \in Active
    BY <1>4, ActiveRequest DEF PassOrg, TypeOK
  <2>2. /\ req'[r].counter = req'[r].key /\ req'[r].at = "incr"
        /\ \A s \in Requests \ {r} : req'[s] = req[s]
    BY <1>4, <2>1 DEF PassOrg, TypeOK, Active
  <2>3. count' = count /\ armed' = armed
    BY <1>4 DEF PassOrg
  <2> QED BY <2>2, <2>3 DEF OneArmer
<1>5. ASSUME NEW r \in Requests, Queue(r) \/ Reject(r) \/ Die(r)
      PROVE  WellFormed' /\ WindowIsNotExtended'
  <2>1. /\ req'[r] = Idle /\ count' = count /\ armed' = armed
        /\ \A s \in Requests \ {r} : req'[s] = req[s]
    BY <1>5 DEF Queue, Reject, Die, TypeOK
  <2>2. req'[r].at # "expire"
    BY <2>1 DEF Idle
  <2> QED BY <2>1, <2>2 DEF OneArmer
<1>6. ASSUME NEW c \in Counters, Expire(c)
      PROVE  WellFormed' /\ WindowIsNotExtended'
  <2>1. /\ ~armed'[c] /\ req' = req
        /\ \A d \in Counters \ {c} : armed'[d] = armed[d] /\ count'[d] = count[d]
    BY <1>6 DEF Expire, TypeOK
  <2>2. \A s \in Requests : req[s].at = "expire" => req[s].counter \in Counters \ {c}
    BY <1>6, ActiveRequest DEF TypeOK, Active, Expire
  <2> QED BY <2>1, <2>2 DEF OneArmer
<1>7. CASE UNCHANGED vars
  BY <1>7 DEF vars, OneArmer
<1> QED BY <1>1, <1>2, <1>3, <1>4, <1>5, <1>6, <1>7, RequestsAssumption
      DEF Next, Handle

----------------------------------------------------------------------------
\* The ways a step can move the two sides of a counter's budget.
LEMMA Products ==
  ASSUME NEW E \in Nat, NEW m \in Nat, NEW n \in Nat, m <= n
  PROVE  /\ E * m <= E * n /\ E * m \in Nat /\ E * n \in Nat
         /\ E * (m + 1) = E * m + E
<1>1. PICK d \in Nat : n = m + d
  <2>1. n - m \in Nat /\ n = m + (n - m)
    OBVIOUS
  <2> QED BY <2>1
<1>2. E * d \in Nat /\ E * m \in Nat /\ E * n = E * m + E * d
  BY <1>1
<1> QED BY <1>2

LEMMA SpareNumber ==
  ASSUME TypeOK, NEW c \in Counters
  PROVE  Spare(c) \in Nat /\ Spare(c) <= Limit(c) + Cardinality(Requests)
BY Numbers, PassingFinite DEF Spare

LEMMA BudgetKept ==
  ASSUME TypeOK, TypeOK', NEW c \in Counters, NEW E \in Nat, Budgeted(E, c),
         Passing(c)' \subseteq Passing(c), sent'[c] = sent[c], Granted(c)' >= Granted(c)
  PROVE  Budgeted(E, c)'
<1>1. Cardinality(Passing(c)') <= Cardinality(Passing(c))
  BY PassingFinite, FS_Subset
<1>2. Cardinality(Passing(c)') \in Nat
  BY PassingFinite, FS_Subset, FS_CardinalityType
<1>3. Granted(c)' \in Nat
  BY Numbers DEF Granted, TypeOK
<1>4. Spare(c)' >= Spare(c) /\ Spare(c)' \in Nat /\ Spare(c) \in Nat
  BY <1>1, <1>2, <1>3, Numbers, PassingFinite DEF Spare
<1> QED BY <1>4, Products, Numbers DEF Budgeted

LEMMA OneMoreElement ==
  ASSUME NEW S, IsFiniteSet(S), NEW x
  PROVE  IsFiniteSet(S \union {x}) /\ Cardinality(S \union {x}) <= Cardinality(S) + 1
<1>1. Cardinality(S) \in Nat
  BY FS_CardinalityType
<1>2. /\ IsFiniteSet(S \union {x})
      /\ Cardinality(S \union {x}) = IF x \in S THEN Cardinality(S) ELSE Cardinality(S) + 1
  BY FS_AddElement
<1> QED BY <1>1, <1>2

LEMMA BudgetCounted ==
  ASSUME TypeOK, TypeOK', NEW c \in Counters, NEW E \in Nat, Budgeted(E, c), NEW r \in Requests,
         Passing(c)' \subseteq Passing(c) \union {r}, sent'[c] = sent[c],
         Granted(c)' = Granted(c) + 1
  PROVE  Budgeted(E, c)'
<1>1. /\ IsFiniteSet(Passing(c) \union {r})
      /\ Cardinality(Passing(c) \union {r}) <= Cardinality(Passing(c)) + 1
  BY PassingFinite, OneMoreElement
<1>2. /\ Cardinality(Passing(c)') <= Cardinality(Passing(c) \union {r})
      /\ Cardinality(Passing(c)') \in Nat /\ Cardinality(Passing(c) \union {r}) \in Nat
  BY <1>1, FS_Subset, FS_CardinalityType
<1>3. Spare(c)' >= Spare(c) /\ Spare(c)' \in Nat /\ Spare(c) \in Nat
  BY <1>1, <1>2, Numbers, PassingFinite, SpareNumber DEF Spare
<1> QED BY <1>3, Products, Numbers DEF Budgeted

LEMMA BudgetSpent ==
  ASSUME TypeOK, TypeOK', NEW c \in Counters, NEW E \in Nat, Budgeted(E, c),
         NEW r \in Passing(c), NEW e \in 0..E,
         Passing(c)' \subseteq Passing(c) \ {r}, sent'[c] = sent[c] + e,
         Granted(c)' = Granted(c)
  PROVE  Budgeted(E, c)'
<1>1. /\ IsFiniteSet(Passing(c) \ {r})
      /\ Cardinality(Passing(c) \ {r}) = Cardinality(Passing(c)) - 1
  BY PassingFinite, FS_RemoveElement
<1>2. /\ Cardinality(Passing(c)') <= Cardinality(Passing(c) \ {r})
      /\ Cardinality(Passing(c)') \in Nat
  BY <1>1, FS_Subset, FS_CardinalityType
<1>3. Spare(c)' >= Spare(c) + 1 /\ Spare(c)' \in Nat /\ Spare(c) \in Nat
  BY <1>1, <1>2, Numbers, PassingFinite, SpareNumber DEF Spare
<1>4. E * (Spare(c) + 1) <= E * Spare(c)' /\ E * Spare(c)' \in Nat
  BY <1>3, Products
<1>5. E * (Spare(c) + 1) = E * Spare(c) + E /\ E * Spare(c) \in Nat
  BY <1>3, Products
<1>6. sent[c] <= E * Spare(c) /\ sent[c] \in Nat
  BY Numbers DEF Budgeted
<1>7. sent'[c] <= E * Spare(c)'
  BY <1>4, <1>5, <1>6
<1> QED BY <1>7 DEF Budgeted

LEMMA BudgetReset ==
  ASSUME TypeOK, TypeOK', NEW c \in Counters, NEW E \in Nat,
         Passing(c)' = Passing(c), sent'[c] = 0, Granted(c)' = 0
  PROVE  Budgeted(E, c)'
<1>1. Spare(c)' \in Nat
  BY Numbers, PassingFinite DEF Spare
<1> QED BY <1>1, Products DEF Budgeted

\* Whether another request is passing does not change.
LEMMA OthersPass ==
  ASSUME NEW c, NEW r \in Requests, req' \in [Requests -> Request],
         \A s \in Requests \ {r} : req'[s] = req[s]
  PROVE  Passing(c)' \subseteq Passing(c) \union {r}
         /\ (r \notin Passing(c)' => Passing(c)' \subseteq Passing(c) \ {r})
         /\ (r \in Passing(c) => Passing(c)' \subseteq Passing(c))
BY DEF Passing, Limit

LEMMA BudgetStep ==
  ASSUME IInv, IInv', [Next]_vars, NEW c \in Counters,
         NEW E \in Nat, \A e \in BatchSizes : e <= E, Budgeted(E, c)
  PROVE  Budgeted(E, c)'
<1> USE DEF IInv
<1> USE Numbers
<1>1. ASSUME NEW r \in Requests, Arrive(r) PROVE Budgeted(E, c)'
  <2>1. /\ req'[r].at = "incr" /\ req'[r].counter = Org
        /\ \A s \in Requests \ {r} : req'[s] = req[s]
        /\ count' = count /\ sent' = sent
    BY <1>1 DEF Arrive, TypeOK
  <2>2. r \notin Passing(c)'
    BY <2>1 DEF Passing
  <2>3. Passing(c)' \subseteq Passing(c)
    BY <2>1, <2>2, OthersPass DEF TypeOK
  <2> QED BY <2>1, <2>3, BudgetKept DEF Granted
<1>2. ASSUME NEW r \in Requests, Incr(r) PROVE Budgeted(E, c)'
  <2> DEFINE d == req[r].counter
  <2>1. d \in Counters /\ req[r] # Idle /\ req[r] \in Active
    BY <1>2, ActiveRequest DEF Incr, TypeOK, Active
  <2>2. /\ req'[r].counter = d /\ req'[r].seen = count[d] + 1
        /\ \A s \in Requests \ {r} : req'[s] = req[s]
        /\ count'[d] = count[d] + 1 /\ sent' = sent
        /\ \A e \in Counters \ {d} : count'[e] = count[e]
    BY <1>2, <2>1 DEF Incr, TypeOK, Active
  <2>3. CASE c = d /\ count[c] + 1 <= Limit(c)
    <3>1. Granted(c)' = Granted(c) + 1
      BY <2>2, <2>3 DEF Granted, Limit
    <3>2. Passing(c)' \subseteq Passing(c) \union {r}
      BY <2>2, OthersPass DEF TypeOK
    <3> QED BY <2>2, <3>1, <3>2, BudgetCounted
  <2>4. CASE c = d /\ ~(count[c] + 1 <= Limit(c))
    <3>1. Granted(c)' = Granted(c)
      BY <2>2, <2>4 DEF Granted, Limit
    <3>2. r \notin Passing(c)'
      BY <2>2, <2>4 DEF Passing, Limit
    <3>3. Passing(c)' \subseteq Passing(c)
      BY <2>2, <3>2, OthersPass DEF TypeOK
    <3> QED BY <2>2, <3>1, <3>3, BudgetKept
  <2>5. CASE c # d
    <3>1. Granted(c)' = Granted(c)
      BY <2>2, <2>5 DEF Granted, Limit
    <3>2. r \in Passing(c)' => r \in Passing(c)
      BY <2>1, <2>2, <2>5 DEF Passing
    <3>3. Passing(c)' \subseteq Passing(c)
      BY <2>2, <3>2, OthersPass DEF TypeOK
    <3> QED BY <2>2, <3>1, <3>3, BudgetKept
  <2> QED BY <2>3, <2>4, <2>5
<1>3. ASSUME NEW r \in Requests, Arm(r) PROVE Budgeted(E, c)'
  <2>1. req[r] # Idle /\ req[r] \in Active
    BY <1>3, ActiveRequest DEF Arm, TypeOK
  <2>2. /\ req'[r].counter = req[r].counter /\ req'[r].seen = req[r].seen
        /\ \A s \in Requests \ {r} : req'[s] = req[s]
        /\ count' = count /\ sent' = sent
    BY <1>3, <2>1 DEF Arm, TypeOK, Active
  <2>3. r \in Passing(c)' => r \in Passing(c)
    BY <1>3, <2>1, <2>2 DEF Passing, Limit, Arm
  <2>4. Passing(c)' \subseteq Passing(c)
    BY <2>2, <2>3, OthersPass DEF TypeOK
  <2> QED BY <2>2, <2>4, BudgetKept DEF Granted
<1>4. ASSUME NEW r \in Requests, PassOrg(r) PROVE Budgeted(E, c)'
  <2>1. req[r] # Idle /\ req[r] \in Active
    BY <1>4, ActiveRequest DEF PassOrg, TypeOK
  <2>2. /\ req'[r].at = "incr"
        /\ \A s \in Requests \ {r} : req'[s] = req[s]
        /\ count' = count /\ sent' = sent
    BY <1>4, <2>1 DEF PassOrg, TypeOK, Active
  <2>3. Org \in Counters /\ req[r].seen \in Nat
    BY <2>1, LimitsAssumption DEF Counters, Active
  <2>4. req[r].seen <= Limit(Org)
    BY <1>4, <2>3 DEF PassOrg, Exceeds
  <2>5. r \in Passing(c)' => r \in Passing(c)
    BY <1>4, <2>2, <2>4 DEF Passing, PassOrg
  <2>6. Passing(c)' \subseteq Passing(c)
    BY <2>2, <2>5, OthersPass DEF TypeOK
  <2> QED BY <2>2, <2>6, BudgetKept DEF Granted
<1>5. ASSUME NEW r \in Requests, Queue(r) PROVE Budgeted(E, c)'
  <2> DEFINE k == req[r].key
  <2>1. req[r] # Idle /\ req[r] \in Active
    BY <1>5, ActiveRequest DEF Queue, TypeOK
  <2>2. /\ k \in Keys /\ k \in Counters /\ k # Org /\ Org \in Counters
        /\ req[r].events \in 0..E /\ req[r].seen \in Nat
    <3>1. k \in Keys /\ req[r].events \in BatchSizes /\ req[r].seen \in 0..MaxCount
      BY <2>1 DEF Active
    <3>2. req[r].events \in Nat /\ req[r].events <= E
      BY <3>1, LimitsAssumption
    <3> QED BY <3>1, <3>2, KeysAssumption, LimitsAssumption DEF Counters
  <2>3. /\ req'[r] = Idle /\ count' = count
        /\ \A s \in Requests \ {r} : req'[s] = req[s]
        /\ sent'[Org] = sent[Org] + req[r].events /\ sent'[k] = sent[k] + req[r].events
        /\ \A e \in Counters \ {Org, k} : sent'[e] = sent[e]
    BY <1>5, <2>2 DEF Queue, TypeOK
  <2>4. r \notin Passing(c)'
    BY <2>3 DEF Passing, Idle
  <2>5. Passing(c)' \subseteq Passing(c) \ {r}
    BY <2>3, <2>4, OthersPass DEF TypeOK
  <2>6. Granted(c)' = Granted(c)
    BY <2>3 DEF Granted
  <2>7. CASE c \in {Org, k}
    <3>1. req[r].seen <= Limit(k)
      BY <1>5, <2>2 DEF Queue, Exceeds
    <3>2. r \in Passing(c)
      BY <1>5, <2>1, <2>2, <2>7, <3>1 DEF Passing, Queue
    <3> QED BY <2>2, <2>3, <2>5, <2>6, <2>7, <3>2, BudgetSpent
  <2>8. CASE c \notin {Org, k}
    BY <2>3, <2>5, <2>6, <2>8, BudgetKept
  <2> QED BY <2>7, <2>8
<1>6. ASSUME NEW r \in Requests, Reject(r) \/ Die(r) PROVE Budgeted(E, c)'
  <2>1. /\ req'[r] = Idle /\ count' = count /\ sent' = sent
        /\ \A s \in Requests \ {r} : req'[s] = req[s]
    BY <1>6 DEF Reject, Die, TypeOK
  <2>2. r \notin Passing(c)'
    BY <2>1 DEF Passing, Idle
  <2>3. Passing(c)' \subseteq Passing(c)
    BY <2>1, <2>2, OthersPass DEF TypeOK
  <2> QED BY <2>1, <2>3, BudgetKept DEF Granted
<1>7. ASSUME NEW d \in Counters, Expire(d) PROVE Budgeted(E, c)'
  <2>1. Passing(c)' = Passing(c)
    BY <1>7 DEF Passing, Expire
  <2>2. CASE c = d
    <3>1. sent'[c] = 0 /\ count'[c] = 0
      BY <1>7, <2>2 DEF Expire, TypeOK
    <3> QED BY <2>1, <3>1, BudgetReset DEF Granted
  <2>3. CASE c # d
    <3>1. sent'[c] = sent[c] /\ count'[c] = count[c]
      BY <1>7, <2>3 DEF Expire, TypeOK
    <3> QED BY <2>1, <3>1, BudgetKept DEF Granted
  <2> QED BY <2>2, <2>3
<1>8. CASE UNCHANGED vars
  BY <1>8, BudgetKept DEF vars, Passing, Granted
<1> QED BY <1>1, <1>2, <1>3, <1>4, <1>5, <1>6, <1>7, <1>8, RequestsAssumption
      DEF Next, Handle

----------------------------------------------------------------------------
\* Counters and requests have their shape, and whoever is about to set a time
\* to live is alone and finds a counter without one.
THEOREM Invariance == Spec => []IInv
<1>1. Init => IInv
  BY LimitsAssumption DEF Init, IInv, TypeOK, WellFormed, OneArmer,
    WindowIsNotExtended, Request, Idle
<1>2. IInv /\ [Next]_vars => IInv'
  BY TypeStep, SafetyStep DEF IInv
<1> QED BY <1>1, <1>2, PTL DEF Spec

\* Every reachable state is well typed.
THEOREM TypeCorrect == Spec => []TypeOK
BY Invariance, PTL DEF IInv

\* No interleaving of INCR, EXPIRE, expiry and dying requests ever extends a
\* window (ingestion_service.py:20-22).
THEOREM WindowsEnd == Spec => []WindowIsNotExtended
BY Invariance, PTL DEF IInv

\* With at most E events a request.
AllBudgeted(E) == \A c \in Counters : Budgeted(E, c)
WithinBatches(E) == \A c \in Counters : sent[c] <= E * (Limit(c) + Cardinality(Requests))

LEMMA BudgetIsInductive ==
  ASSUME NEW E \in Nat, \A e \in BatchSizes : e <= E
  PROVE  /\ Init /\ IInv => AllBudgeted(E)
         /\ IInv /\ IInv' /\ AllBudgeted(E) /\ [Next]_vars => AllBudgeted(E)'
         /\ IInv /\ AllBudgeted(E) => WithinBatches(E)
<1>1. ASSUME Init, IInv, NEW c \in Counters PROVE Budgeted(E, c)
  <2>1. sent[c] = 0 /\ Spare(c) \in Nat
    BY <1>1, SpareNumber DEF Init, IInv
  <2> QED BY <2>1, Products DEF Budgeted
<1>2. IInv /\ IInv' /\ AllBudgeted(E) /\ [Next]_vars => AllBudgeted(E)'
  BY BudgetStep DEF Counters, AllBudgeted
<1>3. ASSUME IInv, AllBudgeted(E), NEW c \in Counters
      PROVE  sent[c] <= E * (Limit(c) + Cardinality(Requests))
  <2>1. /\ Spare(c) \in Nat /\ Limit(c) + Cardinality(Requests) \in Nat
        /\ Spare(c) <= Limit(c) + Cardinality(Requests)
    BY <1>3, Numbers, SpareNumber DEF IInv
  <2> QED BY <1>3, <2>1, Products, Numbers DEF IInv, AllBudgeted, Budgeted
<1> QED BY <1>1, <1>2, <1>3 DEF AllBudgeted, WithinBatches

\* In events: a window queues its limit times the largest batch, and no more than
\* the requests that can be in flight at once besides (ingestion_service.py:49-63,
\* which counts a batch as one), whichever of them die and whenever counters expire.
THEOREM EventsAreBounded ==
  ASSUME NEW E \in Nat, \A e \in BatchSizes : e <= E
  PROVE  Spec => []WithinBatches(E)
BY BudgetIsInductive, Invariance, PTL DEF Spec

\* Single events: a window queues its limit and no more than the requests that
\* can be in flight at once besides (ingestion_service.py:33-38).
THEOREM QueuedIsBounded == BatchSizes = {1} => (Spec => []QueuedPerWindow)
<1> SUFFICES ASSUME BatchSizes = {1} PROVE Spec => []QueuedPerWindow
  OBVIOUS
<1>1. /\ Init /\ IInv => AllBudgeted(1)
      /\ IInv /\ IInv' /\ AllBudgeted(1) /\ [Next]_vars => AllBudgeted(1)'
      /\ IInv /\ AllBudgeted(1) => WithinBatches(1)
  BY BudgetIsInductive
<1>2. IInv /\ WithinBatches(1) => QueuedPerWindow
  BY Numbers DEF QueuedPerWindow, WithinBatches, IInv
<1> QED BY <1>1, <1>2, Invariance, PTL DEF Spec

LEMMA UnarmedStep ==
  ASSUME IInv, UnarmedIsBeingArmed, [Next]_vars, Mortal = {}
  PROVE  UnarmedIsBeingArmed'
<1> SUFFICES ASSUME NEW c \in Counters, count'[c] > 0, ~armed'[c]
             PROVE  \E s \in Requests : req'[s].at = "expire" /\ req'[s].counter = c
  BY DEF UnarmedIsBeingArmed, Counters
<1> USE DEF IInv, UnarmedIsBeingArmed
<1>1. ASSUME NEW r \in Requests, Incr(r), req[r].counter = c, count[c] = 0
      PROVE  req'[r].at = "expire" /\ req'[r].counter = c
  <2>1. req[r] \in Active
    BY <1>1, ActiveRequest DEF Incr, TypeOK
  <2> QED BY <1>1, <2>1 DEF Incr, TypeOK, Active, Arms
<1>2. ASSUME NEW r \in Requests, Incr(r), req[r].counter # c \/ count[c] # 0
      PROVE  \E s \in Requests : req'[s].at = "expire" /\ req'[s].counter = c
  <2>1. req[r].counter \in Counters
    BY <1>2, ActiveRequest DEF Incr, TypeOK, Active
  <2>2. count[c] > 0 /\ ~armed[c]
    BY <1>2, <2>1, Numbers DEF Incr, TypeOK
  <2>3. PICK s \in Requests : req[s].at = "expire" /\ req[s].counter = c
    BY <2>2
  <2> QED BY <1>2, <2>3 DEF Incr, TypeOK
<1>3. ASSUME NEW r \in Requests, Arm(r)
      PROVE  \E s \in Requests : req'[s].at = "expire" /\ req'[s].counter = c
  <2>1. req[r].counter \in Counters
    BY <1>3, ActiveRequest DEF Arm, TypeOK, Active
  <2>2. req[r].counter # c /\ count[c] > 0 /\ ~armed[c]
    BY <1>3, <2>1 DEF Arm, TypeOK
  <2>3. PICK s \in Requests : req[s].at = "expire" /\ req[s].counter = c
    BY <2>2
  <2> QED BY <1>3, <2>2, <2>3 DEF Arm, TypeOK
<1>4. ASSUME NEW r \in Requests, Arrive(r) \/ PassOrg(r) \/ Queue(r) \/ Reject(r)
      PROVE  \E s \in Requests : req'[s].at = "expire" /\ req'[s].counter = c
  <2>1. count[c] > 0 /\ ~armed[c]
    BY <1>4 DEF Arrive, PassOrg, Queue, Reject
  <2>2. PICK s \in Requests : req[s].at = "expire" /\ req[s].counter = c
    BY <2>1
  <2>3. s # r
    BY <1>4, <2>2 DEF Arrive, PassOrg, Queue, Reject, Idle
  <2> QED BY <1>4, <2>2, <2>3 DEF Arrive, PassOrg, Queue, Reject, TypeOK
<1>5. ASSUME NEW d \in Counters, Expire(d)
      PROVE  \E s \in Requests : req'[s].at = "expire" /\ req'[s].counter = c
  <2>1. count[c] > 0 /\ ~armed[c]
    BY <1>5 DEF Expire, TypeOK
  <2> QED BY <1>5, <2>1 DEF Expire
<1>6. CASE UNCHANGED vars
  BY <1>6 DEF vars
<1> QED BY <1>1, <1>2, <1>3, <1>4, <1>5, <1>6 DEF Next, Handle

\* When nobody dies between INCR and EXPIRE, no counter is left without a time
\* to live (ingestion_service.py:20-22).
THEOREM EveryCounterIsArmed == Mortal = {} => (Spec => []UnarmedIsBeingArmed)
<1> SUFFICES ASSUME Mortal = {} PROVE Spec => []UnarmedIsBeingArmed
  OBVIOUS
<1>1. Init => UnarmedIsBeingArmed
  BY DEF Init, UnarmedIsBeingArmed
<1>2. IInv /\ UnarmedIsBeingArmed /\ [Next]_vars => UnarmedIsBeingArmed'
  BY UnarmedStep
<1> QED BY <1>1, <1>2, Invariance, PTL DEF Spec
============================================================================
