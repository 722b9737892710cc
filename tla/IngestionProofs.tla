-------------------------- MODULE IngestionProofs --------------------------
(***************************************************************************)
(* Proofs about Ingestion for every number of submissions, deliveries,     *)
(* retries and mishaps.  The keys are those of ApiKeys, whose theorems     *)
(* carry over.  Every other step touches one submission (Same), so the     *)
(* invariant is one about each of them (SubInv): what its file and its     *)
(* count of commits allow each of its deliveries.                          *)
(***************************************************************************)
EXTENDS Ingestion, ApiKeysProofs

\* A step of the pipeline is one of the keys, or leaves them alone.
THEOREM IngestionUsesKeys == Spec => KeysSpec
<1>1. Init => KeysInit
  BY DEF Init
<1>2. [Next]_vars => [KeysNext]_keyVars
  <2> USE DEF KeysNext, keyVars
  <2>1. ASSUME NEW s \in Subs, NEW d \in Deliveries, Work(s, d) \/ Redeliver(s, d) \/ Die(s, d)
        PROVE  UNCHANGED keyVars
    BY <2>1 DEF Work, Redeliver, Die, Start, Skip, Retry, Store, StoreRefused, StoreEchoes,
                Remove, RemoveFails
  <2>2. ASSUME NEW s \in Subs, Submit(s)
        PROVE  UNCHANGED keyVars
    BY <2>2 DEF Submit, QueueUpload, WriteFails, PublishFails
  <2>3. ASSUME NEW r \in Requests, Publish(r)
        PROVE  KeysNext
    BY <2>3 DEF Publish
  <2> QED BY <2>1, <2>2, <2>3 DEF Next, vars
<1> QED BY <1>1, <1>2, PTL DEF Spec, KeysSpec

----------------------------------------------------------------------------
Places == {"none", "refused", "queued", "ready", "stored", "failed", "done", "dropped", "lost"}

PipeTypeOK ==
  /\ what \in [Subs -> {Nothing} \union Events \union Upload]
  /\ job \in [Subs -> [Deliveries -> Task]]
  /\ file \in [Subs -> {"none", "there", "gone"}]
  /\ rows \in [Subs -> Nat]
  /\ mishap \in [Subs -> Tally]

\* The deliveries whose transaction may still commit.
LiveAt == {"queued", "ready", "failed"}
Live(s) == {d \in Deliveries : job[s][d].at \in LiveAt}

Blank(s) == Csv(s) /\ what[s].content = "blank"
\* Submissions that no worker can store.
Unfit(s) == Csv(s) /\ (what[s].content # "rows" \/ ~SharedDisk)

\* Before it is submitted, nothing is known of it; a refused one is never delivered.
Opens(s) ==
  /\ what[s] = Nothing <=> At(s, 1, "none")
  /\ what[s] = Nothing => rows[s] = 0 /\ \A d \in Deliveries : job[s][d].tries = 0
  /\ At(s, 1, "none") \/ At(s, 1, "refused") => \A d \in Deliveries : d # 1 => At(s, d, "none")

\* Every commit but the first was echoed or will be.
Copies(s) == rows[s] + Cardinality(Live(s)) <= 1 + mishap[s].echoed

\* An upload has its file until it is not needed any more.
Holds(s) ==
  /\ file[s] = "none" <=> ~Csv(s)
  /\ file[s] = "gone" => rows[s] > 0 \/ Blank(s) \/ At(s, 1, "refused")
  /\ file[s] = "there" /\ At(s, 1, "refused") => mishap[s].broke > 0

\* What a delivery that is over has to show, ...
Ends(s, d) ==
  /\ At(s, d, "stored") \/ At(s, d, "done") => rows[s] > 0 \/ Blank(s)
  /\ At(s, d, "stored") => Csv(s)
  /\ At(s, d, "done") => file[s] # "there" \/ mishap[s].broke > 0
  /\ At(s, d, "lost") => mishap[s].broke > 0

\* ... and what has cost it its attempts.
Costs(s, d) ==
  rows[s] > 0 \/ mishap[s].broke > 0 \/ Unfit(s)
  \/ /\ job[s][d].tries <= mishap[s].refused
     /\ At(s, d, "failed") => job[s][d].tries < mishap[s].refused
     /\ At(s, d, "dropped") => MaxRetries < mishap[s].refused

SubInv(s) ==
  /\ Opens(s) /\ Copies(s) /\ Holds(s)
  /\ \A d \in Deliveries : Ends(s, d) /\ Costs(s, d)

PInv == PipeTypeOK /\ \A s \in Subs : SubInv(s)

----------------------------------------------------------------------------
\* What the parts of the actions do, point by point.
Same(t) == /\ what'[t] = what[t] /\ job'[t] = job[t] /\ file'[t] = file[t]
           /\ rows'[t] = rows[t] /\ mishap'[t] = mishap[t]

Puts(s, d, at, n) ==
  /\ job'[s][d].at = at /\ job'[s][d].tries = n
  /\ \A e \in Deliveries : e # d => job'[s][e] = job[s][e]

Tallies(s, a, b, c) ==
  /\ mishap'[s].refused = mishap[s].refused + a
  /\ mishap'[s].echoed = mishap[s].echoed + b
  /\ mishap'[s].broke = mishap[s].broke + c

\* Nothing is forgotten, and a commit is either the last of its delivery or counted
\* as an echo.
Grows(s) == /\ rows[s] <= rows'[s] /\ mishap[s].refused <= mishap'[s].refused
            /\ mishap[s].echoed <= mishap'[s].echoed /\ mishap[s].broke <= mishap'[s].broke
Copied(s, d) ==
  \/ rows'[s] - rows[s] <= mishap'[s].echoed - mishap[s].echoed
  \/ rows'[s] = rows[s] + 1 /\ d \in Live(s) /\ job'[s][d].at \notin LiveAt

\* How a step looks to EventLog: s is dealt with, ...
Progress(s) == /\ s \in Accepted /\ ~Over(s) /\ job'[s][1].at \notin {"none", "refused"}
               /\ rows[s] \in Nat /\ rows'[s] \in Nat /\ rows[s] <= rows'[s]
\* ... accepted, or refused.
Opening(s) == /\ At(s, 1, "none") /\ rows[s] = 0 /\ rows'[s] = 0
              /\ job'[s][1].at \in {"queued", "refused"}
              /\ what[s] = Nothing

LEMMA OneDelivery == 1 \in Deliveries
BY BoundsAssumption DEF Deliveries

LEMMA PutsIn ==
  ASSUME PipeTypeOK, NEW s \in Subs, NEW d \in Deliveries, NEW t \in Task,
         job' = [job EXCEPT ![s][d] = t]
  PROVE  /\ job' \in [Subs -> [Deliveries -> Task]]
         /\ Puts(s, d, t.at, t.tries)
         /\ \A u \in Subs : u # s => job'[u] = job[u]
BY DEF PipeTypeOK, Puts

LEMMA Moves ==
  ASSUME PipeTypeOK, NEW s \in Subs, NEW d \in Deliveries, NEW at \in Places, Move(s, d, at)
  PROVE  /\ job' \in [Subs -> [Deliveries -> Task]]
         /\ Puts(s, d, at, job[s][d].tries)
         /\ \A u \in Subs : u # s => job'[u] = job[u]
<1> DEFINE t == [job[s][d] EXCEPT !.at = at]
<1>1. job[s][d] \in Task
  BY DEF PipeTypeOK
<1>2. t \in Task /\ t.at = at /\ t.tries = job[s][d].tries
  BY <1>1 DEF Task, Places
<1>3. job' = [job EXCEPT ![s][d] = t]
  BY <1>1 DEF Move, PipeTypeOK
<1> HIDE DEF t
<1> QED BY <1>2, <1>3, PutsIn

LEMMA Blames ==
  ASSUME PipeTypeOK, NEW s \in Subs
  PROVE  /\ Blame(s, "refused") => mishap' \in [Subs -> Tally] /\ Tallies(s, 1, 0, 0)
         /\ Blame(s, "echoed") => mishap' \in [Subs -> Tally] /\ Tallies(s, 0, 1, 0)
         /\ Blame(s, "broke") => mishap' \in [Subs -> Tally] /\ Tallies(s, 0, 0, 1)
         /\ \A m \in {"refused", "echoed", "broke"}, u \in Subs :
              Blame(s, m) /\ u # s => mishap'[u] = mishap[u]
<1>1. /\ mishap[s] \in Tally /\ mishap[s].refused \in Nat /\ mishap[s].echoed \in Nat
      /\ mishap[s].broke \in Nat /\ MaxMishaps \in Nat
  BY BoundsAssumption DEF PipeTypeOK, Tally
<1>2. Blame(s, "refused") => mishap' \in [Subs -> Tally] /\ Tallies(s, 1, 0, 0)
  BY <1>1 DEF Blame, Tallies, Tally, PipeTypeOK
<1>3. Blame(s, "echoed") => mishap' \in [Subs -> Tally] /\ Tallies(s, 0, 1, 0)
  BY <1>1 DEF Blame, Tallies, Tally, PipeTypeOK
<1>4. Blame(s, "broke") => mishap' \in [Subs -> Tally] /\ Tallies(s, 0, 0, 1)
  BY <1>1 DEF Blame, Tallies, Tally, PipeTypeOK
<1>5. \A m \in {"refused", "echoed", "broke"}, u \in Subs :
        Blame(s, m) /\ u # s => mishap'[u] = mishap[u]
  BY DEF Blame, PipeTypeOK
<1> QED BY <1>2, <1>3, <1>4, <1>5

----------------------------------------------------------------------------
LEMMA LiveIsFinite ==
  ASSUME NEW s \in Subs
  PROVE  IsFiniteSet(Live(s)) /\ Cardinality(Live(s)) \in Nat
<1>1. IsFiniteSet(Deliveries)
  BY FS_Interval, BoundsAssumption DEF Deliveries
<1>2. IsFiniteSet(Live(s))
  BY <1>1, FS_Subset DEF Live
<1> QED BY <1>2, FS_CardinalityType

\* Moving one delivery changes the number of live ones by what it was and is.
LEMMA LiveMoves ==
  ASSUME NEW s \in Subs, NEW d \in Deliveries, NEW at, NEW n, Puts(s, d, at, n)
  PROVE  /\ d \in Live(s) /\ at \in LiveAt => Cardinality(Live(s)') = Cardinality(Live(s))
         /\ d \in Live(s) /\ at \notin LiveAt => Cardinality(Live(s)') = Cardinality(Live(s)) - 1
         /\ d \notin Live(s) /\ at \in LiveAt => Cardinality(Live(s)') = Cardinality(Live(s)) + 1
         /\ d \notin Live(s) /\ at \notin LiveAt => Cardinality(Live(s)') = Cardinality(Live(s))
<1>1. IsFiniteSet(Live(s)) /\ Cardinality(Live(s)) \in Nat
  BY LiveIsFinite
<1>2. at \in LiveAt => Live(s)' = Live(s) \union {d}
  BY DEF Live, LiveAt, Puts
<1>3. at \notin LiveAt => Live(s)' = Live(s) \ {d}
  BY DEF Live, LiveAt, Puts
<1>4. d \in Live(s) => Cardinality(Live(s) \ {d}) = Cardinality(Live(s)) - 1
  BY <1>1, FS_RemoveElement
<1>5. d \notin Live(s) => Cardinality(Live(s) \union {d}) = Cardinality(Live(s)) + 1
  BY <1>1, FS_AddElement
<1>6. d \in Live(s) => Live(s) \union {d} = Live(s)
  OBVIOUS
<1>7. d \notin Live(s) => Live(s) \ {d} = Live(s)
  OBVIOUS
<1> QED BY <1>2, <1>3, <1>4, <1>5, <1>6, <1>7

LEMMA SameStays ==
  ASSUME NEW t \in Subs, SubInv(t), Same(t)
  PROVE  SubInv(t)'
<1>1. Live(t)' = Live(t)
  BY DEF Same, Live
<1>2. Copies(t)'
  BY <1>1 DEF SubInv, Copies, Same
<1>3. Opens(t)' /\ Holds(t)'
  BY DEF SubInv, Opens, Holds, Same, At, Csv, Blank
<1>4. \A d \in Deliveries : Ends(t, d)' /\ Costs(t, d)'
  BY DEF SubInv, Ends, Costs, Same, At, Csv, Blank, Unfit
<1> QED BY <1>2, <1>3, <1>4 DEF SubInv

\* A delivery of s moves on; Ends and Costs of it are left to show.
LEMMA DeliveryStep ==
  ASSUME PInv, PipeTypeOK', NEW s \in Subs, NEW d \in Deliveries, what'[s] = what[s],
         \A e \in Deliveries : e # d => job'[s][e] = job[s][e],
         job'[s][d].at \notin {"none", "refused"},
         d \in Live(s) \/ At(s, d, "stored"),
         Grows(s), Copied(s, d),
         job'[s][d].at \in LiveAt => d \in Live(s),
         \/ file'[s] = file[s]
         \/ file'[s] = "gone" /\ file[s] # "none" /\ (rows[s] > 0 \/ Blank(s)),
         Ends(s, d)', Costs(s, d)'
  PROVE  SubInv(s)' /\ Progress(s)
<1>0. ~At(s, d, "none") /\ ~At(s, d, "refused")
  BY DEF Live, LiveAt, At
<1>1. /\ rows[s] \in Nat /\ mishap[s].refused \in Nat /\ mishap[s].echoed \in Nat
      /\ mishap[s].broke \in Nat /\ SubInv(s)
      /\ rows'[s] \in Nat /\ mishap'[s].refused \in Nat /\ mishap'[s].echoed \in Nat
      /\ mishap'[s].broke \in Nat
      /\ \A e \in Deliveries : job[s][e].tries \in Int
  BY DEF PInv, PipeTypeOK, Tally, Task
<1>2. Copies(s)'
  <2>1. Cardinality(Live(s)) \in Nat /\ rows[s] + Cardinality(Live(s)) <= 1 + mishap[s].echoed
    BY <1>1, LiveIsFinite DEF SubInv, Copies
  <2>2. Puts(s, d, job'[s][d].at, job'[s][d].tries)
    BY DEF Puts
  <2>3. CASE d \in Live(s) /\ job'[s][d].at \notin LiveAt
    <3>1. Cardinality(Live(s)') = Cardinality(Live(s)) - 1
      BY <2>2, <2>3, LiveMoves
    <3> QED BY <1>1, <2>1, <3>1 DEF Copies, Copied, Grows
  <2>4. CASE ~(d \in Live(s) /\ job'[s][d].at \notin LiveAt)
    <3>1. Cardinality(Live(s)') = Cardinality(Live(s))
      BY <2>2, <2>4, LiveMoves
    <3> QED BY <1>1, <2>1, <2>4, <3>1 DEF Copies, Copied, Grows
  <2> QED BY <2>3, <2>4
<1>3. Opens(s)'
  BY <1>0, <1>1, OneDelivery DEF SubInv, Opens, At, Grows
<1>4. Holds(s)'
  <2>1. /\ (file[s] = "none") <=> ~Csv(s)
        /\ file[s] = "gone" => rows[s] > 0 \/ Blank(s) \/ At(s, 1, "refused")
        /\ file[s] = "there" /\ At(s, 1, "refused") => mishap[s].broke > 0
    BY <1>1 DEF SubInv, Holds
  <2>2. Csv(s)' = Csv(s) /\ Blank(s)' = Blank(s)
    BY DEF Csv, Blank
  <2>3. ~At(s, 1, "refused") /\ ~At(s, 1, "refused")'
    <3>1. CASE d = 1
      BY <1>0, <3>1 DEF At
    <3>2. CASE d # 1
      BY <1>0, <1>1, <3>2, OneDelivery DEF SubInv, Opens, At
    <3> QED BY <3>1, <3>2
  <2>4. (file'[s] = "none") <=> ~Csv(s)
    BY <2>1
  <2>5. file'[s] = "gone" => rows'[s] > 0 \/ Blank(s)
    BY <1>1, <2>1, <2>3 DEF Grows
  <2> QED BY <2>2, <2>3, <2>4, <2>5 DEF Holds
<1>5. ASSUME NEW e \in Deliveries, e # d
      PROVE  Ends(s, e)' /\ Costs(s, e)'
  <2>1. job'[s][e] = job[s][e]
    BY <1>5
  <2>2. Ends(s, e)'
    BY <1>1, <2>1 DEF SubInv, Ends, At, Csv, Blank, Grows
  <2>3. Costs(s, e)'
    <3>1. Unfit(s)' = Unfit(s) /\ At(s, e, "failed")' = At(s, e, "failed")
          /\ At(s, e, "dropped")' = At(s, e, "dropped")
      BY <2>1 DEF Unfit, Csv, At
    <3>2. Costs(s, e) /\ MaxRetries \in Nat
      BY <1>1, BoundsAssumption DEF SubInv
    <3> QED BY <1>1, <2>1, <3>1, <3>2 DEF Costs, Grows
  <2> QED BY <2>2, <2>3
<1>6. Progress(s)
  <2>1. s \in Accepted /\ ~Over(s)
    BY <1>0, <1>1 DEF SubInv, Opens, Accepted, Over, At, Live, LiveAt
  <2>2. job'[s][1].at \notin {"none", "refused"}
    BY <2>1, OneDelivery DEF Accepted
  <2> QED BY <1>1, <2>1, <2>2 DEF Progress, Grows
<1> QED BY <1>2, <1>3, <1>4, <1>5, <1>6 DEF SubInv

----------------------------------------------------------------------------
\* The shape of every step of the pipeline.
Touches(s) == /\ PipeTypeOK' /\ \A t \in Subs : t # s => Same(t)
              /\ SubInv(s)' /\ (Progress(s) \/ Opening(s))

LEMMA StartStep ==
  ASSUME PInv, NEW s \in Subs, NEW d \in Deliveries, Start(s, d)
  PROVE  Touches(s)
<1> DEFINE at == IF Readable(s) THEN "ready" ELSE "failed"
<1>1. /\ what' = what /\ file' = file /\ rows' = rows /\ mishap' = mishap
      /\ Move(s, d, at) /\ at \in Places /\ d \in Live(s) /\ PipeTypeOK /\ SubInv(s)
  BY DEF Start, Places, LiveAt, Live, At, PInv
<1>2. /\ PipeTypeOK' /\ Puts(s, d, at, job[s][d].tries)
      /\ \A t \in Subs : t # s => Same(t)
  BY <1>1, Moves DEF PipeTypeOK, Same
<1>3. Grows(s) /\ Copied(s, d)
  BY <1>1 DEF Grows, Copied, PipeTypeOK, Tally
<1>4. Ends(s, d)'
  BY <1>2 DEF Ends, Puts, At
<1>5. Costs(s, d)'
  <2>1. CASE Readable(s)
    BY <1>1, <1>2, <2>1 DEF SubInv, Costs, Puts, At, Unfit, Csv
  <2>2. CASE ~Readable(s)
    <3>1. file[s] = "there" \/ file[s] = "gone" \/ ~Csv(s)
      BY <1>1 DEF SubInv, Holds, PipeTypeOK
    <3>2. ~At(s, 1, "refused")
      BY <1>1 DEF SubInv, Opens, At, Live, LiveAt
    <3>3. Unfit(s) \/ rows[s] > 0
      BY <1>1, <2>2, <3>1, <3>2 DEF Readable, SubInv, Holds, Unfit, Blank
    <3> QED BY <1>1, <3>3 DEF Costs, Unfit, Csv
  <2> QED BY <2>1, <2>2
<1>6. SubInv(s)' /\ Progress(s)
  BY <1>1, <1>2, <1>3, <1>4, <1>5, DeliveryStep DEF Puts, LiveAt
<1> QED BY <1>2, <1>6 DEF Touches

LEMMA SkipStep ==
  ASSUME PInv, NEW s \in Subs, NEW d \in Deliveries, Skip(s, d)
  PROVE  Touches(s)
<1>1. /\ what' = what /\ file' = file /\ rows' = rows /\ mishap' = mishap
      /\ Move(s, d, "stored") /\ "stored" \in Places
      /\ d \in Live(s) /\ PipeTypeOK /\ SubInv(s) /\ Blank(s)
  BY DEF Skip, Places, LiveAt, Live, At, PInv, Blank
<1>2. /\ PipeTypeOK' /\ Puts(s, d, "stored", job[s][d].tries)
      /\ \A t \in Subs : t # s => Same(t)
  BY <1>1, Moves DEF PipeTypeOK, Same
<1>3. Grows(s) /\ Copied(s, d)
  BY <1>1 DEF Grows, Copied, PipeTypeOK, Tally
<1>4. Ends(s, d)' /\ Costs(s, d)'
  BY <1>1, <1>2 DEF Ends, Costs, Puts, At, Blank, Unfit, Csv
<1>5. SubInv(s)' /\ Progress(s)
  BY <1>1, <1>2, <1>3, <1>4, DeliveryStep DEF Puts, LiveAt
<1> QED BY <1>2, <1>5 DEF Touches

LEMMA StoreStep ==
  ASSUME PInv, NEW s \in Subs, NEW d \in Deliveries, Store(s, d)
  PROVE  Touches(s)
<1> DEFINE at == IF Csv(s) THEN "stored" ELSE "done"
<1>1. /\ what' = what /\ file' = file /\ rows' = [rows EXCEPT ![s] = @ + 1] /\ mishap' = mishap
      /\ Move(s, d, at) /\ at \in Places /\ d \in Live(s) /\ PipeTypeOK /\ SubInv(s)
  BY DEF Store, ToStore, Places, LiveAt, Live, At, PInv
<1>2. /\ PipeTypeOK' /\ Puts(s, d, at, job[s][d].tries)
      /\ \A t \in Subs : t # s => Same(t)
  BY <1>1, Moves DEF PipeTypeOK, Same
<1>3. rows'[s] = rows[s] + 1 /\ rows[s] \in Nat
  BY <1>1 DEF PipeTypeOK
<1>4. Grows(s) /\ Copied(s, d) /\ rows'[s] > 0
  BY <1>1, <1>2, <1>3 DEF Grows, Copied, PipeTypeOK, Tally, Puts, LiveAt
<1>5. Ends(s, d)'
  <2>1. at = "done" => file[s] # "there"
    BY <1>1 DEF SubInv, Holds
  <2> QED BY <1>1, <1>2, <1>4, <2>1 DEF Ends, Puts, At, Csv
<1>6. Costs(s, d)'
  BY <1>4 DEF Costs
<1>7. SubInv(s)' /\ Progress(s)
  BY <1>1, <1>2, <1>4, <1>5, <1>6, DeliveryStep DEF Puts, LiveAt
<1> QED BY <1>2, <1>7 DEF Touches

\* Of the steps that count a mishap.
LEMMA StoreRefusedStep ==
  ASSUME PInv, NEW s \in Subs, NEW d \in Deliveries, StoreRefused(s, d)
  PROVE  Touches(s)
<1>1. /\ what' = what /\ file' = file /\ rows' = rows /\ Blame(s, "refused")
      /\ Move(s, d, "failed") /\ "failed" \in Places /\ At(s, d, "ready")
      /\ d \in Live(s) /\ PipeTypeOK /\ SubInv(s) /\ PipeTypeOK
  BY DEF StoreRefused, ToStore, Places, LiveAt, Live, At, PInv
<1>2. /\ mishap' \in [Subs -> Tally] /\ Tallies(s, 1, 0, 0)
      /\ \A t \in Subs : t # s => mishap'[t] = mishap[t]
  BY <1>1, Blames
<1>3. /\ PipeTypeOK' /\ Puts(s, d, "failed", job[s][d].tries)
      /\ \A t \in Subs : t # s => Same(t)
  BY <1>1, <1>2, Moves DEF PipeTypeOK, Same
<1>4. mishap[s] \in Tally /\ rows[s] \in Nat /\ job[s][d].tries \in Int
  BY <1>1 DEF PipeTypeOK, Task
<1>5. Grows(s) /\ Copied(s, d)
  BY <1>1, <1>2, <1>4 DEF Grows, Copied, Tallies, Tally
<1>6. Ends(s, d)'
  BY <1>3 DEF Ends, Puts, At
<1>7. Costs(s, d)'
  <2>1. Costs(s, d) /\ Unfit(s)' = Unfit(s)
    BY <1>1 DEF SubInv, Unfit, Csv
  <2> QED BY <1>1, <1>2, <1>3, <1>4, <2>1 DEF Costs, Puts, At, Tallies, Tally
<1>8. SubInv(s)' /\ Progress(s)
  BY <1>1, <1>3, <1>5, <1>6, <1>7, DeliveryStep DEF Puts, LiveAt
<1> QED BY <1>3, <1>8 DEF Touches

LEMMA StoreEchoesStep ==
  ASSUME PInv, NEW s \in Subs, NEW d \in Deliveries, StoreEchoes(s, d)
  PROVE  Touches(s)
<1>1. /\ what' = what /\ file' = file /\ rows' = [rows EXCEPT ![s] = @ + 1]
      /\ Blame(s, "echoed") /\ Move(s, d, "failed") /\ "failed" \in Places
      /\ d \in Live(s) /\ PipeTypeOK /\ SubInv(s)
  BY DEF StoreEchoes, ToStore, Places, LiveAt, Live, At, PInv
<1>2. /\ mishap' \in [Subs -> Tally] /\ Tallies(s, 0, 1, 0)
      /\ \A t \in Subs : t # s => mishap'[t] = mishap[t]
  BY <1>1, Blames
<1>3. /\ rows'[s] = rows[s] + 1 /\ rows[s] \in Nat /\ mishap[s] \in Tally
      /\ rows' \in [Subs -> Nat] /\ \A t \in Subs : t # s => rows'[t] = rows[t]
  BY <1>1 DEF PipeTypeOK
<1>4. /\ PipeTypeOK' /\ Puts(s, d, "failed", job[s][d].tries)
      /\ \A t \in Subs : t # s => Same(t)
  BY <1>1, <1>2, <1>3, Moves DEF PipeTypeOK, Same
<1>5. Grows(s) /\ Copied(s, d)
  BY <1>1, <1>2, <1>3 DEF Grows, Copied, Tallies, Tally
<1>6. Ends(s, d)' /\ Costs(s, d)'
  BY <1>4, <1>3 DEF Ends, Costs, Puts, At
<1>7. SubInv(s)' /\ Progress(s)
  BY <1>1, <1>4, <1>5, <1>6, DeliveryStep DEF Puts, LiveAt
<1> QED BY <1>4, <1>7 DEF Touches

LEMMA RemoveStep ==
  ASSUME PInv, NEW s \in Subs, NEW d \in Deliveries, Remove(s, d)
  PROVE  Touches(s)
<1>1. /\ what' = what /\ rows' = rows /\ mishap' = mishap /\ PipeTypeOK /\ SubInv(s)
      /\ file' = [file EXCEPT ![s] = "gone"]
      /\ Move(s, d, "done") /\ "done" \in Places /\ At(s, d, "stored")
  BY DEF Remove, Places, PInv
<1>2. /\ PipeTypeOK' /\ Puts(s, d, "done", job[s][d].tries) /\ file'[s] = "gone"
      /\ \A t \in Subs : t # s => Same(t)
  BY <1>1, Moves DEF PipeTypeOK, Same
<1>3. Grows(s) /\ Copied(s, d)
  BY <1>1 DEF Grows, Copied, PipeTypeOK, Tally
<1>4. (rows[s] > 0 \/ Blank(s)) /\ file[s] # "none"
  BY <1>1 DEF SubInv, Ends, Holds
<1>5. Ends(s, d)' /\ Costs(s, d)'
  BY <1>1, <1>2, <1>4 DEF Ends, Costs, Puts, At, Blank, Unfit, Csv
<1>6. SubInv(s)' /\ Progress(s)
  BY <1>1, <1>2, <1>3, <1>4, <1>5, DeliveryStep DEF Puts, LiveAt
<1> QED BY <1>2, <1>6 DEF Touches

LEMMA RemoveFailsStep ==
  ASSUME PInv, NEW s \in Subs, NEW d \in Deliveries, RemoveFails(s, d)
  PROVE  Touches(s)
<1>1. /\ what' = what /\ rows' = rows /\ file' = file /\ Blame(s, "broke")
      /\ Move(s, d, "done") /\ "done" \in Places /\ At(s, d, "stored")
      /\ PipeTypeOK /\ SubInv(s)
  BY DEF RemoveFails, Places, PInv
<1>2. /\ mishap' \in [Subs -> Tally] /\ Tallies(s, 0, 0, 1)
      /\ \A t \in Subs : t # s => mishap'[t] = mishap[t]
  BY <1>1, Blames
<1>3. /\ PipeTypeOK' /\ Puts(s, d, "done", job[s][d].tries)
      /\ \A t \in Subs : t # s => Same(t)
  BY <1>1, <1>2, Moves DEF PipeTypeOK, Same
<1>4. mishap[s] \in Tally /\ rows[s] \in Nat
  BY <1>1 DEF PipeTypeOK
<1>5. Grows(s) /\ Copied(s, d) /\ mishap'[s].broke > 0
  BY <1>1, <1>2, <1>4 DEF Grows, Copied, Tallies, Tally
<1>6. Ends(s, d)' /\ Costs(s, d)'
  <2>1. rows[s] > 0 \/ Blank(s)
    BY <1>1 DEF SubInv, Ends
  <2> QED BY <1>1, <1>3, <1>5, <2>1 DEF Ends, Costs, Puts, At, Blank, Csv
<1>7. SubInv(s)' /\ Progress(s)
  BY <1>1, <1>3, <1>5, <1>6, DeliveryStep DEF Puts, LiveAt
<1> QED BY <1>3, <1>7 DEF Touches

LEMMA DieStep ==
  ASSUME PInv, NEW s \in Subs, NEW d \in Deliveries, Die(s, d)
  PROVE  Touches(s)
<1>1. /\ what' = what /\ rows' = rows /\ file' = file /\ Blame(s, "broke")
      /\ Move(s, d, "lost") /\ "lost" \in Places /\ PipeTypeOK /\ SubInv(s)
      /\ d \in Live(s) \/ At(s, d, "stored")
  BY DEF Die, Places, PInv, Live, LiveAt, At
<1>2. /\ mishap' \in [Subs -> Tally] /\ Tallies(s, 0, 0, 1)
      /\ \A t \in Subs : t # s => mishap'[t] = mishap[t]
  BY <1>1, Blames
<1>3. /\ PipeTypeOK' /\ Puts(s, d, "lost", job[s][d].tries)
      /\ \A t \in Subs : t # s => Same(t)
  BY <1>1, <1>2, Moves DEF PipeTypeOK, Same
<1>4. mishap[s] \in Tally /\ rows[s] \in Nat
  BY <1>1 DEF PipeTypeOK
<1>5. Grows(s) /\ Copied(s, d) /\ mishap'[s].broke > 0
  BY <1>1, <1>2, <1>4 DEF Grows, Copied, Tallies, Tally
<1>6. Ends(s, d)' /\ Costs(s, d)'
  BY <1>3, <1>5 DEF Ends, Costs, Puts, At
<1>7. SubInv(s)' /\ Progress(s)
  BY <1>1, <1>3, <1>5, <1>6, DeliveryStep DEF Puts, LiveAt
<1> QED BY <1>3, <1>7 DEF Touches

LEMMA RetryStep ==
  ASSUME PInv, NEW s \in Subs, NEW d \in Deliveries, Retry(s, d)
  PROVE  Touches(s)
<1> DEFINE n == job[s][d].tries
           t == IF n < MaxRetries THEN [at |-> "queued", tries |-> n + 1]
                                  ELSE [job[s][d] EXCEPT !.at = "dropped"]
<1>1. /\ what' = what /\ file' = file /\ rows' = rows /\ mishap' = mishap
      /\ At(s, d, "failed") /\ PipeTypeOK /\ SubInv(s)
  BY DEF Retry, PInv
<1>2. d \in Live(s) /\ job[s][d] \in Task /\ n \in 0..MaxRetries /\ MaxRetries \in Nat
  BY <1>1, BoundsAssumption DEF PipeTypeOK, Live, LiveAt, At, Task
<1>3. /\ t \in Task
      /\ n < MaxRetries => t.at = "queued" /\ t.tries = n + 1
      /\ ~(n < MaxRetries) => t.at = "dropped" /\ t.tries = n
  BY <1>2 DEF Task
<1>4. job' = [job EXCEPT ![s][d] = t]
  BY <1>1 DEF Retry, Move, PipeTypeOK
<1> HIDE DEF t
<1>5. /\ job' \in [Subs -> [Deliveries -> Task]] /\ Puts(s, d, t.at, t.tries)
      /\ \A u \in Subs : u # s => job'[u] = job[u]
  BY <1>1, <1>3, <1>4, PutsIn
<1>6. PipeTypeOK' /\ \A u \in Subs : u # s => Same(u)
  BY <1>1, <1>5 DEF PipeTypeOK, Same
<1>7. Grows(s) /\ Copied(s, d)
  BY <1>1 DEF Grows, Copied, PipeTypeOK, Tally
<1>8. Ends(s, d)'
  BY <1>3, <1>5 DEF Ends, Puts, At
<1>9. Costs(s, d)'
  <2>1. Costs(s, d) /\ Unfit(s)' = Unfit(s) /\ mishap[s].refused \in Nat
    BY <1>1 DEF SubInv, Unfit, Csv, PipeTypeOK, Tally
  <2> QED BY <1>1, <1>2, <1>3, <1>5, <2>1 DEF Costs, Puts, At
<1>10. SubInv(s)' /\ Progress(s)
  BY <1>1, <1>2, <1>3, <1>5, <1>6, <1>7, <1>8, <1>9, DeliveryStep DEF Puts, LiveAt
<1> QED BY <1>6, <1>10 DEF Touches

\* A message that is delivered again.
LEMMA RedeliverStep ==
  ASSUME PInv, NEW s \in Subs, NEW d \in Deliveries, Redeliver(s, d)
  PROVE  Touches(s)
<1> DEFINE e == d + 1
<1>1. /\ what' = what /\ rows' = rows /\ file' = file /\ Blame(s, "echoed")
      /\ At(s, d, "queued") /\ At(s, e, "none") /\ e \in Deliveries /\ e # d /\ e # 1
      /\ job' = [job EXCEPT ![s][e] = job[s][d]] /\ PipeTypeOK /\ SubInv(s)
  BY BoundsAssumption DEF Redeliver, PInv, Deliveries
<1> HIDE DEF e
<1>2. /\ mishap' \in [Subs -> Tally] /\ Tallies(s, 0, 1, 0)
      /\ \A t \in Subs : t # s => mishap'[t] = mishap[t]
  BY <1>1, Blames
<1>3. job[s][d] \in Task /\ mishap[s] \in Tally /\ rows[s] \in Nat
  BY <1>1 DEF PipeTypeOK
<1>4. /\ job' \in [Subs -> [Deliveries -> Task]] /\ Puts(s, e, "queued", job[s][d].tries)
      /\ \A t \in Subs : t # s => job'[t] = job[t]
  <2>1. Puts(s, e, job[s][d].at, job[s][d].tries)
    BY <1>1, <1>3, PutsIn
  <2>2. /\ job' \in [Subs -> [Deliveries -> Task]]
        /\ \A t \in Subs : t # s => job'[t] = job[t]
    BY <1>1, <1>3, PutsIn
  <2> QED BY <1>1, <2>1, <2>2 DEF At
<1>5. PipeTypeOK' /\ \A t \in Subs : t # s => Same(t)
  BY <1>1, <1>2, <1>4 DEF PipeTypeOK, Same
<1>6. job'[s][1] = job[s][1]
  BY <1>1, <1>4, OneDelivery DEF Puts
<1>7. ~At(s, 1, "none") /\ ~At(s, 1, "refused")
  BY <1>1, OneDelivery DEF SubInv, Opens, At
<1>8. Opens(s)' /\ Holds(s)'
  <2>1. Opens(s)'
    BY <1>1, <1>6, <1>7 DEF SubInv, Opens, At
  <2>2. Holds(s)'
    BY <1>1, <1>6, <1>7 DEF SubInv, Holds, At, Csv, Blank
  <2> QED BY <2>1, <2>2
<1>9. Copies(s)'
  <2>1. Cardinality(Live(s)) \in Nat /\ rows[s] + Cardinality(Live(s)) <= 1 + mishap[s].echoed
    BY <1>1, LiveIsFinite DEF SubInv, Copies
  <2>2. Cardinality(Live(s)') = Cardinality(Live(s)) + 1
    <3>1. e \notin Live(s) /\ "queued" \in LiveAt
      BY <1>1 DEF Live, LiveAt, At
    <3> QED BY <1>1, <1>4, <3>1, LiveMoves
  <2> QED BY <1>1, <1>2, <1>3, <2>1, <2>2 DEF Copies, Tallies, Tally
<1>10. ASSUME NEW f \in Deliveries
       PROVE  Ends(s, f)' /\ Costs(s, f)'
  <2>1. /\ mishap'[s].refused = mishap[s].refused /\ mishap'[s].broke = mishap[s].broke
    BY <1>2, <1>3 DEF Tallies, Tally
  <2>2. Csv(s)' = Csv(s) /\ Blank(s)' = Blank(s) /\ Unfit(s)' = Unfit(s)
    BY <1>1 DEF Csv, Blank, Unfit
  <2>3. CASE f = e
    <3>1. Costs(s, d)
      BY <1>1 DEF SubInv
    <3>2. Ends(s, f)'
      BY <1>4, <2>3 DEF Ends, Puts, At
    <3>3. Costs(s, f)'
      BY <1>1, <1>4, <2>1, <2>2, <2>3, <3>1 DEF Costs, Puts, At
    <3> QED BY <3>2, <3>3
  <2>4. CASE f # e
    <3>1. job'[s][f] = job[s][f] /\ Ends(s, f) /\ Costs(s, f)
      BY <1>1, <1>4, <2>4 DEF Puts, SubInv
    <3>2. Ends(s, f)'
      BY <1>1, <2>1, <2>2, <3>1 DEF Ends, At
    <3>3. Costs(s, f)'
      BY <1>1, <2>1, <2>2, <3>1 DEF Costs, At
    <3> QED BY <3>2, <3>3
  <2> QED BY <2>3, <2>4
<1>11. Progress(s)
  <2>1. s \in Accepted /\ ~Over(s)
    BY <1>1, <1>7 DEF Accepted, Over, At
  <2> QED BY <1>1, <1>3, <1>6, <1>7, <2>1 DEF Progress, At
<1> QED BY <1>5, <1>8, <1>9, <1>10, <1>11 DEF Touches, SubInv

----------------------------------------------------------------------------
\* A submission that arrives; its file is left to show.
LEMMA OpeningStep ==
  ASSUME PInv, PipeTypeOK', NEW s \in Subs, NEW at \in {"queued", "refused"},
         what[s] = Nothing, what'[s] # Nothing, Puts(s, 1, at, job[s][1].tries),
         rows'[s] = rows[s], Grows(s), Holds(s)'
  PROVE  SubInv(s)' /\ Opening(s)
<1>1. /\ SubInv(s) /\ rows[s] = 0 /\ job[s][1].tries = 0 /\ At(s, 1, "none")
      /\ \A d \in Deliveries : At(s, d, "none")
  BY OneDelivery DEF PInv, SubInv, Opens
<1>2. \A d \in Deliveries : d # 1 => job'[s][d] = job[s][d]
  BY DEF Puts
<1>3. job'[s][1].at = at /\ job'[s][1].tries = 0
  BY <1>1 DEF Puts
<1>4. Opens(s)'
  BY <1>1, <1>2, <1>3 DEF Opens, At
<1>5. Copies(s)'
  <2>1. Live(s) = {}
    BY <1>1 DEF Live, LiveAt, At
  <2>2. Cardinality(Live(s)) = 0
    BY <2>1, FS_EmptySet
  <2>3. Cardinality(Live(s)') = 1 \/ Cardinality(Live(s)') = 0
    BY <2>1, <2>2, OneDelivery, LiveMoves
  <2>4. mishap[s].echoed \in Nat /\ mishap'[s].echoed \in Nat
    BY DEF PInv, PipeTypeOK, Tally
  <2> QED BY <1>1, <2>3, <2>4 DEF Copies, Grows
<1>6. ASSUME NEW d \in Deliveries
      PROVE  Ends(s, d)' /\ Costs(s, d)'
  <2>1. job'[s][d].at \in {"none", "queued", "refused"}
    BY <1>1, <1>2, <1>3 DEF At
  <2>2. Ends(s, d)'
    BY <2>1 DEF Ends, At
  <2>3. Costs(s, d)'
    <3>1. job'[s][d].tries = 0
      BY <1>1, <1>2, <1>3 DEF SubInv, Opens
    <3>2. mishap'[s].refused \in Nat
      BY DEF PipeTypeOK, Tally
    <3> QED BY <2>1, <3>1, <3>2 DEF Costs, At
  <2> QED BY <2>2, <2>3
<1>7. Opening(s)
  BY <1>1, <1>3 DEF Opening
<1> QED BY <1>1, <1>4, <1>5, <1>6, <1>7 DEF SubInv

LEMMA PublishStep ==
  ASSUME PInv, NEW r \in Requests, Publish(r)
  PROVE  \E s \in Subs : Touches(s)
<1>1. PICK s \in Subs : /\ what[s] = Nothing /\ what' = [what EXCEPT ![s] = [kind |-> "events"]]
                       /\ Move(s, 1, "queued") /\ UNCHANGED <<file, rows, mishap>>
  BY DEF Publish
<1>2. PipeTypeOK /\ SubInv(s) /\ [kind |-> "events"] \in Events /\ "queued" \in Places
  BY DEF PInv, Events, Places
<1>3. /\ PipeTypeOK' /\ Puts(s, 1, "queued", job[s][1].tries)
      /\ \A t \in Subs : t # s => Same(t)
  BY <1>1, <1>2, OneDelivery, Moves DEF PipeTypeOK, Same
<1>4. what'[s] = [kind |-> "events"]
  BY <1>1, <1>2 DEF PipeTypeOK
<1>5. what'[s] # Nothing /\ Grows(s)
  BY <1>1, <1>2, <1>4 DEF Nothing, Grows, PipeTypeOK, Tally
<1>6. Holds(s)'
  BY <1>1, <1>2, <1>4 DEF SubInv, Holds, Csv, Nothing
<1>7. SubInv(s)' /\ Opening(s)
  BY <1>1, <1>3, <1>5, <1>6, OpeningStep
<1> QED BY <1>3, <1>7 DEF Touches

\* An upload that is queued, or refused with or without its file.
LEMMA UploadStep ==
  ASSUME PInv, NEW s \in Subs, NEW c \in Contents, what[s] = Nothing,
         what' = [what EXCEPT ![s] = [kind |-> "csv", content |-> c]],
         NEW f \in {"there", "gone"}, file' = [file EXCEPT ![s] = f],
         NEW at \in {"queued", "refused"}, Move(s, 1, at), rows' = rows,
         mishap' = mishap \/ Blame(s, "broke"),
         f = "gone" => at = "refused",
         f = "there" /\ at = "refused" => Blame(s, "broke")
  PROVE  Touches(s)
<1> DEFINE w == [kind |-> "csv", content |-> c]
<1>1. PipeTypeOK /\ SubInv(s) /\ at \in Places /\ w \in Upload
  BY DEF PInv, Upload, Places
<1>2. /\ mishap' \in [Subs -> Tally] /\ Grows(s)
      /\ Blame(s, "broke") => mishap'[s].broke > 0
      /\ \A t \in Subs : t # s => mishap'[t] = mishap[t]
  <2>1. mishap[s] \in Tally /\ rows[s] \in Nat
    BY <1>1 DEF PipeTypeOK
  <2>2. CASE Blame(s, "broke")
    <3>1. /\ mishap' \in [Subs -> Tally] /\ Tallies(s, 0, 0, 1)
          /\ \A t \in Subs : t # s => mishap'[t] = mishap[t]
      BY <1>1, <2>2, Blames
    <3> QED BY <2>1, <3>1 DEF Grows, Tallies, Tally
  <2>3. CASE mishap' = mishap /\ ~Blame(s, "broke")
    BY <1>1, <2>1, <2>3 DEF Grows, PipeTypeOK, Tally
  <2> QED BY <2>2, <2>3
<1>3. /\ job' \in [Subs -> [Deliveries -> Task]] /\ Puts(s, 1, at, job[s][1].tries)
      /\ \A t \in Subs : t # s => job'[t] = job[t]
  BY <1>1, OneDelivery, Moves
<1>4. /\ what' \in [Subs -> {Nothing} \union Events \union Upload] /\ what'[s] = w
      /\ \A t \in Subs : t # s => what'[t] = what[t]
  BY <1>1 DEF PipeTypeOK
<1>5. /\ file' \in [Subs -> {"none", "there", "gone"}] /\ file'[s] = f
      /\ \A t \in Subs : t # s => file'[t] = file[t]
  BY <1>1 DEF PipeTypeOK
<1>6. PipeTypeOK' /\ \A t \in Subs : t # s => Same(t)
  BY <1>1, <1>2, <1>3, <1>4, <1>5 DEF PipeTypeOK, Same
<1>7. what'[s] # Nothing
  BY <1>4 DEF Nothing
<1>8. Holds(s)'
  <2>1. job'[s][1].at = at
    BY <1>3 DEF Puts
  <2> QED BY <1>2, <1>4, <1>5, <2>1 DEF Holds, Csv, At
<1>9. SubInv(s)' /\ Opening(s)
  BY <1>2, <1>3, <1>6, <1>7, <1>8, OpeningStep
<1> QED BY <1>6, <1>9 DEF Touches

LEMMA SubmitStep ==
  ASSUME PInv, NEW s \in Subs, Submit(s)
  PROVE  Touches(s)
<1>1. CASE QueueUpload(s)
  <2>1. PICK c \in Contents :
          /\ what[s] = Nothing /\ what' = [what EXCEPT ![s] = [kind |-> "csv", content |-> c]]
          /\ file' = [file EXCEPT ![s] = "there"] /\ Move(s, 1, "queued")
          /\ rows' = rows /\ mishap' = mishap
    BY <1>1 DEF QueueUpload
  <2> QED BY <2>1, UploadStep
<1>2. CASE WriteFails(s)
  <2>1. PICK c \in Contents :
          /\ what[s] = Nothing /\ what' = [what EXCEPT ![s] = [kind |-> "csv", content |-> c]]
          /\ file' = [file EXCEPT ![s] = "gone"] /\ Move(s, 1, "refused")
          /\ rows' = rows /\ mishap' = mishap
    BY <1>2 DEF WriteFails, Refuse
  <2> QED BY <2>1, UploadStep
<1>3. CASE PublishFails(s)
  <2>1. PICK c \in Contents :
          /\ what[s] = Nothing /\ what' = [what EXCEPT ![s] = [kind |-> "csv", content |-> c]]
          /\ file' = [file EXCEPT ![s] = "there"] /\ Move(s, 1, "refused")
          /\ rows' = rows /\ Blame(s, "broke")
    BY <1>3 DEF PublishFails, Refuse
  <2> QED BY <2>1, UploadStep
<1> QED BY <1>1, <1>2, <1>3 DEF Submit

LEMMA PipeStep ==
  ASSUME PInv, [Next]_vars
  PROVE  UNCHANGED pipeVars \/ \E s \in Subs : Touches(s)
<1>1. ASSUME NEW s \in Subs, NEW d \in Deliveries, Work(s, d) \/ Redeliver(s, d) \/ Die(s, d)
      PROVE  Touches(s)
  BY <1>1, StartStep, SkipStep, RetryStep, StoreStep, StoreRefusedStep, StoreEchoesStep,
     RemoveStep, RemoveFailsStep, RedeliverStep, DieStep DEF Work
<1>2. ASSUME NEW r \in Requests, Publish(r)
      PROVE  \E s \in Subs : Touches(s)
  BY <1>2, PublishStep
<1>3. ASSUME NEW s \in Subs, Submit(s)
      PROVE  Touches(s)
  BY <1>3, SubmitStep
<1> QED BY <1>1, <1>2, <1>3 DEF Next, vars, pipeVars

LEMMA PipePreserved == PInv /\ [Next]_vars => PInv'
<1> SUFFICES ASSUME PInv, [Next]_vars PROVE PInv'
  OBVIOUS
<1>1. CASE UNCHANGED pipeVars
  <2>1. PipeTypeOK' /\ \A t \in Subs : SubInv(t) /\ Same(t)
    BY <1>1 DEF PInv, PipeTypeOK, pipeVars, Same
  <2> QED BY <2>1, SameStays DEF PInv
<1>2. ASSUME NEW s \in Subs, Touches(s)
      PROVE  PInv'
  <2>1. PipeTypeOK' /\ SubInv(s)' /\ \A t \in Subs : t # s => SubInv(t) /\ Same(t)
    BY <1>2 DEF Touches, PInv
  <2> QED BY <2>1, SameStays DEF PInv
<1> QED BY <1>1, <1>2, PipeStep

LEMMA PipeStarts == Init => PInv
<1> SUFFICES ASSUME Init PROVE PInv
  OBVIOUS
<1>1. PipeTypeOK
  BY BoundsAssumption DEF Init, PipeTypeOK, Task, Tally
<1>2. ASSUME NEW s \in Subs
      PROVE  SubInv(s)
  <2>1. /\ what[s] = Nothing /\ file[s] = "none" /\ rows[s] = 0 /\ mishap[s].echoed = 0
        /\ mishap[s].refused = 0
        /\ \A d \in Deliveries : job[s][d].at = "none" /\ job[s][d].tries = 0
    BY DEF Init
  <2>2. Cardinality(Live(s)) = 0
    <3>1. Live(s) = {}
      BY <2>1 DEF Live, LiveAt
    <3> QED BY <3>1, FS_EmptySet
  <2>3. Opens(s) /\ Copies(s) /\ Holds(s)
    BY <2>1, <2>2, OneDelivery DEF Opens, Copies, Holds, At, Csv, Nothing
  <2>4. \A d \in Deliveries : Ends(s, d) /\ Costs(s, d)
    BY <2>1 DEF Ends, Costs, At
  <2> QED BY <2>3, <2>4 DEF SubInv
<1> QED BY <1>1, <1>2 DEF PInv

LEMMA PipeInvariant == Spec => []PInv
BY PipeStarts, PipePreserved, PTL DEF Spec

----------------------------------------------------------------------------
\* Keys, submissions, tasks and files keep their shape (ingestion_tasks.py:60-184).
THEOREM IngestionTypeCorrect == Spec => []TypeOK
<1>1. PInv /\ KeysTypeOK => TypeOK
  BY DEF PInv, PipeTypeOK, TypeOK
<1> QED BY PipeInvariant, IngestionUsesKeys, TypeCorrect, <1>1, PTL

\* What ApiKeys promises of keys holds while tasks are queued under them
\* (api_key_service.py:75-92).
THEOREM KeysStayTrue == Spec => [](UseHoldsItsKey /\ RotationReplaces /\ RotationsAreBounded)
BY IngestionUsesKeys, UsesHold, RotationIsWhole, RotationsStayFew, PTL

\* Nothing of the pipeline brings a key back (api_key_service.py:58, 75-76).
THEOREM KeysStayDead == Spec => DeadKeysStayDead
BY IngestionUsesKeys, DeathIsFinal, PTL

\* However often a task is retried, redelivered or killed, only an echo stores a
\* submission again (ingestion_tasks.py:64, 81, 111, 166).
THEOREM CopiesAreCounted == Spec => []CopiesAreEchoes
<1>1. PInv => CopiesAreEchoes
  <2> SUFFICES ASSUME PInv, NEW s \in Subs PROVE rows[s] <= 1 + mishap[s].echoed
    BY DEF CopiesAreEchoes
  <2>1. /\ Cardinality(Live(s)) \in Nat /\ rows[s] \in Nat /\ mishap[s].echoed \in Nat
        /\ Copies(s)
    BY LiveIsFinite DEF PInv, SubInv, PipeTypeOK, Tally
  <2> QED BY <2>1 DEF Copies
<1> QED BY PipeInvariant, <1>1, PTL

\* No delivery removes a file that another delivery, or a retry, still needs
\* (ingestion_tasks.py:165-172).
THEOREM FilesAreKept == Spec => []FileOutlivesItsUse
<1>1. PInv => FileOutlivesItsUse
  BY DEF PInv, SubInv, Holds, Blank, FileOutlivesItsUse
<1> QED BY PipeInvariant, <1>1, PTL

\* A task that is over has stored its rows, or what prevented it is on record
\* (ingestion_tasks.py:62-64).
THEOREM LossesAreExplained == Spec => []StoredUnlessBroken
<1>1. PInv => StoredUnlessBroken
  <2> SUFFICES ASSUME PInv, NEW s \in Accepted, Over(s)
               PROVE  \/ rows[s] > 0 \/ mishap[s].broke > 0 \/ mishap[s].refused > MaxRetries
                      \/ Unfit(s)
    BY DEF StoredUnlessBroken, Unfit
  <2>1. Ends(s, 1) /\ Costs(s, 1) /\ job[s][1].at \in {"done", "dropped", "lost"}
    BY OneDelivery DEF Accepted, Over, PInv, SubInv
  <2>2. mishap[s].refused \in Nat /\ MaxRetries \in Nat
    BY BoundsAssumption DEF PInv, PipeTypeOK, Tally, Accepted
  <2> QED BY <2>1, <2>2 DEF Ends, Costs, At, Unfit, Blank
<1> QED BY PipeInvariant, <1>1, PTL

\* A temporary file that is left over has a death, a failed removal or an upload
\* without a successful attempt behind it (ingestion_tasks.py:169-172).
THEOREM LeftoversAreExplained == Spec => []FilesAreRemoved
<1>1. PInv => FilesAreRemoved
  <2> SUFFICES ASSUME PInv, NEW s \in Subs, file[s] = "there", s \in Accepted => Over(s)
               PROVE  mishap[s].broke > 0 \/ \E d \in Deliveries : At(s, d, "dropped")
    BY DEF FilesAreRemoved
  <2>1. Ends(s, 1) /\ Holds(s) /\ Opens(s)
    BY OneDelivery DEF PInv, SubInv
  <2>2. CASE s \in Accepted
    <3>1. job[s][1].at \in {"done", "dropped", "lost"}
      BY <2>2, OneDelivery DEF Accepted, Over
    <3> QED BY <2>1, <3>1, OneDelivery DEF Ends, At
  <2>3. CASE s \notin Accepted
    <3>1. At(s, 1, "none") \/ At(s, 1, "refused")
      BY <2>3 DEF Accepted, At
    <3>2. ~At(s, 1, "none")
      BY <2>1 DEF Opens, Holds, Csv, Nothing
    <3> QED BY <2>1, <3>1, <3>2 DEF Holds
  <2> QED BY <2>2, <2>3
<1> QED BY PipeInvariant, <1>1, PTL

----------------------------------------------------------------------------
LEMMA OverIsSame ==
  ASSUME NEW s, NEW t \in Subs, t # s, Same(t)
  PROVE  /\ (t \in Accepted)' = (t \in Accepted) /\ (t \in Stored)' = (t \in Stored)
         /\ (t \in Closed)' = (t \in Closed)
<1>1. Over(t)' = Over(t)
  BY DEF Same, Over
<1>2. (t \in Accepted)' = (t \in Accepted)
  BY DEF Same, Accepted
<1>3. (t \in Stored)' = (t \in Stored)
  BY <1>2 DEF Same, Stored
<1>4. (t \in Closed)' = (t \in Closed)
  BY <1>1, <1>2 DEF Closed
<1> QED BY <1>2, <1>3, <1>4

LEMMA LogStep ==
  ASSUME PInv, NEW s \in Subs, Touches(s)
  PROVE  [Log!Next]_<<Accepted, Stored, Closed>>
<1>1. \A t \in Subs : t # s =>
        /\ t \in Accepted' <=> t \in Accepted
        /\ t \in Stored' <=> t \in Stored
        /\ t \in Closed' <=> t \in Closed
  BY OverIsSame DEF Touches
<1>2. /\ Accepted \subseteq Subs /\ Stored \subseteq Subs /\ Closed \subseteq Subs
      /\ Accepted' \subseteq Subs /\ Stored' \subseteq Subs /\ Closed' \subseteq Subs
  BY DEF Accepted, Stored, Closed
<1>3. CASE Progress(s)
  <2>1. s \in Accepted /\ s \in Accepted' /\ s \notin Closed
    BY <1>3 DEF Progress, Accepted, Closed
  <2>2. Accepted' = Accepted
    BY <1>1, <1>2, <2>1
  <2>3. s \in Stored => s \in Stored'
    BY <1>3, <2>1 DEF Progress, Stored
  <2>4. Closed' = Closed \/ Closed' = Closed \union {s}
    BY <1>1, <1>2, <2>1
  <2>5. Stored' = Stored \/ Stored' = Stored \union {s}
    BY <1>1, <1>2, <2>3
  <2>6. CASE Stored' = Stored
    BY <2>1, <2>2, <2>4, <2>6 DEF Log!Next, Log!Close
  <2>7. CASE Stored' = Stored \union {s}
    BY <2>1, <2>2, <2>4, <2>7 DEF Log!Next, Log!Store
  <2> QED BY <2>5, <2>6, <2>7
<1>4. CASE Opening(s)
  <2>1. s \notin Accepted /\ s \notin Stored /\ s \notin Closed /\ s \notin Stored'
    BY <1>4 DEF Opening, Accepted, Stored, Closed, At
  <2>2. s \notin Closed'
    BY <1>4, OneDelivery DEF Opening, Closed, Accepted, Over
  <2>3. Stored' = Stored /\ Closed' = Closed
    BY <1>1, <1>2, <2>1, <2>2
  <2>4. CASE s \in Accepted'
    <3>1. Accepted' = Accepted \union {s}
      BY <1>1, <1>2, <2>4
    <3> QED BY <2>1, <2>3, <3>1 DEF Log!Next, Log!Accept
  <2>5. CASE s \notin Accepted'
    BY <1>1, <1>2, <2>1, <2>3, <2>5
  <2> QED BY <2>4, <2>5
<1> QED BY <1>3, <1>4 DEF Touches

\* Ingestion implements the safety of EventLog: nothing is stored that was not
\* accepted, or after it was given up (ingestion_tasks.py:60-184).
THEOREM IngestionImplementsEventLog == Spec => Log!Safety
<1>1. Init => Log!Init
  BY OneDelivery DEF Init, Log!Init, Accepted, Stored, Closed
<1>2. PInv /\ [Next]_vars => [Log!Next]_<<Accepted, Stored, Closed>>
  <2> SUFFICES ASSUME PInv, [Next]_vars
               PROVE  [Log!Next]_<<Accepted, Stored, Closed>>
    OBVIOUS
  <2>1. CASE UNCHANGED pipeVars
    BY <2>1 DEF pipeVars, Accepted, Stored, Closed, Over
  <2> QED BY <2>1, PipeStep, LogStep
<1> QED BY <1>1, <1>2, PipeInvariant, PTL DEF Spec, Log!Safety, Log!logVars
============================================================================
