------------------------- MODULE QueryEngineProofs -------------------------
(***************************************************************************)
(* Proofs about QueryEngine for every number of views, periods and events: *)
(* views leave the tables alone, so the theorems of Dashboards carry over; *)
(* and an answer is of the question asked, because an entry is filed under *)
(* the question it answers (EntriesFit) and the question is put together   *)
(* from rows that keep their organization (ViewsFit).  Counts are nested   *)
(* because events only grow and are nested themselves (TInv), and for the  *)
(* same reason an answer is never ahead of what is stored (Behind).        *)
(***************************************************************************)
EXTENDS QueryEngine, DashboardsProofs

\* Views, workers and time change no table of Dashboards.
THEOREM EngineUsesDashboards == Spec => DashSpec
<1>1. Init => DashInit
  BY DEF Init
<1>2. [Next]_vars => [DashNext]_dashVars
  <2> USE DEF dashVars
  <2>1. ASSUME NEW v \in Viewers, StartView(v) \/ StartStats(v) \/ Answer(v)
        PROVE  UNCHANGED dashVars
    BY <2>1 DEF StartView, StartStats, Answer, ViewQuery, Hit, Compute, Fill, Count, StatsShown, Leave
  <2>2. ASSUME Arrive \/ Tick
        PROVE  UNCHANGED dashVars
    BY <2>2 DEF Arrive, Tick
  <2> QED BY <2>1, <2>2 DEF Next, vars
<1> QED BY <1>1, <1>2, PTL DEF Spec, DashSpec

----------------------------------------------------------------------------
\* The query a view is going to read is one of its organization.
Asks(Q, x) == x.at = "query" => x.query # None /\ FitsIn(Q, x.query, x.org)
Counts(x) == x.at = "stats" => x = [at |-> "stats", org |-> x.org, totals |-> x.totals]
ViewsFit == /\ DOMAIN view = Viewers
            /\ \A v \in Viewers : Asks(query, view[v]) /\ Counts(view[v])
EntryOf(k, e) == e = [of |-> k, asOf |-> e.asOf, left |-> e.left]
EntriesFit == \A k \in DOMAIN cache : EntryOf(k, cache[k])
EInv == ViewsFit /\ EntriesFit

LEMMA EntriesStay ==
  ASSUME EInv, DInv, [Next]_vars
  PROVE  EntriesFit'
<1>1. CASE UNCHANGED cache
  BY <1>1 DEF EInv, EntriesFit
<1>2. ASSUME NEW v \in Viewers, Fill(v)
      PROVE  EntriesFit'
  <2> DEFINE k == view[v].ask
             e == [of |-> k, asOf |-> view[v].asOf, left |-> TTL]
  <2>1. /\ DOMAIN cache' = DOMAIN cache \union {k}
        /\ \A x \in DOMAIN cache' : cache'[x] = IF x = k THEN e ELSE cache[x]
    BY <1>2 DEF Fill, KeyOf
  <2>2. EntryOf(k, e)
    BY DEF EntryOf
  <2> HIDE DEF k, e
  <2> QED BY <2>1, <2>2 DEF EInv, EntriesFit
<1>3. CASE Tick
  <2>1. ASSUME NEW k \in DOMAIN cache'
        PROVE  EntryOf(k, cache'[k])
    <3>1. k \in DOMAIN cache /\ cache'[k] = [cache[k] EXCEPT !.left = @ - 1]
      BY <1>3 DEF Tick
    <3>2. cache[k] = [of |-> k, asOf |-> cache[k].asOf, left |-> cache[k].left]
      BY <3>1 DEF EInv, EntriesFit, EntryOf
    <3>3. cache'[k] = [of |-> k, asOf |-> cache[k].asOf, left |-> cache[k].left - 1]
      BY <3>1, <3>2
    <3> QED BY <3>3 DEF EntryOf
  <2> QED BY <2>1 DEF EntriesFit
<1> QED BY <1>1, <1>2, <1>3
    DEF Next, vars, engineVars, StartView, StartStats, Answer, ViewQuery, Hit, Compute, Count,
        StatsShown, Leave, Arrive

\* One view moves on.
LEMMA ViewMoves ==
  ASSUME ViewsFit, query' = query, NEW v \in Viewers, NEW x, view' = [view EXCEPT ![v] = x],
         Asks(query, x), Counts(x)
  PROVE  ViewsFit'
<1>1. DOMAIN view' = Viewers /\ \A u \in Viewers : view'[u] = IF u = v THEN x ELSE view[u]
  BY DEF ViewsFit
<1> QED BY <1>1 DEF ViewsFit

\* A count changes nothing else of a view.
LEMMA CountsOn ==
  ASSUME NEW o, NEW t, NEW n, NEW y, y = [at |-> "stats", org |-> o, totals |-> t]
  PROVE  [y EXCEPT !.totals = n] = [at |-> "stats", org |-> o, totals |-> n]
OBVIOUS

LEMMA ViewsStay ==
  ASSUME EInv, DInv, [Next]_vars
  PROVE  ViewsFit'
<1> USE DEF EInv
<1>1. CASE view' = view /\ [DashNext]_dashVars
  <2>1. QueriesKeep
    BY <1>1, EachStep DEF TablesEvolve
  <2> QED BY <1>1, <2>1 DEF ViewsFit, Asks, FitsIn, QueriesKeep
<1>2. ASSUME NEW v \in Viewers, StartView(v)
      PROVE  ViewsFit'
  <2>1. PICK w \in DOMAIN widget :
          /\ widget[w].query # None /\ query' = query
          /\ view' = [view EXCEPT ![v] = [at |-> "query", org |-> OrgOf(w), query |-> widget[w].query]]
    BY <1>2 DEF StartView, Open, dashVars
  <2> DEFINE x == [at |-> "query", org |-> OrgOf(w), query |-> widget[w].query]
  <2>2. Asks(query, x) /\ Counts(x)
    BY <2>1 DEF DInv, TablesOK, WidgetsFit, OrgOf, Asks, Counts
  <2> HIDE DEF x
  <2>3. view' = [view EXCEPT ![v] = x]
    BY <2>1 DEF x
  <2> QED BY <2>1, <2>2, <2>3, ViewMoves
<1>3. ASSUME NEW v \in Viewers, StartStats(v)
      PROVE  ViewsFit'
  <2>1. PICK o \in Orgs : /\ view' = [view EXCEPT ![v] = [at |-> "stats", org |-> o, totals |-> <<>>]]
                         /\ query' = query
    BY <1>3 DEF StartStats, Open, dashVars
  <2> DEFINE x == [at |-> "stats", org |-> o, totals |-> <<>>]
  <2>2. Asks(query, x) /\ Counts(x)
    BY DEF Asks, Counts
  <2> HIDE DEF x
  <2>3. view' = [view EXCEPT ![v] = x]
    BY <2>1 DEF x
  <2> QED BY <2>1, <2>2, <2>3, ViewMoves
<1>4. ASSUME NEW v \in Viewers, Close(v), query' = query
      PROVE  ViewsFit'
  <2>1. Asks(query, Idle) /\ Counts(Idle)
    BY DEF Asks, Counts, Idle
  <2>2. view' = [view EXCEPT ![v] = Idle]
    BY <1>4 DEF Close
  <2> HIDE DEF Idle
  <2> QED BY <1>4, <2>1, <2>2, ViewMoves
<1>5. ASSUME NEW v \in Viewers, ViewQuery(v)
      PROVE  ViewsFit'
  <2> DEFINE x == [at |-> "answer",
                   ask |-> [org |-> view[v].org, config |-> query[view[v].query].config]]
  <2>1. query' = query /\ (Close(v) \/ view' = [view EXCEPT ![v] = x])
    BY <1>5 DEF ViewQuery, dashVars
  <2>2. Asks(query, x) /\ Counts(x)
    BY DEF Asks, Counts
  <2> HIDE DEF x
  <2> QED BY <1>4, <2>1, <2>2, ViewMoves
<1>6. ASSUME NEW v \in Viewers, Compute(v)
      PROVE  ViewsFit'
  <2> DEFINE x == [at |-> "fill", ask |-> view[v].ask, asOf |-> Stored(view[v].ask.org)]
  <2>1. query' = query /\ view' = [view EXCEPT ![v] = x]
    BY <1>6 DEF Compute, dashVars
  <2>2. Asks(query, x) /\ Counts(x)
    BY DEF Asks, Counts
  <2> HIDE DEF x
  <2> QED BY <2>1, <2>2, ViewMoves
<1>7. ASSUME NEW v \in Viewers, Count(v)
      PROVE  ViewsFit'
  <2> DEFINE n == Append(view[v].totals, events[view[v].org][Len(view[v].totals) + 1])
             x == [at |-> "stats", org |-> view[v].org, totals |-> n]
  <2>1. query' = query /\ view[v].at = "stats" /\ view' = [view EXCEPT ![v].totals = n]
    BY <1>7 DEF Count, dashVars
  <2> HIDE DEF n
  <2>2. view[v] = [at |-> "stats", org |-> view[v].org, totals |-> view[v].totals]
    BY <2>1 DEF ViewsFit, Counts
  <2>3. [view[v] EXCEPT !.totals = n] = x
    <3> DEFINE y == view[v]
               o == view[v].org
               t == view[v].totals
    <3>1. y = [at |-> "stats", org |-> o, totals |-> t]
      BY <2>2
    <3>2. [y EXCEPT !.totals = n] = [at |-> "stats", org |-> o, totals |-> n]
      <4> HIDE DEF y, o, t
      <4> QED BY ONLY <3>1, CountsOn
    <3> QED BY <3>2
  <2>4. Asks(query, x) /\ Counts(x)
    BY DEF Asks, Counts
  <2> HIDE DEF x
  <2>5. view' = [view EXCEPT ![v] = [view[v] EXCEPT !.totals = n]]
    BY <2>1
  <2> QED BY <2>1, <2>3, <2>4, <2>5, ViewMoves
<1>8. ASSUME NEW v \in Viewers, Hit(v) \/ Fill(v) \/ StatsShown(v) \/ Leave(v)
      PROVE  ViewsFit'
  BY <1>4, <1>8 DEF Hit, Fill, StatsShown, Leave, dashVars
<1>9. CASE Arrive \/ Tick
  BY <1>9, <1>1 DEF Arrive, Tick
<1> QED BY <1>1, <1>2, <1>3, <1>5, <1>6, <1>7, <1>8, <1>9
        DEF Next, Answer, vars, engineVars, dashVars

LEMMA EngineInit == Init => EInv
BY DEF Init, EInv, ViewsFit, Asks, Counts, EntriesFit, Idle

LEMMA EngineInvariant == Spec => []EInv
<1>1. EInv /\ DInv /\ [Next]_vars => EInv'
  BY EntriesStay, ViewsStay DEF EInv
<1> QED BY EngineInit, <1>1, EngineUsesDashboards, Invariance, PTL DEF Spec


\* A view is answered for its own organization and with the answer to its own
\* question, whatever is edited, stored or expires beside it
\* (dashboard_service.py:54, dashboards.py:44).
THEOREM AnswersStay == Spec => []AnswersStayInOrg
<1>1. EInv => AnswersStayInOrg
  <2> SUFFICES ASSUME EInv PROVE AnswersStayInOrg
    OBVIOUS
  <2>1. \A v \in Viewers : view[v].at = "query" => query[view[v].query].org = view[v].org
    BY DEF EInv, ViewsFit, Asks, FitsIn
  <2>2. \A k \in DOMAIN cache : cache[k].of = k
    BY DEF EInv, EntriesFit, EntryOf
  <2> QED BY <2>1, <2>2 DEF AnswersStayInOrg, KeyOf
<1> QED BY EngineInvariant, <1>1, PTL

\* What Dashboards promises holds while its widgets are viewed
\* (dashboard_service.py:271-436).
THEOREM EditingStaysTrue ==
  Spec => [](LinkIffPublic /\ WidgetsStayInOrg) /\ DeadLinksStayDead /\ LinksAreKept
BY EngineUsesDashboards, LinksArePublic, WidgetsStay, DeadLinksAreGone, LinksLast, PTL

----------------------------------------------------------------------------
\* Types, and counts that are nested.  Events only grow and are nested at every
\* moment; a count that was taken is no more than what its period contains now,
\* so the next, wider one can only be larger.
ViewSet == {Idle} \union AtQuery \union AtAnswer \union AtFill \union Stats

EventsOK == /\ events \in [Orgs -> [Period -> Nat]]
            /\ \A o \in Orgs : \A p, q \in Period : p <= q => events[o][p] <= events[o][q]
EventsGrow == \A o \in Orgs : \A p \in Period : events[o][p] <= events'[o][p]

\* The totals t, counted one after the other, against what the periods contain now.
CountedOf(c, t) ==
  /\ Len(t) <= Periods
  /\ \A p \in DOMAIN t : t[p] <= c[p]
  /\ \A p, q \in DOMAIN t : p <= q => t[p] <= t[q]

CacheOK == \A k \in DOMAIN cache : cache[k] \in Entry
ViewsOK == /\ view \in [Viewers -> ViewSet]
           /\ \A v \in Viewers : view[v].at = "stats" => CountedOf(events[view[v].org], view[v].totals)
TInv == EventsOK /\ CacheOK /\ ViewsOK

\* The step a view is at tells its fields.
LEMMA ViewKind ==
  ASSUME NEW x \in ViewSet
  PROVE  /\ x.at = "query"  => x \in AtQuery
         /\ x.at = "answer" => x \in AtAnswer
         /\ x.at = "fill"   => x \in AtFill
         /\ x.at = "stats"  => x \in Stats
BY DEF ViewSet, Idle, AtQuery, AtAnswer, AtFill, Stats

LEMMA TotalsInPeriods ==
  ASSUME NEW t \in Seq(Nat), Len(t) <= Periods
  PROVE  DOMAIN t \subseteq Period /\ t \in [DOMAIN t -> Nat]
BY EngineAssumption, LenProperties DEF Period

\* Counts that were taken stay behind what the periods contain.
LEMMA CountsFallBehind ==
  ASSUME EventsOK, EventsOK', EventsGrow, NEW x \in Stats, CountedOf(events[x.org], x.totals)
  PROVE  CountedOf(events'[x.org], x.totals)
<1> DEFINE t == x.totals
           c == events[x.org]
           d == events'[x.org]
<1>1. t \in Seq(Nat) /\ x.org \in Orgs
  BY DEF Stats
<1>2. /\ c \in [Period -> Nat] /\ d \in [Period -> Nat]
      /\ \A p \in Period : c[p] <= d[p]
  BY <1>1 DEF EventsOK, EventsGrow
<1>3. CountedOf(c, t)
  OBVIOUS
<1> HIDE DEF t, c, d
<1>4. DOMAIN t \subseteq Period /\ t \in [DOMAIN t -> Nat]
  BY <1>1, <1>3, TotalsInPeriods DEF CountedOf
<1>5. ASSUME NEW p \in DOMAIN t
      PROVE  t[p] <= d[p]
  <2>1. t[p] <= c[p] /\ c[p] <= d[p] /\ t[p] \in Nat /\ c[p] \in Nat /\ d[p] \in Nat
    BY <1>2, <1>3, <1>4 DEF CountedOf
  <2> QED BY <2>1
<1>6. CountedOf(d, t)
  BY <1>3, <1>5 DEF CountedOf
<1> QED BY <1>6 DEF t, d

LEMMA ViewTyped ==
  ASSUME TInv, EventsOK', EventsGrow, NEW v \in Viewers, NEW x \in ViewSet,
         view' = [view EXCEPT ![v] = x],
         x.at = "stats" => CountedOf(events'[x.org], x.totals)
  PROVE  ViewsOK'
<1>1. view' \in [Viewers -> ViewSet] /\ \A u \in Viewers : view'[u] = IF u = v THEN x ELSE view[u]
  BY DEF TInv, ViewsOK
<1>2. ASSUME NEW u \in Viewers, u # v, view[u].at = "stats"
      PROVE  CountedOf(events'[view[u].org], view[u].totals)
  <2>1. view[u] \in Stats /\ CountedOf(events[view[u].org], view[u].totals)
    BY <1>2, ViewKind DEF TInv, ViewsOK
  <2> QED BY <2>1, CountsFallBehind DEF TInv
<1>3. ASSUME NEW u \in Viewers, view'[u].at = "stats"
      PROVE  CountedOf(events'[view'[u].org], view'[u].totals)
  BY <1>1, <1>2, <1>3
<1> QED BY <1>1, <1>3 DEF ViewsOK

LEMMA NothingStored ==
  ASSUME EventsOK, events' = events
  PROVE  EventsOK' /\ EventsGrow
<1>1. EventsOK'
  BY DEF EventsOK
<1>2. EventsGrow
  BY DEF EventsOK, EventsGrow
<1> QED BY <1>1, <1>2

\* An event is counted in its narrowest period and in all that contain it.
LEMMA ArriveNests ==
  ASSUME TInv, NEW o \in Orgs, NEW p \in Period,
         events' = [events EXCEPT ![o] = [q \in Period |-> IF InRange(p, q) THEN @[q] + 1 ELSE @[q]]]
  PROVE  EventsOK' /\ EventsGrow
<1> DEFINE c == events[o]
           d == [q \in Period |-> IF InRange(p, q) THEN c[q] + 1 ELSE c[q]]
<1>1. c \in [Period -> Nat] /\ \A i, j \in Period : i <= j => c[i] <= c[j]
  BY DEF TInv, EventsOK
<1>2. events' = [events EXCEPT ![o] = d]
  BY DEF TInv, EventsOK
<1>3. d \in [Period -> Nat] /\ \A i \in Period : d[i] = IF p <= i THEN c[i] + 1 ELSE c[i]
  BY <1>1 DEF InRange
<1> HIDE DEF c, d
<1>4. \A i \in Period : c[i] <= d[i]
  BY <1>1, <1>3
<1>5. ASSUME NEW i \in Period, NEW j \in Period, i <= j
      PROVE  d[i] <= d[j]
  <2>1. c[i] \in Nat /\ c[j] \in Nat /\ c[i] <= c[j]
    BY <1>1, <1>5
  <2>2. p <= i => p <= j
    BY <1>5 DEF Period
  <2> QED BY <1>3, <2>1, <2>2
<1>6. events' \in [Orgs -> [Period -> Nat]]
      /\ \A u \in Orgs : events'[u] = IF u = o THEN d ELSE events[u]
  BY <1>2, <1>3 DEF TInv, EventsOK
<1>7. EventsOK'
  BY <1>5, <1>6 DEF TInv, EventsOK
<1>8. EventsGrow
  BY <1>4, <1>6 DEF TInv, EventsOK, EventsGrow, c
<1> QED BY <1>7, <1>8

\* The tables a view reads have rows of their kind.
LEMMA RowsTyped ==
  ASSUME DInv
  PROVE  /\ \A w \in DOMAIN widget : OrgOf(w) \in Orgs /\ widget[w].query \in Nat
         /\ \A q \in DOMAIN query : query[q].config \in Configs
<1>1. /\ board \in [DOMAIN board -> BoardRow] /\ query \in [DOMAIN query -> QueryRow]
      /\ widget \in [DOMAIN widget -> WidgetRow]
      /\ \A w \in DOMAIN widget : widget[w].board \in DOMAIN board
  BY LenProperties DEF DInv, TablesOK, WidgetsFit
<1> QED BY <1>1 DEF OrgOf, BoardRow, QueryRow, WidgetRow

LEMMA StartsTyped ==
  ASSUME TInv, DInv, NEW v \in Viewers, StartView(v) \/ StartStats(v)
  PROVE  TInv'
<1>1. UNCHANGED <<events, cache>>
  BY DEF StartView, StartStats
<1>2. EventsOK' /\ EventsGrow
  BY <1>1, NothingStored DEF TInv
<1>3. CASE StartView(v)
  <2>1. PICK w \in DOMAIN widget :
          view' = [view EXCEPT ![v] = [at |-> "query", org |-> OrgOf(w), query |-> widget[w].query]]
    BY <1>3 DEF StartView, Open
  <2> DEFINE x == [at |-> "query", org |-> OrgOf(w), query |-> widget[w].query]
  <2>2. x \in ViewSet /\ x.at # "stats"
    BY RowsTyped DEF ViewSet, AtQuery
  <2>3. view' = [view EXCEPT ![v] = x]
    BY <2>1
  <2> HIDE DEF x
  <2>4. ViewsOK'
    BY <1>2, <2>2, <2>3, ViewTyped
  <2> QED BY <1>1, <1>2, <2>4 DEF TInv, CacheOK
<1>4. CASE StartStats(v)
  <2>1. PICK o \in Orgs : view' = [view EXCEPT ![v] = [at |-> "stats", org |-> o, totals |-> <<>>]]
    BY <1>4 DEF StartStats, Open
  <2> DEFINE x == [at |-> "stats", org |-> o, totals |-> <<>>]
  <2>2. x \in ViewSet /\ x.totals = <<>>
    BY DEF ViewSet, Stats
  <2>3. CountedOf(events'[x.org], x.totals)
    BY <2>2, EngineAssumption DEF CountedOf
  <2>4. view' = [view EXCEPT ![v] = x]
    BY <2>1
  <2> HIDE DEF x
  <2>5. ViewsOK'
    BY <1>2, <2>2, <2>3, <2>4, ViewTyped
  <2> QED BY <1>1, <1>2, <2>5 DEF TInv, CacheOK
<1> QED BY <1>3, <1>4

LEMMA ClosesTyped ==
  ASSUME TInv, NEW v \in Viewers, Close(v), UNCHANGED events
  PROVE  ViewsOK'
<1>1. Idle \in ViewSet /\ Idle.at # "stats"
  BY DEF ViewSet, Idle
<1>2. EventsOK' /\ EventsGrow
  BY NothingStored DEF TInv
<1>3. view' = [view EXCEPT ![v] = Idle]
  BY DEF Close
<1> HIDE DEF Idle
<1> QED BY <1>1, <1>2, <1>3, ViewTyped

LEMMA ViewQueryTyped ==
  ASSUME TInv, EInv, DInv, NEW v \in Viewers, ViewQuery(v)
  PROVE  TInv'
<1> DEFINE x == [at |-> "answer",
                 ask |-> [org |-> view[v].org, config |-> query[view[v].query].config]]
<1>1. UNCHANGED <<events, cache>> /\ (Close(v) \/ view' = [view EXCEPT ![v] = x])
      /\ view[v].at = "query"
  BY DEF ViewQuery
<1>2. EventsOK' /\ EventsGrow
  BY <1>1, NothingStored DEF TInv
<1>3. x \in ViewSet /\ x.at # "stats"
  <2>1. view[v].org \in Orgs
    BY <1>1, ViewKind DEF TInv, ViewsOK, AtQuery
  <2>2. query[view[v].query].config \in Configs
    BY <1>1, RowsTyped DEF EInv, ViewsFit, Asks, FitsIn
  <2> QED BY <2>1, <2>2 DEF ViewSet, AtAnswer, Question
<1> HIDE DEF x
<1>4. ViewsOK'
  BY <1>1, <1>2, <1>3, ClosesTyped, ViewTyped
<1> QED BY <1>1, <1>2, <1>4 DEF TInv, CacheOK

LEMMA ComputeTyped ==
  ASSUME TInv, NEW v \in Viewers, Compute(v)
  PROVE  TInv'
<1> DEFINE x == [at |-> "fill", ask |-> view[v].ask, asOf |-> Stored(view[v].ask.org)]
<1>1. UNCHANGED <<events, cache>> /\ view' = [view EXCEPT ![v] = x] /\ view[v].at = "answer"
  BY DEF Compute
<1>2. EventsOK' /\ EventsGrow
  BY <1>1, NothingStored DEF TInv
<1>3. x \in ViewSet /\ x.at # "stats"
  <2>1. view[v].ask \in Question
    BY <1>1, ViewKind DEF TInv, ViewsOK, AtAnswer
  <2>2. Stored(view[v].ask.org) \in Nat
    BY <2>1, EngineAssumption DEF TInv, EventsOK, Stored, Period, Question
  <2> QED BY <2>1, <2>2 DEF ViewSet, AtFill
<1> HIDE DEF x
<1>4. ViewsOK'
  BY <1>1, <1>2, <1>3, ViewTyped
<1> QED BY <1>1, <1>2, <1>4 DEF TInv, CacheOK

LEMMA FillTyped ==
  ASSUME TInv, NEW v \in Viewers, Fill(v)
  PROVE  TInv'
<1> DEFINE k == KeyOf(view[v].ask)
           e == [of |-> view[v].ask, asOf |-> view[v].asOf, left |-> TTL]
<1>1. /\ Close(v) /\ events' = events /\ view[v].at = "fill"
      /\ DOMAIN cache' = DOMAIN cache \union {k}
      /\ \A x \in DOMAIN cache' : cache'[x] = IF x = k THEN e ELSE cache[x]
  BY DEF Fill
<1>2. e \in Entry
  BY <1>1, ViewKind, EngineAssumption DEF TInv, ViewsOK, AtFill, Entry
<1> HIDE DEF k, e
<1>3. CacheOK'
  BY <1>1, <1>2 DEF TInv, CacheOK
<1> QED BY <1>1, <1>3, NothingStored, ClosesTyped DEF TInv

\* The next period contains the ones counted before.
LEMMA CountTyped ==
  ASSUME TInv, NEW v \in Viewers, Count(v)
  PROVE  TInv'
<1> DEFINE t == view[v].totals
           c == events[view[v].org]
           n == Len(t) + 1
           u == Append(t, c[n])
           x == [view[v] EXCEPT !.totals = u]
<1>1. /\ UNCHANGED <<events, cache>> /\ view[v].at = "stats" /\ Len(t) < Periods
      /\ view' = [view EXCEPT ![v] = x]
  BY DEF Count
<1>2. EventsOK' /\ EventsGrow
  BY <1>1, NothingStored DEF TInv
<1>3. view[v] \in Stats /\ CountedOf(c, t) /\ t \in Seq(Nat) /\ view[v].org \in Orgs
  BY <1>1, ViewKind DEF TInv, ViewsOK, Stats
<1>4. c \in [Period -> Nat] /\ \A i, j \in Period : i <= j => c[i] <= c[j]
  BY <1>3 DEF TInv, EventsOK
<1>5. CountedOf(c, u) /\ u \in Seq(Nat)
  <2> HIDE DEF t, c
  <2>1. n \in Period /\ DOMAIN t = 1..(n - 1)
    BY <1>1, <1>3, EngineAssumption, LenProperties DEF Period, t
  <2>2. c[n] \in Nat
    BY <1>4, <2>1
  <2>3. /\ u \in Seq(Nat) /\ Len(u) = n /\ DOMAIN u = DOMAIN t \union {n}
        /\ u[n] = c[n] /\ \A i \in DOMAIN t : u[i] = t[i]
    BY <1>3, <2>2, Appended, AppendProperties
  <2>4. DOMAIN t \subseteq Period /\ t \in [DOMAIN t -> Nat]
    BY <1>3, TotalsInPeriods DEF CountedOf
  <2> HIDE DEF u
  <2>5. \A i \in DOMAIN u : u[i] <= c[i]
    BY <1>3, <1>4, <2>1, <2>2, <2>3 DEF CountedOf
  <2>6. ASSUME NEW i \in DOMAIN u, NEW j \in DOMAIN u, i <= j
        PROVE  u[i] <= u[j]
    <3>1. CASE j \in DOMAIN t /\ i \in DOMAIN t
      BY <1>3, <2>3, <2>6, <3>1 DEF CountedOf
    <3>2. CASE j = n /\ i \in DOMAIN t
      <4>1. t[i] \in Nat /\ c[i] \in Nat /\ t[i] <= c[i] /\ c[i] <= c[n]
        BY <1>3, <1>4, <2>1, <2>4, <3>2, <2>6 DEF CountedOf
      <4> QED BY <2>2, <2>3, <3>2, <4>1
    <3>3. CASE i = n
      <4>1. j = n
        BY <2>1, <2>3, <2>6, <3>3 DEF Period
      <4> QED BY <2>2, <2>3, <3>3, <4>1
    <3> QED BY <2>3, <3>1, <3>2, <3>3
  <2>7. Len(u) <= Periods
    BY <1>1, <1>3, <2>3, EngineAssumption, LenProperties DEF t
  <2> QED BY <2>3, <2>5, <2>6, <2>7 DEF CountedOf
<1>6. x \in ViewSet /\ x.org = view[v].org /\ x.totals = u
  BY <1>3, <1>5 DEF ViewSet, Stats
<1>7. CountedOf(events'[x.org], x.totals)
  BY <1>1, <1>5, <1>6
<1> HIDE DEF x
<1>8. ViewsOK'
  BY <1>1, <1>2, <1>6, <1>7, ViewTyped
<1> QED BY <1>1, <1>2, <1>8 DEF TInv, CacheOK

LEMMA ArriveTyped ==
  ASSUME TInv, Arrive
  PROVE  TInv'
<1>1. PICK o \in Orgs, p \in Period \intersect mix.periods :
        events' = [events EXCEPT ![o] = [q \in Period |-> IF InRange(p, q) THEN @[q] + 1 ELSE @[q]]]
  BY DEF Arrive
<1>2. UNCHANGED <<cache, view>>
  BY DEF Arrive
<1>3. EventsOK' /\ EventsGrow
  BY <1>1, ArriveNests
<1>4. ViewsOK'
  <2>1. ASSUME NEW v \in Viewers, view[v].at = "stats"
        PROVE  CountedOf(events'[view[v].org], view[v].totals)
    <3>1. view[v] \in Stats /\ CountedOf(events[view[v].org], view[v].totals)
      BY <2>1, ViewKind DEF TInv, ViewsOK
    <3> QED BY <1>3, <3>1, CountsFallBehind DEF TInv
  <2> QED BY <1>2, <2>1 DEF TInv, ViewsOK
<1> QED BY <1>2, <1>3, <1>4 DEF TInv, CacheOK

LEMMA TickTyped ==
  ASSUME TInv, Tick
  PROVE  TInv'
<1>1. UNCHANGED <<events, view>>
  BY DEF Tick
<1>2. ASSUME NEW k \in DOMAIN cache'
      PROVE  cache'[k] \in Entry
  <2> DEFINE e == cache[k]
  <2>1. k \in DOMAIN cache /\ e.left > 1 /\ cache'[k] = [e EXCEPT !.left = e.left - 1]
    BY <1>2 DEF Tick
  <2>2. e \in Entry
    BY <2>1 DEF TInv, CacheOK
  <2> HIDE DEF e
  <2>3. e.left - 1 \in 1..TTL
    BY <2>1, <2>2, EngineAssumption DEF Entry
  <2> QED BY <2>1, <2>2, <2>3 DEF Entry
<1> QED BY <1>1, <1>2, NothingStored DEF TInv, CacheOK, ViewsOK

LEMMA StepTyped ==
  ASSUME TInv, EInv, DInv, [Next]_vars
  PROVE  TInv'
<1>1. CASE UNCHANGED engineVars
  BY <1>1, NothingStored DEF TInv, CacheOK, ViewsOK, engineVars
<1>2. ASSUME NEW v \in Viewers, Hit(v) \/ StatsShown(v) \/ Leave(v)
      PROVE  TInv'
  <2>1. Close(v) /\ UNCHANGED <<events, cache>>
    BY <1>2 DEF Hit, StatsShown, Leave
  <2> QED BY <2>1, NothingStored, ClosesTyped DEF TInv, CacheOK
<1>3. ASSUME NEW v \in Viewers, StartView(v) \/ StartStats(v) \/ Answer(v)
      PROVE  TInv'
  BY <1>2, <1>3, StartsTyped, ViewQueryTyped, ComputeTyped, FillTyped, CountTyped DEF Answer
<1> QED BY <1>1, <1>3, ArriveTyped, TickTyped DEF Next, vars, engineVars

LEMMA InitTyped == Init => TInv
<1> SUFFICES ASSUME Init PROVE TInv
  OBVIOUS
<1>1. EventsOK
  BY DEF Init, EventsOK
<1>2. CacheOK
  BY DEF Init, CacheOK
<1>3. ViewsOK
  BY DEF Init, ViewsOK, ViewSet, Idle
<1> QED BY <1>1, <1>2, <1>3 DEF TInv

LEMMA TypedInvariant == Spec => []TInv
<1>1. TInv /\ EInv /\ DInv /\ [Next]_vars => TInv'
  BY StepTyped
<1> QED BY InitTyped, <1>1, EngineInvariant, EngineUsesDashboards, Invariance, PTL DEF Spec

\* Tables, counts, entries and views have their shape; in particular an entry is
\* gone when its time is up (dashboard_service.py:30, 124).
THEOREM EngineTypeCorrect == Spec => []TypeOK
<1>1. TInv /\ DashTypeOK => TypeOK
  BY DEF TInv, EventsOK, CacheOK, ViewsOK, ViewSet, TypeOK
<1> QED BY <1>1, TypedInvariant, EngineUsesDashboards, DashTypeCorrect, PTL

\* However many events arrive between the counts, and of whatever period, a longer
\* period never shows less (ingestion_service.py:113-116).
THEOREM TotalsStayNested == Spec => []TotalsAreNested
<1>1. TInv => TotalsAreNested
  BY DEF TInv, ViewsOK, CountedOf, TotalsAreNested
<1> QED BY <1>1, TypedInvariant, PTL

----------------------------------------------------------------------------
\* An answer may be old but is never ahead: what it was computed from is stored.
Behind ==
  /\ \A k \in DOMAIN cache : cache[k].asOf <= Stored(cache[k].of.org)
  /\ \A v \in Viewers : view[v].at = "fill" => view[v].asOf <= Stored(view[v].ask.org)

\* After the step.
StoredNext(o) == events'[o][Periods]

\* Events are never taken back, by anybody.
LEMMA StoredGrows ==
  ASSUME TInv, [Next]_vars
  PROVE  EventsGrow
<1>1. CASE Arrive
  <2>1. PICK o \in Orgs, p \in Period \intersect mix.periods :
          events' = [events EXCEPT ![o] = [q \in Period |-> IF InRange(p, q) THEN @[q] + 1 ELSE @[q]]]
    BY <1>1 DEF Arrive
  <2> QED BY <2>1, ArriveNests
<1>2. CASE ~Arrive
  <2>1. events' = events
    BY <1>2 DEF Next, vars, engineVars, StartView, StartStats, Answer, ViewQuery, Hit, Compute, Fill,
       Count, StatsShown, Leave, Tick
  <2> QED BY <2>1, NothingStored DEF TInv
<1> QED BY <1>1, <1>2

LEMMA OldStaysBehind ==
  ASSUME TInv, TInv', EventsGrow, NEW o \in Orgs, NEW n \in Nat, n <= Stored(o)
  PROVE  n <= StoredNext(o)
<1>1. Periods \in Period
  BY EngineAssumption DEF Period
<1>2. events[o][Periods] \in Nat /\ events'[o][Periods] \in Nat
      /\ events[o][Periods] <= events'[o][Periods]
  BY <1>1 DEF TInv, EventsOK, EventsGrow
<1> QED BY <1>2 DEF Stored, StoredNext

LEMMA BehindStep ==
  ASSUME TInv, TInv', Behind, [Next]_vars
  PROVE  Behind'
<1>0. EventsGrow
  BY StoredGrows
<1>1. ASSUME NEW k \in DOMAIN cache
      PROVE  cache[k].asOf <= StoredNext(cache[k].of.org)
  <2>1. cache[k].of.org \in Orgs /\ cache[k].asOf \in Nat
    BY DEF TInv, CacheOK, Entry, Question
  <2> QED BY <1>0, <2>1, OldStaysBehind DEF Behind
<1>2. ASSUME NEW v \in Viewers, view[v].at = "fill"
      PROVE  view[v].asOf <= StoredNext(view[v].ask.org)
  <2>1. view[v].ask.org \in Orgs /\ view[v].asOf \in Nat
    BY <1>2, ViewKind DEF TInv, ViewsOK, AtFill, Question
  <2> QED BY <1>0, <1>2, <2>1, OldStaysBehind DEF Behind
<1>3. ASSUME cache' = cache, NEW v \in Viewers, NEW x, view' = [view EXCEPT ![v] = x],
             x.at = "fill" => x.asOf <= StoredNext(x.ask.org)
      PROVE  Behind'
  BY <1>1, <1>2, <1>3 DEF Behind, TInv, ViewsOK, Stored, StoredNext
<1>4. ASSUME view' = view, cache' = cache
      PROVE  Behind'
  BY <1>1, <1>2, <1>4 DEF Behind, Stored, StoredNext
<1>5. ASSUME NEW v \in Viewers, Close(v), cache' = cache
      PROVE  Behind'
  <2>1. Idle.at # "fill"
    BY DEF Idle
  <2> QED BY <1>3, <1>5, <2>1 DEF Close
<1>6. ASSUME NEW v \in Viewers, StartView(v) \/ StartStats(v) \/ ViewQuery(v) \/ Count(v)
      PROVE  Behind'
  <2>1. cache' = cache
    BY <1>6 DEF StartView, StartStats, ViewQuery, Count
  <2>2. CASE StartView(v)
    <3>1. PICK w : view' = [view EXCEPT ![v] =
                              [at |-> "query", org |-> OrgOf(w), query |-> widget[w].query]]
      BY <2>2 DEF StartView, Open
    <3> QED BY <1>3, <2>1, <3>1
  <2>3. CASE StartStats(v)
    <3>1. PICK o : view' = [view EXCEPT ![v] = [at |-> "stats", org |-> o, totals |-> <<>>]]
      BY <2>3 DEF StartStats, Open
    <3> QED BY <1>3, <2>1, <3>1
  <2>4. CASE ViewQuery(v)
    <3>1. \/ Close(v)
          \/ view' = [view EXCEPT ![v] = [at |-> "answer",
                       ask |-> [org |-> view[v].org, config |-> query[view[v].query].config]]]
      BY <2>4 DEF ViewQuery
    <3> QED BY <1>3, <1>5, <2>1, <3>1
  <2>5. CASE Count(v)
    <3> DEFINE x == [view[v] EXCEPT !.totals = Append(@, events[view[v].org][Len(view[v].totals) + 1])]
    <3>1. view' = [view EXCEPT ![v] = x] /\ view[v].at = "stats"
      BY <2>5 DEF Count
    <3>2. x.at = "stats"
      BY <3>1, ViewKind DEF TInv, ViewsOK, Stats
    <3> QED BY <1>3, <2>1, <3>1, <3>2
  <2> QED BY <1>6, <2>2, <2>3, <2>4, <2>5
<1>7. ASSUME NEW v \in Viewers, Compute(v)
      PROVE  Behind'
  <2> DEFINE x == [at |-> "fill", ask |-> view[v].ask, asOf |-> Stored(view[v].ask.org)]
  <2>1. /\ view' = [view EXCEPT ![v] = x] /\ cache' = cache /\ events' = events
        /\ view[v].ask.org \in Orgs
    BY <1>7, ViewKind DEF Compute, TInv, ViewsOK, AtAnswer, Question
  <2>2. x.asOf \in Nat
    BY <2>1, EngineAssumption DEF TInv, EventsOK, Stored, Period
  <2>3. x.asOf <= StoredNext(x.ask.org)
    BY <2>1, <2>2 DEF Stored, StoredNext
  <2> QED BY <1>3, <2>1, <2>3
<1>8. ASSUME NEW v \in Viewers, Fill(v)
      PROVE  Behind'
  <2> DEFINE k == KeyOf(view[v].ask)
             e == [of |-> view[v].ask, asOf |-> view[v].asOf, left |-> TTL]
  <2>1. /\ Close(v) /\ view[v].at = "fill"
        /\ DOMAIN cache' = DOMAIN cache \union {k}
        /\ \A y \in DOMAIN cache' : cache'[y] = IF y = k THEN e ELSE cache[y]
    BY <1>8 DEF Fill
  <2>2. e.asOf <= StoredNext(e.of.org)
    BY <1>2, <2>1
  <2>3. \A u \in Viewers : view'[u].at = "fill" => view'[u] = view[u]
    BY <2>1 DEF Close, Idle, TInv, ViewsOK
  <2> HIDE DEF e, k
  <2>4. \A y \in DOMAIN cache' : cache'[y].asOf <= StoredNext(cache'[y].of.org)
    BY <1>1, <2>1, <2>2
  <2>5. \A u \in Viewers : view'[u].at = "fill" => view'[u].asOf <= StoredNext(view'[u].ask.org)
    BY <1>2, <2>3
  <2> QED BY <2>4, <2>5 DEF Behind, Stored, StoredNext
<1>9. CASE Tick
  <2>1. view' = view /\ \A k \in DOMAIN cache' :
          k \in DOMAIN cache /\ cache'[k] = [cache[k] EXCEPT !.left = @ - 1]
    BY <1>9 DEF Tick
  <2>2. \A k \in DOMAIN cache' :
          k \in DOMAIN cache /\ cache'[k].asOf = cache[k].asOf /\ cache'[k].of = cache[k].of
    BY <2>1 DEF TInv, CacheOK, Entry
  <2> QED BY <1>1, <1>2, <2>1, <2>2 DEF Behind, Stored, StoredNext
<1>10. ASSUME NEW v \in Viewers, Hit(v) \/ StatsShown(v) \/ Leave(v)
       PROVE  Behind'
  BY <1>5, <1>10 DEF Hit, StatsShown, Leave
<1> QED BY <1>4, <1>6, <1>7, <1>8, <1>9, <1>10 DEF Next, Answer, Arrive, engineVars, vars

\* A view is never answered with more than its organization has stored: an answer is
\* of the past, and of this organization (dashboard_service.py:54-63, 120-128).
ShownIsStored == \A v \in Viewers :
  view[v].at = "answer" /\ KeyOf(view[v].ask) \in DOMAIN cache =>
    cache[KeyOf(view[v].ask)].asOf <= Stored(view[v].ask.org)

THEOREM AnswersAreOfThePast == Spec => []ShownIsStored
<1>1. Init => Behind
  BY DEF Init, Behind, Idle
<1>2. TInv /\ TInv' /\ Behind /\ [Next]_vars => Behind'
  BY BehindStep
<1>3. Behind /\ AnswersStayInOrg => ShownIsStored
  BY DEF Behind, AnswersStayInOrg, ShownIsStored
<1> QED BY <1>1, <1>2, <1>3, TypedInvariant, AnswersStay, PTL DEF Spec
=============================================================================
