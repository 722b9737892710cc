---------------------------- MODULE QueryEngine ----------------------------
(***************************************************************************)
(* What is shown: a view of a widget reads its saved query, answers it     *)
(* from the cache in Redis or from the events, and leaves the answer in    *)
(* the cache; /stats counts the events of four periods.  Views run beside  *)
(* the editing requests of Dashboards, the workers that store events, and  *)
(* each other.  An answer is represented by the number of events it was    *)
(* computed from.                                                          *)
(***************************************************************************)
EXTENDS Dashboards

CONSTANTS Viewers,    \* bound: views at once
          Periods,    \* how many periods are counted, each within the next: 4
          MaxEvents,  \* bound: events of an organization
          TTL         \* of an entry of the cache, in ticks

ASSUME EngineAssumption ==
  Periods \in Nat \ {0} /\ MaxEvents \in Nat /\ TTL \in Nat \ {0} /\ 0 \notin Orgs

VARIABLES events,  \* per organization and period: the events it contains
          cache,   \* the entries, by key
          view     \* where each view stands

engineVars == <<events, cache, view>>
vars == <<board, query, widget, issued, req, mix, events, cache, view>>

Period == 1..Periods
Question == [org : Orgs, config : Configs]
Entry == [of : Question, asOf : Nat, left : 1..TTL]

AtQuery == [at : {"query"}, org : Orgs, query : Nat]
AtAnswer == [at : {"answer"}, ask : Question]
AtFill == [at : {"fill"}, ask : Question, asOf : Nat]
Stats == [at : {"stats"}, org : Orgs, totals : Seq(Nat)]

\* The variables have their shape.
TypeOK ==
  /\ DashTypeOK
  /\ events \in [Orgs -> [Period -> Nat]]
  /\ \A k \in DOMAIN cache : cache[k] \in Entry
  /\ view \in [Viewers -> {Idle} \union AtQuery \union AtAnswer \union AtFill \union Stats]

Init ==
  /\ DashInit
  /\ events = [o \in Orgs |-> [p \in Period |-> 0]]
  /\ cache = [k \in {} |-> 0]
  /\ view = [v \in Viewers |-> Idle]

----------------------------------------------------------------------------
\* An event of which p is the narrowest period is counted in period q.
InRange(p, q) == p <= q

\* The last period contains all that is stored.
Stored(o) == events[o][Periods]

KeyWithoutOrg(ask) == [org |-> 0, config |-> ask.config]   \* mutant: the key leaves it out
KeyOf(ask) == ask

Open(v, x) == view[v] = Idle /\ view' = [view EXCEPT ![v] = x]
Close(v) == view' = [view EXCEPT ![v] = Idle]

\* Redis cannot be reached, or the request dies.
Leave(v) == view[v] # Idle /\ Close(v) /\ UNCHANGED <<dashVars, events, cache>>

----------------------------------------------------------------------------
\* A widget, reached by its id, its dashboard or a share link, is shown to the
\* dashboard's organization (get_widget does not even ask whether the dashboard
\* is deleted): the page was loaded with the widget's row in it.
StartView(v) == \E w \in DOMAIN widget :
  /\ "view" \in mix.ops /\ Present(widget, w) /\ widget[w].query # None
  /\ Open(v, [at |-> "query", org |-> OrgOf(w), query |-> widget[w].query])
  /\ UNCHANGED <<dashVars, events, cache>>

\* A deleted query leaves the widget empty.
ViewQuery(v) == LET q == view[v].query IN
  /\ view[v].at = "query"
  /\ IF query[q].deleted THEN Close(v)
     ELSE view' = [view EXCEPT ![v] = [at |-> "answer",
                     ask |-> [org |-> view[v].org, config |-> query[q].config]]]
  /\ UNCHANGED <<dashVars, events, cache>>

HitRenews(v) == LET k == KeyOf(view[v].ask) IN   \* mutant: a hit starts the five minutes again
  /\ view[v].at = "answer" /\ k \in DOMAIN cache
  /\ cache' = [cache EXCEPT ![k].left = TTL]
  /\ Close(v)
  /\ UNCHANGED <<dashVars, events>>

Hit(v) ==
  /\ view[v].at = "answer" /\ KeyOf(view[v].ask) \in DOMAIN cache
  /\ Close(v)
  /\ UNCHANGED <<dashVars, events, cache>>

\* There was no entry when it was asked for, or Redis did not answer.
Compute(v) == LET ask == view[v].ask IN
  /\ view[v].at = "answer"
  /\ view' = [view EXCEPT ![v] = [at |-> "fill", ask |-> ask, asOf |-> Stored(ask.org)]]
  /\ UNCHANGED <<dashVars, events, cache>>

\* setex, whatever is there by now.
Fill(v) == LET k == KeyOf(view[v].ask) IN
  /\ view[v].at = "fill"
  /\ cache' = [x \in DOMAIN cache \union {k} |->
       IF x = k THEN [of |-> view[v].ask, asOf |-> view[v].asOf, left |-> TTL] ELSE cache[x]]
  /\ Close(v)
  /\ UNCHANGED <<dashVars, events>>

----------------------------------------------------------------------------
\* /stats: a SELECT for each period, from the narrowest to the widest.
StartStats(v) == \E o \in Orgs :
  /\ "stats" \in mix.ops
  /\ Open(v, [at |-> "stats", org |-> o, totals |-> <<>>])
  /\ UNCHANGED <<dashVars, events, cache>>

CountWidestFirst(v) == LET n == Len(view[v].totals) IN   \* mutant: the widest first
  /\ view[v].at = "stats" /\ n < Periods
  /\ view' = [view EXCEPT ![v].totals = <<events[view[v].org][Periods - n]>> \o @]
  /\ UNCHANGED <<dashVars, events, cache>>

Count(v) == LET n == Len(view[v].totals) IN
  /\ view[v].at = "stats" /\ n < Periods
  /\ view' = [view EXCEPT ![v].totals = Append(@, events[view[v].org][n + 1])]
  /\ UNCHANGED <<dashVars, events, cache>>

StatsShown(v) ==
  /\ view[v].at = "stats" /\ Len(view[v].totals) = Periods
  /\ Close(v)
  /\ UNCHANGED <<dashVars, events, cache>>

----------------------------------------------------------------------------
\* A worker stores an event, whose timestamp is what the sender says it is.
Arrive == \E o \in Orgs, p \in Period \intersect mix.periods :
  /\ Stored(o) < MaxEvents
  /\ events' = [events EXCEPT ![o] = [q \in Period |-> IF InRange(p, q) THEN @[q] + 1 ELSE @[q]]]
  /\ UNCHANGED <<dashVars, cache, view>>

TickKeeps ==   \* mutant: an entry whose time is up stays
  /\ cache # [k \in {} |-> 0]
  /\ cache' = [k \in DOMAIN cache |-> [cache[k] EXCEPT !.left = @ - 1]]
  /\ UNCHANGED <<dashVars, events, view>>

\* Time passes, and entries with it.
Tick ==
  /\ cache # [k \in {} |-> 0]
  /\ cache' = [k \in {k \in DOMAIN cache : cache[k].left > 1} |->
                 [cache[k] EXCEPT !.left = @ - 1]]
  /\ UNCHANGED <<dashVars, events, view>>

Answer(v) ==
  \/ ViewQuery(v) \/ Hit(v) \/ Compute(v) \/ Fill(v) \/ Count(v) \/ StatsShown(v) \/ Leave(v)

Next ==
  \/ DashNext /\ UNCHANGED engineVars
  \/ \E v \in Viewers : StartView(v) \/ StartStats(v) \/ Answer(v)
  \/ Arrive \/ Tick

\* Every view ends, and time does not stand still.
Spec == Init /\ [][Next]_vars /\ WF_vars(Tick) /\ \A v \in Viewers : WF_vars(Answer(v))

----------------------------------------------------------------------------
\* A view of one organization asks a query of that organization, and is answered
\* from an entry that was computed for this very question (dashboard_service.py:54,
\* dashboards.py:44).
AnswersStayInOrg ==
  /\ \A v \in Viewers : view[v].at = "query" => query[view[v].query].org = view[v].org
  /\ \A v \in Viewers : view[v].at = "answer" /\ KeyOf(view[v].ask) \in DOMAIN cache =>
       cache[KeyOf(view[v].ask)].of = view[v].ask

\* What /stats shows for a period is never more than what it shows for a longer
\* one, although events arrive between the counts (ingestion_service.py:113-116).
TotalsAreNested == \A v \in Viewers : view[v].at = "stats" =>
  \A p, q \in DOMAIN view[v].totals : p <= q => view[v].totals[p] <= view[v].totals[q]

\* An event that is stored is shown in the end: from some time on no entry is
\* older, however often the widget is looked at and however late a slow view
\* leaves its answer (dashboard_service.py:54-63, 124).
EventsAreShown == \A o \in Orgs, n \in 1..MaxEvents :
  Stored(o) >= n ~>
    [](\A k \in DOMAIN cache : cache[k].of.org = o => cache[k].asOf >= n)
============================================================================
