---------------------------- MODULE RateLimiter ----------------------------
(***************************************************************************)
(* The fixed-window limiter of the ingestion endpoints.  A request counts  *)
(* itself in its organization's Redis counter, then in its API key's, and  *)
(* is queued if neither count is above its limit.  The first to count in a *)
(* window also sets the counter's time to live, in a second round trip;    *)
(* Redis drops the counter when that has passed.  One organization is      *)
(* modelled: counters of different organizations do not meet.              *)
(***************************************************************************)
EXTENDS Integers, FiniteSets

CONSTANTS Org,        \* the organization's counter
          Keys,       \* its API keys, one counter each
          OrgLimit, KeyLimit,
          BatchSizes, \* bound: events a request may carry (1 for a single event)
          Requests,   \* bound: requests in flight at once
          Mortal,     \* the requests whose process or connection may die half way
          MaxCount    \* bound: a counter's value

ASSUME KeysAssumption == Org \notin Keys
ASSUME LimitsAssumption ==
  OrgLimit \in Nat /\ KeyLimit \in Nat /\ MaxCount \in Nat /\ BatchSizes \subseteq Nat
ASSUME RequestsAssumption == IsFiniteSet(Requests) /\ Mortal \subseteq Requests

VARIABLES count,   \* value of each counter, 0 when Redis does not have it
          armed,   \* has it a time to live?
          sent,    \* events queued since the counter last expired
          req      \* where each request stands

vars == <<count, armed, sent, req>>

Counters == Keys \union {Org}
Limit(c) == IF c = Org THEN OrgLimit ELSE KeyLimit

Idle == [at |-> "idle"]
Active == [at : {"incr", "expire", "check"}, counter : Counters,
           key : Keys, events : BatchSizes, seen : 0..MaxCount]
Request == {Idle} \union Active

\* Counters and requests have their shape.
TypeOK ==
  /\ count \in [Counters -> 0..MaxCount]
  /\ armed \in [Counters -> BOOLEAN]
  /\ sent \in [Counters -> Nat]
  /\ req \in [Requests -> Request]

Init ==
  /\ count = [c \in Counters |-> 0]
  /\ armed = [c \in Counters |-> FALSE]
  /\ sent = [c \in Counters |-> 0]
  /\ req = [r \in Requests |-> Idle]

----------------------------------------------------------------------------
\* A request that passed the API key check.
Arrive(r) == \E k \in Keys, e \in BatchSizes :
  /\ req[r] = Idle
  /\ req' = [req EXCEPT ![r] = [at |-> "incr", counter |-> Org, key |-> k,
                                events |-> e, seen |-> 0]]
  /\ UNCHANGED <<count, armed, sent>>

\* Who sets the time to live: the request whose INCR created the counter.
AlwaysArms(n) == n > 0   \* mutant: every request renews the time to live
NobodyArms(n) == n = 0   \* mutant: INCR without EXPIRE

Arms(n) == n = 1

Incr(r) == LET c == req[r].counter IN
  /\ req[r].at = "incr"
  /\ count[c] < MaxCount
  /\ count' = [count EXCEPT ![c] = @ + 1]
  /\ req' = [req EXCEPT ![r].seen = count[c] + 1,
                        ![r].at = IF Arms(count[c] + 1) THEN "expire" ELSE "check"]
  /\ UNCHANGED <<armed, sent>>

\* EXPIRE does nothing to a counter that is not there.
Arm(r) == LET c == req[r].counter IN
  /\ req[r].at = "expire"
  /\ armed' = [armed EXCEPT ![c] = count[c] > 0]
  /\ req' = [req EXCEPT ![r].at = "check"]
  /\ UNCHANGED <<count, sent>>

OneMore(n, c) == n > Limit(c) + Cardinality(Requests)   \* mutant: the limit is let slip

Exceeds(n, c) == n > Limit(c)

\* Past the organization's check, on to the key's.
PassOrg(r) ==
  /\ req[r].at = "check" /\ req[r].counter = Org
  /\ ~Exceeds(req[r].seen, Org)
  /\ req' = [req EXCEPT ![r].at = "incr", ![r].counter = req[r].key]
  /\ UNCHANGED <<count, armed, sent>>

\* Past both: the task is queued, whatever the number of events in it.
Queue(r) == LET k == req[r].key IN
  /\ req[r].at = "check" /\ req[r].counter = k
  /\ ~Exceeds(req[r].seen, k)
  /\ sent' = [sent EXCEPT ![Org] = @ + req[r].events, ![k] = @ + req[r].events]
  /\ req' = [req EXCEPT ![r] = Idle]
  /\ UNCHANGED <<count, armed>>

RejectRefunds(r) == LET c == req[r].counter IN   \* mutant: DECR on the way out
  /\ req[r].at = "check"
  /\ Exceeds(req[r].seen, c)
  /\ count' = [count EXCEPT ![c] = @ - 1]
  /\ req' = [req EXCEPT ![r] = Idle]
  /\ UNCHANGED <<armed, sent>>

\* 429: what it counted stays counted.
Reject(r) ==
  /\ req[r].at = "check"
  /\ Exceeds(req[r].seen, req[r].counter)
  /\ req' = [req EXCEPT ![r] = Idle]
  /\ UNCHANGED <<count, armed, sent>>

Die(r) ==
  /\ req[r] # Idle
  /\ req' = [req EXCEPT ![r] = Idle]
  /\ UNCHANGED <<count, armed, sent>>

\* Sixty seconds after EXPIRE, Redis drops the counter.
Expire(c) ==
  /\ armed[c]
  /\ count' = [count EXCEPT ![c] = 0]
  /\ armed' = [armed EXCEPT ![c] = FALSE]
  /\ sent' = [sent EXCEPT ![c] = 0]
  /\ UNCHANGED req

Handle(r) == Incr(r) \/ Arm(r) \/ PassOrg(r) \/ Queue(r) \/ Reject(r)

Next ==
  \/ \E r \in Requests : Arrive(r) \/ Handle(r)
  \/ \E r \in Mortal : Die(r)
  \/ \E c \in Counters : Expire(c)

\* The event loop runs every request on, and Redis keeps its times to live.
Fairness == /\ \A r \in Requests : WF_vars(Handle(r))
            /\ \A c \in Counters : WF_vars(Expire(c))

Spec == Init /\ [][Next]_vars /\ Fairness

----------------------------------------------------------------------------
\* A window is never extended: whoever is about to set a time to live finds
\* the counter without one, so the sixty seconds run from its first event on
\* (ingestion_service.py:20-22).
WindowIsNotExtended == \A r \in Requests :
  req[r].at = "expire" => ~armed[req[r].counter] /\ count[req[r].counter] > 0

\* One window lets through what the limit allows, and besides that at most the
\* requests that were counted in the window before and not queued yet.  This is
\* of requests: BatchSizes = {1} (ingestion_service.py:33-38).
QueuedPerWindow == \A c \in Counters :
  sent[c] <= Limit(c) + Cardinality(Requests)

\* A counter without a time to live has a request about to set it, unless that
\* request can die between INCR and EXPIRE (ingestion_service.py:20-22): for
\* Mortal = {}.
UnarmedIsBeingArmed == \A c \in Counters : count[c] > 0 /\ ~armed[c] =>
  \E r \in Requests : req[r].at = "expire" /\ req[r].counter = c

\* "Retry after 60 seconds" (ingestion_service.py:24): a counter above its limit
\* is dropped in the end.
LimitIsLifted == \A c \in Counters : count[c] > Limit(c) ~> count[c] = 0

\* "1000 events per minute per org", "100 events per minute per API key"
\* (ingestion_service.py:15-16): no window queues more events than that.
EventsPerMinute == \A c \in Counters : sent[c] <= Limit(c)
============================================================================
