# Formal models of the Wexa analytics platform

TLA+ models of the server in `src/backend`, the TLC runs that check them, and
TLAPS proofs about them. Paths below without a prefix are relative to
`src/backend/app`.

## 1. Inventory

The server is a FastAPI application over PostgreSQL and Redis, with Celery
workers for ingestion and a Next.js client. Every HTTP request is a coroutine
with a database session of its own (`core/database.py:22-29`); requests of one
process interleave at every `await`, and several processes run. Nothing in the
code locks a row it reads: `SELECT ... FOR UPDATE` does not occur. What keeps
concurrent requests apart is the unique constraints of the tables, the row lock
an `UPDATE` takes until its commit, and Redis executing one command at a time.

| component | state | operations | interacts with |
|---|---|---|---|
| Tenancy (`services/auth_service.py`, `services/organization_service.py`) | tables users, organizations, memberships, invites | signup, invite, accept, remove member, change role, rename | role gate of every route (`core/dependencies.py:62-120`); inserts refresh tokens; sends e-mail after commit |
| Sessions (`auth_service.py:117-250`) | table refresh_tokens, the browser's cookie | login, refresh (rotation), logout | reads memberships; called by the browser session |
| Browser session (`frontend/src/lib/api.ts`, `store/authStore.ts`) | access token in localStorage, cookie, one promise per tab | 401 interceptor, refresh, retry, clearAuth | sessions |
| API keys (`services/api_key_service.py`) | table api_keys | create, revoke, rotate, authenticate | ingestion routes |
| Rate limiter (`services/ingestion_service.py:15-24`) | two Redis counters per request | INCR, EXPIRE, compare | before every queued event, batch or webhook |
| Ingestion workers (`workers/tasks/ingestion_tasks.py`) | Celery queue, table events, temporary CSV files | three tasks with retries | fed by the ingestion routes, read by the query engine |
| Saved queries, dashboards, widgets, sharing (`services/dashboard_service.py:133-436`) | three tables with soft deletion, share token | CRUD, share, unshare, templates | query engine, public share route |
| Query engine and cache (`dashboard_service.py:46-128`) | Redis entries of five minutes | read cache, compute, fill | events, saved queries |
| Alerts, reports, token cleanup | none | the tasks are stubs that log a line | beat schedule |
| Plumbing (middleware, health, config, security), migrations, seed scripts, pages | none, or run once | | |

What is hard about each, and what makes it correct:

* **Tenancy.** Every rule is a check followed by a write: no invite pending, no
  membership elsewhere, not an owner, not an admin. Requests overlap between
  the two, fail between flushes, and the only constraints behind the checks are
  on `users.email`, `organizations.slug` and the pair of a membership. Correct
  means: every organization has exactly one active owner, for ever; an owner is
  active nowhere else; no account without a membership is left behind; nobody
  becomes a member without an invite; an account is in one organization; one
  invite is pending per address; admins do not touch admins. The first four
  have to survive every interleaving and do. The last three do not.
* **Sessions.** Rotation revokes one row and inserts another; two refreshes can
  read the same live row; a refresh can fail after it has flushed the
  revocation. Correct means: what was traded is dead, no token is spent for
  nothing, and one token cannot be turned into arbitrarily many.
* **Rate limiter.** The counter and its time to live are two round trips; the
  window can end between any two steps; a process can die between them. Correct
  means: a window ends sixty seconds after it begins and lets through what the
  limit says, up to the requests that straddle its boundary; and a limit that
  was hit is lifted.
* **API keys.** Admins and ingestion requests work on one row. A request that
  looked a key up alive may find it revoked, or rotated, when it writes
  `last_used_at`, and two rotations overlap. Correct means: a dead key never
  works again, whatever stale request still writes to it; no successor lives
  beside the key it replaced; and once a use is recorded, the key cannot die
  under the request.
* **Ingestion workers.** Tasks are acknowledged when they start, retried without
  an idempotency key, delivered again after the visibility timeout, and share a
  file with the request that queued them. Correct means: what is stored twice,
  not at all, or left on the disk is owed to a fault one can name, and what was
  accepted is dealt with in the end.
* **Dashboards.** Two columns of a row, the link and `is_public`, are written
  one by one and only if they differ from what the request has read; the
  references of a widget are checked in one statement and written in another.
  Correct means: a dashboard has a link while it is public and only then, a
  withdrawn link never works again, one that works goes on working, and no
  widget asks a query of another organization.
* **Query engine.** A slow view leaves an old answer in the cache after the
  events have changed; nothing invalidates an entry but its five minutes; four
  counts are four statements. Correct means: answers stay in their organization,
  shorter periods never show more than longer ones, and what is stored is shown
  in the end.
* **Browser.** Several tabs share one cookie and each has a promise of its own
  that makes concurrent refreshes one; requests and replies get lost or overtake
  each other. Correct means: a tab never logs itself out, a spent cookie is kept
  only until the reply that replaces it comes or is lost, and nobody waits for
  a refresh that is not there.

`PROJECT.json` lists the hazards one by one with their lines, the properties
that cover them, and a note where nothing covers them.

## 2. Modules

| module | what it is |
|---|---|
| `OrgRegistry` | abstract specification: organizations are registered with an owner, once and for all, and nobody owns two |
| `Tenancy` | signup, invite, accept, remove and role change, statement by statement |
| `MCTenancy` | its constants for TLC |
| `TenancyProofs` | type correctness, the invariants, the refinement of `OrgRegistry`, and how far overlapping requests can break the check-then-write policies, for all constants |
| `RefreshTokens`, `MCRefreshTokens`, `RefreshTokensProofs` | refresh tokens in the same style |
| `RateLimiter`, `MCRateLimiter`, `RateLimiterProofs` | the limiter's Redis protocol |
| `ApiKeys`, `ApiKeysProofs` | create, revoke, rotate and use of keys |
| `EventLog` | abstract specification: a submission's events are stored while it is open and never after, and it is closed in the end |
| `Ingestion`, `MCIngestion`, `IngestionProofs` | extends `ApiKeys`: routes, queue, workers, files; shown to implement `EventLog` |
| `Dashboards`, `DashboardsProofs` | dashboards, widgets, saved queries, share links |
| `QueryEngine`, `MCQueryEngine`, `QueryEngineProofs` | extends `Dashboards`: views through the cache, and counts |
| `Browser`, `MCBrowser`, `BrowserProofs` | extends `RefreshTokens`: the tabs of one browser in front of it |

Three modules extend the one they build on and keep its variables: their
actions are actions of that module, or leave its variables alone. That this is
so is a theorem each (`IngestionUsesKeys`, `EngineUsesDashboards`,
`BrowserUsesSessions`), and with it all that is proved of the parts holds in the
whole.

### How a request becomes actions

A request is a record in `req` that says at which statement it stands
(`[at |-> "accept.elsewhere", ...]`) and carries the arguments and the values
read that are used again. Every `SELECT` is one action that sees what is
committed at that moment, which is PostgreSQL's READ COMMITTED. Everything the
request writes takes effect in its last action, the commit. This is sound for
this code because

* a request never reads rows it has itself flushed, except the new user's, whose
  memberships cannot exist yet (`auth_service.py:331-350` after line 328); that
  path is the step `accept.newcomer`;
* uncommitted rows are invisible to others; all they do is make a conflicting
  insert wait, and the waiting insert fails or succeeds when the first commits
  or rolls back, so a unique constraint can be a conjunct of the commit;
* an `UPDATE` of a loaded object is by primary key and carries the columns that
  changed, so it overwrites whatever another request has committed there and
  nothing else. `AcceptUndelete` is separate from `AcceptRestore` for that
  reason: when the role read equals the invite's, the role column is not sent.

`Fail` is the rollback of `get_db`: a check that raises, a violated constraint,
a crash. It is possible at every step. A failing check is not an action of its
own, because all it does is that rollback.

### Tenancy

`users`, `orgs`, `member` and `invite` are the four tables: an account is its
address, an organization its slug (both columns are unique), a membership is
keyed by the pair its unique constraint names and has a role and `deleted_at IS
NULL` as `active`. `Signup`, `Inviting`, `Accepting` and `Managing` hold the
handlers' steps. An invite's seven days have no state: when they are over an accept
is refused, and nobody is obliged to accept before, so an expired invite is one that
is never accepted any more; it goes on counting as pending, as in
`organization_service.py:78-86`. The role gate
(`Admins`) is evaluated when the handler starts, because the dependency reads
the membership before the handler does; the role is carried along as `by`. The
model leaves out passwords (a wrong one is a failure), names, e-mail, access
tokens, and `update_org`, which changes a name.

### RefreshTokens

`token` is the table, with the parent a row was traded for as a history field;
`placed` is the set of users with a membership that login and refresh look for.
`Joined` is the commit of a signup or an accept, which inserts a token with the
membership; `Removed` the loss of the last membership. Rows expire at any time.
An access token is a signed value and no state of the server.

### RateLimiter

`count` and `armed` are a Redis counter and whether it has a time to live,
`sent` the events queued since it last expired, a history variable. A request
runs INCR, EXPIRE if the count is one, and the comparison, first on its
organization's counter and then on its key's; `Queue` hands it to Celery.
Redis' expiry may happen at any moment after EXPIRE: time is not modelled, so
whatever holds here holds for any speed of the requests.

### ApiKeys and Ingestion

`key` is the table api_keys: `is_active`, `deleted_at IS NOT NULL`, and the key a
row was rotated from, a history field. An ingestion request looks its key up,
flushes `last_used_at`, and commits only after it has queued its events, so
between `RecordUse` and `UseCommit` the row lock keeps revocations and rotations
of the key waiting (`Locked`); this is the one place where a lock decides more
than which of two conflicting inserts loses. `live` remembers whether the key
could be used at the moment its use was recorded: a key revoked between the
lookup and that moment still lets its request through, and nothing says it
should not.

A submission (`Subs`) is one call of an ingestion route. `what` is what was sent
(for an upload, whether its rows are good, or all blank, or one of them shorter
than the header), `job` where each delivery of its task stands and how often it
was tried, `file` the temporary file, `rows` how often its events were
committed: they are one transaction, so a count is all there is to know.
`mishap` counts what went wrong, so that properties can say what a loss or a
copy is owed to:

| fault | action |
|---|---|
| the database refuses the commit | `StoreRefused` |
| the commit happens and raises all the same | `StoreEchoes` |
| the broker delivers a message once more because nobody started it within the visibility timeout | `Redeliver` |
| a worker dies with a task it has taken off the queue (no `acks_late`) | `Die` |
| `.delay` raises, or the API dies, after the file is written | `PublishFails` |
| the file cannot be written; cannot be removed | `WriteFails`, `RemoveFails` |

`Publish` is `UseQueued` of `ApiKeys` and the first delivery in one step; the
limiter in front of it is `RateLimiter`, whose refusal is a `Fail` here.
`Refuse` is shared by the two ways an upload is not accepted. A retry counts in
`tries` and keeps the file; after the last one the task is `dropped`.

`SharedDisk` says whether the workers see the API's temporary directory. They do
when both run on one machine. `render.yaml:2` and `render.yaml:27` deploy them as
two services with a disk each; then no upload can be read, each is tried
`MaxRetries` more times and dropped, and its file stays with the API, although
`README.md:131` of the repository promises that it is processed. The theorems
cover both values: `StoredUnlessBroken` names the disk as a reason.

`EventLog` knows three sets. The mapping takes a submission to *accepted* when
its first delivery exists, *stored* when `rows` is positive, *closed* when none
of its deliveries can move any more. A copy of an event is a stutter of
`EventLog`, which is why `CopiesAreEchoes` is stated beside it.

### Dashboards and QueryEngine

The three tables are sequences and an id is a row's number, since rows are never
removed. `saw` is the row as the request has read it: SQLAlchemy sends the
columns whose value differs from the one loaded, so `Column(value, from, to)`
changes a column only then. Links are numbered in the order they are made, which
is all that matters of `secrets.token_urlsafe`; `issued` is that number. Only
`widget.query` and `widget.board` are kept of a widget, and of a saved query what
it asks. A template's widgets come in one transaction and one of them stands for
all. `get_widget` looks at the widget's own `deleted_at` and not the dashboard's,
and so does the model.

A view reads the saved query of a widget, asks the cache, computes, and leaves
its answer there for `TTL` ticks. It may miss an entry that is there, because the
code swallows every error of Redis. The key has the organization and the
question, including the time range; an answer is the number of events it was
computed from. `Arrive` is the workers' store, `Tick` is time. `/stats` counts
four periods one after the other, each containing the one before; an event is
counted in the narrowest period its timestamp falls in and in all that contain
it. Events that fall in none (before 2000, or after tomorrow) are left out.

The repository's `README.md:111` says that the cache is keyed by the query's id
and invalidated when a widget is updated. The code keys it by what the query
asks (`dashboard_service.py:54`), so an edit is a new key, and invalidates
nothing. The model is of the code; `EventsAreShown` is what it does guarantee.

### Browser

`cookie` is the refresh token the browser holds, `call` where each call to the
API stands, `fly` the refresh a call has sent, from request to reply; `lost` and
`dealt` are history: the successors whose reply never came, and the tab each was
dealt to. `Intercept` is the 401 interceptor: the first call of a tab to be
answered 401 sends the refresh, the others wait for its promise. `Serve`,
`Check`, `Trade` and `Break` are the server's steps of `RefreshTokens` for that
request; `Refuse` is the answer to a token that is revoked. `Arrive` sets the
cookie and sends the tab's calls again, `Bounce` is `clearAuth` with a new page.

Left out: the access token, so whether a call is answered 401 is left open (it
may have expired at any time); for the same reason tokens do not expire and
memberships are not removed in `BrowserNext`: the server's failure, whatever its
reason, is `Break`. The logout button only clears the access token.

## 3. Runs

| run | bounds | shows |
|---|---|---|
| `tenancy_overlap` | 3 addresses, 2 slugs of one name, 2 invites, 2 requests | what holds in every interleaving, the refinement of `OrgRegistry`, and what overtakes the rank rules |
| `one_account_overlap` | the same, 1 address invited, as a viewer | violation: one account active in two organizations |
| `pending_invite_overlap` | the same, 1 address invited, as a viewer | violation: two pending invites |
| `admins_overlap` | as `tenancy_overlap` | violation: an admin removes an admin |
| `refresh_tokens` | 1 user, 4 tokens, 2 requests | rotation under overlap, failure, expiry and loss of membership |
| `rate_limiter` | limits 2 and 1, 2 keys, 2 requests, counters up to 4, one request may die | windows are not extended and bounded |
| `rate_limiter_live` | 1 key, counters up to 3, nobody dies | counters get a time to live and limits are lifted |
| `limiter_death` | as `rate_limiter`, with fairness | violation: a limit that is never lifted |
| `limiter_batch` | batches of 1 and 2 | violation: more events per window than the limit |
| `ingestion` | 1 submission, 2 keys, 2 requests, 1 retry, 2 deliveries, 2 mishaps, one disk | keys under overlap; what is stored how often, lost or left behind, and why; the refinement of `EventLog` with its liveness |
| `dashboards` | 2 organizations, 2 questions, 2 requests, 3 links, 2 views, 4 periods, 1 event, entries of 2 ticks; five mixes | links, isolation of organizations, nested counts, and that events are shown |
| `browser` | 3 calls, 2 tabs, 4 tokens | why tabs are logged out, and when the cookie is spent |

**Why the bounds are enough.** Every race of this code is between two requests:
one reads, the other commits, the first writes. Two requests interleave in all
ways, and since a request that ends is idle again, a run of any length is a
sequence of such overlaps. The two slugs come from one name, so the slug loop
and the slug conflict both happen; one address founds and is invited, one only
founds, one only is invited, so every branch of accept is taken, including a
membership restored and an owner invited elsewhere. Four tokens allow a token
to be traded twice and a successor once more. A counter goes two past the larger
limit, so both refusals happen, at either counter, with one request still in
flight when the window ends.

Submissions do not touch each other (each has its own file, rows and messages),
so one is enough; two mishaps let any two faults follow each other, and one
retry has both a first and a last attempt. Of the tables of `Dashboards` not
everything need meet in one behaviour: a *mix* (`MCQueryEngine`) names the
operations, the rows of each table and the periods in which events arrive.
*Sharing* has two requests on one dashboard's link, which can be made three
times; *Placing* two organizations' queries and a widget; *Viewing* and
*Editing* views of two organizations' widgets, and of one whose query changes;
*Counting* two counts while events arrive in any period. A mix may run out of
rows, and then nothing is left to do: that is why this run does not check for
deadlock. In `browser`, two calls of one tab share a refresh while the other tab
sends its own.

TLC's coverage shows every action taken. `MaxCount`, `InviteIds`, `Tokens`,
`MaxSuffix`, `KeyIds`, `MaxDeliveries`, `MaxMishaps`, `MaxLinks`,
`MaxEvents` and `Mixes` only cut runs short; the theorems below hold for all
their values, and so they do for any number of submissions, calls, tabs and
views.

**Fairness.** `RateLimiter`: the event loop resumes a request whose Redis reply
has arrived, and Redis expires a key with a time to live (`WF` of `Handle` and
`Expire`). `Ingestion`: some worker is always up and takes what is on the queue
(`WF` of `Work`, all tasks together). `QueryEngine`: every view is answered or
gives up (`WF` of `Answer(v)`), and time passes (`WF` of `Tick`). Nothing is fair
about a request arriving, an event, a fault or a death. A request in `Mortal` is
not obliged to die, so the run `limiter_death` shows what one death can do.

**Disagreements found.** Five are shown by runs and listed in `findings`: an account in two
organizations, two pending invites for one address, and an admin who removes an
admin (each needs two overlapping requests), a rate limit that is never lifted
after a death between INCR and EXPIRE although the error says "Retry after 60
seconds", and batches counted as one event. In the first, one of the two accepts
restores the account's soft-deleted row and the other inserts one; in the third, a
promotion commits between `remove_member`'s read and its commit. How far the
first three and the fifth can go is proved in section 4. Two more were met on the
way and are described above: uploads that cannot be read where the workers have
a disk of their own, and the cache that is said to be invalidated.

## 4. Proofs

All proofs are of the specifications as they stand, for every value of the
constants; the assumptions are the `ASSUME`s of the modules: invitees and
founders are addresses, `SlugOf` maps into the slugs, a requested role is not
owner (the pattern of the request schemas), the set of requests is finite, no
key is its organization's counter, "no key" and "no token" are none, and the
numeric bounds are numbers.

* **TenancyProofs.** The inductive invariant `IInv` is the conjunction of
  `TypeOK`, `EveryAccountWasPlaced`, `OneOwnerPerOrg`,
  `OwnersBelongNowhereElse` and `ReadsStayTrue`. The last is what makes the
  others inductive: it records what each pending request may still rely on. The
  heart of it is that an owner is placed in his organization from the commit
  that created his account on, so the test for a membership elsewhere, which is
  racy for ordinary members, cannot miss an owner: the row it has to see was
  there before the account could be read. `TablesGrow` records what no step ever
  does (rows vanish, an owner's row appear) and is proved with `IInv` step by
  step; the refinement mapping sends an organization to its owner, and
  `TenancyImplementsOrgRegistry` follows: `SignupCommit` is `Register`, every
  other step a stutter.
  `MembersWereInvited` rests on `IInv` alone: an accept grants what its invite
  says because its invite is still there.
  The policies that overlapping requests break are broken only so far. `Reach` of
  an account is the organizations it is active in and those that accepts which
  are past the check will put it in. Whoever passes the check finds the account
  active nowhere else, so from then on all it can reach is what requests hold, one
  organization each: `OrgsPerAccount` says that an account is active in no more
  organizations than there are requests. Invitations past their check are counted
  together with the invites that wait, in the manner of `SuccessorsBounded`, which
  gives `InvitesPerAddress`. With
  `Cardinality(Requests) <= 1` these are `OneOrgOneAtATime` and
  `OneInviteOneAtATime`; `one_account_overlap` and `pending_invite_overlap` show
  that the hypothesis is needed.
  The rank rules too can be outrun, as `admins_overlap` shows, but by one thing:
  `RanksYieldToPromotions` says that what an admin's removal or role change has read
  of its target goes on to hold (`RankHolds`) until another request commits that
  member's promotion. It rests on what `ReadsStayTrue` knows of a pending commit (the
  row is there and is not an owner's) and on `OnlyPromotionsPromote`, which goes
  through the commits that write a role.
* **RefreshTokensProofs.** `SuccessorsBounded` needs a counting argument: a
  token's successors and the requests that hold it are together no more than the
  requests there are, since nobody can begin to hold a token that was traded,
  and each trade turns a holder into a successor. `TokensAreTraded` goes through
  the actions one by one.
* **RateLimiterProofs.** `WindowIsNotExtended` needs that one request at most is
  about to arm a counter and that an armed counter exists. What a window queues is
  again counted: requests queued and requests that have passed the counter and not
  queued yet are no more than the counts that were within the limit and the
  requests left from the window before (`Spare` is what remains). With at most `E`
  events in a request that gives `EventsAreBounded`, `E` times the limit and the
  requests in flight, which says how far batches go beyond "events per minute";
  `QueuedPerWindow` is the case of single events. `UnarmedIsBeingArmed` is proved
  for `Mortal = {}`.
* **ApiKeysProofs.** Every step has one shape: the table grows, dead rows stay
  dead, rows whose use is recorded are untouched, and who gets a parent finds it
  dead. The invariant `KInv` (types, parents are rows, requests name rows, and the
  two properties) follows from the shape. `RotationsStayFew` counts as
  `SuccessorsBounded` does: a key with a successor is deleted, so nobody begins to
  rotate it any more, and each rotation turns a request into a successor.
* **IngestionProofs.** All but the keys' steps touch one submission, so `PInv` is
  an invariant of each: `Opens` (nothing is known of it before it is submitted, and
  what was refused is never delivered), `Copies` (commits and deliveries that may still commit are together at
  most one more than the echoes), `Holds` (while a delivery may need the file it
  is there), `Ends` (a delivery that is over stored its rows or is accounted for)
  and `Costs` (a delivery's failed attempts were refused, echoed or unreadable).
  The deliveries cannot be counted apart from the commits: that is why `Copies`
  is about their sum. `IngestionImplementsEventLog` is the safety half of the
  refinement.
* **DashboardsProofs.** `DInv` adds to the tables (`TablesOK`) what each request
  has read (`RequestsFit`): the row it saw had its two link columns in agreement,
  so the row it writes column by column has too, whatever came between; the
  query it has checked belongs to the organization, and rows never change theirs
  (`TablesEvolve`). `LinksLast` goes through the steps that touch a dashboard's row
  (`RowsKept`); of these an enabling is harmless if it read the row with a link,
  because then neither column differs and nothing is sent (`ShareAgainKeeps`).
* **QueryEngineProofs.** `EInv`: a view asks what belongs to its organization, and
  an entry is filed under the question it answers. `DInv` carries over. `TInv` adds
  what nested counts rest on: events only grow and are nested at every moment, so a
  count that was taken is no more than what its period contains now, and the next,
  wider one is no less. For the same reason no entry and no pending fill is ahead
  of what is stored (`Behind`), and since a view meets only entries of its own
  organization, `AnswersAreOfThePast`: what it shows was stored there.
* **BrowserProofs.** The heart of `BInv` is `Ahead`: whatever the cookie has been
  traded for is lost, or is the reply on its way to the tab it was dealt to. A tab
  with such a reply coming sends no refresh, because it has one flight at a time
  (`Waits`); so the token a tab sends was traded, if at all, for another tab or
  for a lost reply (`Own`), and that is what `NoTabLogsItselfOut` says once it is
  refused. That a reply is always of a token nobody else has (`RepliesFresh`) and
  that a revoked token was traded (`Traded`) need `Linked` of
  `RefreshTokensProofs`, which holds here by `BrowserUsesSessions`; so do the
  properties proved there (`SessionsStayTrue`).

Every safety property of the passing runs is a theorem. Only model-checked are
the liveness properties `LimitIsLifted`, `EventsAreShown` and the `Closes` half
of `EventLogSpec`: liveness under fairness and `ENABLED` are beyond the prover.

## 5. Not modelled, and plan

* `update_org` changes a name that nothing depends on; alert and report tasks
  are stubs that log a line; e-mail is sent after the commit and its failure is
  swallowed; middleware, health, configuration and hashing keep no state;
  migrations and scripts are run by an operator; pages show what the server
  answers.
* Passwords, access tokens and the browser's access token: signed values that
  expire, with no state of the server behind them. The logout button forgets
  that token and does not call the server.
* What an event, an answer or a widget contains: aggregation, filters and column
  mappings change no control.

What would come next: the deployment with separate disks as a run of its own,
beside the disagreements above; abstract
specifications of the share links and of a key's life, and the refinements
proved; and the limiter composed with `Ingestion`, which so far meets it as a
request that fails.
