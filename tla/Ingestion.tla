----------------------------- MODULE Ingestion -----------------------------
(***************************************************************************)
(* From the ingestion routes through the Celery queue to the table events. *)
(* A submission is one call: an event, a webhook or a batch, sent under an *)
(* API key, or a CSV upload, which an analyst sends and which reaches the  *)
(* worker as the path of a temporary file.  Its events are stored in one   *)
(* transaction, so `rows' counts how often that transaction was committed. *)
(* Celery takes a task off the queue when it starts (no acks_late), so a   *)
(* worker that dies loses it, and delivers a message a second time if no   *)
(* worker has started it within the visibility timeout.                    *)
(***************************************************************************)
EXTENDS ApiKeys

CONSTANTS Subs,           \* bound: the submissions there can ever be
          SharedDisk,     \* do the workers see the API's temporary files?
          MaxRetries,     \* of a task
          MaxDeliveries,  \* bound: deliveries of one message
          MaxMishaps      \* bound: what goes wrong with one submission

ASSUME BoundsAssumption ==
  /\ MaxRetries \in Nat /\ MaxDeliveries \in Nat \ {0} /\ MaxMishaps \in Nat
  /\ SharedDisk \in BOOLEAN /\ IsFiniteSet(Subs)

VARIABLES what,    \* what was submitted
          job,     \* by submission and delivery: where the task stands
          file,    \* the temporary file of an upload
          rows,    \* how often the submission's events were stored
          mishap   \* history: what went wrong with it, counted

pipeVars == <<what, job, file, rows, mishap>>
vars == <<key, req, what, job, file, rows, mishap>>

Nothing == [kind |-> "none"]
Contents == {"rows", "blank", "short"}  \* good rows; none; one shorter than the header
Events == [kind : {"events"}]
Upload == [kind : {"csv"}, content : Contents]

Deliveries == 1..MaxDeliveries
Task == [at : {"none", "refused", "queued", "ready", "stored", "failed", "done",
               "dropped", "lost"},
         tries : 0..MaxRetries]
Tally == [refused : 0..MaxMishaps, echoed : 0..MaxMishaps, broke : 0..MaxMishaps]

\* The variables have their shape.
TypeOK ==
  /\ KeysTypeOK
  /\ what \in [Subs -> {Nothing} \union Events \union Upload]
  /\ job \in [Subs -> [Deliveries -> Task]]
  /\ file \in [Subs -> {"none", "there", "gone"}]
  /\ rows \in [Subs -> Nat]
  /\ mishap \in [Subs -> Tally]

Init ==
  /\ KeysInit
  /\ what = [s \in Subs |-> Nothing]
  /\ job = [s \in Subs |-> [d \in Deliveries |-> [at |-> "none", tries |-> 0]]]
  /\ file = [s \in Subs |-> "none"]
  /\ rows = [s \in Subs |-> 0]
  /\ mishap = [s \in Subs |-> [refused |-> 0, echoed |-> 0, broke |-> 0]]

----------------------------------------------------------------------------
At(s, d, at) == job[s][d].at = at
Move(s, d, at) == job' = [job EXCEPT ![s][d].at = at]
Csv(s) == what[s].kind = "csv"

Blame(s, m) ==
  /\ mishap[s].refused + mishap[s].echoed + mishap[s].broke < MaxMishaps
  /\ mishap' = [mishap EXCEPT ![s][m] = @ + 1]

\* An event, webhook or batch past the limiter is handed to Celery while its
\* transaction is still open.
Publish(r) == \E s \in Subs :
  /\ UseQueued(r)
  /\ what[s] = Nothing
  /\ what' = [what EXCEPT ![s] = [kind |-> "events"]]
  /\ Move(s, 1, "queued")
  /\ UNCHANGED <<file, rows, mishap>>

\* An upload, which nobody else sees before it is queued: its temporary file is
\* made and written and the path handed to Celery; ...
QueueUpload(s) == \E c \in Contents :
  /\ what[s] = Nothing
  /\ what' = [what EXCEPT ![s] = [kind |-> "csv", content |-> c]]
  /\ file' = [file EXCEPT ![s] = "there"]
  /\ Move(s, 1, "queued")
  /\ UNCHANGED <<keyVars, rows, mishap>>

Refuse(s, then) == \E c \in Contents :
  /\ what[s] = Nothing
  /\ what' = [what EXCEPT ![s] = [kind |-> "csv", content |-> c]]
  /\ file' = [file EXCEPT ![s] = then]
  /\ Move(s, 1, "refused")

\* ... an error in writing removes the file again; nothing does if `.delay'
\* raises, or the process dies or the request is cancelled before it.
WriteFails(s) == Refuse(s, "gone") /\ UNCHANGED <<keyVars, rows, mishap>>
PublishFails(s) == Blame(s, "broke") /\ Refuse(s, "there") /\ UNCHANGED <<keyVars, rows>>

----------------------------------------------------------------------------
RedeliverUnacked(s, d) ==   \* mutant: a message that was taken is still on the queue
  /\ job[s][d].at # "none" /\ d + 1 \in Deliveries
  /\ At(s, d + 1, "none") /\ Blame(s, "echoed")
  /\ job' = [job EXCEPT ![s][d + 1] = [@ EXCEPT !.at = "queued"]]
  /\ UNCHANGED <<keyVars, what, file, rows>>

\* A message held too long without being started is delivered once more.
Redeliver(s, d) ==
  /\ At(s, d, "queued") /\ d + 1 \in Deliveries
  /\ At(s, d + 1, "none") /\ Blame(s, "echoed")
  /\ job' = [job EXCEPT ![s][d + 1] = job[s][d]]
  /\ UNCHANGED <<keyVars, what, file, rows>>

Readable(s) ==
  Csv(s) => SharedDisk /\ file[s] = "there" /\ what[s].content # "short"

StartEatsFile(s, d) ==   \* mutant: the file is removed as soon as it is read
  /\ At(s, d, "queued")
  /\ Move(s, d, IF Readable(s) THEN "ready" ELSE "failed")
  /\ file' = [file EXCEPT ![s] = IF @ = "there" THEN "gone" ELSE @]
  /\ UNCHANGED <<keyVars, what, rows, mishap>>

\* A worker takes the task, and it is off the queue.  An upload is parsed from
\* beginning to end before anything is stored: a file that is gone and a row that
\* is too short (`.strip()' of None) raise.
Start(s, d) ==
  /\ At(s, d, "queued")
  /\ Move(s, d, IF Readable(s) THEN "ready" ELSE "failed")
  /\ UNCHANGED <<keyVars, what, file, rows, mishap>>

SkipKeepsFile(s, d) ==   \* mutant: an upload without a good row returns early
  /\ At(s, d, "ready") /\ Csv(s) /\ what[s].content = "blank"
  /\ Move(s, d, "done")
  /\ UNCHANGED <<keyVars, what, file, rows, mishap>>

\* An upload without a good row stores nothing.
Skip(s, d) ==
  /\ At(s, d, "ready") /\ Csv(s) /\ what[s].content = "blank"
  /\ Move(s, d, "stored")
  /\ UNCHANGED <<keyVars, what, file, rows, mishap>>

ToStore(s, d) == At(s, d, "ready") /\ (Csv(s) => what[s].content # "blank")

\* _store_events, which commits; or is refused; or commits and raises all the
\* same, because the reply is lost or the engine's dispose fails.
Store(s, d) ==
  /\ ToStore(s, d)
  /\ rows' = [rows EXCEPT ![s] = @ + 1]
  /\ Move(s, d, IF Csv(s) THEN "stored" ELSE "done")
  /\ UNCHANGED <<keyVars, what, file, mishap>>

StoreRefused(s, d) ==
  /\ ToStore(s, d) /\ Blame(s, "refused")
  /\ Move(s, d, "failed")
  /\ UNCHANGED <<keyVars, what, file, rows>>

StoreEchoes(s, d) ==
  /\ ToStore(s, d) /\ Blame(s, "echoed")
  /\ rows' = [rows EXCEPT ![s] = @ + 1]
  /\ Move(s, d, "failed")
  /\ UNCHANGED <<keyVars, what, file>>

\* The file goes last; an error in that is swallowed.
Remove(s, d) ==
  /\ At(s, d, "stored")
  /\ file' = [file EXCEPT ![s] = "gone"]
  /\ Move(s, d, "done")
  /\ UNCHANGED <<keyVars, what, rows, mishap>>

RemoveFails(s, d) ==
  /\ At(s, d, "stored") /\ Blame(s, "broke")
  /\ Move(s, d, "done")
  /\ UNCHANGED <<keyVars, what, file, rows>>

RetryOnceMore(s, d) ==   \* mutant: one retry too many
  /\ At(s, d, "failed")
  /\ IF job[s][d].tries <= MaxRetries
     THEN job' = [job EXCEPT ![s][d] = [at |-> "queued", tries |-> @.tries + 1]]
     ELSE Move(s, d, "dropped")
  /\ UNCHANGED <<keyVars, what, file, rows, mishap>>

RetryOnceLess(s, d) ==   \* mutant: one retry too few
  /\ At(s, d, "failed")
  /\ IF job[s][d].tries + 1 < MaxRetries
     THEN job' = [job EXCEPT ![s][d] = [at |-> "queued", tries |-> @.tries + 1]]
     ELSE Move(s, d, "dropped")
  /\ UNCHANGED <<keyVars, what, file, rows, mishap>>

\* autoretry_for: a task that raised goes back to the queue until its retries
\* are used up.
Retry(s, d) ==
  /\ At(s, d, "failed")
  /\ IF job[s][d].tries < MaxRetries
     THEN job' = [job EXCEPT ![s][d] = [at |-> "queued", tries |-> @.tries + 1]]
     ELSE Move(s, d, "dropped")
  /\ UNCHANGED <<keyVars, what, file, rows, mishap>>

DieLateAck(s, d) ==   \* mutant: a task is acknowledged when it is over
  /\ job[s][d].at \in {"ready", "stored", "failed"} /\ Blame(s, "broke")
  /\ Move(s, d, "queued")
  /\ UNCHANGED <<keyVars, what, file, rows>>

\* A worker dies with the task it runs.
Die(s, d) ==
  /\ job[s][d].at \in {"ready", "stored", "failed"} /\ Blame(s, "broke")
  /\ Move(s, d, "lost")
  /\ UNCHANGED <<keyVars, what, file, rows>>

----------------------------------------------------------------------------
Work(s, d) ==
  \/ Start(s, d) \/ Skip(s, d) \/ Retry(s, d)
  \/ Store(s, d) \/ StoreRefused(s, d) \/ StoreEchoes(s, d)
  \/ Remove(s, d) \/ RemoveFails(s, d)

Submit(s) == QueueUpload(s) \/ WriteFails(s) \/ PublishFails(s)

Next ==
  \/ KeysAdmin /\ UNCHANGED pipeVars
  \/ \E r \in Requests : Publish(r)
  \/ \E s \in Subs : Submit(s)
  \/ \E s \in Subs, d \in Deliveries : Work(s, d) \/ Redeliver(s, d) \/ Die(s, d)

\* Some worker is always up and works.
Fairness == WF_vars(\E s \in Subs, d \in Deliveries : Work(s, d))

Spec == Init /\ [][Next]_vars /\ Fairness

----------------------------------------------------------------------------
\* A submission is stored once, and once more only for a commit whose reply was
\* lost or a message delivered twice: a retry after a commit that was refused, a
\* file that was gone or a worker that died duplicates nothing
\* (ingestion_tasks.py:64, 81, 111, 166).
CopiesAreEchoes == \A s \in Subs : rows[s] <= 1 + mishap[s].echoed

\* Nobody removes an upload's file before its rows are stored, so each retry
\* finds it, and a task delivered twice finds it or is not needed
\* (ingestion_tasks.py:165-172, ingestion.py:116-119).
FileOutlivesItsUse == \A s \in Subs : file[s] = "gone" =>
  rows[s] > 0 \/ what[s].content = "blank" \/ At(s, 1, "refused")

----------------------------------------------------------------------------
Accepted == {s \in Subs : job[s][1].at \notin {"none", "refused"}}
Over(s) == \A d \in Deliveries : job[s][d].at \in {"none", "done", "dropped", "lost"}

Stored == {s \in Accepted : rows[s] > 0}
Closed == {s \in Accepted : Over(s)}

Log == INSTANCE EventLog WITH accepted <- Accepted, stored <- Stored, closed <- Closed

\* What was answered with 202 is dealt with in the end, whatever fails on the way,
\* and what was given up is not stored later (ingestion_tasks.py:60-184).
EventLogSpec == Log!Spec

\* A task that is over has stored its rows if they could be read, unless a worker
\* died or the database refused more commits than there are retries: four
\* attempts make up for three failures (ingestion_tasks.py:62-64).
StoredUnlessBroken == \A s \in Accepted : Over(s) =>
  \/ rows[s] > 0 \/ mishap[s].broke > 0 \/ mishap[s].refused > MaxRetries
  \/ Csv(s) /\ (what[s].content # "rows" \/ ~SharedDisk)

\* A temporary file that outlives its task is owed to a process that died, to a
\* removal that failed, or to a task that raised on every attempt
\* (ingestion_tasks.py:169-172, ingestion.py:116-121).
FilesAreRemoved == \A s \in Subs : file[s] = "there" /\ (s \in Accepted => Over(s)) =>
  mishap[s].broke > 0 \/ \E d \in Deliveries : At(s, d, "dropped")
============================================================================
