------------------------------ MODULE EventLog ------------------------------
(***************************************************************************)
(* What ingestion promises about a submission (an event, a batch, an       *)
(* upload) that was answered with 202: its events may be stored while the  *)
(* submission is open and never after, and it does not stay open for ever. *)
(***************************************************************************)
CONSTANT Subs  \* submissions

VARIABLES accepted,  \* answered with 202
          stored,    \* events in the table
          closed     \* nothing is going to happen to it any more

logVars == <<accepted, stored, closed>>

Init == accepted = {} /\ stored = {} /\ closed = {}

Accept(s) ==
  /\ s \notin accepted
  /\ accepted' = accepted \union {s}
  /\ UNCHANGED <<stored, closed>>

Store(s) ==
  /\ s \in accepted \ closed
  /\ stored' = stored \union {s}
  /\ closed' \in {closed, closed \union {s}}
  /\ UNCHANGED accepted

Close(s) ==
  /\ s \in accepted
  /\ closed' = closed \union {s}
  /\ UNCHANGED <<accepted, stored>>

Next == \E s \in Subs : Accept(s) \/ Store(s) \/ Close(s)

Safety == Init /\ [][Next]_logVars
Closes == \A s \in Subs : s \in accepted ~> s \in closed
Spec == Safety /\ Closes
============================================================================
