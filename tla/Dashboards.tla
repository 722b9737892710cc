----------------------------- MODULE Dashboards -----------------------------
(***************************************************************************)
(* The tables dashboards, saved_queries and widgets of all organizations,  *)
(* with the share links of dashboards.  Requests are transactions as in    *)
(* Tenancy: each SELECT is a step, the writes take effect at the commit.   *)
(* The UPDATE of a commit sets the columns in which the loaded row was     *)
(* changed and no others, so what a request has read matters: it is kept   *)
(* in `saw'.  Rows are never removed; an id is the row's number.           *)
(***************************************************************************)
EXTENDS Integers, Sequences, FiniteSets

CONSTANTS Orgs,      \* organizations
          Configs,   \* what a saved query may ask, with its widget's time range
          Requests,  \* bound: editing requests in flight at once
          MaxLinks,  \* bound: the links there can ever be
          Mixes      \* bound: the kinds of operation that may meet in one behaviour,
                     \* the rows each table can ever have in it, the periods in which
                     \* events arrive

ASSUME BoundAssumption == MaxLinks \in Nat

VARIABLES board, query, widget,  \* the tables
          issued,                \* history: how many links were ever in a row
          req,                   \* where each request stands
          mix                    \* the bounds of this behaviour

tables == <<board, query, widget, issued>>
dashVars == <<board, query, widget, issued, req, mix>>

None == 0  \* no link, no saved query: links and rows count from 1

BoardRow == [org : Orgs, link : Nat, public : BOOLEAN, deleted : BOOLEAN]
QueryRow == [org : Orgs, config : Configs, deleted : BOOLEAN]
WidgetRow == [board : Nat, query : Nat, deleted : BOOLEAN]

Idle == [at |-> "idle"]
BoardRequest == [at : {"rename", "share", "unshare", "delete_board"}, board : Nat, saw : BoardRow]
QueryRequest == [at : {"edit_query", "delete_query"}, query : Nat, saw : QueryRow]
WidgetRequest == [at : {"edit_widget.query", "edit_widget", "delete_widget"},
                  widget : Nat, saw : WidgetRow, query : Nat]
NewWidget == [at : {"new_widget.query", "new_widget"}, board : Nat, query : Nat]
Request == {Idle} \union BoardRequest \union QueryRequest \union WidgetRequest \union NewWidget

\* Rows and requests have their shape, and the references name rows.
DashTypeOK ==
  /\ board \in Seq(BoardRow) /\ query \in Seq(QueryRow) /\ widget \in Seq(WidgetRow)
  /\ \A w \in DOMAIN widget :
       widget[w].board \in DOMAIN board /\ widget[w].query \in DOMAIN query \union {None}
  /\ issued \in Nat
  /\ req \in [Requests -> Request]

DashInit ==
  /\ board = <<>> /\ query = <<>> /\ widget = <<>> /\ issued = 0
  /\ req = [r \in Requests |-> Idle]
  /\ mix \in Mixes

----------------------------------------------------------------------------
Present(table, i) == i \in DOMAIN table /\ ~table[i].deleted

\* The dashboard's organization; get_widget compares it with the caller's.
OrgOf(w) == board[widget[w].board].org

\* A link is looked up together with is_public and deleted_at.
Resolves(l) == \E b \in DOMAIN board :
  board[b].link = l /\ board[b].public /\ ~board[b].deleted

\* The value a column has after an UPDATE that changes it from `from' to `to'.
Column(value, from, to) == IF to # from THEN to ELSE value

Room(table, rows) == Len(table) < rows
Begin(r, q) == req[r] = Idle /\ req' = [req EXCEPT ![r] = q] /\ UNCHANGED mix
End(r) == req' = [req EXCEPT ![r] = Idle] /\ UNCHANGED mix

NewBoard(o) == [org |-> o, link |-> None, public |-> FALSE, deleted |-> FALSE]
NewQuery(o, c) == [org |-> o, config |-> c, deleted |-> FALSE]

Fail(r) == req[r] # Idle /\ End(r) /\ UNCHANGED tables

----------------------------------------------------------------------------
\* A dashboard without a template.
CreateDashboard == \E o \in Orgs :
  /\ "new_board" \in mix.ops /\ Room(board, mix.boards)
  /\ board' = Append(board, NewBoard(o))
  /\ UNCHANGED <<query, widget, issued, req, mix>>

\* A template brings widgets, each with a saved query of its own, in the same
\* transaction; one of them stands for all.
ApplyTemplate == \E o \in Orgs, c \in Configs :
  /\ "template" \in mix.ops
  /\ Room(board, mix.boards) /\ Room(query, mix.queries) /\ Room(widget, mix.widgets)
  /\ board' = Append(board, NewBoard(o))
  /\ query' = Append(query, NewQuery(o, c))
  /\ widget' = Append(widget, [board |-> Len(board) + 1, query |-> Len(query) + 1,
                               deleted |-> FALSE])
  /\ UNCHANGED <<issued, req, mix>>

CreateSavedQuery == \E o \in Orgs, c \in Configs :
  /\ "new_query" \in mix.ops /\ Room(query, mix.queries)
  /\ query' = Append(query, NewQuery(o, c))
  /\ UNCHANGED <<board, widget, issued, req, mix>>

\* Every operation on a dashboard begins with get_dashboard.
StartBoard(r) == \E b \in DOMAIN board,
                    op \in mix.ops \intersect {"rename", "share", "unshare", "delete_board"} :
  /\ Present(board, b)
  /\ Begin(r, [at |-> op, board |-> b, saw |-> board[b]])
  /\ UNCHANGED tables

RenameWholeRow(r) == LET b == req[r].board IN   \* mutant: the UPDATE sets every column
  /\ req[r].at = "rename"
  /\ board' = [board EXCEPT ![b] = req[r].saw]
  /\ End(r)
  /\ UNCHANGED <<query, widget, issued>>

\* Name, description and refresh interval, which nothing here depends on.
UpdateDashboard(r) ==
  /\ req[r].at = "rename"
  /\ End(r)
  /\ UNCHANGED tables

Publish(b, saw, l) ==
  /\ board' = [board EXCEPT ![b].link = Column(@, saw.link, l),
                            ![b].public = Column(@, saw.public, TRUE)]
  /\ UNCHANGED <<query, widget>>

ShareRenews(r) == LET saw == req[r].saw IN   \* mutant: every enabling makes a new link
  /\ req[r].at = "share"
  /\ issued < MaxLinks
  /\ issued' = issued + 1
  /\ Publish(req[r].board, saw, issued + 1)
  /\ End(r)

\* A link is made only for a dashboard that was read without one.
Share(r) == LET saw == req[r].saw IN
  /\ req[r].at = "share"
  /\ \/ /\ saw.link = None /\ issued < MaxLinks
        /\ issued' = issued + 1
        /\ Publish(req[r].board, saw, issued + 1)
     \/ /\ saw.link # None
        /\ issued' = issued
        /\ Publish(req[r].board, saw, saw.link)
  /\ End(r)

UnshareHides(r) == LET b == req[r].board IN   \* mutant: the link is kept for the next time
  /\ req[r].at = "unshare"
  /\ board' = [board EXCEPT ![b].public = Column(@, req[r].saw.public, FALSE)]
  /\ End(r)
  /\ UNCHANGED <<query, widget, issued>>

Unshare(r) == LET b == req[r].board saw == req[r].saw IN
  /\ req[r].at = "unshare"
  /\ board' = [board EXCEPT ![b].public = Column(@, saw.public, FALSE),
                            ![b].link = Column(@, saw.link, None)]
  /\ End(r)
  /\ UNCHANGED <<query, widget, issued>>

\* The widgets are left as they are.
DeleteDashboard(r) ==
  /\ req[r].at = "delete_board"
  /\ board' = [board EXCEPT ![req[r].board].deleted = TRUE]
  /\ End(r)
  /\ UNCHANGED <<query, widget, issued>>

----------------------------------------------------------------------------
StartQuery(r) == \E q \in DOMAIN query, op \in mix.ops \intersect {"edit_query", "delete_query"} :
  /\ Present(query, q)
  /\ Begin(r, [at |-> op, query |-> q, saw |-> query[q]])
  /\ UNCHANGED tables

\* The whole of query_config is one column.
UpdateSavedQuery(r) == \E c \in Configs :
  /\ req[r].at = "edit_query"
  /\ query' = [query EXCEPT ![req[r].query].config = Column(@, req[r].saw.config, c)]
  /\ End(r)
  /\ UNCHANGED <<board, widget, issued>>

DeleteSavedQuery(r) ==
  /\ req[r].at = "delete_query"
  /\ query' = [query EXCEPT ![req[r].query].deleted = TRUE]
  /\ End(r)
  /\ UNCHANGED <<board, widget, issued>>

----------------------------------------------------------------------------
StartCreateWidget(r) == \E b \in DOMAIN board :
  /\ "new_widget" \in mix.ops /\ Present(board, b)
  /\ Begin(r, [at |-> "new_widget.query", board |-> b, query |-> None])
  /\ UNCHANGED tables

QueriesOfAll(o) == {q \in DOMAIN query : ~query[q].deleted}   \* mutant: any saved query
QueriesOf(o) == {q \in DOMAIN query : ~query[q].deleted /\ query[q].org = o}

CreateWidgetQuery(r) ==
  /\ req[r].at = "new_widget.query"
  /\ \E q \in QueriesOf(board[req[r].board].org) \union {None} :
       req' = [req EXCEPT ![r].at = "new_widget", ![r].query = q]
  /\ UNCHANGED <<tables, mix>>

CreateWidget(r) ==
  /\ req[r].at = "new_widget" /\ Room(widget, mix.widgets)
  /\ widget' = Append(widget, [board |-> req[r].board, query |-> req[r].query,
                               deleted |-> FALSE])
  /\ End(r)
  /\ UNCHANGED <<board, query, issued>>

\* get_widget looks at the widget's deleted_at and not at the dashboard's.
StartWidget(r) == \E w \in DOMAIN widget,
                     op \in mix.ops \intersect {"edit_widget.query", "delete_widget"} :
  /\ Present(widget, w)
  /\ Begin(r, [at |-> op, widget |-> w, saw |-> widget[w], query |-> widget[w].query])
  /\ UNCHANGED tables

\* A request without a saved_query_id leaves the one there is.
UpdateWidgetQuery(r) ==
  /\ req[r].at = "edit_widget.query"
  /\ \E q \in QueriesOf(OrgOf(req[r].widget)) \union {req[r].query} :
       req' = [req EXCEPT ![r].at = "edit_widget", ![r].query = q]
  /\ UNCHANGED <<tables, mix>>

UpdateWidget(r) == LET w == req[r].widget IN
  /\ req[r].at = "edit_widget"
  /\ widget' = [widget EXCEPT ![w].query = Column(@, req[r].saw.query, req[r].query)]
  /\ End(r)
  /\ UNCHANGED <<board, query, issued>>

DeleteWidget(r) ==
  /\ req[r].at = "delete_widget"
  /\ widget' = [widget EXCEPT ![req[r].widget].deleted = TRUE]
  /\ End(r)
  /\ UNCHANGED <<board, query, issued>>

----------------------------------------------------------------------------
Edit(r) ==
  \/ StartBoard(r) \/ UpdateDashboard(r) \/ Share(r) \/ Unshare(r) \/ DeleteDashboard(r)
  \/ StartQuery(r) \/ UpdateSavedQuery(r) \/ DeleteSavedQuery(r)
  \/ StartCreateWidget(r) \/ CreateWidgetQuery(r) \/ CreateWidget(r)
  \/ StartWidget(r) \/ UpdateWidgetQuery(r) \/ UpdateWidget(r) \/ DeleteWidget(r)
  \/ Fail(r)

DashNext ==
  \/ CreateDashboard \/ ApplyTemplate \/ CreateSavedQuery
  \/ \E r \in Requests : Edit(r)

DashSpec == DashInit /\ [][DashNext]_dashVars

----------------------------------------------------------------------------
\* A dashboard has a link exactly while it is public, although the two columns
\* are written one by one and by requests that overlap: no link is left behind
\* that the next enabling would bring back (dashboard_service.py:336-345).
LinkIffPublic == \A b \in DOMAIN board : board[b].public <=> board[b].link # None

\* A widget asks a saved query of its dashboard's own organization.  Nothing that
\* shows a widget checks it again (dashboard_service.py:361, 412, dashboards.py:44).
WidgetsStayInOrg == \A w \in DOMAIN widget :
  widget[w].query # None => query[widget[w].query].org = OrgOf(w)

\* A link that was withdrawn never works again: not after another enabling, and
\* not through requests that read the dashboard while it did
\* (dashboard_service.py:336-345, 300-315).
DeadLinksStayDead ==
  [][\A l \in 1..issued : ~Resolves(l) => ~Resolves(l)']_dashVars

\* A link that works goes on working until the dashboard is unshared or deleted,
\* or is enabled by a request that read it before it had the link
\* (dashboard_service.py:337).
LinksAreKept ==
  [][\A l \in 1..issued :
       Resolves(l) /\ ~Resolves(l)' => \E r \in Requests :
         /\ req[r].at \in {"unshare", "delete_board", "share"}
         /\ board[req[r].board].link = l
         /\ req[r].at = "share" => req[r].saw.link = None]_dashVars
============================================================================
