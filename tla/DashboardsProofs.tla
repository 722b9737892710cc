-------------------------- MODULE DashboardsProofs --------------------------
(***************************************************************************)
(* Proofs about Dashboards for every set of organizations, queries,        *)
(* requests and mixes.  Two facts carry them.  A request writes the        *)
(* columns it changed, and the row it read had its two link columns in     *)
(* agreement, so the row it writes has, whatever came in between.  And     *)
(* what a request has checked about a saved query stays true, because rows *)
(* never change their organization (TablesEvolve).                         *)
(***************************************************************************)
EXTENDS Dashboards, SequenceTheorems, TLAPS

\* q may stand in a widget of an organization o's dashboard.
FitsIn(Q, q, o) == q = None \/ (q \in DOMAIN Q /\ Q[q].org = o)

WidgetsFit == \A w \in DOMAIN widget :
  /\ widget[w].board \in DOMAIN board
  /\ FitsIn(query, widget[w].query, board[widget[w].board].org)

TablesOK ==
  /\ board \in Seq(BoardRow) /\ query \in Seq(QueryRow) /\ widget \in Seq(WidgetRow)
  /\ issued \in Nat
  /\ LinkIffPublic /\ WidgetsFit

\* The two link columns of a row agree.
Agrees(row) == row.public <=> row.link # None

\* What a request has read and checked, with respect to the tables B, Q and W.
Reads(B, Q, W, q) ==
  /\ q \in BoardRequest => q.board \in DOMAIN B /\ Agrees(q.saw)
  /\ q \in QueryRequest => q.query \in DOMAIN Q
  /\ q \in WidgetRequest => /\ q.widget \in DOMAIN W /\ W[q.widget].board \in DOMAIN B
                            /\ FitsIn(Q, q.query, B[W[q.widget].board].org)
  /\ q \in NewWidget => q.board \in DOMAIN B /\ FitsIn(Q, q.query, B[q.board].org)

RequestsFit == \A r \in Requests : Reads(board, query, widget, req[r])

DInv == TablesOK /\ req \in [Requests -> Request] /\ RequestsFit

\* Rows keep their organization and dashboard, deleted rows stay deleted, and a
\* link that appears is new.
BoardsKeep == /\ issued <= issued'
              /\ \A b \in DOMAIN board :
                   /\ b \in DOMAIN board' /\ board'[b].org = board[b].org
                   /\ board[b].deleted => board'[b].deleted
                   /\ \/ board'[b].link \in {board[b].link, None}
                      \/ board'[b].link > issued
              /\ \A b \in DOMAIN board' \ DOMAIN board : board'[b].link = None
QueriesKeep == \A q \in DOMAIN query : q \in DOMAIN query' /\ query'[q].org = query[q].org
WidgetsKeep == \A w \in DOMAIN widget : w \in DOMAIN widget' /\ widget'[w].board = widget[w].board
TablesEvolve == TablesOK' /\ BoardsKeep /\ QueriesKeep /\ WidgetsKeep

\* A request goes on as it is, ends, or has read something of the present tables.
RequestsFollow ==
  /\ req' \in [Requests -> Request]
  /\ \A r \in Requests :
       \/ req'[r] = req[r] \/ req'[r] = Idle
       \/ UNCHANGED tables /\ Reads(board, query, widget, req'[r])

----------------------------------------------------------------------------
LEMMA Appended ==
  ASSUME NEW S, NEW s \in Seq(S), NEW e \in S
  PROVE  /\ Append(s, e) \in Seq(S) /\ Len(s) + 1 \notin DOMAIN s
         /\ DOMAIN Append(s, e) = DOMAIN s \union {Len(s) + 1}
         /\ Append(s, e)[Len(s) + 1] = e
         /\ \A i \in DOMAIN s : Append(s, e)[i] = s[i]
<1>1. /\ DOMAIN s = 1..Len(s) /\ Len(s) \in Nat
      /\ DOMAIN Append(s, e) = 1..(Len(s) + 1)
  BY AppendProperties, LenProperties
<1> QED BY <1>1, AppendProperties

LEMMA Replaced ==
  ASSUME NEW S, NEW s \in Seq(S), NEW i \in DOMAIN s, NEW e \in S
  PROVE  /\ [s EXCEPT ![i] = e] \in Seq(S)
         /\ DOMAIN [s EXCEPT ![i] = e] = DOMAIN s
         /\ [s EXCEPT ![i] = e][i] = e
         /\ \A j \in DOMAIN s : j # i => [s EXCEPT ![i] = e][j] = s[j]
BY ExceptSeq, LenProperties

LEMMA ReadsIdle == ASSUME NEW B, NEW Q, NEW W PROVE Reads(B, Q, W, Idle)
<1>1. /\ Idle \notin BoardRequest /\ Idle \notin QueryRequest
      /\ Idle \notin WidgetRequest /\ Idle \notin NewWidget
  BY DEF Idle, BoardRequest, QueryRequest, WidgetRequest, NewWidget
<1> QED BY <1>1 DEF Reads

\* What a request has read stays true while the tables evolve.
LEMMA ReadsStay ==
  ASSUME TablesEvolve, NEW q, Reads(board, query, widget, q)
  PROVE  Reads(board', query', widget', q)
<1> USE DEF TablesEvolve, BoardsKeep, QueriesKeep, WidgetsKeep, Reads, FitsIn
<1>1. q \in BoardRequest => q.board \in DOMAIN board' /\ Agrees(q.saw)
  OBVIOUS
<1>2. q \in QueryRequest => q.query \in DOMAIN query'
  OBVIOUS
<1>3. q \in WidgetRequest => /\ q.widget \in DOMAIN widget' /\ widget'[q.widget].board \in DOMAIN board'
                             /\ FitsIn(query', q.query, board'[widget'[q.widget].board].org)
  OBVIOUS
<1>4. q \in NewWidget => q.board \in DOMAIN board' /\ FitsIn(query', q.query, board'[q.board].org)
  OBVIOUS
<1> QED BY <1>1, <1>2, <1>3, <1>4

LEMMA StepKeeps ==
  ASSUME DInv, TablesEvolve, RequestsFollow
  PROVE  DInv'
<1>1. RequestsFit'
  <2> SUFFICES ASSUME NEW r \in Requests PROVE Reads(board', query', widget', req'[r])
    BY DEF RequestsFit
  <2>1. CASE req'[r] = req[r]
    <3>1. Reads(board, query, widget, req[r])
      BY DEF DInv, RequestsFit
    <3>2. Reads(board', query', widget', req[r])
      BY <3>1, ReadsStay
    <3> QED BY <2>1, <3>2
  <2>2. CASE req'[r] = Idle
    BY <2>2, ReadsIdle
  <2>3. CASE UNCHANGED tables /\ Reads(board, query, widget, req'[r])
    BY <2>3 DEF tables
  <2> QED BY <2>1, <2>2, <2>3 DEF RequestsFollow
<1> QED BY <1>1 DEF DInv, TablesEvolve, RequestsFollow

LEMMA TablesStay ==
  ASSUME DInv, UNCHANGED tables
  PROVE  TablesEvolve
BY DEF DInv, tables, TablesEvolve, TablesOK, LinkIffPublic, WidgetsFit, BoardsKeep, QueriesKeep,
       WidgetsKeep

LEMMA Ended ==
  ASSUME DInv, NEW r \in Requests, End(r)
  PROVE  RequestsFollow
BY DEF DInv, End, RequestsFollow, Request

LEMMA Begun ==
  ASSUME DInv, NEW r \in Requests, NEW q \in Request, req' = [req EXCEPT ![r] = q],
         Reads(board, query, widget, q), UNCHANGED tables
  PROVE  TablesEvolve /\ RequestsFollow
<1>1. req' \in [Requests -> Request] /\ \A p \in Requests : req'[p] = IF p = r THEN q ELSE req[p]
  BY DEF DInv
<1>2. RequestsFollow
  BY <1>1 DEF RequestsFollow
<1> QED BY <1>2, TablesStay

----------------------------------------------------------------------------
\* One row of one table is written.
LEMMA BoardWritten ==
  ASSUME DInv, NEW b \in DOMAIN board, NEW row \in BoardRow,
         row.org = board[b].org, board[b].deleted => row.deleted,
         Agrees(row),
         row.link = board[b].link \/ row.link = None \/ row.link > issued,
         issued' \in Nat, issued <= issued',
         board' = [board EXCEPT ![b] = row], query' = query, widget' = widget
  PROVE  TablesEvolve
<1>1. board \in Seq(BoardRow) /\ LinkIffPublic /\ WidgetsFit /\ issued \in Nat
  BY DEF DInv, TablesOK
<1>2. /\ board' \in Seq(BoardRow) /\ DOMAIN board' = DOMAIN board /\ board'[b] = row
      /\ \A c \in DOMAIN board : c # b => board'[c] = board[c]
  BY <1>1, Replaced
<1>3. LinkIffPublic'
  BY <1>1, <1>2 DEF LinkIffPublic, Agrees
<1>4. \A c \in DOMAIN board : board'[c].org = board[c].org
  BY <1>2
<1>5. WidgetsFit'
  BY <1>1, <1>2, <1>4 DEF WidgetsFit
<1>6. BoardsKeep
  BY <1>2, <1>4 DEF BoardsKeep
<1> QED BY <1>1, <1>2, <1>3, <1>5, <1>6 DEF DInv, TablesOK, TablesEvolve, QueriesKeep, WidgetsKeep

LEMMA QueryWritten ==
  ASSUME DInv, NEW q \in DOMAIN query, NEW row \in QueryRow, row.org = query[q].org,
         query' = [query EXCEPT ![q] = row], UNCHANGED <<board, widget, issued>>
  PROVE  TablesEvolve
<1>1. query \in Seq(QueryRow) /\ LinkIffPublic /\ WidgetsFit
  BY DEF DInv, TablesOK
<1>2. /\ query' \in Seq(QueryRow) /\ DOMAIN query' = DOMAIN query /\ query'[q] = row
      /\ \A p \in DOMAIN query : p # q => query'[p] = query[p]
  BY <1>1, Replaced
<1>3. \A p \in DOMAIN query : query'[p].org = query[p].org
  BY <1>2
<1>4. WidgetsFit'
  BY <1>1, <1>2, <1>3 DEF WidgetsFit, FitsIn
<1>5. LinkIffPublic'
  BY <1>1 DEF LinkIffPublic
<1> QED BY <1>2, <1>3, <1>4, <1>5 DEF DInv, TablesOK, TablesEvolve, BoardsKeep, QueriesKeep, WidgetsKeep

LEMMA WidgetWritten ==
  ASSUME DInv, NEW w \in DOMAIN widget, NEW row \in WidgetRow, row.board = widget[w].board,
         FitsIn(query, row.query, board[row.board].org),
         widget' = [widget EXCEPT ![w] = row], UNCHANGED <<board, query, issued>>
  PROVE  TablesEvolve
<1>1. widget \in Seq(WidgetRow) /\ LinkIffPublic /\ WidgetsFit
  BY DEF DInv, TablesOK
<1>2. /\ widget' \in Seq(WidgetRow) /\ DOMAIN widget' = DOMAIN widget /\ widget'[w] = row
      /\ \A v \in DOMAIN widget : v # w => widget'[v] = widget[v]
  BY <1>1, Replaced
<1>3. WidgetsFit'
  BY <1>1, <1>2 DEF WidgetsFit
<1>4. LinkIffPublic'
  BY <1>1 DEF LinkIffPublic
<1> QED BY <1>2, <1>3, <1>4 DEF DInv, TablesOK, TablesEvolve, BoardsKeep, QueriesKeep, WidgetsKeep

\* One row of one table is inserted.
LEMMA WidgetInserted ==
  ASSUME DInv, NEW row \in WidgetRow, row.board \in DOMAIN board,
         FitsIn(query, row.query, board[row.board].org),
         widget' = Append(widget, row), UNCHANGED <<board, query, issued>>
  PROVE  TablesEvolve
<1>1. widget \in Seq(WidgetRow) /\ LinkIffPublic /\ WidgetsFit
  BY DEF DInv, TablesOK
<1> DEFINE n == Len(widget) + 1
<1>2. /\ widget' \in Seq(WidgetRow) /\ DOMAIN widget' = DOMAIN widget \union {n} /\ widget'[n] = row
      /\ \A v \in DOMAIN widget : widget'[v] = widget[v]
  BY <1>1, Appended
<1> HIDE DEF n
<1>3. WidgetsFit'
  BY <1>1, <1>2 DEF WidgetsFit
<1>4. LinkIffPublic'
  BY <1>1 DEF LinkIffPublic
<1> QED BY <1>2, <1>3, <1>4 DEF DInv, TablesOK, TablesEvolve, BoardsKeep, QueriesKeep, WidgetsKeep

LEMMA BoardInserted ==
  ASSUME DInv, NEW o \in Orgs, board' = Append(board, NewBoard(o)), issued' = issued
  PROVE  /\ board' \in Seq(BoardRow) /\ BoardsKeep /\ LinkIffPublic'
         /\ Len(board) + 1 \in DOMAIN board' /\ board'[Len(board) + 1].org = o
<1> DEFINE n == Len(board) + 1
<1>1. board \in Seq(BoardRow) /\ LinkIffPublic /\ issued \in Nat /\ NewBoard(o) \in BoardRow
  BY DEF DInv, TablesOK, NewBoard, BoardRow, None
<1>2. /\ board' \in Seq(BoardRow) /\ DOMAIN board' = DOMAIN board \union {n}
      /\ board'[n] = NewBoard(o)
      /\ \A b \in DOMAIN board : board'[b] = board[b]
  BY <1>1, Appended
<1> HIDE DEF n
<1>3. BoardsKeep
  BY <1>1, <1>2 DEF BoardsKeep, NewBoard
<1>4. LinkIffPublic'
  BY <1>1, <1>2 DEF LinkIffPublic, NewBoard
<1> QED BY <1>2, <1>3, <1>4 DEF NewBoard, n

LEMMA QueryInserted ==
  ASSUME DInv, NEW o \in Orgs, NEW c \in Configs, query' = Append(query, NewQuery(o, c))
  PROVE  /\ query' \in Seq(QueryRow) /\ QueriesKeep
         /\ Len(query) + 1 \in DOMAIN query' /\ query'[Len(query) + 1].org = o
<1> DEFINE n == Len(query) + 1
<1>1. query \in Seq(QueryRow) /\ NewQuery(o, c) \in QueryRow
  BY DEF DInv, TablesOK, NewQuery, QueryRow
<1>2. /\ query' \in Seq(QueryRow) /\ DOMAIN query' = DOMAIN query \union {n}
      /\ query'[n] = NewQuery(o, c)
      /\ \A q \in DOMAIN query : query'[q] = query[q]
  BY <1>1, Appended
<1> HIDE DEF n
<1> QED BY <1>2 DEF NewQuery, QueriesKeep, n

\* Widgets that fitted go on fitting.
LEMMA WidgetsStayFit ==
  ASSUME WidgetsFit, BoardsKeep, QueriesKeep, NEW w \in DOMAIN widget
  PROVE  /\ widget[w].board \in DOMAIN board'
         /\ FitsIn(query', widget[w].query, board'[widget[w].board].org)
BY DEF WidgetsFit, BoardsKeep, QueriesKeep, FitsIn

----------------------------------------------------------------------------
LEMMA InsertSteps ==
  ASSUME DInv, CreateDashboard \/ ApplyTemplate \/ CreateSavedQuery
  PROVE  TablesEvolve /\ RequestsFollow
<1>1. RequestsFollow
  <2>1. req' = req
    BY DEF CreateDashboard, ApplyTemplate, CreateSavedQuery
  <2> QED BY <2>1 DEF RequestsFollow, DInv
<1>2. /\ query \in Seq(QueryRow) /\ widget \in Seq(WidgetRow) /\ board \in Seq(BoardRow)
      /\ issued \in Nat /\ LinkIffPublic /\ WidgetsFit
  BY DEF DInv, TablesOK
<1>3. CASE CreateDashboard
  <2>1. PICK o \in Orgs : board' = Append(board, NewBoard(o))
                         /\ query' = query /\ widget' = widget /\ issued' = issued
    BY <1>3 DEF CreateDashboard
  <2>2. board' \in Seq(BoardRow) /\ BoardsKeep /\ LinkIffPublic'
    BY <2>1, BoardInserted
  <2>3. QueriesKeep /\ WidgetsKeep
    BY <2>1 DEF QueriesKeep, WidgetsKeep
  <2>4. WidgetsFit'
    BY <1>2, <2>1, <2>2, <2>3, WidgetsStayFit DEF WidgetsFit
  <2> QED BY <1>1, <1>2, <2>1, <2>2, <2>3, <2>4 DEF TablesEvolve, TablesOK
<1>4. CASE CreateSavedQuery
  <2>1. PICK o \in Orgs, c \in Configs : query' = Append(query, NewQuery(o, c))
                         /\ board' = board /\ widget' = widget /\ issued' = issued
    BY <1>4 DEF CreateSavedQuery
  <2>2. query' \in Seq(QueryRow) /\ QueriesKeep
    BY <2>1, QueryInserted
  <2>3. BoardsKeep /\ WidgetsKeep /\ LinkIffPublic'
    BY <1>2, <2>1 DEF BoardsKeep, WidgetsKeep, LinkIffPublic
  <2>4. WidgetsFit'
    BY <1>2, <2>1, <2>2, <2>3, WidgetsStayFit DEF WidgetsFit
  <2> QED BY <1>1, <1>2, <2>1, <2>2, <2>3, <2>4 DEF TablesEvolve, TablesOK
<1>5. CASE ApplyTemplate
  <2> DEFINE row == [board |-> Len(board) + 1, query |-> Len(query) + 1, deleted |-> FALSE]
             n == Len(widget) + 1
  <2>1. PICK o \in Orgs, c \in Configs :
          /\ board' = Append(board, NewBoard(o)) /\ query' = Append(query, NewQuery(o, c))
          /\ widget' = Append(widget, row) /\ issued' = issued
    BY <1>5 DEF ApplyTemplate
  <2>2. /\ board' \in Seq(BoardRow) /\ BoardsKeep /\ LinkIffPublic'
        /\ Len(board) + 1 \in DOMAIN board' /\ board'[Len(board) + 1].org = o
    BY <2>1, BoardInserted
  <2>3. /\ query' \in Seq(QueryRow) /\ QueriesKeep
        /\ Len(query) + 1 \in DOMAIN query' /\ query'[Len(query) + 1].org = o
    BY <2>1, QueryInserted
  <2>4. row \in WidgetRow
    BY <1>2, LenProperties DEF WidgetRow
  <2>5. /\ widget' \in Seq(WidgetRow) /\ DOMAIN widget' = DOMAIN widget \union {n}
        /\ widget'[n] = row /\ \A w \in DOMAIN widget : widget'[w] = widget[w]
    BY <1>2, <2>1, <2>4, Appended
  <2>6. row.board \in DOMAIN board' /\ FitsIn(query', row.query, board'[row.board].org)
    BY <2>2, <2>3 DEF FitsIn
  <2> HIDE DEF row, n
  <2>7. WidgetsFit'
    <3> SUFFICES ASSUME NEW w \in DOMAIN widget'
                 PROVE  /\ widget'[w].board \in DOMAIN board'
                        /\ FitsIn(query', widget'[w].query, board'[widget'[w].board].org)
      BY DEF WidgetsFit
    <3>1. CASE w \in DOMAIN widget
      BY <1>2, <2>2, <2>3, <2>5, <3>1, WidgetsStayFit
    <3>2. CASE w = n
      BY <2>5, <2>6, <3>2
    <3> QED BY <2>5, <3>1, <3>2
  <2>8. WidgetsKeep
    BY <2>5 DEF WidgetsKeep
  <2> QED BY <1>1, <1>2, <2>1, <2>2, <2>3, <2>5, <2>7, <2>8 DEF TablesEvolve, TablesOK
<1> QED BY <1>3, <1>4, <1>5

----------------------------------------------------------------------------
\* The table a request works on follows from the step it is at.
LEMMA AtTells ==
  ASSUME DInv, NEW r \in Requests
  PROVE  /\ req[r].at \in {"rename", "share", "unshare", "delete_board"} => req[r] \in BoardRequest
         /\ req[r].at \in {"edit_query", "delete_query"} => req[r] \in QueryRequest
         /\ req[r].at \in {"edit_widget.query", "edit_widget", "delete_widget"} =>
              req[r] \in WidgetRequest
         /\ req[r].at \in {"new_widget.query", "new_widget"} => req[r] \in NewWidget
<1>1. req[r] \in Request
  BY DEF DInv
<1> QED BY <1>1 DEF Request, Idle, BoardRequest, QueryRequest, WidgetRequest, NewWidget

LEMMA BoardRead ==
  ASSUME DInv, NEW r \in Requests, req[r].at \in {"rename", "share", "unshare", "delete_board"}
  PROVE  /\ req[r].board \in DOMAIN board /\ req[r].saw \in BoardRow /\ Agrees(req[r].saw)
         /\ board[req[r].board] \in BoardRow /\ Agrees(board[req[r].board])
         /\ board \in [DOMAIN board -> BoardRow] /\ issued \in Nat
<1>1. req[r] \in BoardRequest
  BY AtTells
<1>2. req[r].board \in DOMAIN board /\ req[r].saw \in BoardRow /\ Agrees(req[r].saw)
  BY <1>1 DEF DInv, RequestsFit, Reads, BoardRequest
<1>3. board \in [DOMAIN board -> BoardRow] /\ issued \in Nat
  BY LenProperties DEF DInv, TablesOK
<1>4. board[req[r].board] \in BoardRow
  BY <1>2, <1>3
<1>5. Agrees(board[req[r].board])
  BY <1>2 DEF DInv, TablesOK, LinkIffPublic, Agrees
<1> QED BY <1>2, <1>3, <1>4, <1>5

\* The two link columns of a row that a request has read agree, so those it
\* writes do.
LEMMA ShareStep ==
  ASSUME DInv, NEW r \in Requests, Share(r)
  PROVE  TablesEvolve /\ RequestsFollow
<1> DEFINE b == req[r].board
           saw == req[r].saw
           l == IF saw.link = None THEN issued + 1 ELSE saw.link
           row == [board[b] EXCEPT !.link = Column(board[b].link, saw.link, l),
                                   !.public = Column(board[b].public, saw.public, TRUE)]
<1>1. /\ b \in DOMAIN board /\ saw \in BoardRow /\ Agrees(saw) /\ board[b] \in BoardRow
      /\ Agrees(board[b]) /\ board \in [DOMAIN board -> BoardRow] /\ issued \in Nat
  BY BoardRead DEF Share
<1>2. /\ End(r) /\ query' = query /\ widget' = widget
      /\ issued' = IF saw.link = None THEN issued + 1 ELSE issued
      /\ board' = [board EXCEPT ![b].link = Column(@, saw.link, l),
                                ![b].public = Column(@, saw.public, TRUE)]
  BY DEF Share, Publish
<1>3. l \in Nat
  BY <1>1 DEF BoardRow
<1> HIDE DEF l
<1>4. board' = [board EXCEPT ![b] = row]
  BY <1>1, <1>2
<1>5. /\ row \in BoardRow /\ row.org = board[b].org /\ row.deleted = board[b].deleted
      /\ row.link = Column(board[b].link, saw.link, l)
      /\ row.public = Column(board[b].public, saw.public, TRUE)
  BY <1>1, <1>3 DEF BoardRow, Column
<1> HIDE DEF row
<1>6. CASE saw.link = None
  <2>1. l = issued + 1 /\ l # None /\ issued' = issued + 1
    BY <1>1, <1>2, <1>6 DEF l, None
  <2>2. row.link = l
    BY <1>5, <1>6, <2>1 DEF Column
  <2>3. row.public
    <3>1. ~saw.public
      BY <1>1, <1>6 DEF Agrees
    <3> QED BY <1>5, <3>1 DEF Column
  <2>4. Agrees(row)
    BY <2>1, <2>2, <2>3 DEF Agrees
  <2>5. row.link > issued /\ issued' \in Nat /\ issued <= issued'
    BY <1>1, <2>1, <2>2
  <2>6. board[b].deleted => row.deleted
    BY <1>5
  <2>7. TablesEvolve
    BY <1>1, <1>2, <1>4, <1>5, <2>4, <2>5, <2>6, BoardWritten
  <2> QED BY <1>2, <2>7, Ended
<1>7. CASE saw.link # None
  <2>1. l = saw.link /\ issued' = issued
    BY <1>2, <1>7 DEF l
  <2>2. row.link = board[b].link
    BY <1>5, <2>1 DEF Column
  <2>3. row.public = board[b].public
    <3>1. saw.public = TRUE
      BY <1>1, <1>7 DEF Agrees, BoardRow
    <3> QED BY <1>5, <3>1 DEF Column
  <2>4. Agrees(row)
    BY <1>1, <2>2, <2>3, Zenon DEF Agrees
  <2>5. issued' \in Nat /\ issued <= issued'
    BY <1>1, <2>1
  <2>6. board[b].deleted => row.deleted
    BY <1>5
  <2>7. TablesEvolve
    BY <1>1, <1>2, <1>4, <1>5, <2>2, <2>4, <2>5, <2>6, BoardWritten
  <2> QED BY <1>2, <2>7, Ended
<1> QED BY <1>6, <1>7

LEMMA UnshareStep ==
  ASSUME DInv, NEW r \in Requests, Unshare(r)
  PROVE  TablesEvolve /\ RequestsFollow
<1> DEFINE b == req[r].board
           saw == req[r].saw
           row == [board[b] EXCEPT !.public = Column(board[b].public, saw.public, FALSE),
                                   !.link = Column(board[b].link, saw.link, None)]
<1>1. /\ b \in DOMAIN board /\ saw \in BoardRow /\ Agrees(saw) /\ board[b] \in BoardRow
      /\ Agrees(board[b]) /\ board \in [DOMAIN board -> BoardRow] /\ issued \in Nat
  BY BoardRead DEF Unshare
<1>2. /\ End(r) /\ query' = query /\ widget' = widget /\ issued' = issued
      /\ board' = [board EXCEPT ![b].public = Column(@, saw.public, FALSE),
                                ![b].link = Column(@, saw.link, None)]
  BY DEF Unshare
<1>3. issued' \in Nat /\ issued <= issued'
  BY <1>1, <1>2
<1>4. board' = [board EXCEPT ![b] = row]
  BY <1>1, <1>2
<1>5. /\ row \in BoardRow /\ row.org = board[b].org /\ row.deleted = board[b].deleted
      /\ row.link = Column(board[b].link, saw.link, None)
      /\ row.public = Column(board[b].public, saw.public, FALSE)
  BY <1>1 DEF BoardRow, Column, None
<1> HIDE DEF row
<1>6. board[b].deleted => row.deleted
  BY <1>5
<1>7. CASE saw.link = None
  <2>1. row.link = board[b].link
    BY <1>5, <1>7 DEF Column
  <2>2. row.public = board[b].public
    <3>1. saw.public = FALSE
      BY <1>1, <1>7 DEF Agrees, BoardRow
    <3> QED BY <1>5, <3>1 DEF Column
  <2>3. Agrees(row)
    BY <1>1, <2>1, <2>2, Zenon DEF Agrees
  <2>4. TablesEvolve
    BY <1>1, <1>2, <1>3, <1>4, <1>5, <1>6, <2>1, <2>3, BoardWritten
  <2> QED BY <1>2, <2>4, Ended
<1>8. CASE saw.link # None
  <2>1. row.link = None
    BY <1>5, <1>8 DEF Column
  <2>2. row.public = FALSE
    <3>1. saw.public = TRUE
      BY <1>1, <1>8 DEF Agrees, BoardRow
    <3> QED BY <1>5, <3>1 DEF Column
  <2>3. Agrees(row)
    BY <2>1, <2>2 DEF Agrees
  <2>4. TablesEvolve
    BY <1>1, <1>2, <1>3, <1>4, <1>5, <1>6, <2>1, <2>3, BoardWritten
  <2> QED BY <1>2, <2>4, Ended
<1> QED BY <1>7, <1>8

LEMMA DeleteDashboardStep ==
  ASSUME DInv, NEW r \in Requests, DeleteDashboard(r)
  PROVE  TablesEvolve /\ RequestsFollow
<1> DEFINE b == req[r].board
           row == [board[b] EXCEPT !.deleted = TRUE]
<1>1. /\ b \in DOMAIN board /\ board[b] \in BoardRow
      /\ Agrees(board[b]) /\ board \in [DOMAIN board -> BoardRow] /\ issued \in Nat
  BY BoardRead DEF DeleteDashboard
<1>2. /\ End(r) /\ query' = query /\ widget' = widget /\ issued' = issued
      /\ issued' \in Nat /\ issued <= issued'
  BY <1>1 DEF DeleteDashboard
<1>3. board' = [board EXCEPT ![b] = row]
  BY <1>1 DEF DeleteDashboard
<1>4. /\ row \in BoardRow /\ row.org = board[b].org /\ row.deleted = TRUE
      /\ row.link = board[b].link /\ row.public = board[b].public
  BY <1>1 DEF BoardRow
<1> HIDE DEF row
<1>5. Agrees(row)
  BY <1>1, <1>4, Zenon DEF Agrees
<1>6. TablesEvolve
  BY <1>1, <1>2, <1>3, <1>4, <1>5, BoardWritten
<1> QED BY <1>2, <1>6, Ended

LEMMA StartBoardStep ==
  ASSUME DInv, NEW r \in Requests, StartBoard(r)
  PROVE  TablesEvolve /\ RequestsFollow
<1>1. PICK b \in DOMAIN board, op \in {"rename", "share", "unshare", "delete_board"} :
        /\ req' = [req EXCEPT ![r] = [at |-> op, board |-> b, saw |-> board[b]]]
        /\ UNCHANGED tables
  BY DEF StartBoard, Begin
<1> DEFINE q == [at |-> op, board |-> b, saw |-> board[b]]
<1>2. board[b] \in BoardRow /\ b \in Nat /\ Agrees(board[b])
  BY LenProperties DEF DInv, TablesOK, LinkIffPublic, Agrees
<1>3. q \in BoardRequest /\ q.board = b /\ q.saw = board[b]
  BY <1>2 DEF BoardRequest
<1>4. q \notin QueryRequest /\ q \notin WidgetRequest /\ q \notin NewWidget
  BY DEF QueryRequest, WidgetRequest, NewWidget
<1> HIDE DEF q
<1>5. Reads(board, query, widget, q)
  BY <1>2, <1>3, <1>4 DEF Reads
<1> QED BY <1>1, <1>3, <1>5, Begun DEF Request, q

----------------------------------------------------------------------------
LEMMA StartQueryStep ==
  ASSUME DInv, NEW r \in Requests, StartQuery(r)
  PROVE  TablesEvolve /\ RequestsFollow
<1>1. PICK i \in DOMAIN query, op \in {"edit_query", "delete_query"} :
        /\ req' = [req EXCEPT ![r] = [at |-> op, query |-> i, saw |-> query[i]]]
        /\ UNCHANGED tables
  BY DEF StartQuery, Begin
<1> DEFINE q == [at |-> op, query |-> i, saw |-> query[i]]
<1>2. query[i] \in QueryRow /\ i \in Nat
  BY LenProperties DEF DInv, TablesOK
<1>3. q \in QueryRequest /\ q.query = i
  BY <1>2 DEF QueryRequest
<1>4. q \notin BoardRequest /\ q \notin WidgetRequest /\ q \notin NewWidget
  BY DEF BoardRequest, WidgetRequest, NewWidget
<1> HIDE DEF q
<1>5. Reads(board, query, widget, q)
  BY <1>3, <1>4 DEF Reads
<1> QED BY <1>1, <1>3, <1>5, Begun DEF Request, q

LEMMA QuerySteps ==
  ASSUME DInv, NEW r \in Requests, UpdateSavedQuery(r) \/ DeleteSavedQuery(r)
  PROVE  TablesEvolve /\ RequestsFollow
<1> DEFINE q == req[r].query
<1>1. /\ req[r] \in QueryRequest /\ End(r) /\ UNCHANGED <<board, widget, issued>>
  BY AtTells DEF UpdateSavedQuery, DeleteSavedQuery
<1>2. q \in DOMAIN query /\ req[r].saw \in QueryRow
  BY <1>1 DEF DInv, RequestsFit, Reads, QueryRequest
<1>3. query \in [DOMAIN query -> QueryRow] /\ query[q] \in QueryRow
  BY <1>2, LenProperties DEF DInv, TablesOK
<1>4. CASE UpdateSavedQuery(r)
  <2>1. PICK c \in Configs :
          query' = [query EXCEPT ![q].config = Column(@, req[r].saw.config, c)]
    BY <1>4 DEF UpdateSavedQuery
  <2> DEFINE row == [query[q] EXCEPT !.config = Column(query[q].config, req[r].saw.config, c)]
  <2>2. row \in QueryRow /\ row.org = query[q].org
    BY <1>2, <1>3 DEF QueryRow, Column
  <2>3. query' = [query EXCEPT ![q] = row]
    BY <1>3, <2>1
  <2> HIDE DEF row
  <2> QED BY <1>1, <1>2, <2>2, <2>3, QueryWritten, Ended
<1>5. CASE DeleteSavedQuery(r)
  <2> DEFINE row == [query[q] EXCEPT !.deleted = TRUE]
  <2>1. row \in QueryRow /\ row.org = query[q].org
    BY <1>3 DEF QueryRow
  <2>2. query' = [query EXCEPT ![q] = row]
    BY <1>3, <1>5 DEF DeleteSavedQuery
  <2> HIDE DEF row
  <2> QED BY <1>1, <1>2, <2>1, <2>2, QueryWritten, Ended
<1> QED BY <1>4, <1>5

----------------------------------------------------------------------------
LEMMA NewWidgetRead ==
  ASSUME DInv, NEW r \in Requests, req[r].at \in {"new_widget.query", "new_widget"}
  PROVE  /\ req[r] \in NewWidget /\ req[r].board \in DOMAIN board
         /\ FitsIn(query, req[r].query, board[req[r].board].org)
<1>1. req[r] \in NewWidget
  BY AtTells
<1> QED BY <1>1 DEF DInv, RequestsFit, Reads

LEMMA WidgetRead ==
  ASSUME DInv, NEW r \in Requests,
         req[r].at \in {"edit_widget.query", "edit_widget", "delete_widget"}
  PROVE  /\ req[r] \in WidgetRequest /\ req[r].widget \in DOMAIN widget
         /\ FitsIn(query, req[r].query, OrgOf(req[r].widget))
         /\ widget \in [DOMAIN widget -> WidgetRow] /\ widget[req[r].widget] \in WidgetRow
<1>1. req[r] \in WidgetRequest
  BY AtTells
<1>2. /\ req[r].widget \in DOMAIN widget
      /\ FitsIn(query, req[r].query, board[widget[req[r].widget].board].org)
  BY <1>1 DEF DInv, RequestsFit, Reads
<1>3. widget \in [DOMAIN widget -> WidgetRow]
  BY LenProperties DEF DInv, TablesOK
<1> QED BY <1>1, <1>2, <1>3 DEF OrgOf

LEMMA QueriesFit ==
  ASSUME DInv, NEW o, NEW q \in QueriesOf(o)
  PROVE  FitsIn(query, q, o) /\ q \in Nat
BY LenProperties DEF QueriesOf, FitsIn, DInv, TablesOK

LEMMA StartCreateWidgetStep ==
  ASSUME DInv, NEW r \in Requests, StartCreateWidget(r)
  PROVE  TablesEvolve /\ RequestsFollow
<1>1. PICK b \in DOMAIN board :
        /\ req' = [req EXCEPT ![r] = [at |-> "new_widget.query", board |-> b, query |-> None]]
        /\ UNCHANGED tables
  BY DEF StartCreateWidget, Begin
<1> DEFINE q == [at |-> "new_widget.query", board |-> b, query |-> None]
<1>2. b \in Nat
  BY LenProperties DEF DInv, TablesOK
<1>3. q \in NewWidget /\ q.board = b /\ q.query = None
  BY <1>2 DEF NewWidget, None
<1>4. q \notin BoardRequest /\ q \notin QueryRequest /\ q \notin WidgetRequest
  BY DEF BoardRequest, QueryRequest, WidgetRequest
<1> HIDE DEF q
<1>5. Reads(board, query, widget, q)
  BY <1>3, <1>4 DEF Reads, FitsIn
<1> QED BY <1>1, <1>3, <1>5, Begun DEF Request, q

LEMMA CreateWidgetQueryStep ==
  ASSUME DInv, NEW r \in Requests, CreateWidgetQuery(r)
  PROVE  TablesEvolve /\ RequestsFollow
<1> DEFINE o == board[req[r].board].org
<1>1. /\ req[r] \in NewWidget /\ req[r].board \in DOMAIN board /\ UNCHANGED tables
  BY NewWidgetRead DEF CreateWidgetQuery
<1>2. PICK i \in QueriesOf(o) \union {None} :
        req' = [req EXCEPT ![r].at = "new_widget", ![r].query = i]
  BY DEF CreateWidgetQuery
<1>3. FitsIn(query, i, o) /\ i \in Nat
  BY <1>2, QueriesFit DEF FitsIn, None
<1> DEFINE q == [req[r] EXCEPT !.at = "new_widget", !.query = i]
<1>4. q \in NewWidget /\ q.board = req[r].board /\ q.query = i /\ q.at = "new_widget"
  BY <1>1, <1>3 DEF NewWidget
<1>5. req' = [req EXCEPT ![r] = q]
  BY <1>2 DEF DInv
<1> HIDE DEF q
<1>6. q \notin BoardRequest /\ q \notin QueryRequest /\ q \notin WidgetRequest
  BY <1>4 DEF BoardRequest, QueryRequest, WidgetRequest
<1>7. Reads(board, query, widget, q)
  BY <1>1, <1>3, <1>4, <1>6 DEF Reads
<1>8. q \in Request
  BY <1>4 DEF Request
<1> QED BY <1>1, <1>5, <1>7, <1>8, Begun

LEMMA CreateWidgetStep ==
  ASSUME DInv, NEW r \in Requests, CreateWidget(r)
  PROVE  TablesEvolve /\ RequestsFollow
<1> DEFINE row == [board |-> req[r].board, query |-> req[r].query, deleted |-> FALSE]
<1>1. /\ req[r] \in NewWidget /\ req[r].board \in DOMAIN board
      /\ FitsIn(query, req[r].query, board[req[r].board].org)
  BY NewWidgetRead DEF CreateWidget
<1>2. /\ widget' = Append(widget, row) /\ End(r) /\ UNCHANGED <<board, query, issued>>
  BY DEF CreateWidget
<1>3. row \in WidgetRow /\ row.board = req[r].board /\ row.query = req[r].query
  BY <1>1 DEF NewWidget, WidgetRow
<1> HIDE DEF row
<1> QED BY <1>1, <1>2, <1>3, WidgetInserted, Ended

LEMMA StartWidgetStep ==
  ASSUME DInv, NEW r \in Requests, StartWidget(r)
  PROVE  TablesEvolve /\ RequestsFollow
<1>1. PICK w \in DOMAIN widget, op \in {"edit_widget.query", "delete_widget"} :
        /\ req' = [req EXCEPT ![r] = [at |-> op, widget |-> w, saw |-> widget[w],
                                      query |-> widget[w].query]]
        /\ UNCHANGED tables
  BY DEF StartWidget, Begin
<1> DEFINE q == [at |-> op, widget |-> w, saw |-> widget[w], query |-> widget[w].query]
<1>2. widget[w] \in WidgetRow /\ w \in Nat
  BY LenProperties DEF DInv, TablesOK
<1>3. q \in WidgetRequest /\ q.widget = w /\ q.query = widget[w].query
  BY <1>2 DEF WidgetRequest, WidgetRow
<1>4. q \notin BoardRequest /\ q \notin QueryRequest /\ q \notin NewWidget
  BY DEF BoardRequest, QueryRequest, NewWidget
<1> HIDE DEF q
<1>5. Reads(board, query, widget, q)
  BY <1>3, <1>4 DEF Reads, DInv, TablesOK, WidgetsFit
<1> QED BY <1>1, <1>3, <1>5, Begun DEF Request, q

LEMMA UpdateWidgetQueryStep ==
  ASSUME DInv, NEW r \in Requests, UpdateWidgetQuery(r)
  PROVE  TablesEvolve /\ RequestsFollow
<1> DEFINE o == OrgOf(req[r].widget)
<1>1. /\ req[r] \in WidgetRequest /\ req[r].widget \in DOMAIN widget /\ UNCHANGED tables
      /\ FitsIn(query, req[r].query, o)
  BY WidgetRead DEF UpdateWidgetQuery
<1>2. PICK i \in QueriesOf(o) \union {req[r].query} :
        req' = [req EXCEPT ![r].at = "edit_widget", ![r].query = i]
  BY DEF UpdateWidgetQuery
<1>3. req[r].query \in Nat
  BY <1>1 DEF WidgetRequest
<1>4. FitsIn(query, i, o) /\ i \in Nat
  BY <1>1, <1>2, <1>3, QueriesFit
<1> DEFINE q == [req[r] EXCEPT !.at = "edit_widget", !.query = i]
<1>5. q \in WidgetRequest /\ q.widget = req[r].widget /\ q.query = i /\ q.at = "edit_widget"
  BY <1>1, <1>4 DEF WidgetRequest
<1>6. req' = [req EXCEPT ![r] = q]
  BY <1>2 DEF DInv
<1> HIDE DEF q
<1>7. q \notin BoardRequest /\ q \notin QueryRequest /\ q \notin NewWidget
  BY <1>5 DEF BoardRequest, QueryRequest, NewWidget
<1>8. Reads(board, query, widget, q)
  BY <1>1, <1>4, <1>5, <1>7 DEF Reads, OrgOf, DInv, TablesOK, WidgetsFit
<1>9. q \in Request
  BY <1>5 DEF Request
<1> QED BY <1>1, <1>6, <1>8, <1>9, Begun

LEMMA WidgetSteps ==
  ASSUME DInv, NEW r \in Requests, UpdateWidget(r) \/ DeleteWidget(r)
  PROVE  TablesEvolve /\ RequestsFollow
<1> DEFINE w == req[r].widget
<1>1. /\ req[r] \in WidgetRequest /\ w \in DOMAIN widget /\ FitsIn(query, req[r].query, OrgOf(w))
      /\ widget \in [DOMAIN widget -> WidgetRow] /\ widget[w] \in WidgetRow
      /\ End(r) /\ UNCHANGED <<board, query, issued>>
  BY WidgetRead DEF UpdateWidget, DeleteWidget
<1>2. FitsIn(query, widget[w].query, OrgOf(w))
  BY <1>1 DEF DInv, TablesOK, WidgetsFit, OrgOf
<1>3. CASE UpdateWidget(r)
  <2> DEFINE v == Column(widget[w].query, req[r].saw.query, req[r].query)
             row == [widget[w] EXCEPT !.query = v]
  <2>1. v \in Nat /\ FitsIn(query, v, OrgOf(w))
    BY <1>1, <1>2 DEF Column, WidgetRequest, WidgetRow
  <2>2. widget' = [widget EXCEPT ![w] = row]
    BY <1>1, <1>3 DEF UpdateWidget
  <2> HIDE DEF v
  <2>3. row \in WidgetRow /\ row.board = widget[w].board /\ row.query = v
    BY <1>1, <2>1 DEF WidgetRow
  <2> HIDE DEF row
  <2>4. FitsIn(query, row.query, board[row.board].org)
    BY <2>1, <2>3 DEF OrgOf
  <2> QED BY <1>1, <2>2, <2>3, <2>4, WidgetWritten, Ended
<1>4. CASE DeleteWidget(r)
  <2> DEFINE row == [widget[w] EXCEPT !.deleted = TRUE]
  <2>1. widget' = [widget EXCEPT ![w] = row]
    BY <1>1, <1>4 DEF DeleteWidget
  <2>2. row \in WidgetRow /\ row.board = widget[w].board /\ row.query = widget[w].query
    BY <1>1 DEF WidgetRow
  <2> HIDE DEF row
  <2>3. FitsIn(query, row.query, board[row.board].org)
    BY <1>2, <2>2 DEF OrgOf
  <2> QED BY <1>1, <2>1, <2>2, <2>3, WidgetWritten, Ended
<1> QED BY <1>3, <1>4

LEMMA NoWriteSteps ==
  ASSUME DInv, NEW r \in Requests, UpdateDashboard(r) \/ Fail(r)
  PROVE  TablesEvolve /\ RequestsFollow
<1>1. End(r) /\ UNCHANGED tables
  BY DEF UpdateDashboard, Fail
<1> QED BY <1>1, Ended, TablesStay

----------------------------------------------------------------------------
LEMMA EachStep ==
  ASSUME DInv, [DashNext]_dashVars
  PROVE  TablesEvolve /\ RequestsFollow
<1>1. CASE UNCHANGED dashVars
  <2>1. UNCHANGED tables /\ req' = req
    BY <1>1 DEF dashVars, tables
  <2> QED BY <2>1, TablesStay DEF RequestsFollow, DInv
<1>2. CASE CreateDashboard \/ ApplyTemplate \/ CreateSavedQuery
  BY <1>2, InsertSteps
<1>3. ASSUME NEW r \in Requests, Edit(r)
      PROVE  TablesEvolve /\ RequestsFollow
  BY <1>3, StartBoardStep, ShareStep, UnshareStep, DeleteDashboardStep, StartQueryStep, QuerySteps,
     StartCreateWidgetStep, CreateWidgetQueryStep, CreateWidgetStep, StartWidgetStep,
     UpdateWidgetQueryStep, WidgetSteps, NoWriteSteps DEF Edit
<1> QED BY <1>1, <1>2, <1>3 DEF DashNext

LEMMA InitInvariant == DashInit => DInv
<1> SUFFICES ASSUME DashInit PROVE DInv
  OBVIOUS
<1>1. TablesOK
  BY EmptySeq DEF DashInit, TablesOK, LinkIffPublic, WidgetsFit
<1>2. req \in [Requests -> Request] /\ RequestsFit
  BY ReadsIdle DEF DashInit, Request, RequestsFit
<1> QED BY <1>1, <1>2 DEF DInv

LEMMA StepInvariant == DInv /\ [DashNext]_dashVars => DInv'
BY EachStep, StepKeeps

LEMMA Invariance == DashSpec => []DInv
BY InitInvariant, StepInvariant, PTL DEF DashSpec

\* Rows keep their shape and name rows that exist (dashboard_service.py:271-436).
THEOREM DashTypeCorrect == DashSpec => []DashTypeOK
<1>1. DInv => DashTypeOK
  <2> SUFFICES ASSUME DInv PROVE DashTypeOK
    OBVIOUS
  <2>1. \A w \in DOMAIN widget : /\ widget[w].board \in DOMAIN board
                                 /\ widget[w].query \in DOMAIN query \union {None}
    BY DEF DInv, TablesOK, WidgetsFit, FitsIn
  <2> QED BY <2>1 DEF DInv, TablesOK, DashTypeOK
<1> QED BY Invariance, <1>1, PTL

\* However enablings, withdrawals and renamings overlap, a dashboard has a link
\* exactly while it is public (dashboard_service.py:336-345).
THEOREM LinksArePublic == DashSpec => []LinkIffPublic
<1>1. DInv => LinkIffPublic
  BY DEF DInv, TablesOK
<1> QED BY Invariance, <1>1, PTL

\* No widget asks another organization's query, although the query is checked one
\* step before the widget is written (dashboard_service.py:361, 412).
THEOREM WidgetsStay == DashSpec => []WidgetsStayInOrg
<1>1. DInv => WidgetsStayInOrg
  BY DEF DInv, TablesOK, WidgetsFit, FitsIn, WidgetsStayInOrg, OrgOf
<1> QED BY Invariance, <1>1, PTL

\* A link that was withdrawn never works again (dashboard_service.py:336-345).
THEOREM DeadLinksAreGone == DashSpec => DeadLinksStayDead
<1>1. DInv /\ [DashNext]_dashVars => \A l \in 1..issued : ~Resolves(l) => ~Resolves(l)'
  <2> SUFFICES ASSUME DInv, [DashNext]_dashVars, NEW l \in 1..issued,
                      NEW b \in DOMAIN board', board'[b].link = l, board'[b].public,
                      ~board'[b].deleted
               PROVE  Resolves(l)
    BY DEF Resolves
  <2>1. BoardsKeep /\ issued \in Nat /\ l # None /\ ~(l > issued)
    BY EachStep DEF TablesEvolve, DInv, TablesOK, None
  <2>2. b \in DOMAIN board /\ board[b].link = l /\ ~board[b].deleted
    BY <2>1 DEF BoardsKeep
  <2>3. board[b].public
    BY <2>1, <2>2 DEF DInv, TablesOK, LinkIffPublic
  <2> QED BY <2>2, <2>3 DEF Resolves
<1> QED BY Invariance, <1>1, PTL DEF DashSpec, DeadLinksStayDead

\* A dashboard's row changes only at the hands of a request that shares, unshares
\* or deletes this dashboard.
LEMMA RowsKept ==
  ASSUME DInv, [DashNext]_dashVars, NEW b \in DOMAIN board
  PROVE  \/ b \in DOMAIN board' /\ board'[b] = board[b]
         \/ \E r \in Requests : (Share(r) \/ Unshare(r) \/ DeleteDashboard(r)) /\ req[r].board = b
<1> DEFINE Kept == b \in DOMAIN board' /\ board'[b] = board[b]
<1>1. CASE board' = board
  BY <1>1
<1>2. CASE CreateDashboard \/ ApplyTemplate
  <2>1. PICK o \in Orgs : board' = Append(board, NewBoard(o))
    BY <1>2 DEF CreateDashboard, ApplyTemplate
  <2>2. board \in Seq(BoardRow) /\ NewBoard(o) \in BoardRow
    BY DEF DInv, TablesOK, NewBoard, BoardRow, None
  <2> QED BY <2>1, <2>2, Appended
<1>3. ASSUME NEW r \in Requests, Share(r) \/ Unshare(r) \/ DeleteDashboard(r)
      PROVE  Kept \/ req[r].board = b
  <2>1. \E row : board' = [board EXCEPT ![req[r].board] = row]
    BY <1>3 DEF Share, Publish, Unshare, DeleteDashboard
  <2> QED BY <2>1
<1>4. ASSUME NEW r \in Requests, Edit(r), ~(Share(r) \/ Unshare(r) \/ DeleteDashboard(r))
      PROVE  board' = board
  BY <1>4 DEF Edit, StartBoard, UpdateDashboard, StartQuery, UpdateSavedQuery, DeleteSavedQuery,
     StartCreateWidget, CreateWidgetQuery, CreateWidget, StartWidget, UpdateWidgetQuery,
     UpdateWidget, DeleteWidget, Fail, tables
<1>5. CASE CreateSavedQuery \/ UNCHANGED dashVars
  BY <1>1, <1>5 DEF CreateSavedQuery, dashVars
<1> QED BY <1>1, <1>2, <1>3, <1>4, <1>5 DEF DashNext

\* Enabling a dashboard that was read with a link changes nothing of it.
LEMMA ShareAgainKeeps ==
  ASSUME DInv, NEW r \in Requests, Share(r), req[r].saw.link # None
  PROVE  board' = board
<1> DEFINE b == req[r].board
           saw == req[r].saw
<1>1. /\ b \in DOMAIN board /\ saw \in BoardRow /\ Agrees(saw) /\ board[b] \in BoardRow
      /\ board \in [DOMAIN board -> BoardRow]
  BY BoardRead DEF Share
<1>2. saw.public = TRUE
  BY <1>1 DEF Agrees, BoardRow
<1>3. board' = [board EXCEPT ![b].link = Column(@, saw.link, saw.link),
                             ![b].public = Column(@, saw.public, TRUE)]
  BY DEF Share, Publish
<1>4. board' = [board EXCEPT ![b] = [board[b] EXCEPT !.link = board[b].link,
                                                     !.public = board[b].public]]
  BY <1>1, <1>2, <1>3 DEF Column
<1>5. [board[b] EXCEPT !.link = board[b].link, !.public = board[b].public] = board[b]
  BY <1>1 DEF BoardRow
<1> QED BY <1>1, <1>4, <1>5

\* A link that works stops working only by an unsharing or a deletion of its
\* dashboard, or by an enabling that read the dashboard before it had the link
\* (dashboard_service.py:336-345, 300-315).
THEOREM LinksLast == DashSpec => LinksAreKept
<1>1. DInv /\ [DashNext]_dashVars =>
        \A l \in 1..issued :
          Resolves(l) /\ ~Resolves(l)' => \E r \in Requests :
            /\ req[r].at \in {"unshare", "delete_board", "share"}
            /\ board[req[r].board].link = l
            /\ req[r].at = "share" => req[r].saw.link = None
  <2> SUFFICES ASSUME DInv, [DashNext]_dashVars, NEW l \in 1..issued,
                      Resolves(l), ~Resolves(l)'
               PROVE  \E r \in Requests :
                        /\ req[r].at \in {"unshare", "delete_board", "share"}
                        /\ board[req[r].board].link = l
                        /\ req[r].at = "share" => req[r].saw.link = None
    OBVIOUS
  <2>1. PICK b \in DOMAIN board : board[b].link = l /\ board[b].public /\ ~board[b].deleted
    BY DEF Resolves
  <2>2. ~(b \in DOMAIN board' /\ board'[b] = board[b])
    BY <2>1 DEF Resolves
  <2>3. PICK r \in Requests :
          (Share(r) \/ Unshare(r) \/ DeleteDashboard(r)) /\ req[r].board = b
    BY <2>2, RowsKept
  <2>4. req[r].at = "share" => req[r].saw.link = None
    BY <2>2, <2>3, ShareAgainKeeps DEF Unshare, DeleteDashboard
  <2>5. req[r].at \in {"unshare", "delete_board", "share"}
    BY <2>3 DEF Share, Unshare, DeleteDashboard
  <2> QED BY <2>1, <2>3, <2>4, <2>5
<1> QED BY Invariance, <1>1, PTL DEF DashSpec, LinksAreKept
=============================================================================
