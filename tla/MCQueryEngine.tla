--------------------------- MODULE MCQueryEngine ---------------------------
(***************************************************************************)
(* What meets in one behaviour: two requests that share, unshare, rename   *)
(* and delete dashboards; two requests that place widgets and saved        *)
(* queries of two organizations; views of two organizations' widgets with  *)
(* a query being edited; counts.  Events arrive during the last two.       *)
(***************************************************************************)
EXTENDS QueryEngine, TLC

Sharing == [ops |-> {"new_board", "rename", "share", "unshare", "delete_board"},
            boards |-> 1, queries |-> 0, widgets |-> 0, periods |-> {}]
Placing == [ops |-> {"new_board", "new_query", "new_widget", "edit_widget.query",
                     "delete_widget", "delete_query", "delete_board"},
            boards |-> 1, queries |-> 2, widgets |-> 1, periods |-> {}]
Viewing == [ops |-> {"template", "view"},
            boards |-> 2, queries |-> 2, widgets |-> 2, periods |-> {1}]
Editing == [ops |-> {"template", "edit_query", "delete_query", "view"},
            boards |-> 1, queries |-> 1, widgets |-> 1, periods |-> {}]
Counting == [ops |-> {"stats"}, boards |-> 0, queries |-> 0, widgets |-> 0, periods |-> 1..Periods]

AllMixes == {Sharing, Placing, Viewing, Editing, Counting}
============================================================================
