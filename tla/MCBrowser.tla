----------------------------- MODULE MCBrowser -----------------------------
(***************************************************************************)
(* Three calls in two tabs, so that two share a tab's refresh while the    *)
(* other tab sends its own; four tokens, so that a token dealt to one tab  *)
(* is traded again before the reply to the other tab arrives.              *)
(***************************************************************************)
EXTENDS Browser, TLC

Symmetry == Permutations(Tokens) \union Permutations(Requests) \union Permutations(Tabs)
============================================================================
