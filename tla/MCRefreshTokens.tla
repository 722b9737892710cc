-------------------------- MODULE MCRefreshTokens --------------------------
(***************************************************************************)
(* Two overlapping requests, four tokens: enough for a token to be traded  *)
(* twice and one successor to be traded again, or a third time if it could.*)
(***************************************************************************)
EXTENDS RefreshTokens, TLC

Symmetry == Permutations(Tokens) \union Permutations(Requests)
============================================================================
