--------------------------- MODULE MCRateLimiter ---------------------------
(***************************************************************************)
(* An organization with a limit of two and keys with a limit of one: both  *)
(* limits are met, by one key and by the keys together, and counters go on *)
(* two past them.  The symmetry is for the runs without temporal           *)
(* properties.                                                             *)
(***************************************************************************)
EXTENDS RateLimiter, TLC

Symmetry == Permutations(Keys)
============================================================================
