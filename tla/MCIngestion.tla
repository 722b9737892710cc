---------------------------- MODULE MCIngestion ----------------------------
(***************************************************************************)
(* One submission, delivered up to twice, and a key with its successor or  *)
(* two keys of their own.                                                  *)
(***************************************************************************)
EXTENDS Ingestion, TLC
============================================================================
