----------------------------- MODULE MCFreshness -----------------------------
(***************************************************************************)
(* One file whose text goes back and forth between two versions, a syntax  *)
(* error, undecodable bytes and removal.                                   *)
(***************************************************************************)
EXTENDS Freshness

CONSTANTS module, old, new
==============================================================================
