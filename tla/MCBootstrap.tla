----------------------------- MODULE MCBootstrap -----------------------------
(***************************************************************************)
(* Two files found in the order that the first pass resolves worst: the    *)
(* caller before the file it imports.                                      *)
(***************************************************************************)
EXTENDS Bootstrap, TLC

CONSTANTS t1, t2, caller, callee

MCWalkOrder == <<caller, callee>>
MCDependsOn == (caller :> {callee}) @@ (callee :> {})
==============================================================================
