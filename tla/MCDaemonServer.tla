--------------------------- MODULE MCDaemonServer ---------------------------
(***************************************************************************)
(* Two processes that can compete for the election port or follow one      *)
(* another, a tool request, one or two stop requests and a signal.         *)
(***************************************************************************)
EXTENDS DaemonServer

CONSTANTS d1, d2, call, stop1, stop2, signal
=============================================================================
