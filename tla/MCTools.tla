-------------------------------- MODULE MCTools --------------------------------
(***************************************************************************)
(* One client of the query tools: a session of find_references, or one     *)
(* request to a graph tool or to architecture.                             *)
(***************************************************************************)
EXTENDS MCPages, MCWalks

\* The session of a client that asks for something else.
NoSession ==
    /\ rows = {} /\ stayed = {} /\ generation = 0 /\ writes = 0
    /\ stage = "done" /\ pinned = 0 /\ cursor = NoCursor
    /\ waiting = {} /\ matches = {} /\ delivered = {} /\ page = {}
    /\ before = {} /\ during = {}

ToolsInit ==
    \/ Init /\ NoWalk /\ NoArchitecture
    \/ NoSession /\ WalksInit

\* No commit falls into a session that is over.
ToolsNext ==
    \/ stage # "done" /\ Next /\ UNCHANGED <<walkVars, archVars>>
    \/ WalksNext /\ UNCHANGED vars

ToolsSpec == ToolsInit /\ [][ToolsNext]_<<vars, walkVars, archVars>>
===============================================================================
