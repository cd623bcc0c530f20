-------------------------------- MODULE MCWalks --------------------------------
(***************************************************************************)
(* One request: graph, impact_analysis or affected_tests over any of six   *)
(* relations among four symbols, or architecture over three files that     *)
(* import each other by ambiguous names and by names of members.           *)
(***************************************************************************)
EXTENDS GraphWalk, Architecture

MCIds == 1..4

Rel(s, t, k) == [source |-> s, target |-> t, site |-> k]

MCRelations == {Rel(1, 2, 1), Rel(1, 3, 2), Rel(2, 4, 1), Rel(4, 3, 3), Rel(3, 1, 1), Rel(3, 4, 2)}

\* impact_analysis and affected_tests walk upstream and return no edges.
MCRequests ==
    {q \in [root : {1}, direction : {"upstream", "downstream"}, edges : BOOLEAN,
            cap : 2..4, depth : 1..3] : q.direction = "upstream" \/ q.edges}

MCModules == {"a", "b", "c"}

MCDottedName == [f \in MCModules |-> CASE f = "a" -> <<"src", "p", "a">>
                                       [] f = "b" -> <<"src", "p", "b">>
                                       [] f = "c" -> <<"q", "b">>]

\* b is one of two files, p.b.x and q.b.y are members.
MCImportNames == {<<"p", "a">>, <<"b">>, <<"p", "b", "x">>, <<"q", "b", "y">>}

MCRoots == {<<>>, <<"src">>}

\* The answer for a root without relations.
NoWalk ==
    /\ live = {} /\ commits = 0 /\ request \in {q \in MCRequests : q.cap = 2 /\ q.depth = 1 /\ ~q.edges}
    /\ walkStage = "done" /\ depth = 0 /\ level = {} /\ next = {}
    /\ nodes = {1} /\ edges = {} /\ truncated = FALSE /\ lasting = {} /\ seen = {}

NoArchitecture ==
    /\ scope = {} /\ fileEdges = {} /\ phase = "done" /\ index = <<>> /\ lowlink = <<>>
    /\ component = <<>> /\ path = <<>> /\ cycles = {}

WalksInit == (WalkInit /\ NoArchitecture) \/ (NoWalk /\ ArchInit)
WalksNext == (WalkNext /\ UNCHANGED archVars) \/ (ArchNext /\ UNCHANGED walkVars)
===============================================================================
