------------------------------- MODULE GraphWalk -------------------------------
(***************************************************************************)
(* The tools that walk the relations from a root (tools/graph.py,          *)
(* impact_analysis.py and affected_tests.py), while jobs write the index.  *)
(*                                                                         *)
(* A walk goes level by level, to a depth, and returns at most a number of *)
(* symbols.  The relations of a symbol are one SELECT, and jobs may commit *)
(* between any two of them.  What is found over the limit is dropped, and  *)
(* the answer says that it is truncated; a walk that only reached its      *)
(* depth looks once more whether there is anything behind its last level.  *)
(* A commit replaces any of the relations the walk reads: whether it       *)
(* counts the generation makes no difference here.  affected_tests keeps   *)
(* the tests of what its walk returns, which is left out.                  *)
(***************************************************************************)
EXTENDS Naturals, FiniteSets

CONSTANTS
    Ids,         \* symbol ids, in their order: a set of numbers
    Relations,   \* records with source, target and site
    Requests,    \* records with root, direction, edges, cap and depth
    MaxCommits    \* bound: commits during the walk

ASSUME IdsAssumption == Ids \subseteq Nat /\ IsFiniteSet(Ids)
ASSUME RelationsAssumption == Relations \subseteq [source : Ids, target : Ids, site : Nat]
ASSUME RequestsAssumption ==
    Requests \subseteq [root : Ids, direction : {"upstream", "downstream"}, edges : BOOLEAN,
                        cap : Nat \ {0}, depth : Nat \ {0}]
ASSUME CommitsAssumption == MaxCommits \in Nat

VARIABLES
    live,        \* the live relations of the predicates that the tool follows
    commits,
    request,     \* edges: the answer holds them (graph); upstream only, without them
    walkStage,   \* walking, looking (behind the last level) or done
    depth,
    level,       \* the symbols of this level that are not expanded yet
    next,        \* those of the next level
    nodes, edges, truncated,
    lasting,     \* history: relations that were there all the time
    seen         \* history: relations that were there at some time

answer == <<nodes, edges, truncated>>
walk == <<request, walkStage, depth, level, next, answer>>
walkVars == <<live, commits, walk, lasting, seen>>

WalkInit ==
    /\ live \in SUBSET Relations /\ commits = 0
    /\ request \in Requests
    /\ walkStage = "walking" /\ depth = 0
    /\ level = {request.root} /\ next = {}
    /\ nodes = {request.root} /\ edges = {} /\ truncated = FALSE
    /\ lasting = live /\ seen = live

\* Any commit of the write queue's thread.
JobCommits(to) ==
    /\ walkStage # "done" /\ commits < MaxCommits
    /\ live' = to /\ commits' = commits + 1
    /\ lasting' = lasting \cap to /\ seen' = seen \cup to
    /\ UNCHANGED walk

-----------------------------------------------------------------------------
(* A walk *)

From(r) == IF request.direction = "downstream" THEN r.source ELSE r.target
To(r) == IF request.direction = "downstream" THEN r.target ELSE r.source

RelationsOf(n) == {r \in live : From(r) = n}

\* sorted(frontier): the least id of the level is the current one.
Current(n) == n \in level /\ \A m \in level : n <= m

\* The order of the sites, and at one site that of the ids.
Before(r, q) == \/ r.site < q.site
                \/ r.site = q.site /\ r.source < q.source
                \/ r.site = q.site /\ r.source = q.source /\ r.target < q.target

Found(n) == {To(r) : r \in RelationsOf(n)} \ nodes

\* The loop over the sorted relations of a symbol returns what it finds first, as
\* far as there is room.
Returned(n, new) ==
    /\ new \subseteq Found(n)
    /\ Cardinality(nodes) + Cardinality(new) <= request.cap
    /\ new # Found(n) => Cardinality(nodes) + Cardinality(new) >= request.cap
    /\ \A i \in new, j \in Found(n) \ new :
           \E r \in RelationsOf(n) : /\ To(r) = i
                                     /\ \A q \in RelationsOf(n) : To(q) = j => Before(r, q)

\* An edge is kept when the symbol at its other end is in the answer.
Kept(n, new) == IF request.edges THEN {r \in RelationsOf(n) : To(r) \in nodes \cup new} ELSE {}

\* Mutant: a new symbol is expanded on the level it is found on.
DescendAtOnce(rest, found, cut) ==
    IF rest \cup found # {} /\ depth < request.depth
    THEN level' = rest \cup found /\ next' = {} /\ UNCHANGED walkStage /\ depth' = depth + 1
    ELSE /\ level' = found /\ next' = {} /\ depth' = depth + 1
         /\ walkStage' = IF found # {} /\ ~cut THEN "looking" ELSE "done"

\* Mutant: a walk that reaches its depth does not look behind its last level.
DescendBlind(rest, found, cut) ==
    IF rest # {} THEN level' = rest /\ next' = found /\ UNCHANGED <<walkStage, depth>>
    ELSE /\ level' = found /\ next' = {} /\ depth' = depth + 1
         /\ walkStage' = IF found # {} /\ depth + 1 < request.depth THEN "walking" ELSE "done"

\* The next level, or the look behind the last one: all of next_frontier is known
\* when the last symbol of a level is expanded.
Descend(rest, found, cut) ==
    IF rest # {} THEN level' = rest /\ next' = found /\ UNCHANGED <<walkStage, depth>>
    ELSE /\ level' = found /\ next' = {} /\ depth' = depth + 1
         /\ walkStage' = IF found # {} /\ depth + 1 < request.depth THEN "walking"
                     ELSE IF found # {} /\ ~cut THEN "looking"
                     ELSE "done"

Expand(n, new) ==
    /\ walkStage = "walking" /\ Current(n)
    /\ Returned(n, new)
    /\ nodes' = nodes \cup new
    /\ edges' = edges \cup Kept(n, new)
    /\ truncated' = (truncated \/ new # Found(n))
    /\ Descend(level \ {n}, next \cup new, truncated')
    /\ UNCHANGED <<live, commits, request, lasting, seen>>

\* Mutant: symbols behind the last level count although they are in the answer.
UnrecordedOrOld(n) == RelationsOf(n)

\* What the answer lacks of the relations of n.
Unrecorded(n) == {r \in RelationsOf(n) : To(r) \notin nodes \/ (request.edges /\ r \notin edges)}

Look(n) ==
    /\ walkStage = "looking" /\ Current(n)
    /\ truncated' = (Unrecorded(n) # {})
    /\ level' = level \ {n}
    /\ walkStage' = IF truncated' \/ level' = {} THEN "done" ELSE "looking"
    /\ UNCHANGED <<live, commits, request, depth, next, nodes, edges, lasting, seen>>

Walk == \E n \in level : Look(n) \/ \E new \in SUBSET Found(n) : Expand(n, new)

WalkNext == Walk \/ \E to \in SUBSET Relations : to # live /\ JobCommits(to)
WalkSpec == WalkInit /\ [][WalkNext]_walkVars

-----------------------------------------------------------------------------
(* Properties *)

WalkTypeOK ==
    /\ live \subseteq Relations /\ commits \in Nat /\ request \in Requests
    /\ walkStage \in {"walking", "looking", "done"} /\ depth \in Nat
    /\ level \subseteq nodes /\ next \subseteq nodes /\ nodes \subseteq Ids
    /\ edges \subseteq seen /\ seen \subseteq Relations /\ truncated \in BOOLEAN
    /\ lasting \subseteq live /\ live \subseteq seen

\* An answer that does not say it is truncated is closed: whatever was related to
\* one of its symbols all the time is in it, and the relation too.
CompleteUnlessTruncated ==
    walkStage = "done" /\ ~truncated =>
        \A r \in lasting : From(r) \in nodes =>
            To(r) \in nodes /\ (request.edges => r \in edges)

\* An answer that says it is truncated lacks something the index had.
TruncatedMeansCut ==
    walkStage = "done" /\ truncated =>
        \E r \in seen : From(r) \in nodes /\ (To(r) \notin nodes \/ (request.edges /\ r \notin edges))

\* The edges of an answer join symbols of the answer.
EdgesJoinNodes == \A r \in edges : r.source \in nodes /\ r.target \in nodes

\* What is at most k steps from the root, through relations that stay.
Within[k \in Nat] ==
    IF k = 0 THEN {request.root}
    ELSE Within[k - 1] \cup {To(r) : r \in {q \in lasting : From(q) \in Within[k - 1]}}

\* In an index that nobody writes, a walk to its end has what its depth allows,
\* and what it lacks for want of room is no nearer than what it has.
NearestKept ==
    walkStage = "done" /\ commits = 0 =>
        /\ nodes \subseteq Within[request.depth]
        /\ \A k \in 0..request.depth :
               Within[k] \subseteq nodes \/ (Cardinality(nodes) = request.cap /\ nodes \subseteq Within[k])
===============================================================================
