--------------------------- MODULE CoalescedPasses ---------------------------
(***************************************************************************)
(* What the enrichment scheduler promises its trigger sources: a request   *)
(* is never forgotten while the daemon lives, any number of requests are   *)
(* served by one pass that begins after the last of them, and a            *)
(* repository has at most one pass at a time.                              *)
(***************************************************************************)
CONSTANT Repos

VARIABLES
    wanted,  \* the repositories with a request no pass has begun to serve
    active,  \* the repositories with a pass under way
    fresh    \* those of them whose pass has yet to look at the repository

vars == <<wanted, active, fresh>>

Init == wanted = {} /\ active = {} /\ fresh = {}

Request(r) ==
    /\ wanted' = wanted \cup {r}
    /\ UNCHANGED <<active, fresh>>

\* A pass begins, for a request just made or for those made before.
Begin(r) ==
    /\ r \notin active
    /\ active' = active \cup {r}
    /\ fresh' = fresh \cup {r}
    /\ wanted' = wanted \ {r}

Look(r) ==
    /\ r \in fresh
    /\ fresh' = fresh \ {r}
    /\ UNCHANGED <<wanted, active>>

Finish(r) ==
    /\ r \in active \ fresh
    /\ active' = active \ {r}
    /\ UNCHANGED <<wanted, fresh>>

\* A pass is followed at once by another for the requests made during it.
BeginNext(r) ==
    /\ r \in (active \ fresh) \cap wanted
    /\ wanted' = wanted \ {r}
    /\ fresh' = fresh \cup {r}
    /\ UNCHANGED active

\* The daemon process ends; its successor starts with nothing requested.
Forget ==
    /\ wanted' = {}
    /\ active' = {}
    /\ fresh' = {}

Next ==
    \/ \E r \in Repos : \/ Request(r) \/ Begin(r) \/ Look(r)
                        \/ Finish(r) \/ BeginNext(r)
    \/ Forget

Serve(r) == r \in wanted /\ (Begin(r) \/ BeginNext(r))

Safety == Init /\ [][Next]_vars

Spec ==
    /\ Safety
    /\ \A r \in Repos : WF_vars(Serve(r)) /\ WF_vars(Look(r) \/ Finish(r) \/ BeginNext(r))
==============================================================================
