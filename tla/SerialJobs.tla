----------------------------- MODULE SerialJobs -----------------------------
(***************************************************************************)
(* What the write queue promises its callers, with no threads, locks or    *)
(* sentinels: accepted jobs of a repository run one at a time in the order *)
(* in which they were accepted; once the service is closing only the       *)
(* follow-up of a job already answered in the same repository is accepted; *)
(* and the service is closed only when every accepted job has been         *)
(* answered, after which nothing runs.                                     *)
(***************************************************************************)
EXTENDS Sequences

CONSTANTS Repos, Jobs, RepoOf, Parent, NoJob

VARIABLES
    status,  \* what the holder of each job's Future knows
    line,    \* the accepted jobs of each repository that have not begun
    phase    \* "open", "closing" or "closed"

vars == <<status, line, phase>>

Init ==
    /\ status = [j \in Jobs |-> "none"]
    /\ line = [r \in Repos |-> <<>>]
    /\ phase = "open"

FollowUp(j) ==
    /\ Parent[j] # NoJob
    /\ RepoOf[Parent[j]] = RepoOf[j]
    /\ status[Parent[j]] = "answered"

Accept(j) ==
    /\ status[j] = "none"
    /\ phase = "open" \/ (phase = "closing" /\ FollowUp(j))
    /\ status' = [status EXCEPT ![j] = "waiting"]
    /\ line' = [line EXCEPT ![RepoOf[j]] = Append(@, j)]
    /\ UNCHANGED phase

Refuse(j) ==
    /\ status[j] = "none"
    /\ status' = [status EXCEPT ![j] = "refused"]
    /\ UNCHANGED <<line, phase>>

Begin(r) ==
    /\ line[r] # <<>>
    /\ \A j \in Jobs : RepoOf[j] = r => status[j] # "running"
    /\ status' = [status EXCEPT ![Head(line[r])] = "running"]
    /\ line' = [line EXCEPT ![r] = Tail(@)]
    /\ UNCHANGED phase

Answer(j) ==
    /\ status[j] = "running"
    /\ status' = [status EXCEPT ![j] = "answered"]
    /\ UNCHANGED <<line, phase>>

BeginClosing ==
    /\ phase = "open"
    /\ phase' = "closing"
    /\ UNCHANGED <<status, line>>

Shut ==
    /\ phase = "closing"
    /\ \A j \in Jobs : status[j] \notin {"waiting", "running"}
    /\ phase' = "closed"
    /\ UNCHANGED <<status, line>>

Next ==
    \/ \E j \in Jobs : Accept(j) \/ Refuse(j) \/ Answer(j)
    \/ \E r \in Repos : Begin(r)
    \/ BeginClosing
    \/ Shut

Spec == Init /\ [][Next]_vars
=============================================================================
