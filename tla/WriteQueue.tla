----------------------------- MODULE WriteQueue -----------------------------
(***************************************************************************)
(* The daemon's write path (daemon/write_queue.py): every repository has   *)
(* one writer thread and one FIFO queue, created by the first submit and   *)
(* stopped by the _STOP item that close() puts.                            *)
(*                                                                         *)
(* A job is submitted at most once.  A job with a Parent is submitted by   *)
(* the done-callback of its parent's Future, which runs on the writer      *)
(* thread of the parent's repository while it resolves that Future, or, if *)
(* the callback was attached only after the Future had resolved, on the    *)
(* thread that attached it.  Futures are never cancelled by any caller.    *)
(*                                                                         *)
(* A locked section of the code is one action; a value read outside a lock *)
(* is used in a later action.                                              *)
(***************************************************************************)
EXTENDS Integers, Sequences, FiniteSets

CONSTANTS Repos,     \* repository keys
          Jobs,      \* the jobs that are ever submitted
          RepoOf,    \* the repository each job writes to
          Parent,    \* the job whose done-callback submits it, or NoJob
          NoJob,     \* no such job
          Stop       \* the sentinel close() puts (_STOP)

ASSUME ConstantsAssumption ==
    /\ IsFiniteSet(Jobs)
    /\ RepoOf \in [Jobs -> Repos]
    /\ Parent \in [Jobs -> Jobs \cup {NoJob}]
    /\ NoJob \notin Jobs
    /\ Stop \notin Jobs

VARIABLES
    job,        \* where each job's submit and its Future stand
    runner,     \* the thread that runs submit for the job
    writer,     \* the state of each repository's writer thread
    published,  \* whether the repository's writer is in _workers
    creator,    \* the job whose submit holds the repository's creation lock
    queue,      \* each writer's FIFO queue
    current,    \* the job each writer has dequeued
    inFlight,   \* _in_flight
    closer,     \* where close() stands; _closed is set once it is not "open"
    bounded,    \* whether close() was given a timeout
    toStop,     \* the snapshot's writers that have not been sent Stop
    toJoin      \* the snapshot's writers that have not been joined

jobVars    == <<job, runner>>
workerVars == <<writer, published, creator>>
queueVars  == <<queue, current, inFlight>>
closeVars  == <<closer, bounded, toStop, toJoin>>
vars == <<jobVars, workerVars, queueVars, closeVars>>

JobStates    == {"new", "admitted", "creating", "enqueuing", "queued",
                 "running", "resolving", "resolved", "refused", "failed"}
Submitting   == {"admitted", "creating", "enqueuing"}
Accepted     == {"queued", "running", "resolving"}
Answered     == {"resolving", "resolved", "refused", "failed"}
WriterStates == {"none", "opening", "idle", "busy", "hung", "resolving",
                 "stopped"}

TypeOK ==
    /\ job \in [Jobs -> JobStates]
    /\ runner \in [Jobs -> {"thread", "writer"}]
    /\ writer \in [Repos -> WriterStates]
    /\ published \in [Repos -> BOOLEAN]
    /\ creator \in [Repos -> Jobs \cup {NoJob}]
    /\ queue \in [Repos -> Seq(Jobs \cup {Stop})]
    /\ current \in [Repos -> Jobs \cup {NoJob}]
    /\ inFlight \in [Repos -> Nat]
    /\ closer \in {"open", "snapshot", "draining", "done"}
    /\ bounded \in BOOLEAN
    /\ toStop \in SUBSET Repos
    /\ toJoin \in SUBSET Repos

Init ==
    /\ job = [j \in Jobs |-> "new"]
    /\ runner = [j \in Jobs |-> "thread"]
    /\ writer = [r \in Repos |-> "none"]
    /\ published = [r \in Repos |-> FALSE]
    /\ creator = [r \in Repos |-> NoJob]
    /\ queue = [r \in Repos |-> <<>>]
    /\ current = [r \in Repos |-> NoJob]
    /\ inFlight = [r \in Repos |-> 0]
    /\ closer = "open"
    /\ bounded = FALSE
    /\ toStop = {}
    /\ toJoin = {}

-----------------------------------------------------------------------------
(* submit *)

Closed == closer # "open"

\* is_reentrant: the submitting thread is the writer of the job's own repository.
Reentrant(j) ==
    /\ Parent[j] # NoJob
    /\ runner[j] = "writer"
    /\ RepoOf[Parent[j]] = RepoOf[j]

Move(j, state) == job' = [job EXCEPT ![j] = state]

\* The first check of _closed; a root job's submit runs on some other thread.
SubmitOnThread(j) ==
    /\ job[j] = "new"
    /\ Parent[j] # NoJob => job[Parent[j]] \in {"resolving", "resolved"}
    /\ Move(j, IF Closed THEN "refused" ELSE "admitted")
    /\ UNCHANGED <<runner, workerVars, queueVars, closeVars>>

\* The same check made by a done-callback on the writer thread of its parent.
SubmitOnWriter(j) ==
    /\ job[j] = "new"
    /\ Parent[j] # NoJob
    /\ job[Parent[j]] = "resolving"
    /\ \A k \in Jobs : Parent[k] = Parent[j] /\ runner[k] = "writer"
                          => job[k] \notin Submitting
    /\ runner' = [runner EXCEPT ![j] = "writer"]
    /\ Move(j, IF Closed /\ RepoOf[Parent[j]] # RepoOf[j]
               THEN "refused" ELSE "admitted")
    /\ UNCHANGED <<workerVars, queueVars, closeVars>>

\* _worker_for when the writer is already in _workers.
FindWorker(j) ==
    /\ job[j] = "admitted"
    /\ published[RepoOf[j]]
    /\ Move(j, "enqueuing")
    /\ UNCHANGED <<runner, workerVars, queueVars, closeVars>>

\* Mutant: the first writer is created without the per-repository creation lock.
StartWorkerUnlocked(j) ==
    LET r == RepoOf[j] IN
    /\ job[j] = "admitted"
    /\ ~published[r]
    /\ creator' = [creator EXCEPT ![r] = j]
    /\ writer' = [writer EXCEPT ![r] = "opening"]
    /\ Move(j, "creating")
    /\ UNCHANGED <<runner, published, queueVars, closeVars>>

\* _worker_for otherwise: take the creation lock and start the thread.
StartWorker(j) ==
    LET r == RepoOf[j] IN
    /\ job[j] = "admitted"
    /\ ~published[r]
    /\ creator[r] = NoJob
    /\ creator' = [creator EXCEPT ![r] = j]
    /\ writer' = [writer EXCEPT ![r] = "opening"]
    /\ Move(j, "creating")
    /\ UNCHANGED <<runner, published, queueVars, closeVars>>

OpenConnection(r) ==
    /\ writer[r] = "opening"
    /\ writer' = [writer EXCEPT ![r] = "idle"]
    /\ UNCHANGED <<jobVars, published, creator, queueVars, closeVars>>

\* The thread ends with _startup_error, which start() raises into submit.
OpenFails(r) ==
    /\ writer[r] = "opening"
    /\ writer' = [writer EXCEPT ![r] = "none"]
    /\ creator' = [creator EXCEPT ![r] = NoJob]
    /\ Move(creator[r], "failed")
    /\ UNCHANGED <<runner, published, queueVars, closeVars>>

PublishWorker(j) ==
    LET r == RepoOf[j] IN
    /\ job[j] = "creating"
    /\ writer[r] = "idle"
    /\ published' = [published EXCEPT ![r] = TRUE]
    /\ creator' = [creator EXCEPT ![r] = NoJob]
    /\ Move(j, "enqueuing")
    /\ UNCHANGED <<runner, writer, queueVars, closeVars>>

\* Mutant: _closed is not checked again under the lock.
EnqueueUnchecked(j) ==
    /\ job[j] = "enqueuing"
    /\ Move(j, "queued")
    /\ inFlight' = [inFlight EXCEPT ![RepoOf[j]] = @ + 1]
    /\ queue' = [queue EXCEPT ![RepoOf[j]] = Append(@, j)]
    /\ UNCHANGED <<runner, workerVars, current, closeVars>>

\* The section under enqueue_lock: check _closed again, count, and put.
Enqueue(j) ==
    LET r == RepoOf[j] IN
    /\ job[j] = "enqueuing"
    /\ \/ /\ Closed /\ ~Reentrant(j)
          /\ Move(j, "refused")
          /\ UNCHANGED queueVars
       \/ /\ ~Closed \/ Reentrant(j)
          /\ Move(j, "queued")
          /\ inFlight' = [inFlight EXCEPT ![r] = @ + 1]
          /\ queue' = [queue EXCEPT ![r] = Append(@, j)]
          /\ UNCHANGED current
    /\ UNCHANGED <<runner, workerVars, closeVars>>

-----------------------------------------------------------------------------
(* _RepoWriter._run *)

TakeJob(r) ==
    /\ writer[r] = "idle"
    /\ queue[r] # <<>>
    /\ Head(queue[r]) # Stop
    /\ writer' = [writer EXCEPT ![r] = "busy"]
    /\ current' = [current EXCEPT ![r] = Head(queue[r])]
    /\ queue' = [queue EXCEPT ![r] = Tail(@)]
    /\ Move(Head(queue[r]), "running")
    /\ UNCHANGED <<runner, published, creator, inFlight, closeVars>>

TakeStop(r) ==
    /\ writer[r] = "idle"
    /\ queue[r] # <<>>
    /\ Head(queue[r]) = Stop
    /\ writer' = [writer EXCEPT ![r] = "stopped"]
    /\ queue' = [queue EXCEPT ![r] = Tail(@)]
    /\ UNCHANGED <<jobVars, published, creator, current, inFlight, closeVars>>

\* A job that never returns, such as one waiting for a hung git process.
Hang(r) ==
    /\ writer[r] = "busy"
    /\ writer' = [writer EXCEPT ![r] = "hung"]
    /\ UNCHANGED <<jobVars, published, creator, queueVars, closeVars>>

\* fn returned or raised: set_result or set_exception, whose callbacks run now.
Resolve(r) ==
    /\ writer[r] = "busy"
    /\ writer' = [writer EXCEPT ![r] = "resolving"]
    /\ Move(current[r], "resolving")
    /\ UNCHANGED <<runner, published, creator, queueVars, closeVars>>

\* Mutant: a job that was resolved stays counted as in flight.
MarkResolvedForgotten(r) ==
    /\ writer[r] = "resolving"
    /\ writer' = [writer EXCEPT ![r] = "idle"]
    /\ current' = [current EXCEPT ![r] = NoJob]
    /\ Move(current[r], "resolved")
    /\ UNCHANGED <<runner, published, creator, queue, inFlight, closeVars>>

\* The callbacks have returned.
MarkResolved(r) ==
    /\ writer[r] = "resolving"
    /\ \A k \in Jobs : Parent[k] = current[r] /\ runner[k] = "writer"
                          => job[k] \notin Submitting
    /\ writer' = [writer EXCEPT ![r] = "idle"]
    /\ current' = [current EXCEPT ![r] = NoJob]
    /\ inFlight' = [inFlight EXCEPT ![r] = @ - 1]
    /\ Move(current[r], "resolved")
    /\ UNCHANGED <<runner, published, creator, queue, closeVars>>

-----------------------------------------------------------------------------
(* close *)

Close(timed) ==
    /\ closer = "open"
    /\ closer' = "snapshot"
    /\ bounded' = timed
    /\ UNCHANGED <<jobVars, workerVars, queueVars, toStop, toJoin>>

SnapshotWorkers ==
    /\ closer = "snapshot"
    /\ closer' = "draining"
    /\ toStop' = {r \in Repos : published[r]}
    /\ toJoin' = {r \in Repos : published[r]}
    /\ UNCHANGED <<jobVars, workerVars, queueVars, bounded>>

\* Mutant: Stop is put as soon as the queue looks empty.
PutStopWhenEmpty(r) ==
    /\ closer = "draining"
    /\ r \in toStop
    /\ queue[r] = <<>> \/ bounded
    /\ queue' = [queue EXCEPT ![r] = Append(@, Stop)]
    /\ toStop' = toStop \ {r}
    /\ UNCHANGED <<jobVars, workerVars, current, inFlight, closer, bounded, toJoin>>

\* wait_until_quiescent, which may time out, and the put under the same lock.
PutStop(r) ==
    /\ closer = "draining"
    /\ r \in toStop
    /\ inFlight[r] = 0 \/ bounded
    /\ queue' = [queue EXCEPT ![r] = Append(@, Stop)]
    /\ toStop' = toStop \ {r}
    /\ UNCHANGED <<jobVars, workerVars, current, inFlight, closer, bounded, toJoin>>

JoinWriter(r) ==
    /\ closer = "draining"
    /\ toStop = {}
    /\ r \in toJoin
    /\ writer[r] = "stopped" \/ bounded
    /\ toJoin' = toJoin \ {r}
    /\ UNCHANGED <<jobVars, workerVars, queueVars, closer, bounded, toStop>>

CloseReturns ==
    /\ closer = "draining"
    /\ toStop = {}
    /\ toJoin = {}
    /\ closer' = "done"
    /\ UNCHANGED <<jobVars, workerVars, queueVars, bounded, toStop, toJoin>>

-----------------------------------------------------------------------------

AnyHung == \E r \in Repos : writer[r] = "hung"

SubmitStep(j) ==
    FindWorker(j) \/ StartWorker(j) \/ PublishWorker(j) \/ Enqueue(j)

WriterStep(r) == TakeJob(r) \/ TakeStop(r) \/ Resolve(r) \/ MarkResolved(r)

CloseStep ==
    \/ SnapshotWorkers
    \/ \E r \in Repos : PutStop(r) \/ JoinWriter(r)
    \/ CloseReturns

\* Nothing is left to do: every job is answered, or its writer will never reach
\* it; close() has returned, or waits for ever for a job that hangs.
Finished ==
    /\ \A j \in Jobs : \/ job[j] \in {"new", "resolved", "refused", "failed"}
                       \/ /\ job[j] \in {"queued", "running"}
                          /\ writer[RepoOf[j]] \in {"hung", "stopped"}
    /\ closer = "done" \/ (closer = "draining" /\ ~bounded /\ AnyHung)
    /\ UNCHANGED vars

Next ==
    \/ \E j \in Jobs : SubmitOnThread(j) \/ SubmitOnWriter(j) \/ SubmitStep(j)
    \/ \E r \in Repos : OpenConnection(r) \/ OpenFails(r) \/ Hang(r)
                      \/ WriterStep(r)
    \/ \E timed \in BOOLEAN : Close(timed)
    \/ CloseStep
    \/ Finished

\* Every thread that can run does; nothing makes a caller submit or close.
Fairness ==
    /\ \A j \in Jobs : WF_vars(SubmitStep(j))
    /\ \A r \in Repos : WF_vars(OpenConnection(r) \/ OpenFails(r))
    /\ \A r \in Repos : WF_vars(WriterStep(r))
    /\ WF_vars(CloseStep)

Spec == Init /\ [][Next]_vars /\ Fairness

-----------------------------------------------------------------------------
(* Properties *)

\* The accepted jobs of a repository whose Future or whose callbacks are still
\* unfinished.
Outstanding(r) == {j \in Jobs : RepoOf[j] = r /\ job[j] \in Accepted}

\* _in_flight counts exactly the accepted jobs that are not fully resolved, at
\* every interleaving of submits, callbacks and the writer, so that zero really
\* means that nothing of this repository is queued, running or resolving.
InFlightExact == \A r \in Repos : inFlight[r] = Cardinality(Outstanding(r))

\* The follow-up of a running callback never lands behind Stop, and a writer that
\* returned left no job in its queue: such a job's Future would never resolve.
\* It does not hold: README, Disagreements.
NothingStranded ==
    \A r \in Repos :
        /\ writer[r] = "stopped" => queue[r] = <<>>
        /\ \A i \in 1..Len(queue[r]) : queue[r][i] = Stop => i = Len(queue[r])

\* close() without a timeout keeps that promise; with one it gives it up for a
\* repository whose job outlasts the timeout (see "Disagreements" in the README).
UntimedCloseStrandsNothing == bounded \/ NothingStranded

\* A repository has at most one writer thread at a time and the writer runs one
\* job at a time: two first submits never both create a writer, and the running
\* job is the one the writer holds.
OneWriterOneJob ==
    \A j \in Jobs :
        /\ job[j] \in {"running", "resolving"} => current[RepoOf[j]] = j
        /\ job[j] = "creating" => creator[RepoOf[j]] = j /\ ~published[RepoOf[j]]

\* Every submit gets its answer, from the writer or from a refusal, unless a job
\* of the same repository hangs or close() ran out of its timeout.
EverySubmitAnswered ==
    \A j \in Jobs : job[j] # "new" ~> \/ job[j] \in Answered
                                      \/ writer[RepoOf[j]] = "hung"
                                      \/ bounded

\* close() returns: always when it was given a timeout, and otherwise unless a
\* job hangs.
CloseAlwaysReturns ==
    closer = "snapshot" ~> closer = "done" \/ (~bounded /\ AnyHung)

-----------------------------------------------------------------------------
(* What the callers of the queue see *)

StatusOf(state) ==
    CASE state \in {"new", "admitted", "creating", "enqueuing"} -> "none"
      [] state = "queued"                    -> "waiting"
      [] state = "running"                   -> "running"
      [] state \in {"resolving", "resolved"} -> "answered"
      [] state \in {"refused", "failed"}     -> "refused"

Status == [j \in Jobs |-> StatusOf(job[j])]

Phase == CASE closer = "open"             -> "open"
           [] closer = "done" /\ ~bounded -> "closed"
           [] OTHER                       -> "closing"

StopsAt(q, i) == i \in 1..Len(q) /\ q[i] = Stop

\* A queue without the Stop it may hold, which is in it at most once.
WithoutStop(q) ==
    IF \E i \in 1..Len(q) : StopsAt(q, i)
    THEN LET stop == CHOOSE i \in 1..Len(q) : StopsAt(q, i)
         IN  [i \in 1..(Len(q) - 1) |-> q[IF i < stop THEN i ELSE i + 1]]
    ELSE q

Line == [r \in Repos |-> WithoutStop(queue[r])]

Service == INSTANCE SerialJobs WITH status <- Status, line <- Line, phase <- Phase

\* The queue is a first-in first-out service that runs one job of a repository at
\* a time, and whose untimed close() returns only when every accepted job has run.
ImplementsSerialJobs == Service!Spec
=============================================================================
