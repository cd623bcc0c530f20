------------------------------ MODULE Bootstrap ------------------------------
(***************************************************************************)
(* Readiness and first indexing of one worktree (daemon/bootstrap.py).     *)
(*                                                                         *)
(* Request threads call repo_ready and register.  A register that finds    *)
(* the worktree not ready starts a bootstrap: a walk, two indexing passes  *)
(* over the same file list, the head sha, and then readiness and the       *)
(* cross-file flag.  One that finds it ready starts the one-time migration *)
(* pass.  The jobs of all of them go through the worktree's FIFO write     *)
(* queue.  The daemon may stop at any point, in order or by a crash, and   *)
(* start again over what its writer has committed.                         *)
(*                                                                         *)
(* Abstracted: the enrichment that on_indexed triggers (EnrichmentScheduler*)
(* models it), the reconciliation check, which only triggers enrichment,   *)
(* the seeding of a linked worktree and the empty repository, which is     *)
(* ready at once.                                                          *)
(***************************************************************************)
EXTENDS Naturals, Sequences, FiniteSets

CONSTANTS Threads,      \* the request threads of a daemon's life; each serves one request
          Migration,    \* the owner of the migration pass
          WalkOrder,    \* the files in the arbitrary order the walk finds them
          DependsOn,    \* the files each file's cross-file edges lead to
          Fragile,      \* the files whose jobs may fail
          MaxRestarts   \* bound: how often the daemon is started again

Owners == Threads \cup {Migration}
Files  == {WalkOrder[i] : i \in 1..Len(WalkOrder)}

ASSUME ConstantsAssumption ==
    /\ Migration \notin Threads
    /\ WalkOrder \in Seq(Files) \ {<<>>}
    /\ DependsOn \in [Files -> SUBSET Files]
    /\ Fragile \subseteq Files
    /\ MaxRestarts \in Nat

VARIABLES
    \* index.sqlite, which survives the process
    dbFile,      \* the file exists
    indexed,     \* the files whose symbols it holds
    resolved,    \* the files whose cross-file edges it holds
    flag,        \* cross_file_pass_done
    headSha,     \* a last indexed head sha is recorded
    \* the coordinator
    ready,       \* _ready
    inProgress,  \* _in_progress
    migChecked,  \* _migration_checked
    call,        \* where each request thread's call stands
    phase,       \* where each owner's bootstrap or migration stands
    next,        \* the position of the next file the owner submits
    remaining,   \* the pass's jobs that have not been counted done
    onWriter,    \* the owner's continuation runs on the writer thread
    \* the write queue
    queue,
    closed,      \* close() has begun
    openFails,   \* no writer runs yet, and opening index.sqlite for one would fail
    restarts,
    lost         \* history: files a job of which was refused or failed

diskVars  == <<dbFile, indexed, resolved, flag, headSha>>
coordVars == <<ready, inProgress, migChecked>>
passVars  == <<phase, next, remaining, onWriter>>
vars == <<diskVars, coordVars, call, passVars, queue, closed, restarts, openFails, lost>>

Phases == {"none", "check", "checking", "walk", "pass1", "pass2",
           "head", "heading", "ready", "flag"}
Jobs   == [op : {"index"}, file : Files, by : Owners]
              \cup [op : {"check", "head", "flag"}, by : Owners]

TypeOK ==
    /\ dbFile \in BOOLEAN /\ flag \in BOOLEAN /\ headSha \in BOOLEAN
    /\ indexed \in SUBSET Files /\ resolved \in SUBSET Files
    /\ ready \in BOOLEAN /\ inProgress \in BOOLEAN /\ migChecked \in BOOLEAN
    /\ call \in [Threads -> {"idle", "stat", "claim", "schedule", "done"}]
    /\ phase \in [Owners -> Phases]
    /\ next \in [Owners -> 1..Len(WalkOrder) + 1]
    /\ remaining \in [Owners -> 0..Len(WalkOrder)]
    /\ onWriter \in [Owners -> BOOLEAN]
    /\ queue \in Seq(Jobs)
    /\ closed \in BOOLEAN /\ openFails \in BOOLEAN
    /\ restarts \in 0..MaxRestarts
    /\ lost \in SUBSET Files

\* Either no index yet, or one written before cross-file edges were resolved.
Init ==
    /\ ready = FALSE /\ inProgress = FALSE /\ migChecked = FALSE
    /\ call = [t \in Threads |-> "idle"]
    /\ phase = [o \in Owners |-> "none"]
    /\ next = [o \in Owners |-> 1]
    /\ remaining = [o \in Owners |-> 0]
    /\ onWriter = [o \in Owners |-> FALSE]
    /\ queue = <<>>
    /\ closed = FALSE
    /\ openFails \in BOOLEAN
    /\ dbFile \in BOOLEAN
    /\ indexed = IF dbFile THEN Files ELSE {}
    /\ resolved = {}
    /\ flag = FALSE
    /\ headSha = FALSE
    /\ restarts = 0
    /\ lost = {}

-----------------------------------------------------------------------------
(* repo_ready and register *)

Go(t, where) == call' = [call EXCEPT ![t] = where]

\* repo_ready's locked check.  A tool call that only asks goes the same way up to
\* the answer, so every call is taken to be one of register.
CheckReady(t) ==
    /\ call[t] = "idle"
    /\ Go(t, IF ready THEN "schedule" ELSE IF inProgress THEN "claim" ELSE "stat")
    /\ UNCHANGED <<diskVars, coordVars, passVars, queue, closed, restarts,
                   openFails, lost>>

\* The disk check, made without the lock, and the add that follows it.
StatDb(t) ==
    /\ call[t] = "stat"
    /\ ready' = (ready \/ dbFile)
    /\ Go(t, IF dbFile THEN "schedule" ELSE "claim")
    /\ UNCHANGED <<diskVars, inProgress, migChecked, passVars, queue, closed,
                   restarts, openFails, lost>>

\* Mutant: register starts a bootstrap without looking at _in_progress.
ClaimUnchecked(t) ==
    /\ call[t] = "claim"
    /\ Go(t, "done")
    /\ inProgress' = TRUE
    /\ phase' = [phase EXCEPT ![t] = "walk"]
    /\ UNCHANGED <<diskVars, ready, migChecked, next, remaining, onWriter,
                   queue, closed, restarts, openFails, lost>>

\* register's second lock: only one bootstrap is in flight.
Claim(t) ==
    /\ call[t] = "claim"
    /\ Go(t, "done")
    /\ IF inProgress
       THEN UNCHANGED <<inProgress, phase>>
       ELSE /\ inProgress' = TRUE
            /\ phase' = [phase EXCEPT ![t] = "walk"]
    /\ UNCHANGED <<diskVars, ready, migChecked, next, remaining, onWriter,
                   queue, closed, restarts, openFails, lost>>

\* _maybe_schedule_cross_file_migration
Schedule(t) ==
    /\ call[t] = "schedule"
    /\ Go(t, "done")
    /\ migChecked' = TRUE
    /\ phase' = IF migChecked THEN phase ELSE [phase EXCEPT ![Migration] = "check"]
    /\ UNCHANGED <<diskVars, ready, inProgress, next, remaining, onWriter,
                   queue, closed, restarts, openFails, lost>>

-----------------------------------------------------------------------------
(* Submitting jobs; the first accepted one makes the writer open the file *)

\* A closed queue refuses all but its own writer's callbacks.  A first submit also
\* fails when the file cannot be opened; it leaves no writer, so the next one tries
\* again.
Refused(o) == openFails \/ (closed /\ ~onWriter[o])

\* The attempt to open the file may have created it.
NothingPut ==
    /\ UNCHANGED queue
    /\ dbFile' \in {dbFile, dbFile \/ openFails}

Put(entry) ==
    /\ queue' = Append(queue, entry)
    /\ dbFile' = TRUE

SetPhase(o, p) == phase' = [phase EXCEPT ![o] = p]

\* _run_cross_file_migration_if_needed asks the flag through the queue.
SubmitCheck ==
    /\ phase[Migration] = "check"
    /\ IF Refused(Migration)
       THEN /\ SetPhase(Migration, "none")
            /\ migChecked' = FALSE
            /\ NothingPut
       ELSE /\ SetPhase(Migration, "checking")
            /\ Put([op |-> "check", by |-> Migration])
            /\ UNCHANGED migChecked
    /\ UNCHANGED <<indexed, resolved, flag, headSha, ready, inProgress, call, next,
                   remaining, onWriter, closed, restarts, openFails, lost>>

\* Mutant: the pass counter starts one too high.
WalkCountsOneMore(o) ==
    /\ phase[o] = "walk"
    /\ SetPhase(o, IF o = Migration THEN "pass2" ELSE "pass1")
    /\ next' = [next EXCEPT ![o] = 1]
    /\ remaining' = [remaining EXCEPT ![o] = Len(WalkOrder) + 1]
    /\ UNCHANGED <<diskVars, coordVars, call, onWriter, queue, closed,
                   restarts, openFails, lost>>

\* The walk fails, or finds the files of the one or two passes that follow.
Walk(o) ==
    /\ phase[o] = "walk"
    /\ \/ /\ SetPhase(o, "none")
          /\ IF o = Migration
             THEN migChecked' = FALSE /\ UNCHANGED inProgress
             ELSE inProgress' = FALSE /\ UNCHANGED migChecked
          /\ UNCHANGED <<next, remaining>>
       \/ /\ SetPhase(o, IF o = Migration THEN "pass2" ELSE "pass1")
          /\ next' = [next EXCEPT ![o] = 1]
          /\ remaining' = [remaining EXCEPT ![o] = Len(WalkOrder)]
          /\ UNCHANGED <<migChecked, inProgress>>
    /\ UNCHANGED <<diskVars, ready, call, onWriter, queue, closed, restarts,
                   openFails, lost>>

\* Mutant: the second pass is left out.
CountDoneOnePass(o, writes) ==
    /\ IF remaining[o] > 1
       THEN /\ remaining' = [remaining EXCEPT ![o] = @ - 1]
            /\ UNCHANGED <<phase, onWriter>>
       ELSE /\ remaining' = [remaining EXCEPT ![o] = 0]
            /\ onWriter' = [onWriter EXCEPT ![o] = writes]
            /\ SetPhase(o, IF o = Migration THEN "flag" ELSE "head")

\* Mutant: the pass goes on one job too early.
CountDoneEarly(o, writes) ==
    /\ IF remaining[o] > 2
       THEN /\ remaining' = [remaining EXCEPT ![o] = @ - 1]
            /\ UNCHANGED <<phase, onWriter>>
       ELSE /\ remaining' = [remaining EXCEPT ![o] = 0]
            /\ onWriter' = [onWriter EXCEPT ![o] = writes]
            /\ SetPhase(o, CASE phase[o] = "pass1" -> "pass2"
                             [] o = Migration      -> "flag"
                             [] OTHER              -> "head")

\* on_job_done: the last job of a pass goes on with on_pass_done, on the thread
\* that runs the callback.
CountDone(o, writes) ==
    /\ IF remaining[o] > 1
       THEN /\ remaining' = [remaining EXCEPT ![o] = @ - 1]
            /\ UNCHANGED <<phase, onWriter>>
       ELSE /\ remaining' = [remaining EXCEPT
                                ![o] = IF phase[o] = "pass1" THEN Len(WalkOrder) ELSE 0]
            /\ onWriter' = [onWriter EXCEPT ![o] = writes]
            /\ SetPhase(o, CASE phase[o] = "pass1" -> "pass2"
                             [] o = Migration      -> "flag"
                             [] OTHER              -> "head")

SubmitNext(o) ==
    /\ phase[o] \in {"pass1", "pass2"}
    /\ next[o] <= Len(WalkOrder)
    /\ LET f == WalkOrder[next[o]] IN
       IF Refused(o)
       THEN /\ CountDone(o, FALSE)
            /\ next' = [next EXCEPT ![o] = IF phase'[o] = phase[o] THEN @ + 1 ELSE 1]
            /\ lost' = lost \cup {f}
            /\ NothingPut
       ELSE /\ Put([op |-> "index", file |-> f, by |-> o])
            /\ next' = [next EXCEPT ![o] = @ + 1]
            /\ UNCHANGED <<phase, remaining, onWriter, lost>>
    /\ UNCHANGED <<indexed, resolved, flag, headSha, coordVars, call, closed,
                   restarts, openFails>>

\* _persist_head_sha, which skips the job when git gives no sha.
SubmitHead(t) ==
    /\ phase[t] = "head"
    /\ \/ /\ SetPhase(t, "ready")
          /\ NothingPut
       \/ /\ ~Refused(t)
          /\ SetPhase(t, "heading")
          /\ Put([op |-> "head", by |-> t])
    /\ UNCHANGED <<indexed, resolved, flag, headSha, coordVars, call, next, remaining,
                   onWriter, closed, restarts, openFails, lost>>

\* _mark_ready
MarkReady(t) ==
    /\ phase[t] = "ready"
    /\ ready' = TRUE
    /\ inProgress' = FALSE
    /\ SetPhase(t, "flag")
    /\ UNCHANGED <<diskVars, migChecked, call, next, remaining, onWriter, queue,
                   closed, restarts, openFails, lost>>

\* _mark_cross_file_migration_done: nobody waits for this job.
SubmitFlag(o) ==
    /\ phase[o] = "flag"
    /\ SetPhase(o, "none")
    /\ onWriter' = [onWriter EXCEPT ![o] = FALSE]
    /\ IF Refused(o)
       THEN NothingPut
       ELSE Put([op |-> "flag", by |-> o])
    /\ UNCHANGED <<indexed, resolved, flag, headSha, coordVars, call, next, remaining,
                   closed, restarts, openFails, lost>>

-----------------------------------------------------------------------------
(* The writer thread: a job and the callback of its Future *)

\* A callback that runs on the writer thread keeps it from the next job.
WriterFree ==
    \A o \in Owners : onWriter[o] =>
        \/ phase[o] \in {"pass1", "pass2"} /\ next[o] > Len(WalkOrder)
        \/ phase[o] = "heading"

NextIs(op) == WriterFree /\ queue # <<>> /\ Head(queue).op = op

\* Mutant: a job that raised is never counted.
RunIndexUncounted ==
    LET f == Head(queue).file
        o == Head(queue).by IN
    /\ NextIs("index")
    /\ queue' = Tail(queue)
    /\ \/ /\ CountDone(o, TRUE)
          /\ next' = IF phase'[o] = "pass2" /\ phase[o] = "pass1"
                     THEN [next EXCEPT ![o] = 1] ELSE next
          /\ indexed' = indexed \cup {f}
          /\ UNCHANGED lost
       \/ /\ lost' = lost \cup {f}
          /\ UNCHANGED <<phase, remaining, onWriter, next, indexed>>
    /\ UNCHANGED <<dbFile, resolved, flag, headSha, coordVars, call, closed,
                   restarts, openFails>>

\* index_file commits or fails as a whole; a file's cross-file edges are resolved
\* when the files they lead to are already in the index.  The callback of a pass's
\* last job runs late, on the submitting thread, if it was attached too late.
RunIndex ==
    LET f == Head(queue).file
        o == Head(queue).by IN
    /\ NextIs("index")
    /\ queue' = Tail(queue)
    /\ \E late \in BOOLEAN :
        /\ late => f = WalkOrder[Len(WalkOrder)] /\ ~onWriter[o]
        /\ CountDone(o, ~late)
    /\ next' = IF phase'[o] = "pass2" /\ phase[o] = "pass1"
               THEN [next EXCEPT ![o] = 1] ELSE next
    /\ \/ /\ indexed' = indexed \cup {f}
          /\ resolved' = IF DependsOn[f] \subseteq indexed' THEN resolved \cup {f}
                                                            ELSE resolved \ {f}
          /\ UNCHANGED lost
       \/ /\ f \in Fragile
          /\ lost' = lost \cup {f}
          /\ UNCHANGED <<indexed, resolved>>
    /\ UNCHANGED <<dbFile, flag, headSha, coordVars, call, closed, restarts, openFails>>

RunCheck ==
    /\ NextIs("check")
    /\ queue' = Tail(queue)
    /\ SetPhase(Migration, IF flag THEN "none" ELSE "walk")
    /\ UNCHANGED <<diskVars, coordVars, call, next, remaining, onWriter, closed,
                   restarts, openFails, lost>>

RunHead ==
    LET t == Head(queue).by IN
    /\ NextIs("head")
    /\ queue' = Tail(queue)
    /\ headSha' = TRUE
    /\ SetPhase(t, "ready")
    /\ \E writes \in BOOLEAN : /\ onWriter[t] => writes
                               /\ onWriter' = [onWriter EXCEPT ![t] = writes]
    /\ UNCHANGED <<dbFile, indexed, resolved, flag, coordVars, call, next, remaining,
                   closed, restarts, openFails, lost>>

RunFlag ==
    /\ NextIs("flag")
    /\ queue' = Tail(queue)
    /\ flag' = TRUE
    /\ UNCHANGED <<dbFile, indexed, resolved, headSha, coordVars, call, passVars,
                   closed, restarts, openFails, lost>>

-----------------------------------------------------------------------------

\* on_shutdown closes the write queue.
CloseQueue ==
    /\ ~closed
    /\ closed' = TRUE
    /\ UNCHANGED <<diskVars, coordVars, call, passVars, queue, restarts,
                   openFails, lost>>

\* What kept the file from being opened goes away.
OpenWorks ==
    /\ openFails
    /\ openFails' = FALSE
    /\ UNCHANGED <<diskVars, coordVars, call, passVars, queue, closed, restarts, lost>>

\* The process ends, by a crash or at the end of a shutdown, and is started again.
Restart ==
    /\ restarts < MaxRestarts
    /\ restarts' = restarts + 1
    /\ ready' = FALSE /\ inProgress' = FALSE /\ migChecked' = FALSE
    /\ call' = [t \in Threads |-> "idle"]
    /\ phase' = [o \in Owners |-> "none"]
    /\ next' = [o \in Owners |-> 1]
    /\ remaining' = [o \in Owners |-> 0]
    /\ onWriter' = [o \in Owners |-> FALSE]
    /\ queue' = <<>>
    /\ closed' = FALSE
    /\ openFails' \in BOOLEAN
    /\ UNCHANGED <<diskVars, lost>>

\* Every request is answered and nothing is left to run.
Quiet ==
    /\ \A t \in Threads : call[t] = "done"
    /\ \A o \in Owners : phase[o] = "none"
    /\ queue = <<>>
    /\ UNCHANGED vars

RequestStep(t) == StatDb(t) \/ Claim(t) \/ Schedule(t)

PassStep(o) ==
    \/ Walk(o) \/ SubmitNext(o) \/ SubmitFlag(o)
    \/ o \in Threads /\ (SubmitHead(o) \/ MarkReady(o))
    \/ o = Migration /\ SubmitCheck

WriterStep == RunIndex \/ RunCheck \/ RunHead \/ RunFlag

Next ==
    \/ \E t \in Threads : CheckReady(t) \/ RequestStep(t)
    \/ \E o \in Owners : PassStep(o)
    \/ WriterStep
    \/ CloseQueue
    \/ OpenWorks
    \/ Restart
    \/ Quiet

Fairness ==
    /\ \A t \in Threads : WF_vars(RequestStep(t))
    /\ \A o \in Owners : WF_vars(PassStep(o))
    /\ WF_vars(WriterStep)

Spec == Init /\ [][Next]_vars /\ Fairness

-----------------------------------------------------------------------------
(* Properties *)

InFlight == {t \in Threads : phase[t] \notin {"none", "flag"}}

\* However register calls race, at most one bootstrap is in flight, and
\* _in_progress says exactly whether one is.
OneBootstrapAtATime ==
    /\ Cardinality(InFlight) <= 1
    /\ inProgress <=> InFlight # {}

\* The two persisted markers, on which the next process and the seeding of linked
\* worktrees rely, are never ahead of the index: when one is set, every file has
\* been indexed or a job of it is known to have been refused or to have failed,
\* whatever crashed in between.
MarkersNeverAhead ==
    flag \/ headSha => Files \subseteq indexed \cup lost

\* A bootstrap that lost no job becomes ready only with every file indexed and
\* every cross-file edge resolved, whatever order the walk found the files in.
ReadyAfterTwoPasses ==
    \A t \in Threads : phase[t] = "ready" /\ lost = {} => resolved = Files

\* A started bootstrap ends, in readiness or with a failed walk: failing and
\* refused jobs cannot leave the worktree in INDEX_NOT_READY.
BootstrapEnds == inProgress ~> ~inProgress

\* While a bootstrap is in flight and the index is not complete, the worktree is not
\* ready: the file that its writer has just created must not be taken for a finished
\* index (the docstring of repo_ready, bootstrap.py:68-75).
NotReadyWhileIncomplete ==
    ready /\ inProgress /\ lost = {} => indexed = Files

\* The cross-file flag says that the index has had its two-pass treatment: when no
\* job was ever refused or failed and no bootstrap is still at work, every file's
\* cross-file edges are resolved.
\* It does not hold: README, Disagreements.
FlagMeansResolved == flag /\ lost = {} /\ ~inProgress => resolved = Files
=============================================================================
