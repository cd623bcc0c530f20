------------------------------ MODULE Freshness ------------------------------
(***************************************************************************)
(* How the index of one worktree follows its files: edits on disk, the     *)
(* watcher's debounced reindex jobs (daemon/watcher.py), the tier-4        *)
(* reindex before a query (daemon/runtime.py) and the indexing passes over *)
(* a file list read earlier (daemon/bootstrap.py), all run by the          *)
(* worktree's one writer thread in FIFO order.                             *)
(*                                                                         *)
(* A reindex job looks at the disk more than once and commits more than    *)
(* once; each look and each commit is a step, and an edit or a crash may   *)
(* fall between any two of them.                                           *)
(*                                                                         *)
(* A file's text is one of a few values.  Every edit gives the file a new  *)
(* modification time.  Symbols are abstracted to the text they were        *)
(* extracted from.                                                         *)
(***************************************************************************)
EXTENDS Naturals, Sequences, FiniteSets

CONSTANTS Paths,
          Texts,       \* texts that parse
          Broken,      \* a text with a syntax error
          Unreadable,  \* bytes that cannot be decoded
          Absent,      \* no such file; no symbols of it
          Husk,        \* only the module symbol of a file is left
          None,        \* no file_state row
          MaxEdits,    \* bounds: edits, queued jobs, crashes
          MaxQueue,
          MaxCrashes

OnDisk == Texts \cup {Broken, Unreadable, Absent}

\* The local variables of a running reindex job, and the step it is at.
Jobs == [path  : Paths,
         at    : {"stat", "read", "index", "record", "gone", "clear", "forget"},
         mtime : Nat,
         text  : Texts \cup {Broken, None}]

ASSUME ConstantsAssumption ==
    /\ Texts \cap {Broken, Unreadable, Absent, Husk, None} = {}
    /\ Broken \notin {Unreadable, Absent, Husk, None}
    /\ Unreadable \notin {Absent, Husk, None}
    /\ Absent \notin {Husk, None} /\ Husk # None
    /\ None \notin Jobs
    /\ IsFiniteSet(Paths)
    /\ MaxEdits \in Nat /\ MaxQueue \in Nat /\ MaxCrashes \in Nat

VARIABLES
    disk,       \* the text of each file
    mtime,      \* its modification time
    index,      \* the text each path's symbols were extracted from
    state,      \* file_state: the recorded mtime and hash, or None
    wroteBy,    \* history: how the path's index last came to be (see Damaged)
    lost,       \* history: paths with a job of the latest edit that was refused or
                \* failed
    db,         \* index.sqlite: "none", "filling" or "ready" for queries
    daemon,     \* how far on_shutdown has come
    watching,   \* the Observer of the worktree
    pending,    \* paths waiting for the debounce timer
    flushing,   \* paths taken by a timer or by stop(), not yet submitted
    queue,      \* the write queue
    job,        \* the job the writer runs and its local variables, or None
    walk,       \* the walk's snapshot of each file; None before it is read
    passes,     \* indexing passes still to submit
    crashes

storeVars == <<index, state, wroteBy>>
fileVars  == <<disk, mtime>>
watchVars == <<watching, pending, flushing>>
passVars  == <<walk, passes>>
vars == <<fileVars, storeVars, lost, db, daemon, watchVars, queue, job, passVars, crashes>>

Rows    == [mtime : Nat, hash : Texts \cup {Broken}]
Entries == [op : {"reindex"}, path : Paths]
              \cup [op : {"snapshot"}, path : Paths, text : Texts \cup {Broken}]

TypeOK ==
    /\ disk \in [Paths -> OnDisk]
    /\ mtime \in [Paths -> 0..MaxEdits]
    /\ index \in [Paths -> Texts \cup {Absent, Husk}]
    /\ state \in [Paths -> Rows \cup {None}]
    /\ wroteBy \in [Paths -> {"snapshot", "overwrite", "unrecorded", "recorded", "cut"}]
    /\ lost \in SUBSET Paths
    /\ db \in {"none", "filling", "ready"}
    /\ daemon \in {"up", "stopping", "closed"}
    /\ watching \in {"no", "yes", "stopped"}
    /\ pending \in SUBSET Paths
    /\ flushing \in SUBSET ({"timer", "stop"} \X Paths)
    /\ queue \in Seq(Entries)
    /\ job \in Jobs \cup {None}
    /\ walk \in [Paths -> OnDisk \cup {None}]
    /\ passes \in 0..2
    /\ crashes \in 0..MaxCrashes

\* A worktree seen for the first time, whose bootstrap is about to walk it, or one
\* with an index of an earlier daemon, which is ready at once and which a migration
\* may still walk.
Init ==
    /\ disk \in [Paths -> Texts \cup {Absent}]
    /\ mtime = [p \in Paths |-> 0]
    /\ \/ db = "none" /\ passes = 2 /\ index = [p \in Paths |-> Absent]
       \/ db = "ready" /\ passes \in {0, 1} /\ index \in [Paths -> Texts \cup {Absent}]
    /\ state = [p \in Paths |-> None]
    /\ wroteBy = [p \in Paths |-> "snapshot"]
    /\ lost = {}
    /\ daemon = "up"
    /\ watching = "no"
    /\ pending = {} /\ flushing = {}
    /\ queue = <<>>
    /\ job = None
    /\ walk = [p \in Paths |-> None]
    /\ crashes = 0

-----------------------------------------------------------------------------
(* The file system and the watcher *)

\* A creation, a change or a removal; a running Observer reports it to _touch.
Edit(p, text) ==
    /\ mtime[p] < MaxEdits
    /\ text # disk[p]
    /\ disk' = [disk EXCEPT ![p] = text]
    /\ mtime' = [mtime EXCEPT ![p] = @ + 1]
    /\ pending' = IF watching = "yes" THEN pending \cup {p} ELSE pending
    /\ lost' = lost \ {p}
    /\ UNCHANGED <<storeVars, db, daemon, watching, flushing, queue, job, passVars, crashes>>

\* watchers.register, which follows bootstrap.register and takes no notice of a
\* shutdown; it is once for a worktree.
StartWatching ==
    /\ watching = "no"
    /\ watching' = "yes"
    /\ UNCHANGED <<fileVars, storeVars, lost, db, daemon, pending, flushing, queue, job,
                   passVars, crashes>>

Reindex(p) == [op |-> "reindex", path |-> p]

\* The first job that is accepted opens the connection and so creates the file.
Opened == IF db = "none" THEN "filling" ELSE db

\* The debounce timer fires: it takes the coalesced paths under the lock ...
TakePending ==
    /\ pending # {}
    /\ flushing' = flushing \cup ({"timer"} \X pending)
    /\ pending' = {}
    /\ UNCHANGED <<fileVars, storeVars, lost, db, daemon, watching, queue, job, passVars,
                   crashes>>

\* ... and submits a job for each without it.  Nobody looks at the future of a
\* submit that a closed queue refuses.
SubmitFlush(by, p) ==
    /\ <<by, p>> \in flushing
    /\ flushing' = flushing \ {<<by, p>>}
    /\ \/ /\ daemon # "closed"
          /\ queue' = Append(queue, Reindex(p))
          /\ db' = Opened
          /\ UNCHANGED lost
       \/ /\ daemon = "closed"
          /\ lost' = lost \cup {p}
          /\ UNCHANGED <<queue, db>>
    /\ UNCHANGED <<fileVars, storeVars, daemon, watching, pending, job, passVars, crashes>>

\* ensure_fresh: the same job before a query that names a file of a ready worktree.
Query(p) ==
    /\ db = "ready"
    /\ daemon # "closed"
    /\ Len(queue) < MaxQueue
    /\ queue' = Append(queue, Reindex(p))
    /\ UNCHANGED <<fileVars, storeVars, lost, db, daemon, watchVars, job, passVars, crashes>>

\* watchers.close: stop() gives the Observer a while to end, then flush_pending takes
\* what the timer has not taken.
StopWatcher ==
    /\ daemon = "up"
    /\ daemon' = "stopping"
    /\ watching' \in IF watching = "yes" THEN {"yes", "stopped"} ELSE {watching}
    /\ flushing' = flushing \cup ({"stop"} \X pending)
    /\ pending' = {}
    /\ UNCHANGED <<fileVars, storeVars, lost, db, queue, job, passVars, crashes>>

\* write_queue.close, by the same thread once it has submitted what it took.
CloseQueue ==
    /\ daemon = "stopping"
    /\ \A p \in Paths : <<"stop", p>> \notin flushing
    /\ daemon' = "closed"
    /\ UNCHANGED <<fileVars, storeVars, lost, db, watchVars, queue, job, passVars, crashes>>

-----------------------------------------------------------------------------
(* Bootstrap and migration: a walk, then one or two passes over what it read *)

WalkFile(p) ==
    /\ passes > 0
    /\ walk[p] = None
    /\ walk' = [walk EXCEPT ![p] = disk[p]]
    /\ UNCHANGED <<fileVars, storeVars, lost, db, daemon, watchVars, queue, job, passes,
                   crashes>>

Found == {p \in Paths : walk[p] \in Texts \cup {Broken}}

PassRunning == \E i \in 1..Len(queue) : queue[i].op = "snapshot"

\* _run_indexing_pass submits every file of the list, in the list's order; the
\* second pass when the first is done.  While the queue closes, a pass that the
\* writer thread submits is still accepted and one of another thread refused.
SubmitPass ==
    /\ passes > 0
    /\ \A p \in Paths : walk[p] # None
    /\ ~PassRunning
    /\ passes' = passes - 1
    /\ \/ \E order \in [1..Cardinality(Found) -> Found] :
            /\ \A p \in Found : \E i \in DOMAIN order : order[i] = p
            /\ queue' = queue \o [i \in DOMAIN order |->
                   [op |-> "snapshot", path |-> order[i], text |-> walk[order[i]]]]
            /\ db' = IF Found = {} THEN db ELSE Opened
       \/ daemon = "closed" /\ UNCHANGED <<queue, db>>
    /\ UNCHANGED <<fileVars, storeVars, lost, daemon, watchVars, job, walk, crashes>>

\* _mark_ready, once the jobs of the last pass are done.
MarkReady ==
    /\ db # "ready"
    /\ passes = 0 /\ ~PassRunning
    /\ db' = "ready"
    /\ UNCHANGED <<fileVars, storeVars, lost, daemon, watchVars, queue, job, passVars,
                   crashes>>

-----------------------------------------------------------------------------
(* The writer thread *)

OthersIdle == UNCHANGED <<fileVars, db, daemon, watchVars, passVars, crashes>>

\* make_index_job: index_file with the walk's text, one transaction.  A text with
\* a syntax error is skipped, and an error rolls back and only ends the job.
\* file_state is neither read nor written.
RunSnapshot ==
    /\ job = None
    /\ queue # <<>>
    /\ LET e == Head(queue) IN
        /\ e.op = "snapshot"
        /\ \/ UNCHANGED <<index, wroteBy>>
           \/ /\ e.text # Broken
              /\ index' = [index EXCEPT ![e.path] = e.text]
              /\ wroteBy' = [wroteBy EXCEPT ![e.path] =
                     CASE state[e.path] = None        -> "snapshot"
                       [] state[e.path] # None /\ state[e.path].hash = e.text -> "recorded"
                       [] OTHER                       -> "overwrite"]
    /\ queue' = Tail(queue)
    /\ UNCHANGED <<state, lost, job>>
    /\ OthersIdle

StartReindex ==
    /\ job = None
    /\ queue # <<>>
    /\ Head(queue).op = "reindex"
    /\ job' = [path |-> Head(queue).path, at |-> "stat", mtime |-> 0, text |-> None]
    /\ queue' = Tail(queue)
    /\ UNCHANGED <<storeVars, lost>>
    /\ OthersIdle

At(step) == job # None /\ job.at = step

WriterOnly == OthersIdle /\ UNCHANGED <<lost, queue>>

\* os.stat and the cheap check of the recorded mtime.  (That of a file that is gone
\* only tells which edit the job is about.)
Stat ==
    LET p == job.path IN
    /\ At("stat")
    /\ job' = IF disk[p] = Absent THEN [job EXCEPT !.at = "gone", !.mtime = mtime[p]]
              ELSE IF state[p] # None /\ state[p].mtime = mtime[p] THEN None
              ELSE [job EXCEPT !.at = "read", !.mtime = mtime[p]]
    /\ UNCHANGED storeVars
    /\ WriterOnly

\* The read, which may find a later text than stat did, or none; equal hashes
\* only move the recorded mtime.
Read ==
    LET p == job.path
        text == disk[p] IN
    /\ At("read")
    /\ \/ /\ text \in {Absent, Unreadable}
          /\ job' = None
          /\ UNCHANGED storeVars
       \/ /\ text \notin {Absent, Unreadable}
          /\ IF state[p] # None /\ state[p].hash = text
             THEN /\ state' = [state EXCEPT ![p].mtime = job.mtime]
                  /\ job' = None
             ELSE /\ job' = [job EXCEPT !.at = "index", !.text = text]
                  /\ UNCHANGED state
          /\ UNCHANGED <<index, wroteBy>>
    /\ WriterOnly

\* index_file commits; file_state is written by a later commit.
Index ==
    LET p == job.path IN
    /\ At("index")
    /\ IF job.text = Broken
       THEN UNCHANGED <<index, wroteBy>>
       ELSE /\ index' = [index EXCEPT ![p] = job.text]
            /\ wroteBy' = [wroteBy EXCEPT ![p] = "unrecorded"]
    /\ job' = [job EXCEPT !.at = "record"]
    /\ UNCHANGED state
    /\ WriterOnly

\* Mutant: file_state records the mtime of now, not the one stat returned.
RecordStatsAgain ==
    LET p == job.path IN
    /\ At("record")
    /\ state' = [state EXCEPT ![p] = [mtime |-> mtime[p], hash |-> job.text]]
    /\ wroteBy' = [wroteBy EXCEPT ![p] = "recorded"]
    /\ job' = None
    /\ UNCHANGED index
    /\ WriterOnly

Record ==
    LET p == job.path IN
    /\ At("record")
    /\ state' = [state EXCEPT ![p] = [mtime |-> job.mtime, hash |-> job.text]]
    /\ wroteBy' = [wroteBy EXCEPT ![p] = "recorded"]
    /\ job' = None
    /\ UNCHANGED index
    /\ WriterOnly

\* Mutant: a vanished file is looked up in file_state, which a bootstrap leaves
\* empty, instead of in the symbols.
GoneByFileState ==
    LET p == job.path IN
    /\ At("gone")
    /\ IF state[p] = None
       THEN /\ job' = None
            /\ UNCHANGED storeVars
       ELSE /\ index' = [index EXCEPT ![p] = Husk]
            /\ wroteBy' = [wroteBy EXCEPT ![p] = "unrecorded"]
            /\ job' = [job EXCEPT !.at = "clear"]
            /\ UNCHANGED state
    /\ WriterOnly

\* The file is gone: index_file("") leaves its module symbol, if it had any.
Gone ==
    LET p == job.path IN
    /\ At("gone")
    /\ IF index[p] = Absent
       THEN /\ state' = [state EXCEPT ![p] = None]
            /\ job' = None
            /\ UNCHANGED <<index, wroteBy>>
       ELSE /\ index' = [index EXCEPT ![p] = Husk]
            /\ wroteBy' = [wroteBy EXCEPT ![p] = "unrecorded"]
            /\ job' = [job EXCEPT !.at = "clear"]
            /\ UNCHANGED state
    /\ WriterOnly

\* The remaining symbol is deleted in a commit of its own.
Clear ==
    /\ At("clear")
    /\ index' = [index EXCEPT ![job.path] = Absent]
    /\ job' = [job EXCEPT !.at = "forget"]
    /\ UNCHANGED <<state, wroteBy>>
    /\ WriterOnly

Forget ==
    /\ At("forget")
    /\ state' = [state EXCEPT ![job.path] = None]
    /\ wroteBy' = [wroteBy EXCEPT ![job.path] = "recorded"]
    /\ job' = None
    /\ UNCHANGED index
    /\ WriterOnly

\* A statement or a commit raises: index_file rolls its transaction back, the
\* future takes the exception, and what an earlier commit of the job wrote stays.
Fail ==
    /\ job # None /\ job.at # "stat"
    /\ lost' = IF job.mtime = mtime[job.path] THEN lost \cup {job.path} ELSE lost
    /\ wroteBy' = [wroteBy EXCEPT ![job.path] = IF @ = "unrecorded" THEN "cut" ELSE @]
    /\ job' = None
    /\ UNCHANGED <<index, state, queue>>
    /\ OthersIdle

-----------------------------------------------------------------------------

\* The process dies, or exits after a shutdown, and starts again.  An index file
\* that exists is trusted; at most a migration walks the worktree, once.
Crash ==
    /\ crashes < MaxCrashes
    /\ crashes' = crashes + 1
    /\ daemon' = "up"
    /\ watching' = "no"
    /\ pending' = {} /\ flushing' = {}
    /\ queue' = <<>>
    /\ job' = None
    /\ wroteBy' = [p \in Paths |-> IF wroteBy[p] = "unrecorded" THEN "cut" ELSE wroteBy[p]]
    /\ walk' = [p \in Paths |-> None]
    /\ \/ db = "none" /\ passes' = 2 /\ UNCHANGED db
       \/ db # "none" /\ passes' \in {0, 1} /\ db' = "ready"
    /\ UNCHANGED <<fileVars, index, state, lost>>

WriterStep ==
    \/ RunSnapshot \/ StartReindex
    \/ Stat \/ Read \/ Index \/ Record \/ Gone \/ Clear \/ Forget \/ Fail

PassStep == SubmitPass \/ MarkReady \/ \E p \in Paths : WalkFile(p)

Quiet ==
    /\ passes = 0 /\ queue = <<>> /\ job = None /\ pending = {} /\ flushing = {}
    /\ UNCHANGED vars

Next ==
    \/ \E p \in Paths, text \in OnDisk : Edit(p, text)
    \/ StartWatching \/ TakePending \/ StopWatcher \/ CloseQueue
    \/ \E p \in Paths : Query(p) \/ \E by \in {"timer", "stop"} : SubmitFlush(by, p)
    \/ PassStep
    \/ WriterStep
    \/ Crash
    \/ Quiet

Fairness ==
    /\ WF_vars(TakePending)
    /\ \A p \in Paths, by \in {"timer", "stop"} : WF_vars(SubmitFlush(by, p))
    /\ WF_vars(PassStep)
    /\ WF_vars(WriterStep)

Spec == Init /\ [][Next]_vars /\ Fairness

-----------------------------------------------------------------------------
(* Properties *)

\* The text on disk is one that the index is meant to reflect.
Indexable(p) == disk[p] \notin {Broken, Unreadable}

\* A reindex job of the path ended, by an error or with the process, after its commit
\* of the symbols and before that of file_state; or a pass wrote an older text over
\* what file_state vouches for.  The next reindex job that records undoes it.
Damaged(p) == wroteBy[p] \in {"cut", "overwrite"}

\* The cheap check may be trusted: when the recorded mtime is the file's own, the
\* symbols are those of the file's text, however edits fell between the stat, the
\* read and the commits of the jobs that ran, and in the middle of a job too.
RecordedIsIndexed ==
    \A p \in Paths :
        /\ Indexable(p) /\ ~Damaged(p)
        /\ state[p] # None
        /\ state[p].mtime = mtime[p]
        => index[p] = disk[p]

\* The watcher knows of the latest edit of the path.
Seen(p) == p \in pending \/ \E by \in {"timer", "stop"} : <<by, p>> \in flushing

\* The index reflects the n-th edit of the path, and file_state says so.
Reflects(p, n) ==
    /\ mtime[p] = n
    /\ index[p] = disk[p]
    /\ \/ disk[p] = Absent /\ state[p] = None
       \/ state[p] # None /\ state[p].mtime = n

\* Every edit that the watcher saw is indexed and recorded by a job of its own, a
\* removal taking the file's last symbol with it, unless a newer edit follows, this
\* edit's job fails or is refused by a closed queue, the process ends, or an older job
\* was cut short between its commits.
SeenEditsReachIndex ==
    \A p \in Paths, n \in 1..MaxEdits, c \in 0..MaxCrashes :
        Seen(p) /\ Indexable(p) /\ mtime[p] = n /\ crashes = c
            ~> \/ Reflects(p, n)
               \/ mtime[p] > n
               \/ p \in lost \/ Damaged(p)
               \/ crashes > c

\* Tier 4: when the reindex job that precedes a query finds the recorded mtime to be
\* the file's own, and so succeeds, the query proceeds against an index that is fresh
\* for that file.
GuaranteedFresh ==
    /\ db = "ready" /\ At("stat") /\ Indexable(job.path)
    /\ state[job.path] # None
    /\ state[job.path].mtime = mtime[job.path]
    => index[job.path] = disk[job.path]

\* stop() submits what the debounce had coalesced: with the Observer gone, no edit that
\* was observed is still waiting to be submitted when the queue closes.
FlushedBeforeClose ==
    daemon = "closed" /\ watching = "stopped" => pending = {} /\ flushing = {}
=============================================================================
