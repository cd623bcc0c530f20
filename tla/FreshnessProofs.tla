---------------------------- MODULE FreshnessProofs ----------------------------
(***************************************************************************)
(* Why the cheap check of a file's modification time may be trusted, for   *)
(* any files and texts and any number of edits, passes and crashes.        *)
(***************************************************************************)
EXTENDS Freshness, FiniteSetTheorems, SequenceTheorems, TLAPS

\* A row is of the text that the file had at the modification time of the row.
RowsAreOfDisk ==
    \A p \in Paths : state[p] # None =>
        /\ state[p].mtime <= mtime[p]
        /\ state[p].mtime = mtime[p] => state[p].hash = disk[p]

\* Of a path that no job was cut short on, no pass has overwritten and no job is at
\* work on, the symbols are those of the row's text.
SettledIsIndexed ==
    \A p \in Paths : /\ wroteBy[p] \in {"snapshot", "recorded"}
                     /\ state[p] # None /\ state[p].hash # Broken
                     => index[p] = state[p].hash

\* So is what the running job has read of the text the file had when it was statted,
\* and what it has indexed of what it has read; the row is of an earlier edit.
JobFollows ==
    job # None =>
        /\ job.at # "stat" =>
              /\ job.mtime <= mtime[job.path]
              /\ state[job.path] # None => state[job.path].mtime < job.mtime
        /\ job.at \in {"index", "record"} =>
              /\ job.text \in Texts \cup {Broken}
              /\ job.mtime = mtime[job.path] => job.text = disk[job.path]
        /\ job.at = "record" /\ job.text # Broken => index[job.path] = job.text
        /\ job.at = "clear" => wroteBy[job.path] = "unrecorded"

\* Symbols without their row are the doing of the running job.
MidJob ==
    \A p \in Paths : wroteBy[p] = "unrecorded" =>
        job # None /\ job.path = p /\ job.at \in {"record", "clear", "forget"}

FreshInv == TypeOK /\ RowsAreOfDisk /\ SettledIsIndexed /\ JobFollows /\ MidJob

-----------------------------------------------------------------------------

\* What an indexing pass submits is a sequence of entries.
LEMMA SubmittedEntries ==
    ASSUME TypeOK, NEW order \in [1..Cardinality(Found) -> Found]
    PROVE  [i \in DOMAIN order |->
               [op |-> "snapshot", path |-> order[i], text |-> walk[order[i]]]] \in Seq(Entries)
<1>1. IsFiniteSet(Found) /\ Cardinality(Found) \in Nat
  <2>1. Found \subseteq Paths /\ IsFiniteSet(Paths)
    BY ConstantsAssumption DEF Found, ConstantsAssumption
  <2> QED
    BY <2>1, FS_Subset, FS_CardinalityType
<1>2. ASSUME NEW p \in Found
      PROVE  [op |-> "snapshot", path |-> p, text |-> walk[p]] \in Entries
  BY DEF Found, Entries
<1> DEFINE batch == [i \in 1..Cardinality(Found) |->
                        [op |-> "snapshot", path |-> order[i], text |-> walk[order[i]]]]
<1>3. batch \in [1..Cardinality(Found) -> Entries]
  BY <1>2
<1>4. batch \in Seq(Entries)
  BY <1>1, <1>3
<1> QED
  BY <1>4

\* The types hold at first, and every step keeps them, given what the job follows.
LEMMA InitTypes == Init => TypeOK
<1> SUFFICES ASSUME Init PROVE TypeOK
  OBVIOUS
<1>1. MaxEdits \in Nat /\ MaxCrashes \in Nat
  BY ConstantsAssumption DEF ConstantsAssumption
<1>2. disk \in [Paths -> OnDisk]
  BY DEF Init, OnDisk
<1>3. queue \in Seq(Entries) /\ job = None
  BY DEF Init
<1>4. /\ mtime \in [Paths -> 0..MaxEdits]
      /\ state \in [Paths -> Rows \cup {None}]
      /\ walk \in [Paths -> OnDisk \cup {None}]
  BY <1>1 DEF Init
<1>5. /\ index \in [Paths -> Texts \cup {Absent, Husk}]
      /\ wroteBy \in [Paths -> {"snapshot", "overwrite", "unrecorded", "recorded", "cut"}]
  BY DEF Init
<1>6. /\ lost \in SUBSET Paths /\ daemon \in {"up", "stopping", "closed"}
      /\ db \in {"none", "filling", "ready"} /\ watching \in {"no", "yes", "stopped"}
  BY DEF Init
<1>7. /\ pending \in SUBSET Paths /\ flushing \in SUBSET ({"timer", "stop"} \X Paths)
      /\ passes \in 0..2 /\ crashes \in 0..MaxCrashes
  BY <1>1 DEF Init
<1> QED
  BY <1>2, <1>3, <1>4, <1>5, <1>6, <1>7 DEF TypeOK

LEMMA StepTypes == TypeOK /\ JobFollows /\ [Next]_vars => TypeOK'
<1> SUFFICES ASSUME TypeOK, JobFollows, [Next]_vars PROVE TypeOK'
  OBVIOUS
<1> USE DEF TypeOK, OnDisk, fileVars, storeVars, watchVars, passVars
<1>0. MaxEdits \in Nat /\ MaxCrashes \in Nat
  BY ConstantsAssumption DEF ConstantsAssumption
<1>e. \A p \in Paths : Reindex(p) \in Entries
  BY DEF Reindex, Entries
<1>m. \A p \in Paths : mtime[p] \in Nat
  BY <1>0
<1>1. ASSUME NEW p \in Paths, NEW text \in OnDisk, Edit(p, text) PROVE TypeOK'
  BY <1>0, <1>1 DEF Edit
<1>2. CASE StartWatching
  BY <1>2 DEF StartWatching
<1>3. ASSUME NEW p \in Paths, NEW by \in {"timer", "stop"}, SubmitFlush(by, p)
      PROVE  TypeOK'
  <2>1. queue' \in Seq(Entries)
    <3>1. queue' = queue \/ queue' = Append(queue, Reindex(p))
      BY <1>3 DEF SubmitFlush
    <3>2. queue \in Seq(Entries) /\ Reindex(p) \in Entries
      BY <1>e
    <3>3. Append(queue, Reindex(p)) \in Seq(Entries)
      BY <3>2, AppendProperties
    <3> QED
      BY <3>1, <3>2, <3>3
  <2>3. db' \in {"none", "filling", "ready"} /\ lost' \in SUBSET Paths
    BY <1>3 DEF SubmitFlush, Opened
  <2>2. flushing' \in SUBSET ({"timer", "stop"} \X Paths)
    BY <1>3 DEF SubmitFlush
  <2> QED
    BY <1>3, <2>1, <2>2, <2>3 DEF SubmitFlush
<1>18. CASE TakePending
  BY <1>18 DEF TakePending
<1>19. CASE StopWatcher
  <2>1. /\ flushing' \in SUBSET ({"timer", "stop"} \X Paths)
        /\ watching' \in {"no", "yes", "stopped"}
    BY <1>19 DEF StopWatcher
  <2> QED
    BY <1>19, <2>1 DEF StopWatcher
<1>20. CASE CloseQueue
  BY <1>20 DEF CloseQueue
<1>21. CASE MarkReady
  BY <1>21 DEF MarkReady
<1>4. ASSUME NEW p \in Paths, Query(p) PROVE TypeOK'
  BY <1>4, <1>e DEF Query
<1>5. ASSUME NEW p \in Paths, WalkFile(p) PROVE TypeOK'
  BY <1>5 DEF WalkFile
<1>6. CASE SubmitPass
  <2>1. ASSUME NEW order \in [1..Cardinality(Found) -> Found],
               queue' = queue \o [i \in DOMAIN order |->
                        [op |-> "snapshot", path |-> order[i], text |-> walk[order[i]]]]
        PROVE  queue' \in Seq(Entries)
    BY <2>1, SubmittedEntries, ConcatProperties
  <2>2. queue' \in Seq(Entries)
    BY <1>6, <2>1 DEF SubmitPass
  <2>4. db' \in {"none", "filling", "ready"}
    BY <1>6 DEF SubmitPass, Opened
  <2>3. passes' \in 0..2
    BY <1>6 DEF SubmitPass
  <2> QED
    BY <1>6, <2>2, <2>3, <2>4 DEF SubmitPass
<1>7. CASE RunSnapshot
  <2>1. queue # <<>> /\ Head(queue) \in Entries /\ Tail(queue) \in Seq(Entries)
    BY <1>7 DEF RunSnapshot
  <2>2. Head(queue).text \in Texts \cup {Broken} /\ Head(queue).path \in Paths
    BY <1>7, <2>1 DEF RunSnapshot, Entries
  <2>3. index' \in [Paths -> Texts \cup {Absent, Husk}]
    BY <1>7, <2>2 DEF RunSnapshot
  <2>4. wroteBy' \in [Paths -> {"snapshot", "overwrite", "unrecorded", "recorded", "cut"}]
    <3> DEFINE e == Head(queue)
               how == CASE state[e.path] = None -> "snapshot"
                        [] state[e.path] # None /\ state[e.path].hash = e.text -> "recorded"
                        [] OTHER -> "overwrite"
    <3>1. how \in {"snapshot", "overwrite", "recorded"}
      OBVIOUS
    <3>2. wroteBy' = wroteBy \/ wroteBy' = [wroteBy EXCEPT ![e.path] = how]
      BY <1>7 DEF RunSnapshot
    <3> HIDE DEF how
    <3> QED
      BY <3>1, <3>2
  <2> QED
    BY <1>7, <2>1, <2>3, <2>4 DEF RunSnapshot, OthersIdle
<1>8. CASE StartReindex
  <2>1. Head(queue) \in Entries /\ Tail(queue) \in Seq(Entries)
    BY <1>8 DEF StartReindex
  <2>2. Head(queue).path \in Paths
    BY <2>1 DEF Entries
  <2> QED
    BY <1>8, <2>1, <2>2 DEF StartReindex, OthersIdle, Jobs
<1>9. CASE Stat
  BY <1>9, <1>m DEF Stat, At, WriterOnly, OthersIdle, JobFollows, Jobs
<1>10. CASE Read
  <2>1. job \in Jobs /\ job.path \in Paths /\ job.mtime \in Nat
    BY <1>10 DEF Read, At, JobFollows, Jobs
  <2>2. state' \in [Paths -> Rows \cup {None}]
    <3>1. CASE state' = state
      BY <3>1
    <3>2. CASE /\ state[job.path] # None
               /\ state' = [state EXCEPT ![job.path].mtime = job.mtime]
      BY <2>1, <3>2 DEF Rows
    <3> QED
      BY <1>10, <3>1, <3>2 DEF Read
  <2>3. job' = None \/ (job' = [job EXCEPT !.at = "index", !.text = disk[job.path]]
                        /\ disk[job.path] \in Texts \cup {Broken})
    BY <1>10, <2>1 DEF Read
  <2> QED
    BY <1>10, <2>1, <2>2, <2>3 DEF Read, WriterOnly, OthersIdle, Jobs
<1>11. CASE Index
  <2>1. job \in Jobs /\ job.path \in Paths /\ job.text \in Texts \cup {Broken}
    BY <1>11 DEF Index, At, JobFollows, Jobs
  <2>2. index' \in [Paths -> Texts \cup {Absent, Husk}]
        /\ wroteBy' \in [Paths -> {"snapshot", "overwrite", "unrecorded", "recorded", "cut"}]
    BY <1>11, <2>1 DEF Index
  <2> QED
    BY <1>11, <2>1, <2>2 DEF Index, WriterOnly, OthersIdle, Jobs
<1>12. CASE Record
  <2>1. job \in Jobs /\ job.path \in Paths /\ job.text \in Texts \cup {Broken}
        /\ job.mtime \in Nat
    BY <1>12 DEF Record, At, JobFollows, Jobs
  <2>2. [mtime |-> job.mtime, hash |-> job.text] \in Rows
    BY <2>1 DEF Rows
  <2> QED
    BY <1>12, <2>1, <2>2 DEF Record, WriterOnly, OthersIdle
<1>13. CASE Gone
  <2>1. job \in Jobs /\ job.path \in Paths
    BY <1>13 DEF Gone, At, JobFollows, Jobs
  <2> QED
    BY <1>13, <2>1 DEF Gone, WriterOnly, OthersIdle, Jobs
<1>14. CASE Clear
  <2>1. job \in Jobs /\ job.path \in Paths
    BY <1>14 DEF Clear, At, JobFollows, Jobs
  <2> QED
    BY <1>14, <2>1 DEF Clear, WriterOnly, OthersIdle, Jobs
<1>15. CASE Forget
  <2>1. job \in Jobs /\ job.path \in Paths
    BY <1>15 DEF Forget, At, JobFollows, Jobs
  <2> QED
    BY <1>15, <2>1 DEF Forget, WriterOnly, OthersIdle
<1>16. CASE Crash
  <2>1. queue' \in Seq(Entries) /\ job' = None
    BY <1>16 DEF Crash
  <2>2. passes' \in 0..2 /\ crashes' \in 0..MaxCrashes
    BY <1>0, <1>16 DEF Crash
  <2>3. /\ walk' \in [Paths -> OnDisk \cup {None}]
        /\ watching' = "no" /\ daemon' = "up" /\ pending' = {} /\ flushing' = {}
        /\ db' \in {"none", "filling", "ready"}
    BY <1>16 DEF Crash
  <2>4. wroteBy' \in [Paths -> {"snapshot", "overwrite", "unrecorded", "recorded", "cut"}]
    BY <1>16 DEF Crash
  <2> QED
    BY <1>16, <2>1, <2>2, <2>3, <2>4 DEF Crash
<1>22. CASE Fail
  <2>1. job.path \in Paths
    BY <1>22 DEF Fail, JobFollows, Jobs
  <2>2. /\ wroteBy' \in [Paths -> {"snapshot", "overwrite", "unrecorded", "recorded", "cut"}]
        /\ lost' \in SUBSET Paths
    BY <1>22, <2>1 DEF Fail
  <2> QED
    BY <1>22, <2>2 DEF Fail, OthersIdle
<1>17. CASE Quiet \/ UNCHANGED vars
  BY <1>17 DEF Quiet, vars
<1> QED
  BY <1>1, <1>2, <1>3, <1>4, <1>5, <1>6, <1>7, <1>8, <1>9, <1>10, <1>11, <1>12, <1>13, <1>14,
     <1>15, <1>16, <1>17, <1>18, <1>19, <1>20, <1>21, <1>22 DEF Next, PassStep, WriterStep

-----------------------------------------------------------------------------

\* Every step keeps the rows behind the disk and the symbols behind the rows.
LEMMA StepFresh == FreshInv /\ [Next]_vars => FreshInv'
<1> SUFFICES ASSUME FreshInv, [Next]_vars PROVE FreshInv'
  OBVIOUS
<1> USE DEF FreshInv, fileVars, storeVars, watchVars, passVars
<1>t. TypeOK'
  BY StepTypes
<1>n. \A p \in Paths : /\ mtime[p] \in Nat
                       /\ state[p] # None => state[p] \in Rows /\ state[p].mtime \in Nat
  BY ConstantsAssumption DEF TypeOK, Rows, ConstantsAssumption
<1>f. /\ disk \in [Paths -> OnDisk] /\ mtime \in [Paths -> 0..MaxEdits]
      /\ index \in [Paths -> Texts \cup {Absent, Husk}]
      /\ state \in [Paths -> Rows \cup {None}]
      /\ wroteBy \in [Paths -> {"snapshot", "overwrite", "unrecorded", "recorded", "cut"}]
  BY DEF TypeOK
<1>q. ASSUME UNCHANGED <<disk, mtime, storeVars, job>> PROVE FreshInv'
  BY <1>q, <1>t DEF RowsAreOfDisk, SettledIsIndexed, JobFollows, MidJob
<1>j. ASSUME job # None
      PROVE  job \in Jobs /\ job.path \in Paths /\ job.mtime \in Nat
  BY <1>j DEF TypeOK, Jobs
<1>c. None \notin Jobs
  BY ConstantsAssumption DEF ConstantsAssumption
<1>1. ASSUME NEW p \in Paths, NEW text \in OnDisk, Edit(p, text) PROVE FreshInv'
  <2>1. /\ disk' = [disk EXCEPT ![p] = text] /\ mtime' = [mtime EXCEPT ![p] = @ + 1]
        /\ UNCHANGED <<index, state, wroteBy, job>>
    BY <1>1 DEF Edit
  <2>2. \A q \in Paths : /\ mtime'[q] = IF q = p THEN mtime[q] + 1 ELSE mtime[q]
                         /\ q # p => disk'[q] = disk[q]
    BY <1>f, <2>1
  <2>3. RowsAreOfDisk'
    BY <1>n, <2>1, <2>2 DEF RowsAreOfDisk
  <2>4. SettledIsIndexed' /\ MidJob'
    BY <2>1 DEF SettledIsIndexed, MidJob
  <2>5. JobFollows'
    BY <1>j, <1>n, <2>1, <2>2 DEF JobFollows, Jobs
  <2> QED
    BY <1>t, <2>3, <2>4, <2>5
<1>2. CASE RunSnapshot
  <2> DEFINE e == Head(queue)
  <2>1. job = None /\ UNCHANGED <<disk, mtime, state, job>>
    BY <1>2 DEF RunSnapshot, OthersIdle
  <2>2. \/ UNCHANGED <<index, wroteBy>>
        \/ /\ index' = [index EXCEPT ![e.path] = e.text]
           /\ \E how : /\ wroteBy' = [wroteBy EXCEPT ![e.path] = how]
                       /\ how # "unrecorded"
                       /\ state[e.path] # None /\ state[e.path].hash # e.text
                            => how = "overwrite"
    BY <1>2 DEF RunSnapshot
  <2>3. SettledIsIndexed'
    BY <1>f, <2>1, <2>2 DEF SettledIsIndexed
  <2>4. MidJob'
    BY <1>f, <2>1, <2>2 DEF MidJob
  <2> QED
    BY <1>t, <2>1, <2>3, <2>4 DEF RowsAreOfDisk, JobFollows
<1>3. CASE StartReindex
  <2>1. /\ job' = [path |-> Head(queue).path, at |-> "stat", mtime |-> 0, text |-> None]
        /\ job = None /\ UNCHANGED <<disk, mtime, index, state, wroteBy>>
    BY <1>3 DEF StartReindex, OthersIdle
  <2>2. Head(queue) \in Entries /\ Head(queue).path \in Paths
    BY <1>3 DEF StartReindex, TypeOK, Entries
  <2>3. JobFollows'
    BY <2>1, <2>2 DEF JobFollows, Jobs
  <2> QED
    BY <1>t, <2>1, <2>3 DEF RowsAreOfDisk, SettledIsIndexed, MidJob
<1>a. ASSUME job # None, job' = None, \/ UNCHANGED <<wroteBy>>
                                         /\ job.at \notin {"record", "clear", "forget"}
                                      \/ /\ wroteBy'[job.path] # "unrecorded"
                                         /\ \A q \in Paths \ {job.path} :
                                                wroteBy'[q] = wroteBy[q]
      PROVE  JobFollows' /\ MidJob'
  BY <1>a DEF JobFollows, MidJob
<1>4. CASE Stat
  <2>1. /\ job # None /\ job.at = "stat"
        /\ UNCHANGED <<disk, mtime, index, state, wroteBy>>
        /\ \/ job' = None
           \/ /\ disk[job.path] = Absent
              /\ job' = [job EXCEPT !.at = "gone", !.mtime = mtime[job.path]]
           \/ /\ state[job.path] = None \/ state[job.path].mtime # mtime[job.path]
              /\ job' = [job EXCEPT !.at = "read", !.mtime = mtime[job.path]]
    BY <1>4 DEF Stat, At, WriterOnly, OthersIdle
  <2>2. RowsAreOfDisk' /\ SettledIsIndexed'
    BY <2>1 DEF RowsAreOfDisk, SettledIsIndexed
  <2>3. MidJob'
    BY <1>j, <2>1 DEF MidJob
  <2>4. ASSUME job' # None PROVE JobFollows'
    <3>1. PICK step \in {"gone", "read"} :
              job' = [job EXCEPT !.at = step, !.mtime = mtime[job.path]]
      BY <2>1, <2>4
    <3>2. /\ job' \in Jobs /\ job'.path = job.path
          /\ job'.at \in {"gone", "read"} /\ job'.mtime = mtime[job.path]
      BY <1>j, <1>n, <2>1, <3>1 DEF Jobs
    <3>3. state[job.path] # None => state[job.path].mtime < mtime[job.path]
      <4>1. state[job.path] # None => /\ state[job.path].mtime <= mtime[job.path]
                                      /\ state[job.path].hash \in Texts \cup {Broken}
        BY <1>j, <1>n, <2>1 DEF RowsAreOfDisk, Rows
      <4>2. ASSUME state[job.path] # None PROVE state[job.path].mtime # mtime[job.path]
        BY <1>j, <2>1, <2>4, <4>1, <4>2, ConstantsAssumption
        DEF RowsAreOfDisk, ConstantsAssumption
      <4> QED
        BY <1>j, <1>n, <2>1, <4>1, <4>2
    <3>4. mtime'[job'.path] = mtime[job.path] /\ mtime[job.path] <= mtime[job.path]
      BY <1>j, <1>n, <2>1, <3>2
    <3> QED
      BY <2>1, <3>2, <3>3, <3>4 DEF JobFollows
  <2>5. JobFollows'
    BY <2>4 DEF JobFollows
  <2> QED
    BY <1>t, <2>2, <2>3, <2>5
<1>5. CASE Read
  <2>1. job # None /\ job.at = "read" /\ UNCHANGED <<disk, mtime, index, wroteBy>>
    BY <1>5 DEF Read, At, WriterOnly, OthersIdle
  <2>2. job.mtime <= mtime[job.path]
    BY <2>1 DEF JobFollows
  <2>3. CASE job' = None /\ state' = state
    BY <1>a, <1>t, <2>1, <2>3 DEF RowsAreOfDisk, SettledIsIndexed
  <2>4. CASE /\ state[job.path] # None /\ state[job.path].hash = disk[job.path]
             /\ state' = [state EXCEPT ![job.path].mtime = job.mtime]
             /\ job' = None
    <3>1. /\ state'[job.path].mtime = job.mtime
          /\ state'[job.path].hash = state[job.path].hash
          /\ \A q \in Paths : q # job.path => state'[q] = state[q]
      BY <1>f, <1>j, <1>n, <2>1, <2>4 DEF Rows
    <3>2. RowsAreOfDisk'
      BY <2>1, <2>2, <2>4, <3>1 DEF RowsAreOfDisk
    <3>3. SettledIsIndexed'
      BY <2>1, <2>4, <3>1 DEF SettledIsIndexed
    <3> QED
      BY <1>a, <1>t, <2>1, <2>4, <3>2, <3>3
  <2>5. CASE /\ job' = [job EXCEPT !.at = "index", !.text = disk[job.path]]
             /\ disk[job.path] \notin {Absent, Unreadable}
             /\ state' = state
    <3>1. disk[job.path] \in Texts \cup {Broken}
      BY <1>f, <1>j, <2>1, <2>5 DEF OnDisk
    <3>2. JobFollows'
      BY <1>j, <2>1, <2>2, <2>5, <3>1 DEF JobFollows, Jobs
    <3>3. MidJob'
      BY <2>1, <2>5 DEF MidJob
    <3> QED
      BY <1>t, <2>1, <2>5, <3>2, <3>3 DEF RowsAreOfDisk, SettledIsIndexed
  <2> QED
    BY <1>5, <2>3, <2>4, <2>5 DEF Read
<1>6. CASE Index
  <2>1. /\ job # None /\ job.at = "index" /\ job' = [job EXCEPT !.at = "record"]
        /\ UNCHANGED <<disk, mtime, state>>
    BY <1>6 DEF Index, At, WriterOnly, OthersIdle
  <2>2. \/ job.text = Broken /\ UNCHANGED <<index, wroteBy>>
        \/ /\ job.text # Broken
           /\ index' = [index EXCEPT ![job.path] = job.text]
           /\ wroteBy' = [wroteBy EXCEPT ![job.path] = "unrecorded"]
    BY <1>6 DEF Index
  <2>3. SettledIsIndexed'
    BY <1>f, <2>1, <2>2 DEF SettledIsIndexed
  <2>4. job.text # Broken => index'[job.path] = job.text
    BY <1>f, <1>j, <2>1, <2>2
  <2>5. job' \in Jobs /\ job'.path = job.path /\ job'.at = "record"
    BY <1>j, <2>1 DEF Jobs
  <2>6. JobFollows'
    BY <1>j, <2>1, <2>4, <2>5 DEF JobFollows, Jobs
  <2>7. MidJob'
    <3>1. \A q \in Paths : wroteBy[q] # "unrecorded"
      BY <2>1 DEF MidJob
    <3>2. \A q \in Paths : wroteBy'[q] = "unrecorded" => q = job.path
      BY <1>f, <1>j, <2>1, <2>2, <3>1
    <3> QED
      BY <1>c, <2>5, <3>2 DEF MidJob
  <2> QED
    BY <1>t, <2>1, <2>3, <2>6, <2>7 DEF RowsAreOfDisk
<1>7. CASE Record
  <2>1. /\ job # None /\ job.at = "record" /\ job' = None
        /\ state' = [state EXCEPT ![job.path] = [mtime |-> job.mtime, hash |-> job.text]]
        /\ UNCHANGED <<disk, mtime, index>>
        /\ wroteBy' = [wroteBy EXCEPT ![job.path] = "recorded"]
    BY <1>7 DEF Record, At, WriterOnly, OthersIdle
  <2>2. /\ job.mtime <= mtime[job.path]
        /\ job.mtime = mtime[job.path] => job.text = disk[job.path]
        /\ job.text # Broken => index[job.path] = job.text
    BY <2>1 DEF JobFollows
  <2>3. /\ state'[job.path] = [mtime |-> job.mtime, hash |-> job.text]
        /\ wroteBy'[job.path] = "recorded"
        /\ \A q \in Paths : q # job.path => state'[q] = state[q] /\ wroteBy'[q] = wroteBy[q]
    BY <1>f, <1>j, <2>1
  <2>4. RowsAreOfDisk'
    BY <2>1, <2>2, <2>3 DEF RowsAreOfDisk
  <2>5. SettledIsIndexed'
    BY <2>1, <2>2, <2>3 DEF SettledIsIndexed
  <2> QED
    BY <1>a, <1>t, <2>1, <2>3, <2>4, <2>5
<1>8. CASE Gone
  <2>1. /\ job # None /\ job.at = "gone" /\ UNCHANGED <<disk, mtime>>
        /\ \/ /\ state' = [state EXCEPT ![job.path] = None]
              /\ job' = None
              /\ UNCHANGED <<index, wroteBy>>
           \/ /\ index' = [index EXCEPT ![job.path] = Husk]
              /\ wroteBy' = [wroteBy EXCEPT ![job.path] = "unrecorded"]
              /\ job' = [job EXCEPT !.at = "clear"]
              /\ UNCHANGED state
    BY <1>8 DEF Gone, At, WriterOnly, OthersIdle
  <2>2. RowsAreOfDisk'
    BY <1>f, <2>1 DEF RowsAreOfDisk
  <2>3. SettledIsIndexed'
    BY <1>f, <2>1 DEF SettledIsIndexed
  <2>4. JobFollows'
    BY <1>f, <1>j, <2>1 DEF JobFollows, Jobs
  <2>5. MidJob'
    <3>1. \A q \in Paths : wroteBy[q] # "unrecorded"
      BY <2>1 DEF MidJob
    <3>2. \A q \in Paths : wroteBy'[q] = "unrecorded" =>
              q = job.path /\ job' = [job EXCEPT !.at = "clear"]
      BY <1>f, <1>j, <2>1, <3>1
    <3> QED
      BY <1>c, <1>j, <2>1, <3>2 DEF MidJob, Jobs
  <2> QED
    BY <1>t, <2>2, <2>3, <2>4, <2>5
<1>9. CASE Clear
  <2>1. /\ job # None /\ job.at = "clear" /\ UNCHANGED <<disk, mtime, state, wroteBy>>
        /\ index' = [index EXCEPT ![job.path] = Absent]
        /\ job' = [job EXCEPT !.at = "forget"]
    BY <1>9 DEF Clear, At, WriterOnly, OthersIdle
  <2>2. SettledIsIndexed'
    BY <1>f, <2>1 DEF SettledIsIndexed, JobFollows
  <2>3. JobFollows'
    BY <1>j, <2>1 DEF JobFollows, Jobs
  <2>4. MidJob'
    <3>1. job' \in Jobs /\ job'.path = job.path /\ job'.at = "forget"
      BY <1>j, <2>1 DEF Jobs
    <3> QED
      BY <1>c, <2>1, <3>1 DEF MidJob
  <2> QED
    BY <1>t, <2>1, <2>2, <2>3, <2>4 DEF RowsAreOfDisk
<1>10. CASE Forget
  <2>1. /\ job # None /\ job' = None /\ UNCHANGED <<disk, mtime, index>>
        /\ state' = [state EXCEPT ![job.path] = None]
        /\ wroteBy' = [wroteBy EXCEPT ![job.path] = "recorded"]
    BY <1>10 DEF Forget, At, WriterOnly, OthersIdle
  <2>2. RowsAreOfDisk'
    BY <1>f, <2>1 DEF RowsAreOfDisk
  <2>3. SettledIsIndexed'
    BY <1>f, <2>1 DEF SettledIsIndexed
  <2>4. /\ wroteBy'[job.path] = "recorded"
        /\ \A q \in Paths \ {job.path} : wroteBy'[q] = wroteBy[q]
    BY <1>f, <1>j, <2>1
  <2> QED
    BY <1>a, <1>t, <2>1, <2>2, <2>3, <2>4
<1>11. CASE Fail
  <2>1. /\ job # None /\ job' = None /\ UNCHANGED <<disk, mtime, index, state>>
        /\ wroteBy' = [wroteBy EXCEPT ![job.path] = IF @ = "unrecorded" THEN "cut" ELSE @]
    BY <1>11 DEF Fail, OthersIdle
  <2>2. /\ wroteBy'[job.path] # "unrecorded"
        /\ wroteBy'[job.path] \in {"snapshot", "recorded"} => wroteBy'[job.path] = wroteBy[job.path]
        /\ \A q \in Paths \ {job.path} : wroteBy'[q] = wroteBy[q]
    BY <1>f, <1>j, <2>1
  <2>3. RowsAreOfDisk' /\ SettledIsIndexed'
    BY <2>1, <2>2 DEF RowsAreOfDisk, SettledIsIndexed
  <2> QED
    BY <1>a, <1>t, <2>1, <2>2, <2>3
<1>12. CASE Crash
  <2>1. job' = None /\ UNCHANGED <<disk, mtime, index, state>>
    BY <1>12 DEF Crash
  <2>2. \A p \in Paths : wroteBy'[p] = IF wroteBy[p] = "unrecorded" THEN "cut" ELSE wroteBy[p]
    BY <1>12 DEF Crash
  <2>3. RowsAreOfDisk' /\ SettledIsIndexed' /\ MidJob'
    BY <2>1, <2>2 DEF RowsAreOfDisk, SettledIsIndexed, MidJob
  <2> QED
    BY <1>t, <2>1, <2>3 DEF JobFollows
<1>13. CASE \/ StartWatching \/ TakePending \/ StopWatcher \/ CloseQueue
            \/ SubmitPass \/ MarkReady \/ Quiet \/ UNCHANGED vars
            \/ \E p \in Paths : \/ Query(p) \/ WalkFile(p)
                                \/ \E by \in {"timer", "stop"} : SubmitFlush(by, p)
  BY <1>13, <1>q DEF StartWatching, TakePending, StopWatcher, CloseQueue, SubmitPass,
     MarkReady, Quiet, Query, WalkFile, SubmitFlush, vars
<1> QED
  BY <1>1, <1>2, <1>3, <1>4, <1>5, <1>6, <1>7, <1>8, <1>9, <1>10, <1>11, <1>12, <1>13
  DEF Next, PassStep, WriterStep

\* The invariant of the reachable states.
LEMMA FreshInvariance == Spec => []FreshInv
<1>1. Init => FreshInv
  <2> SUFFICES ASSUME Init PROVE FreshInv
    OBVIOUS
  <2>1. RowsAreOfDisk /\ SettledIsIndexed /\ JobFollows /\ MidJob
    BY DEF Init, RowsAreOfDisk, SettledIsIndexed, JobFollows, MidJob
  <2> QED
    BY <2>1, InitTypes DEF FreshInv
<1> QED
  BY <1>1, StepFresh, PTL DEF Spec

\* Files, file_state rows, index contents and the jobs of the write queue keep
\* their types, wherever edits, passes and crashes fall.
THEOREM TypesHold == Spec => []TypeOK
<1>1. FreshInv => TypeOK
  BY DEF FreshInv
<1> QED
  BY <1>1, FreshInvariance, PTL

\* When the recorded modification time is the file's own, the symbols are those of
\* its text, wherever edits fell between the looks and the commits of the jobs.
THEOREM CheapCheckIsSound == Spec => []RecordedIsIndexed
<1>1. ASSUME FreshInv PROVE RecordedIsIndexed
  <2>1. \A p \in Paths : /\ mtime[p] \in Nat
                         /\ state[p] # None => state[p].mtime \in Nat
    BY <1>1, ConstantsAssumption DEF FreshInv, TypeOK, Rows, ConstantsAssumption
  <2> SUFFICES ASSUME NEW p \in Paths, Indexable(p), ~Damaged(p),
                      state[p] # None, state[p].mtime = mtime[p]
               PROVE  index[p] = disk[p]
    BY DEF RecordedIsIndexed
  <2>2. wroteBy[p] # "unrecorded"
    BY <1>1, <2>1 DEF FreshInv, TypeOK, MidJob, JobFollows, Jobs
  <2>3. wroteBy[p] \in {"snapshot", "recorded"}
    BY <1>1, <2>2 DEF FreshInv, TypeOK, Damaged
  <2>4. state[p].hash = disk[p] /\ state[p].hash # Broken
    BY <1>1 DEF FreshInv, RowsAreOfDisk, Indexable
  <2> QED
    BY <1>1, <2>3, <2>4 DEF FreshInv, SettledIsIndexed
<1> QED
  BY <1>1, FreshInvariance, PTL
==============================================================================
