--------------------------- MODULE BootstrapProofs ---------------------------
(***************************************************************************)
(* The safety of the first indexing of a worktree, for any request threads,*)
(* files, walk orders, dependencies, failures and restarts: one bootstrap  *)
(* at a time, and what its markers and its readiness promise.              *)
(*                                                                         *)
(* Last the safety core of its liveness: a bootstrap that has neither an   *)
(* owner nor a queued job able to go on is over.                           *)
(***************************************************************************)
EXTENDS Bootstrap, FiniteSetTheorems, TLAPS

Waiting(q, op, o)  == {j \in 1..Len(q) : q[j].op = op /\ q[j].by = o}
Pending(q, op, o)  == Cardinality(Waiting(q, op, o))
QueuedFiles(q, o)  == {q[j].file : j \in Waiting(q, "index", o)}

InPass(o) == phase[o] \in {"pass1", "pass2"}
Seen(o)   == {WalkOrder[i] : i \in 1..next[o] - 1}
Complete  == Files \subseteq indexed \cup lost

\* Migration has one pass and no readiness to announce; a bootstrap asks no flag.
PhasesFit ==
    /\ phase[Migration] \notin {"pass1", "head", "heading", "ready"}
    /\ \A t \in Threads : phase[t] \notin {"check", "checking"}
    /\ migChecked \/ phase[Migration] = "none"

\* An owner's jobs in the queue are those its phase waits for: a pass has submitted
\* and not yet counted them, and the other two jobs are alone.
Counted(o) ==
    /\ Pending(queue, "index", o) =
           IF InPass(o) THEN remaining[o] + next[o] - (Len(WalkOrder) + 1) ELSE 0
    /\ Pending(queue, "head", o) = IF phase[o] = "heading" THEN 1 ELSE 0
    /\ Pending(queue, "check", o) = IF phase[o] = "checking" THEN 1 ELSE 0

JobsCounted == \A o \in Owners : Counted(o)

Alone ==
    /\ \A t, u \in InFlight : t = u
    /\ inProgress <=> InFlight # {}

\* What a pass has gone by is indexed, lost or still in the queue, and every phase
\* after a bootstrap's first pass, or after the migration's only one, comes after
\* every file.
Covers(o) ==
    /\ InPass(o) => Seen(o) \subseteq indexed \cup lost \cup QueuedFiles(queue, o)
    /\ phase[o] \in {"head", "heading", "ready", "flag"}
           \/ (phase[o] = "pass2" /\ o \in Threads)
           => Complete

PassesCover == \A o \in Owners : Covers(o)

\* The second pass resolves what it goes by, for every file is then indexed.
Resolves(t) ==
    lost = {} =>
        /\ phase[t] = "pass2" => Seen(t) \subseteq resolved \cup QueuedFiles(queue, t)
        /\ phase[t] \in {"head", "heading", "ready"} => resolved = Files

PassesResolve == \A t \in Threads : Resolves(t)

MarkersCover ==
    flag \/ headSha \/ (\E j \in 1..Len(queue) : queue[j].op \in {"head", "flag"})
        => Complete

IInv == /\ TypeOK /\ PhasesFit /\ JobsCounted /\ Alone
        /\ PassesCover /\ PassesResolve /\ MarkersCover
-----------------------------------------------------------------------------

(* The positions of the queue that an owner's jobs hold are finitely many.      *)
LEMMA WaitingFinite ==
    ASSUME NEW q \in Seq(Jobs), NEW op, NEW o
    PROVE  IsFiniteSet(Waiting(q, op, o)) /\ Pending(q, op, o) \in Nat
<1>1. IsFiniteSet(1..Len(q))
  BY FS_Interval
<1>2. Waiting(q, op, o) \subseteq 1..Len(q)
  BY DEF Waiting
<1> QED
  BY <1>1, <1>2, FS_Subset, FS_CardinalityType DEF Pending

(* Submitting a job, Put, counts it for its owner and for nobody else.          *)
LEMMA AppendWaiting ==
    ASSUME NEW q \in Seq(Jobs), NEW e \in Jobs, NEW op, NEW o
    PROVE  /\ Pending(Append(q, e), op, o) =
                  Pending(q, op, o) + IF e.op = op /\ e.by = o THEN 1 ELSE 0
           /\ QueuedFiles(Append(q, e), o) =
                  QueuedFiles(q, o) \cup IF e.op = "index" /\ e.by = o THEN {e.file} ELSE {}
<1> DEFINE r == Append(q, e)
<1>1. /\ Len(r) = Len(q) + 1 /\ Len(q) \in Nat
      /\ r[Len(q) + 1] = e
      /\ \A j \in 1..Len(q) : r[j] = q[j]
  OBVIOUS
<1>2. ASSUME NEW p
      PROVE  Waiting(r, p, o) =
                Waiting(q, p, o) \cup IF e.op = p /\ e.by = o THEN {Len(q) + 1} ELSE {}
  <2> HIDE DEF r
  <2> QED
    BY <1>1 DEF Waiting
<1>3. Len(q) + 1 \notin Waiting(q, op, o)
  BY <1>1 DEF Waiting
<1>4. Pending(r, op, o) = Pending(q, op, o) + IF e.op = op /\ e.by = o THEN 1 ELSE 0
  <2> HIDE DEF r
  <2>0. IsFiniteSet(Waiting(q, op, o)) /\ Pending(q, op, o) \in Nat
    BY WaitingFinite
  <2>1. CASE e.op = op /\ e.by = o
    <3>1. Waiting(r, op, o) = Waiting(q, op, o) \cup {Len(q) + 1}
      BY <2>1, <1>2
    <3>2. Cardinality(Waiting(r, op, o)) = Cardinality(Waiting(q, op, o)) + 1
      BY <2>0, <3>1, <1>3, FS_AddElement
    <3> QED
      BY <2>1, <3>2 DEF Pending
  <2>2. CASE ~(e.op = op /\ e.by = o)
    <3>1. Waiting(r, op, o) = Waiting(q, op, o)
      BY <2>2, <1>2
    <3>2. Pending(r, op, o) = Pending(q, op, o)
      BY <3>1 DEF Pending
    <3> QED
      BY <2>0, <2>2, <3>2
  <2> QED
    BY <2>1, <2>2
<1>5. QueuedFiles(r, o) =
          QueuedFiles(q, o) \cup IF e.op = "index" /\ e.by = o THEN {e.file} ELSE {}
  <2>1. Waiting(q, "index", o) \subseteq 1..Len(q)
    BY DEF Waiting
  <2>2. Waiting(r, "index", o) = Waiting(q, "index", o)
            \cup IF e.op = "index" /\ e.by = o THEN {Len(q) + 1} ELSE {}
    BY <1>2
  <2> HIDE DEF r
  <2> QED
    BY <1>1, <2>1, <2>2 DEF QueuedFiles
<1> QED
  BY <1>4, <1>5

(* Taking the first job, as the writer does, uncounts it for its owner only.    *)
LEMMA TailWaiting ==
    ASSUME NEW q \in Seq(Jobs), q # <<>>, NEW op, NEW o
    PROVE  /\ Pending(q, op, o) =
                  Pending(Tail(q), op, o) + IF Head(q).op = op /\ Head(q).by = o THEN 1 ELSE 0
           /\ QueuedFiles(q, o) \subseteq QueuedFiles(Tail(q), o)
                  \cup IF Head(q).op = "index" /\ Head(q).by = o THEN {Head(q).file} ELSE {}
<1> DEFINE r == Tail(q)
           later(p) == Waiting(q, p, o) \ {1}
<1>1. /\ Len(q) \in Nat /\ Len(r) \in Nat /\ Len(q) = Len(r) + 1
      /\ q[1] = Head(q)
      /\ \A j \in 1..Len(r) : r[j] = q[j + 1]
      /\ r \in Seq(Jobs)
  OBVIOUS
<1> HIDE DEF r
<1>2. ASSUME NEW p
      PROVE  /\ \A j \in Waiting(r, p, o) : j + 1 \in later(p)
             /\ \A k \in later(p) : k - 1 \in Waiting(r, p, o) /\ r[k - 1] = q[k]
  <2>1. \A j \in Waiting(r, p, o) : j + 1 \in later(p)
    BY <1>1 DEF Waiting
  <2>2. ASSUME NEW k \in later(p)
        PROVE  k - 1 \in Waiting(r, p, o) /\ r[k - 1] = q[k]
    <3>1. k \in 2..Len(q) /\ q[k].op = p /\ q[k].by = o
      BY <1>1 DEF Waiting
    <3>2. k - 1 \in 1..Len(r) /\ (k - 1) + 1 = k
      BY <3>1, <1>1
    <3> QED
      BY <3>1, <3>2, <1>1 DEF Waiting
  <2> QED
    BY <2>1, <2>2
<1>3. Cardinality(later(op)) = Pending(r, op, o)
  <2> DEFINE f == [j \in Waiting(r, op, o) |-> j + 1]
  <2>1. Waiting(r, op, o) \subseteq Nat /\ later(op) \subseteq Nat
    BY <1>1 DEF Waiting
  <2>2. f \in Bijection(Waiting(r, op, o), later(op))
    <3>1. f \in Injection(Waiting(r, op, o), later(op))
      BY <1>2, <2>1 DEF Injection, IsInjective
    <3>2. ASSUME NEW k \in later(op)
          PROVE  \E j \in Waiting(r, op, o) : f[j] = k
      <4>1. k - 1 \in Waiting(r, op, o) /\ k \in Nat
        BY <1>2, <2>1
      <4>2. f[k - 1] = (k - 1) + 1
        BY <4>1
      <4>3. (k - 1) + 1 = k
        BY <4>1
      <4> HIDE DEF f
      <4> QED
        BY <4>1, <4>2, <4>3
    <3>3. f \in Surjection(Waiting(r, op, o), later(op))
      <4> HIDE DEF f, later
      <4> QED
        BY <3>1, <3>2 DEF Surjection, Injection
    <3> QED
      BY <3>1, <3>3 DEF Bijection
  <2>3. IsFiniteSet(Waiting(r, op, o))
    BY <1>1, WaitingFinite
  <2> QED
    BY <2>2, <2>3, FS_Bijection DEF ExistsBijection, Pending
<1>4. Pending(q, op, o) =
          Pending(r, op, o) + IF Head(q).op = op /\ Head(q).by = o THEN 1 ELSE 0
  <2>1. CASE Head(q).op = op /\ Head(q).by = o
    <3>1. 1 \in Waiting(q, op, o)
      BY <2>1, <1>1 DEF Waiting
    <3>2. Waiting(q, op, o) = later(op) \cup {1} /\ 1 \notin later(op)
      BY <3>1
    <3>3. IsFiniteSet(later(op))
      BY WaitingFinite, FS_Subset
    <3>4. Cardinality(Waiting(q, op, o)) = Cardinality(later(op)) + 1
      <4> HIDE DEF later
      <4> QED
        BY <3>2, <3>3, FS_AddElement
    <3> QED
      BY <2>1, <3>4, <1>3 DEF Pending
  <2>2. CASE ~(Head(q).op = op /\ Head(q).by = o)
    <3>1. Waiting(q, op, o) = later(op)
      BY <2>2, <1>1 DEF Waiting
    <3>2. Pending(r, op, o) \in Nat
      BY <1>1, WaitingFinite
    <3>3. Pending(q, op, o) = Pending(r, op, o)
      BY <3>1, <1>3 DEF Pending
    <3> QED
      BY <2>2, <3>2, <3>3
  <2> QED
    BY <2>1, <2>2
<1>5. QueuedFiles(q, o) \subseteq QueuedFiles(r, o)
          \cup IF Head(q).op = "index" /\ Head(q).by = o THEN {Head(q).file} ELSE {}
  <2> SUFFICES ASSUME NEW k \in Waiting(q, "index", o)
               PROVE  q[k].file \in QueuedFiles(r, o)
                        \cup IF Head(q).op = "index" /\ Head(q).by = o
                             THEN {Head(q).file} ELSE {}
    BY DEF QueuedFiles
  <2>1. CASE k = 1
    BY <2>1, <1>1 DEF Waiting
  <2>2. CASE k # 1
    BY <2>2, <1>2 DEF QueuedFiles
  <2> QED
    BY <2>1, <2>2
<1> QED
  BY <1>4, <1>5 DEF r

(* An owner with no job of a kind in the queue is not named by any.             *)
LEMMA NoneWaiting ==
    ASSUME NEW q \in Seq(Jobs), NEW o, Pending(q, "index", o) = 0
    PROVE  QueuedFiles(q, o) = {}
<1>1. Waiting(q, "index", o) = {}
  BY WaitingFinite, FS_EmptySet DEF Pending
<1> QED
  BY <1>1 DEF QueuedFiles
-----------------------------------------------------------------------------

(* Every job the coordinator submits is one of the queue's.                     *)
LEMMA JobTypes ==
    ASSUME NEW o \in Owners
    PROVE  /\ \A f \in Files : [op |-> "index", file |-> f, by |-> o] \in Jobs
           /\ \A op \in {"check", "head", "flag"} : [op |-> op, by |-> o] \in Jobs
  BY DEF Jobs

(* What the writer takes is the first job, and the rest is a queue.             *)
LEMMA NextJob ==
    ASSUME TypeOK, NEW op, NextIs(op)
    PROVE  /\ Head(queue) \in Jobs /\ Head(queue).op = op
           /\ Head(queue).by \in Owners
           /\ op = "index" => Head(queue).file \in Files
           /\ queue \in Seq(Jobs) /\ queue # <<>> /\ Tail(queue) \in Seq(Jobs)
<1>1. queue \in Seq(Jobs) /\ queue # <<>> /\ Head(queue).op = op
  BY DEF TypeOK, NextIs
<1>2. Head(queue) \in Jobs /\ Tail(queue) \in Seq(Jobs)
  BY <1>1
<1> QED
  BY <1>1, <1>2 DEF Jobs

(* The walk has an order: its positions are those of a sequence of the files.   *)
LEMMA WalkPositions ==
    /\ Len(WalkOrder) \in Nat \ {0}
    /\ \A i \in 1..Len(WalkOrder) : WalkOrder[i] \in Files
<1>1. WalkOrder \in Seq(Files) /\ WalkOrder # <<>>
  BY ConstantsAssumption DEF ConstantsAssumption
<1> QED
  BY <1>1

(* on_job_done keeps the pass's bookkeeping within its bounds.                  *)
LEMMA CountDoneType ==
    ASSUME TypeOK, NEW o \in Owners, NEW writes \in BOOLEAN, CountDone(o, writes)
    PROVE  /\ phase' \in [Owners -> Phases]
           /\ remaining' \in [Owners -> 0..Len(WalkOrder)]
           /\ onWriter' \in [Owners -> BOOLEAN]
<1>0. remaining[o] \in 0..Len(WalkOrder) /\ Len(WalkOrder) \in Nat
  BY WalkPositions DEF TypeOK
<1>1. CASE remaining[o] > 1
  <2>1. remaining[o] - 1 \in 0..Len(WalkOrder)
    BY <1>0, <1>1
  <2>2. remaining' = [remaining EXCEPT ![o] = remaining[o] - 1]
        /\ UNCHANGED <<phase, onWriter>>
    BY <1>1 DEF CountDone
  <2> QED
    BY <2>1, <2>2 DEF TypeOK
<1>2. CASE ~(remaining[o] > 1)
  <2>1. Len(WalkOrder) \in 0..Len(WalkOrder) /\ 0 \in 0..Len(WalkOrder)
    BY <1>0
  <2>2. PICK n \in {0, Len(WalkOrder)}, p \in {"pass2", "flag", "head"} :
            /\ remaining' = [remaining EXCEPT ![o] = n]
            /\ onWriter' = [onWriter EXCEPT ![o] = writes]
            /\ phase' = [phase EXCEPT ![o] = p]
    BY <1>2 DEF CountDone, SetPhase
  <2>3. p \in Phases
    BY DEF Phases
  <2> QED
    BY <2>1, <2>2, <2>3 DEF TypeOK
<1> QED
  BY <1>1, <1>2

(* Submitting a job keeps the queue one of jobs.                                *)
LEMMA PutType ==
    ASSUME TypeOK, NEW entry \in Jobs, Put(entry)
    PROVE  queue' \in Seq(Jobs) /\ dbFile' \in BOOLEAN
  BY DEF TypeOK, Put

(* A daemon starts with state of its types.                                     *)
LEMMA InitType == Init => TypeOK
<1> SUFFICES ASSUME Init PROVE TypeOK
  OBVIOUS
<1>1. 1 \in 1..Len(WalkOrder) + 1 /\ 0 \in 0..Len(WalkOrder) /\ 0 \in 0..MaxRestarts
  BY WalkPositions, ConstantsAssumption DEF ConstantsAssumption
<1>3. queue \in Seq(Jobs) /\ restarts \in 0..MaxRestarts
  BY <1>1 DEF Init
<1>4. /\ call \in [Threads -> {"idle", "stat", "claim", "schedule", "done"}]
      /\ phase \in [Owners -> Phases]
      /\ next \in [Owners -> 1..Len(WalkOrder) + 1]
      /\ remaining \in [Owners -> 0..Len(WalkOrder)]
      /\ onWriter \in [Owners -> BOOLEAN]
  BY <1>1 DEF Init, Phases
<1>2. indexed \in SUBSET Files /\ resolved \in SUBSET Files /\ lost \in SUBSET Files
  BY DEF Init
<1> QED
  BY <1>2, <1>3, <1>4 DEF Init, TypeOK

(* And every step keeps them.                                                   *)
LEMMA NextType == TypeOK /\ [Next]_vars => TypeOK'
<1> SUFFICES ASSUME TypeOK, [Next]_vars PROVE TypeOK'
  OBVIOUS
<1> USE DEF TypeOK, diskVars, coordVars, passVars
<1>w. Len(WalkOrder) \in Nat \ {0}
  BY WalkPositions
<1>1. ASSUME NEW t \in Threads, CheckReady(t) \/ StatDb(t) \/ Claim(t) \/ Schedule(t)
      PROVE  TypeOK'
  <2>1. CASE CheckReady(t)
    BY <2>1 DEF CheckReady, Go
  <2>2. CASE StatDb(t)
    BY <2>2 DEF StatDb, Go
  <2>3. CASE Claim(t)
    BY <2>3 DEF Claim, Go, Phases, Owners
  <2>4. CASE Schedule(t)
    BY <2>4 DEF Schedule, Go, Phases, Owners
  <2> QED
    BY <1>1, <2>1, <2>2, <2>3, <2>4
<1>2. ASSUME NEW o \in Owners, Walk(o) PROVE TypeOK'
  <2>1. /\ phase' \in [Owners -> Phases]
        /\ migChecked' \in BOOLEAN /\ inProgress' \in BOOLEAN
    BY <1>2 DEF Walk, SetPhase, Phases
  <2>2. 1 \in 1..Len(WalkOrder) + 1 /\ Len(WalkOrder) \in 0..Len(WalkOrder)
    BY <1>w
  <2>3. /\ next' \in [Owners -> 1..Len(WalkOrder) + 1]
        /\ remaining' \in [Owners -> 0..Len(WalkOrder)]
    BY <1>2, <2>2 DEF Walk
  <2> QED
    BY <1>2, <2>1, <2>3 DEF Walk
<1>3. ASSUME NEW o \in Owners, SubmitNext(o) PROVE TypeOK'
  <2>1. next[o] \in 1..Len(WalkOrder) /\ WalkOrder[next[o]] \in Files
    BY <1>3, <1>w, WalkPositions DEF SubmitNext
  <2>2. next[o] + 1 \in 1..Len(WalkOrder) + 1 /\ 1 \in 1..Len(WalkOrder) + 1
    BY <2>1, <1>w
  <2>3. CASE Refused(o)
    <3>1. CountDone(o, FALSE)
      BY <1>3, <2>3 DEF SubmitNext
    <3>2. /\ phase' \in [Owners -> Phases]
          /\ remaining' \in [Owners -> 0..Len(WalkOrder)]
          /\ onWriter' \in [Owners -> BOOLEAN]
      BY <3>1, CountDoneType
    <3>3. /\ next' \in [Owners -> 1..Len(WalkOrder) + 1]
          /\ lost' \in SUBSET Files
          /\ dbFile' \in BOOLEAN
          /\ UNCHANGED <<indexed, resolved, flag, headSha, coordVars, call,
                         queue, closed, restarts, openFails>>
      BY <1>3, <2>1, <2>2, <2>3 DEF SubmitNext, NothingPut
    <3> QED
      BY <3>2, <3>3
  <2>4. CASE ~Refused(o)
    <3> DEFINE entry == [op |-> "index", file |-> WalkOrder[next[o]], by |-> o]
    <3>1. Put(entry) /\ entry \in Jobs
      BY <1>3, <2>1, <2>4, JobTypes DEF SubmitNext
    <3>2. queue' \in Seq(Jobs) /\ dbFile' \in BOOLEAN
      BY <3>1, PutType
    <3>3. next' \in [Owners -> 1..Len(WalkOrder) + 1]
      BY <1>3, <2>2, <2>4 DEF SubmitNext
    <3> QED
      BY <1>3, <2>4, <3>2, <3>3 DEF SubmitNext
  <2> QED
    BY <2>3, <2>4
<1>4. ASSUME NEW o \in Owners, SubmitFlag(o) PROVE TypeOK'
  <2>1. queue' \in Seq(Jobs) /\ dbFile' \in BOOLEAN
    BY <1>4, JobTypes, PutType DEF SubmitFlag, NothingPut
  <2>2. phase' \in [Owners -> Phases] /\ onWriter' \in [Owners -> BOOLEAN]
    BY <1>4 DEF SubmitFlag, SetPhase, Phases
  <2> QED
    BY <1>4, <2>1, <2>2 DEF SubmitFlag
<1>5. ASSUME NEW t \in Threads, SubmitHead(t) PROVE TypeOK'
  <2>1. queue' \in Seq(Jobs) /\ dbFile' \in BOOLEAN
    BY <1>5, JobTypes, PutType DEF SubmitHead, NothingPut, Owners
  <2>2. phase' \in [Owners -> Phases]
    BY <1>5 DEF SubmitHead, SetPhase, Phases
  <2> QED
    BY <1>5, <2>1, <2>2 DEF SubmitHead
<1>6. ASSUME NEW t \in Threads, MarkReady(t) PROVE TypeOK'
  BY <1>6 DEF MarkReady, SetPhase, Phases, Owners
<1>7. ASSUME SubmitCheck PROVE TypeOK'
  <2>1. Migration \in Owners
    BY DEF Owners
  <2>2. queue' \in Seq(Jobs) /\ dbFile' \in BOOLEAN
    BY <1>7, <2>1, JobTypes, PutType DEF SubmitCheck, NothingPut
  <2>3. phase' \in [Owners -> Phases] /\ migChecked' \in BOOLEAN
    BY <1>7 DEF SubmitCheck, SetPhase, Phases
  <2> QED
    BY <1>7, <2>2, <2>3 DEF SubmitCheck
<1>8. ASSUME RunIndex PROVE TypeOK'
  <2> DEFINE f == Head(queue).file
             o == Head(queue).by
  <2>1. o \in Owners /\ f \in Files /\ Tail(queue) \in Seq(Jobs)
    BY <1>8, NextJob DEF RunIndex
  <2>2. PICK late \in BOOLEAN : CountDone(o, ~late)
    BY <1>8 DEF RunIndex
  <2>3. /\ phase' \in [Owners -> Phases]
        /\ remaining' \in [Owners -> 0..Len(WalkOrder)]
        /\ onWriter' \in [Owners -> BOOLEAN]
    BY <2>1, <2>2, CountDoneType
  <2>4. /\ queue' \in Seq(Jobs)
        /\ indexed' \in SUBSET Files /\ resolved' \in SUBSET Files
        /\ lost' \in SUBSET Files
    BY <1>8, <2>1 DEF RunIndex
  <2>5. next' \in [Owners -> 1..Len(WalkOrder) + 1]
    <3>1. 1 \in 1..Len(WalkOrder) + 1
      BY <1>w
    <3>2. next' = next \/ next' = [next EXCEPT ![o] = 1]
      BY <1>8 DEF RunIndex
    <3> QED
      BY <3>1, <3>2
  <2> QED
    BY <1>8, <2>3, <2>4, <2>5 DEF RunIndex
<1>9. ASSUME RunCheck PROVE TypeOK'
  <2>1. Tail(queue) \in Seq(Jobs)
    BY <1>9, NextJob DEF RunCheck
  <2> QED
    BY <1>9, <2>1 DEF RunCheck, SetPhase, Phases
<1>10. ASSUME RunHead PROVE TypeOK'
  <2>1. Tail(queue) \in Seq(Jobs)
    BY <1>10, NextJob DEF RunHead
  <2> QED
    BY <1>10, <2>1 DEF RunHead, SetPhase, Phases
<1>11. ASSUME RunFlag PROVE TypeOK'
  <2>1. Tail(queue) \in Seq(Jobs)
    BY <1>11, NextJob DEF RunFlag
  <2> QED
    BY <1>11, <2>1 DEF RunFlag
<1>12. CASE CloseQueue \/ OpenWorks
  BY <1>12 DEF CloseQueue, OpenWorks
<1>13. CASE Restart
  <2>1. restarts' \in 0..MaxRestarts
    BY <1>13, ConstantsAssumption DEF Restart, ConstantsAssumption
  <2>2. 1 \in 1..Len(WalkOrder) + 1 /\ 0 \in 0..Len(WalkOrder)
    BY <1>w
  <2>3. /\ call' \in [Threads -> {"idle", "stat", "claim", "schedule", "done"}]
        /\ phase' \in [Owners -> Phases]
        /\ next' \in [Owners -> 1..Len(WalkOrder) + 1]
        /\ remaining' \in [Owners -> 0..Len(WalkOrder)]
        /\ onWriter' \in [Owners -> BOOLEAN]
    BY <1>13, <2>2 DEF Restart, Phases
  <2>4. queue' \in Seq(Jobs)
    BY <1>13 DEF Restart
  <2> QED
    BY <1>13, <2>1, <2>3, <2>4 DEF Restart
<1>14. CASE Quiet \/ UNCHANGED vars
  BY <1>14 DEF Quiet, vars
<1> QED
  BY <1>1, <1>2, <1>3, <1>4, <1>5, <1>6, <1>7, <1>8, <1>9, <1>10, <1>11, <1>12,
     <1>13, <1>14
  DEF Next, RequestStep, PassStep, WriterStep

(* repo_ready, register and the pass callbacks keep the types of the            *)
(* coordinator's state.                                                         *)
THEOREM BootstrapTypeOK == Spec => []TypeOK
  BY InitType, NextType, PTL DEF Spec

-----------------------------------------------------------------------------
(* What the steps do to the queue and to the bookkeeping *)

(* A submission counts the job for its owner.                                   *)
LEMMA PutWaiting ==
    ASSUME TypeOK, NEW entry \in Jobs, Put(entry), NEW op, NEW p
    PROVE  /\ Pending(queue', op, p) = Pending(queue, op, p)
                  + IF entry.op = op /\ entry.by = p THEN 1 ELSE 0
           /\ QueuedFiles(queue, p) \subseteq QueuedFiles(queue', p)
           /\ entry.op = "index" /\ entry.by = p => entry.file \in QueuedFiles(queue', p)
<1>1. queue \in Seq(Jobs) /\ queue' = Append(queue, entry)
  BY DEF TypeOK, Put
<1> QED
  BY <1>1, AppendWaiting

(* The writer's step uncounts the job it takes.                                 *)
LEMMA TakeWaiting ==
    ASSUME TypeOK, NEW kind, NextIs(kind), queue' = Tail(queue), NEW op, NEW p
    PROVE  /\ Pending(queue, op, p) = Pending(queue', op, p)
                  + IF kind = op /\ Head(queue).by = p THEN 1 ELSE 0
           /\ Pending(queue', op, p) \in Nat
           /\ QueuedFiles(queue, p) \subseteq QueuedFiles(queue', p)
                  \cup IF kind = "index" /\ Head(queue).by = p THEN {Head(queue).file} ELSE {}
<1>1. /\ queue \in Seq(Jobs) /\ queue # <<>> /\ Tail(queue) \in Seq(Jobs)
      /\ Head(queue).op = kind
  BY NextJob
<1> QED
  BY <1>1, TailWaiting, WaitingFinite

(* An empty queue holds a job of nobody.                                        *)
LEMMA EmptyWaiting ==
    ASSUME NEW op, NEW o
    PROVE  Pending(<<>>, op, o) = 0
<1>1. Waiting(<<>>, op, o) = {}
  BY DEF Waiting
<1> QED
  BY <1>1, FS_EmptySet DEF Pending

\* The steps that are taken for owner o.
StepFor(o) ==
    \/ Walk(o) \/ SubmitNext(o) \/ SubmitFlag(o)
    \/ o \in Threads /\ (SubmitHead(o) \/ MarkReady(o) \/ Claim(o))
    \/ o = Migration /\ (SubmitCheck \/ RunCheck \/ \E t \in Threads : Schedule(t))
    \/ o = Head(queue).by /\ (RunIndex \/ RunHead)

(* A step taken for one owner leaves the bookkeeping of the others alone.       *)
LEMMA OthersKeep ==
    ASSUME TypeOK, NEW o \in Owners, StepFor(o), NEW p \in Owners, p # o
    PROVE  phase'[p] = phase[p] /\ next'[p] = next[p] /\ remaining'[p] = remaining[p]
<1> USE DEF TypeOK, SetPhase, diskVars, coordVars, passVars
<1>1. CASE Walk(o) \/ SubmitFlag(o)
  BY <1>1 DEF Walk, SubmitFlag
<1>2. CASE SubmitNext(o)
  <2>1. CASE Refused(o)
    BY <1>2, <2>1 DEF SubmitNext, CountDone
  <2>2. CASE ~Refused(o)
    BY <1>2, <2>2 DEF SubmitNext
  <2> QED
    BY <2>1, <2>2
<1>3. CASE SubmitHead(o) \/ MarkReady(o) \/ Claim(o)
  BY <1>3 DEF SubmitHead, MarkReady, Claim
<1>4. CASE o = Migration /\ (SubmitCheck \/ RunCheck \/ \E t \in Threads : Schedule(t))
  BY <1>4 DEF SubmitCheck, RunCheck, Schedule
<1>5. CASE o = Head(queue).by /\ RunIndex
  BY <1>5 DEF RunIndex, CountDone
<1>6. CASE o = Head(queue).by /\ RunHead
  BY <1>6 DEF RunHead
<1> QED
  BY <1>1, <1>2, <1>3, <1>4, <1>5, <1>6 DEF StepFor

(* on_job_done in a pass: either the pass goes on with one job less, or its     *)
(* last job moves the owner to what follows.                                    *)
LEMMA CountDoneOutcome ==
    ASSUME TypeOK, PhasesFit, NEW o \in Owners, NEW writes, InPass(o),
           remaining[o] >= 1, CountDone(o, writes)
    PROVE  \/ /\ remaining[o] > 1
              /\ remaining'[o] = remaining[o] - 1
              /\ phase' = phase
           \/ /\ remaining[o] = 1
              /\ phase[o] = "pass1"
              /\ phase'[o] = "pass2" /\ remaining'[o] = Len(WalkOrder)
           \/ /\ remaining[o] = 1
              /\ phase[o] = "pass2" /\ o = Migration
              /\ phase'[o] = "flag"
           \/ /\ remaining[o] = 1
              /\ phase[o] = "pass2" /\ o # Migration
              /\ phase'[o] = "head"
<1>1. remaining[o] \in Nat
  BY DEF TypeOK
<1>2. CASE remaining[o] > 1
  BY <1>2 DEF CountDone, TypeOK
<1>3. CASE ~(remaining[o] > 1)
  <2>1. remaining[o] = 1
    BY <1>1, <1>3
  <2>2. /\ remaining' = [remaining EXCEPT
                            ![o] = IF phase[o] = "pass1" THEN Len(WalkOrder) ELSE 0]
        /\ phase' = [phase EXCEPT ![o] = CASE phase[o] = "pass1" -> "pass2"
                                          [] o = Migration      -> "flag"
                                          [] OTHER              -> "head"]
    BY <1>3 DEF CountDone, SetPhase
  <2>3. CASE phase[o] = "pass1"
    <3>1. phase' = [phase EXCEPT ![o] = "pass2"]
          /\ remaining' = [remaining EXCEPT ![o] = Len(WalkOrder)]
      BY <2>2, <2>3 DEF PhasesFit
    <3>2. phase'[o] = "pass2" /\ remaining'[o] = Len(WalkOrder)
      BY <3>1 DEF TypeOK
    <3> QED
      BY <2>1, <2>3, <3>2
  <2>4. CASE phase[o] # "pass1" /\ o = Migration
    BY <2>1, <2>2, <2>4 DEF TypeOK, InPass
  <2>5. CASE phase[o] # "pass1" /\ o # Migration
    BY <2>1, <2>2, <2>5 DEF TypeOK, InPass
  <2> QED
    BY <2>3, <2>4, <2>5
<1> QED
  BY <1>2, <1>3

(* While a pass submits, and a job of it is refused, a job is uncounted; when   *)
(* it is the last, none is queued and one file is left.                         *)
LEMMA RefusedJob ==
    ASSUME IInv, NEW o \in Owners, SubmitNext(o)
    PROVE  /\ InPass(o)
           /\ next[o] \in 1..Len(WalkOrder)
           /\ remaining[o] \in Nat /\ remaining[o] >= 1
           /\ remaining[o] + next[o] - (Len(WalkOrder) + 1) = Pending(queue, "index", o)
           /\ remaining[o] = 1 => next[o] = Len(WalkOrder) /\ Pending(queue, "index", o) = 0
<1>1. InPass(o) /\ next[o] \in 1..Len(WalkOrder) /\ remaining[o] \in Nat
  BY WalkPositions DEF SubmitNext, InPass, IInv, TypeOK
<1>2. Pending(queue, "index", o) = remaining[o] + next[o] - (Len(WalkOrder) + 1)
  BY <1>1 DEF IInv, JobsCounted, Counted
<1>3. Pending(queue, "index", o) \in Nat
  BY WaitingFinite DEF IInv, TypeOK
<1> QED
  BY <1>1, <1>2, <1>3, WalkPositions

(* A file job the writer takes belongs to a pass; when it is the pass's last,   *)
(* every file has been submitted and no other job of the pass is queued.        *)
LEMMA TakenJob ==
    ASSUME IInv, NextIs("index"), queue' = Tail(queue), NEW o, o = Head(queue).by
    PROVE  /\ o \in Owners /\ Head(queue).file \in Files
           /\ InPass(o)
           /\ next[o] \in 1..Len(WalkOrder) + 1
           /\ remaining[o] \in Nat /\ remaining[o] >= 1
           /\ Pending(queue', "index", o) = remaining[o] - 1 + next[o] - (Len(WalkOrder) + 1)
           /\ remaining[o] = 1 => /\ next[o] = Len(WalkOrder) + 1
                                  /\ Pending(queue', "index", o) = 0
<1>1. o \in Owners /\ Head(queue).file \in Files
  BY NextJob DEF IInv
<1>2. next[o] \in 1..Len(WalkOrder) + 1 /\ remaining[o] \in Nat
  BY <1>1, WalkPositions DEF IInv, TypeOK
<1>3. /\ Pending(queue, "index", o) = Pending(queue', "index", o) + 1
      /\ Pending(queue', "index", o) \in Nat
  BY TakeWaiting DEF IInv
<1>4. InPass(o) /\ Pending(queue, "index", o) = remaining[o] + next[o] - (Len(WalkOrder) + 1)
  BY <1>1, <1>3 DEF IInv, JobsCounted, Counted
<1>5. ASSUME NEW before, NEW after \in Nat, before = after + 1,
             before = remaining[o] + next[o] - (Len(WalkOrder) + 1)
      PROVE  /\ remaining[o] >= 1
             /\ after = remaining[o] - 1 + next[o] - (Len(WalkOrder) + 1)
             /\ remaining[o] = 1 => next[o] = Len(WalkOrder) + 1 /\ after = 0
  BY <1>2, <1>5, WalkPositions
<1> QED
  BY <1>1, <1>2, <1>3, <1>4, <1>5

(* The other jobs the writer takes belong to the owners that wait for them.     *)
LEMMA TakenHead ==
    ASSUME IInv, NextIs("head")
    PROVE  Head(queue).by \in Threads /\ phase[Head(queue).by] = "heading"
<1> DEFINE o == Head(queue).by
<1>1. o \in Owners /\ Head(queue).op = "head" /\ queue \in Seq(Jobs) /\ queue # <<>>
      /\ Tail(queue) \in Seq(Jobs)
  BY NextJob DEF IInv
<1>2. Pending(queue, "head", o) = Pending(Tail(queue), "head", o) + 1
      /\ Pending(Tail(queue), "head", o) \in Nat
  BY <1>1, TailWaiting, WaitingFinite
<1>3. phase[o] = "heading"
  BY <1>1, <1>2 DEF IInv, JobsCounted, Counted
<1> QED
  BY <1>1, <1>3 DEF Owners, IInv, PhasesFit

(* The flag is asked for by the migration only, once at a time.                 *)
LEMMA TakenCheck ==
    ASSUME IInv, NextIs("check")
    PROVE  Head(queue).by = Migration /\ phase[Migration] = "checking"
<1> DEFINE o == Head(queue).by
<1>1. o \in Owners /\ Head(queue).op = "check" /\ queue \in Seq(Jobs) /\ queue # <<>>
      /\ Tail(queue) \in Seq(Jobs)
  BY NextJob DEF IInv
<1>2. Pending(queue, "check", o) = Pending(Tail(queue), "check", o) + 1
      /\ Pending(Tail(queue), "check", o) \in Nat
  BY <1>1, TailWaiting, WaitingFinite
<1>3. phase[o] = "checking"
  BY <1>1, <1>2 DEF IInv, JobsCounted, Counted
<1> QED
  BY <1>1, <1>3 DEF Owners, IInv, PhasesFit
-----------------------------------------------------------------------------
(* The strengthening, part by part *)

(* Migration and the bootstraps stay on their own paths.                        *)
LEMMA FitStep ==
    ASSUME IInv, Next
    PROVE  PhasesFit'
<1> USE DEF IInv, TypeOK, PhasesFit, Owners, SetPhase, diskVars, coordVars, passVars
<1>m. Migration \notin Threads
  BY ConstantsAssumption DEF ConstantsAssumption
<1>1. ASSUME NEW t \in Threads, CheckReady(t) \/ StatDb(t) PROVE PhasesFit'
  BY <1>1 DEF CheckReady, StatDb
<1>2. ASSUME NEW t \in Threads, Claim(t) \/ SubmitHead(t) \/ MarkReady(t) PROVE PhasesFit'
  BY <1>2, <1>m DEF Claim, SubmitHead, MarkReady
<1>3. ASSUME NEW t \in Threads, Schedule(t) PROVE PhasesFit'
  BY <1>3, <1>m DEF Schedule
<1>4. ASSUME NEW o \in Owners, Walk(o) PROVE PhasesFit'
  <2>1. CASE o = Migration
    BY <1>4, <1>m, <2>1 DEF Walk
  <2>2. CASE o # Migration
    BY <1>4, <1>m, <2>2 DEF Walk
  <2> QED
    BY <2>1, <2>2
<1>5. ASSUME NEW o \in Owners, InPass(o), remaining[o] >= 1,
             phase'[o] = phase[o] \/ \E writes \in BOOLEAN : CountDone(o, writes),
             \A p \in Owners \ {o} : phase'[p] = phase[p],
             UNCHANGED migChecked
      PROVE  PhasesFit'
  <2>1. \/ phase'[o] = phase[o]
        \/ phase[o] = "pass1" /\ phase'[o] = "pass2"
        \/ phase[o] = "pass2" /\ o = Migration /\ phase'[o] = "flag"
        \/ phase[o] = "pass2" /\ o # Migration /\ phase'[o] = "head"
    BY <1>5, CountDoneOutcome
  <2>2. \A p \in Owners \ {o} : phase'[p] = phase[p]
    BY <1>5
  <2>3. \A t \in Threads : phase'[t] \notin {"check", "checking"}
    BY <2>1, <2>2, <1>m
  <2>4. phase'[Migration] \notin {"pass1", "head", "heading", "ready"}
        /\ (phase[Migration] # "none" => phase'[Migration] # "none")
        /\ (phase[Migration] = "none" => phase'[Migration] = "none")
    BY <1>5, <2>1, <2>2, <1>m DEF InPass
  <2> QED
    BY <1>5, <2>3, <2>4
<1>6. ASSUME NEW o \in Owners, SubmitNext(o) PROVE PhasesFit'
  <2>1. InPass(o) /\ remaining[o] >= 1
    BY <1>6, RefusedJob
  <2>2. phase'[o] = phase[o] \/ CountDone(o, FALSE)
    BY <1>6 DEF SubmitNext
  <2>3. \A p \in Owners \ {o} : phase'[p] = phase[p]
    BY <1>6, OthersKeep DEF StepFor
  <2>4. UNCHANGED migChecked
    BY <1>6 DEF SubmitNext
  <2> QED
    BY <1>5, <2>1, <2>2, <2>3, <2>4
<1>7. ASSUME RunIndex PROVE PhasesFit'
  <2> DEFINE o == Head(queue).by
  <2>1. o \in Owners /\ InPass(o) /\ remaining[o] >= 1
    BY <1>7, TakenJob DEF RunIndex
  <2>2. \E writes \in BOOLEAN : CountDone(o, writes)
    BY <1>7 DEF RunIndex
  <2>3. \A p \in Owners \ {o} : phase'[p] = phase[p]
    BY <1>7, <2>1, OthersKeep DEF StepFor
  <2>4. UNCHANGED migChecked
    BY <1>7 DEF RunIndex
  <2> QED
    BY <1>5, <2>1, <2>2, <2>3, <2>4
<1>8. ASSUME NEW o \in Owners, SubmitFlag(o) PROVE PhasesFit'
  <2>1. phase' = [phase EXCEPT ![o] = "none"] /\ UNCHANGED migChecked
    BY <1>8 DEF SubmitFlag
  <2> QED
    BY <2>1
<1>9. CASE SubmitCheck
  BY <1>9, <1>m DEF SubmitCheck
<1>10. CASE RunCheck
  <2>1. phase[Migration] = "checking" /\ UNCHANGED migChecked
    BY <1>10, TakenCheck DEF RunCheck
  <2>2. \E x \in {"none", "walk"} : phase' = [phase EXCEPT ![Migration] = x]
    BY <1>10 DEF RunCheck
  <2> QED
    BY <2>1, <2>2, <1>m
<1>11. CASE RunHead
  <2> DEFINE t == Head(queue).by
  <2>1. t \in Threads /\ phase' = [phase EXCEPT ![t] = "ready"] /\ UNCHANGED migChecked
    BY <1>11, TakenHead DEF RunHead
  <2> QED
    BY <2>1, <1>m
<1>12. CASE RunFlag \/ CloseQueue \/ OpenWorks \/ Quiet
  BY <1>12 DEF RunFlag, CloseQueue, OpenWorks, Quiet, vars
<1>13. CASE Restart
  BY <1>13 DEF Restart
<1> QED
  BY <1>1, <1>2, <1>3, <1>4, <1>6, <1>7, <1>8, <1>9, <1>10, <1>11, <1>12, <1>13
  DEF Next, RequestStep, PassStep, WriterStep

(* An owner whose bookkeeping and jobs a step leaves alone stays counted.       *)
LEMMA CountedFrame ==
    ASSUME NEW p, Counted(p),
           phase'[p] = phase[p], next'[p] = next[p], remaining'[p] = remaining[p],
           \A op \in {"index", "head", "check"} :
               Pending(queue', op, p) = Pending(queue, op, p)
    PROVE  Counted(p)'
  BY DEF Counted, InPass

(* Submitting for one owner leaves the jobs of the others as they are.          *)
LEMMA PutElsewhere ==
    ASSUME TypeOK, NEW entry \in Jobs, Put(entry), NEW p, NEW op, op # entry.op \/ p # entry.by
    PROVE  Pending(queue', op, p) = Pending(queue, op, p)
<1>1. Pending(queue, op, p) \in Nat
  BY WaitingFinite DEF TypeOK
<1> QED
  BY <1>1, PutWaiting

(* And so does taking a job of one.                                             *)
LEMMA TakeElsewhere ==
    ASSUME TypeOK, NEW kind, NextIs(kind), queue' = Tail(queue),
           NEW p, NEW op, op # kind \/ p # Head(queue).by
    PROVE  Pending(queue', op, p) = Pending(queue, op, p)
  BY TakeWaiting
(* A step that touches no owner but o, and no job but o's, leaves the others    *)
(* counted.                                                                     *)
LEMMA CountedOthers ==
    ASSUME IInv, NEW o \in Owners, StepFor(o),
           \A p \in Owners \ {o}, op \in {"index", "head", "check"} :
               Pending(queue', op, p) = Pending(queue, op, p),
           Counted(o)'
    PROVE  JobsCounted'
<1>1. ASSUME NEW p \in Owners, p # o
      PROVE  Counted(p)'
  <2>1. Counted(p)
    BY DEF IInv, JobsCounted
  <2>2. phase'[p] = phase[p] /\ next'[p] = next[p] /\ remaining'[p] = remaining[p]
    BY <1>1, OthersKeep DEF IInv
  <2> QED
    BY <1>1, <2>1, <2>2, CountedFrame
<1> QED
  BY <1>1 DEF JobsCounted

(* The jobs of an owner in the queue remain those its phase waits for.          *)
LEMMA CountedStep ==
    ASSUME IInv, Next
    PROVE  JobsCounted'
<1> USE DEF diskVars, coordVars, passVars
<1>m. Migration \notin Threads
  BY ConstantsAssumption DEF ConstantsAssumption
<1>t. TypeOK /\ queue \in Seq(Jobs) /\ phase \in [Owners -> Phases]
      /\ next \in [Owners -> 1..Len(WalkOrder) + 1]
      /\ remaining \in [Owners -> 0..Len(WalkOrder)]
  BY DEF IInv, TypeOK
<1>w. Len(WalkOrder) \in Nat \ {0}
  BY WalkPositions
<1>c. \A o \in Owners : Counted(o)
  BY DEF IInv, JobsCounted
<1>1. ASSUME UNCHANGED <<passVars, queue>> PROVE JobsCounted'
  BY <1>1, <1>c DEF JobsCounted, Counted, InPass
<1>2. ASSUME NEW o \in Owners, StepFor(o), UNCHANGED queue, Counted(o)' PROVE JobsCounted'
  BY <1>2, CountedOthers
<1>3. ASSUME NEW t \in Threads, Claim(t) PROVE JobsCounted'
  <2>0. t \in Owners
    BY DEF Owners
  <2>1. CASE inProgress
    BY <1>1, <1>3, <2>1 DEF Claim
  <2>2. CASE ~inProgress
    <3>1. phase[t] \in {"none", "flag"}
      BY <2>2 DEF IInv, Alone, InFlight
    <3>2. phase' = [phase EXCEPT ![t] = "walk"] /\ UNCHANGED queue
      BY <1>3, <2>2 DEF Claim
    <3>3. Counted(t)'
      BY <2>0, <3>1, <3>2, <1>t, <1>c DEF Counted, InPass
    <3> QED
      BY <1>2, <1>3, <2>0, <3>2, <3>3 DEF StepFor
  <2> QED
    BY <2>1, <2>2
<1>4. ASSUME NEW t \in Threads, Schedule(t) PROVE JobsCounted'
  <2>1. CASE migChecked
    BY <1>1, <1>4, <2>1 DEF Schedule
  <2>2. CASE ~migChecked
    <3>0. Migration \in Owners
      BY DEF Owners
    <3>1. phase[Migration] = "none"
      BY <2>2 DEF IInv, PhasesFit
    <3>2. phase' = [phase EXCEPT ![Migration] = "check"] /\ UNCHANGED queue
      BY <1>4, <2>2 DEF Schedule
    <3>3. Counted(Migration)'
      BY <3>0, <3>1, <3>2, <1>t, <1>c DEF Counted, InPass
    <3> QED
      BY <1>2, <1>4, <3>0, <3>2, <3>3 DEF StepFor
  <2> QED
    BY <2>1, <2>2
<1>5. ASSUME NEW o \in Owners, Walk(o) PROVE JobsCounted'
  <2>0. phase[o] = "walk" /\ UNCHANGED queue
    BY <1>5 DEF Walk
  <2>1. CASE phase' = [phase EXCEPT ![o] = "none"]
    <3>1. Counted(o)'
      BY <2>0, <2>1, <1>t, <1>c DEF Counted, InPass
    <3> QED
      BY <1>2, <1>5, <2>0, <3>1 DEF StepFor
  <2>2. CASE ~(phase' = [phase EXCEPT ![o] = "none"])
    <3>1. phase'[o] \in {"pass1", "pass2"}
          /\ next'[o] = 1 /\ remaining'[o] = Len(WalkOrder)
      BY <1>5, <2>2, <1>t DEF Walk, SetPhase
    <3>2. remaining'[o] + next'[o] - (Len(WalkOrder) + 1) = 0
      BY <3>1, <1>w
    <3>3. Counted(o)'
      BY <2>0, <3>1, <3>2, <1>c DEF Counted, InPass
    <3> QED
      BY <1>2, <1>5, <2>0, <3>3 DEF StepFor
  <2> QED
    BY <2>1, <2>2
<1>6. ASSUME NEW o \in Owners, SubmitNext(o) PROVE JobsCounted'
  <2>0. /\ InPass(o)
        /\ next[o] \in 1..Len(WalkOrder) /\ remaining[o] \in Nat /\ remaining[o] >= 1
        /\ remaining[o] + next[o] - (Len(WalkOrder) + 1) = Pending(queue, "index", o)
        /\ remaining[o] = 1 => next[o] = Len(WalkOrder) /\ Pending(queue, "index", o) = 0
    BY <1>6, RefusedJob
  <2>1. CASE Refused(o)
    <3>1. CountDone(o, FALSE) /\ UNCHANGED queue
          /\ next' = [next EXCEPT ![o] = IF phase'[o] = phase[o] THEN next[o] + 1 ELSE 1]
      BY <1>6, <2>1 DEF SubmitNext, NothingPut
    <3>2. CASE phase'[o] = phase[o]
      <4>1. remaining'[o] = remaining[o] - 1 /\ next'[o] = next[o] + 1
        BY <2>0, <3>1, <3>2, <1>t, CountDoneOutcome DEF IInv
      <4>2. remaining'[o] + next'[o] - (Len(WalkOrder) + 1)
                = remaining[o] + next[o] - (Len(WalkOrder) + 1)
        BY <4>1, <2>0, <1>w
      <4>3. Counted(o)'
        BY <3>1, <3>2, <4>2, <1>c DEF Counted, InPass
      <4> QED
        BY <1>2, <1>6, <3>1, <4>3 DEF StepFor
    <3>3. CASE phase'[o] # phase[o]
      <4>1. /\ Pending(queue, "index", o) = 0 /\ next'[o] = 1
            /\ \/ phase'[o] = "pass2" /\ remaining'[o] = Len(WalkOrder)
               \/ phase'[o] \in {"flag", "head"}
        BY <2>0, <3>1, <3>3, <1>t, CountDoneOutcome DEF IInv
      <4>2. phase'[o] = "pass2" => remaining'[o] + next'[o] - (Len(WalkOrder) + 1) = 0
        BY <4>1, <1>w
      <4>3. Counted(o)'
        BY <2>0, <3>1, <4>1, <4>2, <1>c DEF Counted, InPass
      <4> QED
        BY <1>2, <1>6, <3>1, <4>3 DEF StepFor
    <3> QED
      BY <3>2, <3>3
  <2>2. CASE ~Refused(o)
    <3> DEFINE entry == [op |-> "index", file |-> WalkOrder[next[o]], by |-> o]
    <3>1. /\ Put(entry) /\ entry \in Jobs
          /\ next' = [next EXCEPT ![o] = next[o] + 1]
          /\ UNCHANGED <<phase, remaining>>
      BY <1>6, <2>0, <2>2, JobTypes, WalkPositions DEF SubmitNext
    <3>2. /\ Pending(queue', "index", o) = Pending(queue, "index", o) + 1
          /\ Pending(queue', "head", o) = Pending(queue, "head", o)
          /\ Pending(queue', "check", o) = Pending(queue, "check", o)
      BY <3>1, <1>t, PutWaiting, PutElsewhere
    <3>3. remaining'[o] + next'[o] - (Len(WalkOrder) + 1)
              = remaining[o] + next[o] - (Len(WalkOrder) + 1) + 1
      BY <3>1, <2>0, <1>t, <1>w
    <3>4. Counted(o)'
      BY <2>0, <3>1, <3>2, <3>3, <1>c DEF Counted, InPass
    <3>5. \A p \in Owners \ {o}, op \in {"index", "head", "check"} :
              Pending(queue', op, p) = Pending(queue, op, p)
      BY <3>1, <1>t, PutElsewhere
    <3> QED
      BY <1>6, <3>4, <3>5, CountedOthers DEF StepFor
  <2> QED
    BY <2>1, <2>2
<1>7. ASSUME NEW o \in Owners, SubmitFlag(o) PROVE JobsCounted'
  <2>1. \A p \in Owners, op \in {"index", "head", "check"} :
            Pending(queue', op, p) = Pending(queue, op, p)
    <3>1. CASE Refused(o)
      BY <1>7, <3>1 DEF SubmitFlag, NothingPut
    <3>2. CASE ~Refused(o)
      <4>1. Put([op |-> "flag", by |-> o]) /\ [op |-> "flag", by |-> o] \in Jobs
        BY <1>7, <3>2, JobTypes DEF SubmitFlag
      <4> QED
        BY <4>1, <1>t, PutElsewhere
    <3> QED
      BY <3>1, <3>2
  <2>2. phase[o] = "flag" /\ phase'[o] = "none"
    BY <1>7, <1>t DEF SubmitFlag, SetPhase
  <2>3. Counted(o)'
    BY <2>1, <2>2, <1>c DEF Counted, InPass
  <2> QED
    BY <1>7, <2>1, <2>3, CountedOthers DEF StepFor
<1>8. ASSUME NEW t \in Threads, SubmitHead(t) PROVE JobsCounted'
  <2>0. t \in Owners /\ phase[t] = "head"
    BY <1>8 DEF SubmitHead, Owners
  <2>1. CASE phase' = [phase EXCEPT ![t] = "ready"] /\ UNCHANGED queue
    <3>1. Counted(t)'
      BY <2>0, <2>1, <1>t, <1>c DEF Counted, InPass
    <3> QED
      BY <1>2, <1>8, <2>0, <2>1, <3>1 DEF StepFor
  <2>2. CASE phase' = [phase EXCEPT ![t] = "heading"] /\ Put([op |-> "head", by |-> t])
    <3> DEFINE entry == [op |-> "head", by |-> t]
    <3>1. Put(entry) /\ entry \in Jobs
      BY <2>0, <2>2, JobTypes
    <3>2. /\ Pending(queue', "head", t) = Pending(queue, "head", t) + 1
          /\ Pending(queue', "index", t) = Pending(queue, "index", t)
          /\ Pending(queue', "check", t) = Pending(queue, "check", t)
      BY <3>1, <1>t, PutWaiting, PutElsewhere
    <3>3. phase'[t] = "heading"
      BY <2>0, <2>2, <1>t
    <3>4. Counted(t)'
      BY <2>0, <3>2, <3>3, <1>c DEF Counted, InPass
    <3>5. \A p \in Owners \ {t}, op \in {"index", "head", "check"} :
              Pending(queue', op, p) = Pending(queue, op, p)
      BY <3>1, <1>t, PutElsewhere
    <3> QED
      BY <1>8, <2>0, <3>4, <3>5, CountedOthers DEF StepFor
  <2> QED
    BY <1>8, <2>1, <2>2 DEF SubmitHead, NothingPut, SetPhase
<1>9. ASSUME NEW t \in Threads, MarkReady(t) PROVE JobsCounted'
  <2>1. t \in Owners /\ phase[t] = "ready" /\ phase' = [phase EXCEPT ![t] = "flag"]
        /\ UNCHANGED queue
    BY <1>9 DEF MarkReady, SetPhase, Owners
  <2>2. Counted(t)'
    BY <2>1, <1>t, <1>c DEF Counted, InPass
  <2> QED
    BY <1>2, <1>9, <2>1, <2>2 DEF StepFor
<1>10. CASE SubmitCheck
  <2> DEFINE o == Migration
             entry == [op |-> "check", by |-> o]
  <2>0. o \in Owners /\ phase[o] = "check"
    BY <1>10 DEF SubmitCheck, Owners
  <2>1. CASE Refused(o)
    <3>1. phase' = [phase EXCEPT ![o] = "none"] /\ UNCHANGED queue
      BY <1>10, <2>1 DEF SubmitCheck, NothingPut, SetPhase
    <3>2. Counted(o)'
      BY <2>0, <3>1, <1>t, <1>c DEF Counted, InPass
    <3> QED
      BY <1>2, <1>10, <2>0, <3>1, <3>2 DEF StepFor
  <2>2. CASE ~Refused(o)
    <3>1. Put(entry) /\ entry \in Jobs /\ phase' = [phase EXCEPT ![o] = "checking"]
      BY <1>10, <2>0, <2>2, JobTypes DEF SubmitCheck, SetPhase
    <3>2. /\ Pending(queue', "check", o) = Pending(queue, "check", o) + 1
          /\ Pending(queue', "index", o) = Pending(queue, "index", o)
          /\ Pending(queue', "head", o) = Pending(queue, "head", o)
      BY <3>1, <1>t, PutWaiting, PutElsewhere
    <3>3. phase'[o] = "checking"
      BY <2>0, <3>1, <1>t
    <3>4. Counted(o)'
      BY <2>0, <3>2, <3>3, <1>c DEF Counted, InPass
    <3>5. \A p \in Owners \ {o}, op \in {"index", "head", "check"} :
              Pending(queue', op, p) = Pending(queue, op, p)
      BY <3>1, <1>t, PutElsewhere
    <3> QED
      BY <1>10, <2>0, <3>4, <3>5, CountedOthers DEF StepFor
  <2> QED
    BY <2>1, <2>2
<1>11. CASE RunIndex
  <2>0. NextIs("index") /\ queue' = Tail(queue)
    BY <1>11 DEF RunIndex
  <2>p. PICK o \in Owners : o = Head(queue).by
    BY <2>0, <1>t, NextJob
  <2>1. /\ o \in Owners /\ InPass(o)
        /\ next[o] \in 1..Len(WalkOrder) + 1 /\ remaining[o] \in Nat /\ remaining[o] >= 1
        /\ Pending(queue', "index", o) = remaining[o] - 1 + next[o] - (Len(WalkOrder) + 1)
        /\ remaining[o] = 1 => Pending(queue', "index", o) = 0
    BY <2>0, <2>p, TakenJob
  <2>2. PICK writes \in BOOLEAN : CountDone(o, writes)
    BY <1>11, <2>p DEF RunIndex
  <2>3. next' = IF phase'[o] = "pass2" /\ phase[o] = "pass1"
                THEN [next EXCEPT ![o] = 1] ELSE next
    BY <1>11, <2>p DEF RunIndex
  <2>4. Pending(queue', "head", o) = Pending(queue, "head", o)
        /\ Pending(queue', "check", o) = Pending(queue, "check", o)
    BY <2>0, <1>t, TakeElsewhere
  <2>5. Counted(o)'
    <3>1. CASE phase'[o] = phase[o]
      <4>1. remaining'[o] = remaining[o] - 1 /\ next'[o] = next[o]
        BY <2>1, <2>2, <2>3, <3>1, <1>t, CountDoneOutcome DEF IInv
      <4> QED
        BY <2>1, <2>4, <3>1, <4>1, <1>c DEF Counted, InPass
    <3>2. CASE phase'[o] # phase[o]
      <4>1. /\ Pending(queue', "index", o) = 0
            /\ \/ phase'[o] = "pass2" /\ remaining'[o] = Len(WalkOrder) /\ next'[o] = 1
               \/ phase'[o] \in {"flag", "head"}
        BY <2>1, <2>2, <2>3, <3>2, <1>t, CountDoneOutcome DEF IInv
      <4>2. phase'[o] = "pass2" => remaining'[o] + next'[o] - (Len(WalkOrder) + 1) = 0
        BY <4>1, <1>w
      <4> QED
        BY <2>1, <2>4, <4>1, <4>2, <1>c DEF Counted, InPass
    <3> QED
      BY <3>1, <3>2
  <2>6. \A p \in Owners \ {o}, op \in {"index", "head", "check"} :
            Pending(queue', op, p) = Pending(queue, op, p)
    BY <2>0, <2>p, <1>t, TakeElsewhere
  <2> QED
    BY <1>11, <2>p, <2>1, <2>5, <2>6, CountedOthers DEF StepFor
<1>12. CASE RunCheck
  <2> DEFINE o == Migration
  <2>0. NextIs("check") /\ queue' = Tail(queue)
    BY <1>12 DEF RunCheck
  <2>1. o \in Owners /\ Head(queue).by = o /\ phase[o] = "checking"
        /\ phase'[o] \in {"none", "walk"}
    BY <1>12, <2>0, <1>t, TakenCheck DEF RunCheck, SetPhase, Owners
  <2>2. /\ Pending(queue, "check", o) = Pending(queue', "check", o) + 1
        /\ Pending(queue', "check", o) \in Nat
        /\ Pending(queue', "index", o) = Pending(queue, "index", o)
        /\ Pending(queue', "head", o) = Pending(queue, "head", o)
    BY <2>0, <2>1, <1>t, TakeWaiting, TakeElsewhere
  <2>3. Counted(o)'
    BY <2>1, <2>2, <1>c DEF Counted, InPass
  <2>4. \A p \in Owners \ {o}, op \in {"index", "head", "check"} :
            Pending(queue', op, p) = Pending(queue, op, p)
    BY <2>0, <2>1, <1>t, TakeElsewhere
  <2> QED
    BY <1>12, <2>1, <2>3, <2>4, CountedOthers DEF StepFor
<1>13. CASE RunHead
  <2>0. NextIs("head") /\ queue' = Tail(queue)
    BY <1>13 DEF RunHead
  <2>p. PICK t \in Owners : t = Head(queue).by
    BY <2>0, <1>t, NextJob
  <2>1. t \in Owners /\ phase[t] = "heading" /\ phase'[t] = "ready"
    BY <1>13, <2>0, <2>p, <1>t, TakenHead DEF RunHead, SetPhase, Owners
  <2>2. /\ Pending(queue, "head", t) = Pending(queue', "head", t) + 1
        /\ Pending(queue', "head", t) \in Nat
        /\ Pending(queue', "index", t) = Pending(queue, "index", t)
        /\ Pending(queue', "check", t) = Pending(queue, "check", t)
    BY <2>0, <2>p, <1>t, TakeWaiting, TakeElsewhere
  <2>3. Counted(t)'
    BY <2>1, <2>2, <1>c DEF Counted, InPass
  <2>4. \A p \in Owners \ {t}, op \in {"index", "head", "check"} :
            Pending(queue', op, p) = Pending(queue, op, p)
    BY <2>0, <2>p, <1>t, TakeElsewhere
  <2> QED
    BY <1>13, <2>p, <2>1, <2>3, <2>4, CountedOthers DEF StepFor
<1>14. CASE RunFlag
  <2>1. /\ NextIs("flag") /\ queue' = Tail(queue)
        /\ UNCHANGED passVars
    BY <1>14 DEF RunFlag
  <2>2. \A p \in Owners, op \in {"index", "head", "check"} :
            Pending(queue', op, p) = Pending(queue, op, p)
    BY <2>1, <1>t, TakeElsewhere
  <2> QED
    BY <2>1, <2>2, <1>c, CountedFrame DEF JobsCounted
<1>15. CASE Restart
  <2>1. queue' = <<>> /\ \A o \in Owners : phase'[o] = "none"
    BY <1>15 DEF Restart
  <2> QED
    BY <2>1, EmptyWaiting DEF JobsCounted, Counted, InPass
<1>16. ASSUME NEW t \in Threads, CheckReady(t) \/ StatDb(t) PROVE JobsCounted'
  BY <1>1, <1>16 DEF CheckReady, StatDb
<1>17. CASE CloseQueue \/ OpenWorks \/ Quiet
  BY <1>1, <1>17 DEF CloseQueue, OpenWorks, Quiet, vars
<1> QED
  BY <1>3, <1>4, <1>5, <1>6, <1>7, <1>8, <1>9, <1>10, <1>11, <1>12, <1>13, <1>14,
     <1>15, <1>16, <1>17
  DEF Next, RequestStep, PassStep, WriterStep
(* register and the ends of a bootstrap keep _in_progress and the bootstraps    *)
(* together.                                                                    *)
LEMMA AloneStep ==
    ASSUME IInv, Next
    PROVE  Alone'
<1> USE DEF diskVars, coordVars, passVars
<1> DEFINE Flying(p) == p \notin {"none", "flag"}
<1>m. Migration \notin Threads
  BY ConstantsAssumption DEF ConstantsAssumption
<1>t. TypeOK /\ phase \in [Owners -> Phases] /\ Threads \subseteq Owners
      /\ Migration \in Owners
  BY DEF IInv, TypeOK, Owners
<1>a. /\ \A t, u \in Threads : Flying(phase[t]) /\ Flying(phase[u]) => t = u
      /\ inProgress <=> \E t \in Threads : Flying(phase[t])
  BY DEF IInv, Alone, InFlight
<1>1. ASSUME \A t \in Threads : Flying(phase'[t]) <=> Flying(phase[t]),
             inProgress' = inProgress
      PROVE  Alone'
  BY <1>1, <1>a DEF Alone, InFlight
<1>2. ASSUME NEW o \in Owners, StepFor(o), inProgress' = inProgress,
             o \in Threads => (Flying(phase'[o]) <=> Flying(phase[o]))
      PROVE  Alone'
  <2>1. \A p \in Owners \ {o} : phase'[p] = phase[p]
    BY <1>2, <1>t, OthersKeep
  <2> QED
    BY <1>1, <1>2, <1>t, <2>1
<1>3. ASSUME NEW t \in Threads, Claim(t) PROVE Alone'
  <2>1. CASE inProgress
    BY <1>1, <1>3, <2>1 DEF Claim
  <2>2. CASE ~inProgress
    <3>1. phase' = [phase EXCEPT ![t] = "walk"] /\ inProgress' = TRUE
      BY <1>3, <2>2 DEF Claim
    <3>2. \A u \in Threads : Flying(phase'[u]) <=> u = t
      BY <1>a, <1>t, <2>2, <3>1
    <3> QED
      BY <3>1, <3>2 DEF Alone, InFlight
  <2> QED
    BY <2>1, <2>2
<1>4. ASSUME NEW t \in Threads, Flying(phase[t]), ~Flying(phase'[t]), inProgress' = FALSE,
             StepFor(t)
      PROVE  Alone'
  <2>1. \A u \in Threads : u # t => phase'[u] = phase[u]
    BY <1>4, <1>t, OthersKeep
  <2>2. \A u \in Threads : ~Flying(phase'[u])
    BY <1>4, <1>a, <2>1
  <2> QED
    BY <1>4, <2>2 DEF Alone, InFlight
<1>5. ASSUME NEW o \in Owners, Walk(o) PROVE Alone'
  <2>0. phase[o] = "walk"
    BY <1>5 DEF Walk
  <2>1. CASE o = Migration
    BY <1>2, <1>5, <1>m, <2>1 DEF Walk, StepFor
  <2>2. CASE o \in Threads /\ phase' = [phase EXCEPT ![o] = "none"] /\ inProgress' = FALSE
    BY <1>4, <1>5, <1>t, <2>0, <2>2 DEF StepFor
  <2>3. CASE o \in Threads /\ phase' = [phase EXCEPT ![o] = "pass1"] /\ UNCHANGED inProgress
    BY <1>2, <1>5, <1>t, <2>0, <2>3 DEF StepFor
  <2> QED
    BY <1>5, <1>m, <2>1, <2>2, <2>3 DEF Walk, SetPhase, Owners
<1>6. ASSUME NEW o \in Owners, NEW writes, InPass(o), remaining[o] >= 1,
             phase'[o] = phase[o] \/ CountDone(o, writes),
             StepFor(o), inProgress' = inProgress
      PROVE  Alone'
  <2>1. o \in Threads => phase'[o] \in {"pass1", "pass2", "head"}
    BY <1>6, <1>m, <1>t, CountDoneOutcome DEF IInv, InPass
  <2> QED
    BY <1>2, <1>6, <2>1 DEF InPass
<1>7. ASSUME NEW o \in Owners, SubmitNext(o) PROVE Alone'
  <2>1. InPass(o) /\ remaining[o] >= 1
    BY <1>7, RefusedJob
  <2>2. (phase'[o] = phase[o] \/ CountDone(o, FALSE)) /\ inProgress' = inProgress
    BY <1>7 DEF SubmitNext
  <2> QED
    BY <1>6, <1>7, <2>1, <2>2 DEF StepFor
<1>8. ASSUME NEW o \in Owners, SubmitFlag(o) PROVE Alone'
  BY <1>2, <1>8, <1>t DEF SubmitFlag, SetPhase, StepFor
<1>9. ASSUME NEW t \in Threads, SubmitHead(t) PROVE Alone'
  BY <1>2, <1>9, <1>t DEF SubmitHead, SetPhase, StepFor
<1>10. ASSUME NEW t \in Threads, MarkReady(t) PROVE Alone'
  BY <1>4, <1>10, <1>t DEF MarkReady, SetPhase, StepFor
<1>11. ASSUME SubmitCheck \/ RunCheck \/ \E t \in Threads : Schedule(t) PROVE Alone'
  <2>1. inProgress' = inProgress
    BY <1>11 DEF SubmitCheck, RunCheck, Schedule
  <2> QED
    BY <1>2, <1>11, <1>m, <1>t, <2>1 DEF StepFor
<1>12. CASE RunIndex
  <2>0. NextIs("index") /\ queue' = Tail(queue) /\ inProgress' = inProgress
    BY <1>12 DEF RunIndex
  <2>1. PICK o \in Owners : o = Head(queue).by
    BY <2>0, <1>t, NextJob
  <2>2. InPass(o) /\ remaining[o] >= 1
    BY <2>0, <2>1, TakenJob
  <2>3. PICK writes \in BOOLEAN : CountDone(o, writes)
    BY <1>12, <2>1 DEF RunIndex
  <2> QED
    BY <1>6, <1>12, <2>0, <2>1, <2>2, <2>3 DEF StepFor
<1>13. CASE RunHead
  <2>1. /\ Head(queue).by \in Threads /\ phase[Head(queue).by] = "heading"
        /\ inProgress' = inProgress
    BY <1>13, TakenHead DEF RunHead
  <2>2. phase'[Head(queue).by] = "ready"
    BY <1>13, <1>t, <2>1 DEF RunHead, SetPhase
  <2> QED
    BY <1>2, <1>13, <1>t, <2>1, <2>2 DEF StepFor
<1>14. ASSUME NEW t \in Threads, CheckReady(t) \/ StatDb(t) PROVE Alone'
  BY <1>1, <1>14 DEF CheckReady, StatDb
<1>15. CASE RunFlag \/ CloseQueue \/ OpenWorks \/ Quiet
  BY <1>1, <1>15 DEF RunFlag, CloseQueue, OpenWorks, Quiet, vars
<1>16. CASE Restart
  BY <1>16, <1>t DEF Restart, Alone, InFlight
<1> QED
  BY <1>3, <1>5, <1>7, <1>8, <1>9, <1>10, <1>11, <1>12, <1>13, <1>14, <1>15, <1>16
  DEF Next, RequestStep, PassStep, WriterStep
(* The files a pass has gone by, at its ends and as it goes on.                 *)
LEMMA SeenFiles ==
    ASSUME TypeOK, NEW o \in Owners
    PROVE  /\ next[o] = 1 => Seen(o) = {}
           /\ next[o] = Len(WalkOrder) + 1 => Seen(o) = Files
           /\ next[o] = Len(WalkOrder) => Files = Seen(o) \cup {WalkOrder[next[o]]}
           /\ next'[o] = next[o] + 1 => Seen(o)' = Seen(o) \cup {WalkOrder[next[o]]}
           /\ next'[o] = next[o] => Seen(o)' = Seen(o)
           /\ next'[o] = 1 => Seen(o)' = {}
<1>1. next[o] \in 1..Len(WalkOrder) + 1 /\ Len(WalkOrder) \in Nat \ {0}
  BY WalkPositions DEF TypeOK
<1> QED
  BY <1>1 DEF Seen, Files

(* What has been indexed or lost stays so, and every step but a restart keeps   *)
(* the file of every queued job queued, or indexes or loses it.                 *)
LEMMA CoverGrows ==
    ASSUME IInv, Next
    PROVE  /\ indexed \subseteq indexed' /\ lost \subseteq lost'
           /\ ~Restart => \A p : QueuedFiles(queue, p)
                   \subseteq QueuedFiles(queue', p) \cup indexed' \cup lost'
<1> USE DEF diskVars, coordVars, passVars
<1>t. TypeOK
  BY DEF IInv
<1> DEFINE Grows == /\ indexed \subseteq indexed' /\ lost \subseteq lost'
                    /\ \A p : QueuedFiles(queue, p)
                          \subseteq QueuedFiles(queue', p) \cup indexed' \cup lost'
<1>1. ASSUME UNCHANGED <<queue, indexed, lost>> PROVE Grows
  BY <1>1
<1>2. ASSUME NEW entry \in Jobs, Put(entry), UNCHANGED indexed, lost \subseteq lost'
      PROVE  Grows
  <2>1. \A p : QueuedFiles(queue, p) \subseteq QueuedFiles(queue', p)
    BY <1>2, <1>t, PutWaiting
  <2> QED
    BY <1>2, <2>1
<1>3. ASSUME NEW kind, NextIs(kind), queue' = Tail(queue), kind # "index",
             UNCHANGED <<indexed, lost>>
      PROVE  Grows
  <2>1. \A p : QueuedFiles(queue, p) \subseteq QueuedFiles(queue', p)
    BY <1>3, <1>t, TakeWaiting
  <2> QED
    BY <1>3, <2>1
<1>4. ASSUME NEW t \in Threads,
             CheckReady(t) \/ StatDb(t) \/ Claim(t) \/ Schedule(t) \/ MarkReady(t)
      PROVE  Grows
  BY <1>1, <1>4 DEF CheckReady, StatDb, Claim, Schedule, MarkReady
<1>5. ASSUME NEW o \in Owners, Walk(o) PROVE Grows
  BY <1>1, <1>5 DEF Walk
<1>6. ASSUME NEW o \in Owners, SubmitNext(o) PROVE Grows
  <2>1. CASE Refused(o)
    <3>1. UNCHANGED <<queue, indexed>> /\ lost \subseteq lost'
      BY <1>6, <2>1 DEF SubmitNext, NothingPut
    <3> QED
      BY <3>1
  <2>2. CASE ~Refused(o)
    <3> DEFINE entry == [op |-> "index", file |-> WalkOrder[next[o]], by |-> o]
    <3>1. Put(entry) /\ entry \in Jobs /\ UNCHANGED <<indexed, lost>>
      BY <1>6, <2>2, RefusedJob, JobTypes, WalkPositions DEF SubmitNext
    <3> QED
      BY <1>2, <3>1
  <2> QED
    BY <2>1, <2>2
<1>7. ASSUME NEW o \in Owners, SubmitFlag(o) PROVE Grows
  BY <1>1, <1>2, <1>7, JobTypes DEF SubmitFlag, NothingPut
<1>8. ASSUME NEW t \in Threads, SubmitHead(t) PROVE Grows
  BY <1>1, <1>2, <1>8, JobTypes DEF SubmitHead, NothingPut, Owners
<1>9. CASE SubmitCheck
  BY <1>1, <1>2, <1>9, JobTypes DEF SubmitCheck, NothingPut, Owners
<1>10. CASE RunIndex
  <2>1. NextIs("index") /\ queue' = Tail(queue)
        /\ indexed \subseteq indexed' /\ lost \subseteq lost'
        /\ Head(queue).file \in indexed' \cup lost'
    BY <1>10 DEF RunIndex
  <2>2. \A p : QueuedFiles(queue, p) \subseteq QueuedFiles(queue', p) \cup {Head(queue).file}
    BY <2>1, <1>t, TakeWaiting
  <2> QED
    BY <2>1, <2>2
<1>11. CASE RunCheck \/ RunHead \/ RunFlag
  BY <1>3, <1>11 DEF RunCheck, RunHead, RunFlag
<1>12. CASE CloseQueue \/ OpenWorks \/ Quiet
  BY <1>1, <1>12 DEF CloseQueue, OpenWorks, Quiet, vars
<1>13. CASE Restart
  BY <1>13 DEF Restart
<1> QED
  BY <1>4, <1>5, <1>6, <1>7, <1>8, <1>9, <1>10, <1>11, <1>12, <1>13
  DEF Next, RequestStep, PassStep, WriterStep

(* An owner whose pass a step leaves alone has still covered what it went by.   *)
LEMMA CoversFrame ==
    ASSUME IInv, Next, ~Restart, NEW p \in Owners,
           phase'[p] = phase[p], next'[p] = next[p]
    PROVE  Covers(p)'
<1>1. Covers(p) /\ Seen(p)' = Seen(p)
  BY SeenFiles DEF IInv, PassesCover
<1>2. /\ indexed \subseteq indexed' /\ lost \subseteq lost'
      /\ QueuedFiles(queue, p) \subseteq QueuedFiles(queue', p) \cup indexed' \cup lost'
  BY CoverGrows
<1> QED
  BY <1>1, <1>2 DEF Covers, Complete, InPass

(* A pass that ends has had every file indexed or lost.                         *)
LEMMA CoverStep ==
    ASSUME IInv, Next
    PROVE  PassesCover'
<1> USE DEF diskVars, coordVars, passVars
<1>t. TypeOK /\ phase \in [Owners -> Phases] /\ Threads \subseteq Owners
      /\ Migration \in Owners /\ next \in [Owners -> 1..Len(WalkOrder) + 1]
      /\ remaining \in [Owners -> 0..Len(WalkOrder)] /\ queue \in Seq(Jobs)
  BY DEF IInv, TypeOK, Owners
<1>m. Migration \notin Threads
  BY ConstantsAssumption DEF ConstantsAssumption
<1>c. \A o \in Owners : Covers(o)
  BY DEF IInv, PassesCover
<1>g. /\ indexed \subseteq indexed' /\ lost \subseteq lost'
      /\ Complete => Complete'
  BY CoverGrows DEF Complete
<1>1. ASSUME ~Restart, \A p \in Owners : phase'[p] = phase[p] /\ next'[p] = next[p]
      PROVE  PassesCover'
  BY <1>1, CoversFrame DEF PassesCover
<1>2. ASSUME ~Restart, NEW o \in Owners, StepFor(o), Covers(o)'
      PROVE  PassesCover'
  BY <1>2, <1>t, OthersKeep, CoversFrame DEF PassesCover
<1>3. ASSUME Restart PROVE PassesCover'
  BY <1>3 DEF Restart, PassesCover, Covers, InPass
<1>4. ASSUME NEW o \in Owners, StepFor(o),
             \/ phase'[o] \in {"none", "walk", "check", "checking"}
             \/ phase'[o] = phase[o] /\ next'[o] = next[o]
             \/ /\ phase[o] \in {"head", "heading", "ready"}
                /\ phase'[o] \in {"head", "heading", "ready", "flag"}
      PROVE  PassesCover'
  <2>1. CASE Restart
    BY <1>3, <2>1
  <2>2. CASE ~Restart
    <3>1. Covers(o)'
      BY <1>4, <1>c, <1>g, <2>2, CoversFrame DEF Covers, InPass
    <3> QED
      BY <1>2, <1>4, <2>2, <3>1
  <2> QED
    BY <2>1, <2>2
<1>5. ASSUME NEW t \in Threads, Claim(t) PROVE PassesCover'
  <2>1. phase'[t] \in {phase[t], "walk"} /\ next' = next
    BY <1>5, <1>t DEF Claim
  <2> QED
    BY <1>4, <1>5, <1>t, <2>1 DEF StepFor
<1>6. ASSUME NEW t \in Threads, Schedule(t) PROVE PassesCover'
  <2>1. phase'[Migration] \in {phase[Migration], "check"} /\ next' = next
    BY <1>6, <1>t DEF Schedule
  <2> QED
    BY <1>4, <1>6, <1>t, <2>1 DEF StepFor
<1>7. CASE SubmitCheck \/ RunCheck
  <2>1. phase'[Migration] \in {"none", "checking", "walk"}
    BY <1>7, <1>t DEF SubmitCheck, RunCheck, SetPhase
  <2> QED
    BY <1>4, <1>7, <1>t, <2>1 DEF StepFor
<1>8. ASSUME NEW o \in Owners, Walk(o) PROVE PassesCover'
  <2>1. CASE phase'[o] = "none"
    BY <1>4, <1>8, <2>1 DEF StepFor
  <2>2. CASE phase'[o] # "none"
    <3>1. next'[o] = 1 /\ phase'[o] = IF o = Migration THEN "pass2" ELSE "pass1"
      BY <1>8, <1>t, <2>2 DEF Walk, SetPhase
    <3>2. Seen(o)' = {}
      BY <3>1, <1>t, SeenFiles
    <3>3. Covers(o)'
      BY <3>1, <3>2, <1>m DEF Covers, InPass
    <3> QED
      BY <1>2, <1>3, <1>8, <3>3 DEF StepFor
  <2> QED
    BY <2>1, <2>2
<1>9. ASSUME NEW o \in Owners, SubmitNext(o), ~Restart PROVE PassesCover'
  <2> DEFINE f == WalkOrder[next[o]]
  <2>0. /\ InPass(o)
        /\ next[o] \in 1..Len(WalkOrder) /\ remaining[o] \in Nat /\ remaining[o] >= 1
        /\ remaining[o] = 1 => next[o] = Len(WalkOrder) /\ Pending(queue, "index", o) = 0
    BY <1>9, RefusedJob
  <2>1. /\ Seen(o) \subseteq indexed \cup lost \cup QueuedFiles(queue, o)
        /\ QueuedFiles(queue, o) \subseteq QueuedFiles(queue', o) \cup indexed' \cup lost'
    BY <1>9, <2>0, <1>c, CoverGrows DEF Covers
  <2>2. CASE Refused(o)
    <3>1. /\ CountDone(o, FALSE) /\ f \in lost'
          /\ next' = [next EXCEPT ![o] = IF phase'[o] = phase[o] THEN next[o] + 1 ELSE 1]
      BY <1>9, <2>2 DEF SubmitNext
    <3>2. CASE phase'[o] = phase[o]
      <4>1. Seen(o)' = Seen(o) \cup {f}
        BY <3>1, <3>2, <1>t, SeenFiles
      <4>2. Covers(o)'
        BY <2>0, <2>1, <3>1, <3>2, <4>1, <1>c, <1>g DEF Covers, InPass
      <4> QED
        BY <1>2, <1>9, <4>2 DEF StepFor
    <3>3. CASE phase'[o] # phase[o]
      <4>1. remaining[o] = 1 /\ next'[o] = 1
        BY <2>0, <3>1, <3>3, <1>t, CountDoneOutcome DEF IInv
      <4>2. Seen(o)' = {} /\ Files = Seen(o) \cup {f} /\ QueuedFiles(queue, o) = {}
        BY <2>0, <4>1, <1>t, SeenFiles, NoneWaiting
      <4>3. Complete'
        BY <2>1, <3>1, <4>2, <1>g DEF Complete
      <4>4. Covers(o)'
        BY <4>2, <4>3 DEF Covers, InPass
      <4> QED
        BY <1>2, <1>9, <4>4 DEF StepFor
    <3> QED
      BY <3>2, <3>3
  <2>3. CASE ~Refused(o)
    <3> DEFINE entry == [op |-> "index", file |-> f, by |-> o]
    <3>1. /\ Put(entry) /\ entry \in Jobs /\ phase' = phase
          /\ next' = [next EXCEPT ![o] = next[o] + 1]
      BY <1>9, <2>0, <2>3, JobTypes, WalkPositions DEF SubmitNext
    <3>2. f \in QueuedFiles(queue', o)
      BY <3>1, <1>t, PutWaiting
    <3>3. Seen(o)' = Seen(o) \cup {f}
      BY <3>1, <1>t, SeenFiles
    <3>4. Covers(o)'
      BY <2>0, <2>1, <3>1, <3>2, <3>3, <1>c, <1>g DEF Covers, InPass
    <3> QED
      BY <1>2, <1>9, <3>4 DEF StepFor
  <2> QED
    BY <2>2, <2>3
<1>10. ASSUME NEW o \in Owners, SubmitFlag(o) PROVE PassesCover'
  BY <1>4, <1>10, <1>t DEF SubmitFlag, SetPhase, StepFor
<1>11. ASSUME NEW t \in Threads, SubmitHead(t) \/ MarkReady(t) PROVE PassesCover'
  <2>1. phase[t] \in {"head", "ready"} /\ phase'[t] \in {"ready", "heading", "flag"}
    BY <1>11, <1>t DEF SubmitHead, MarkReady, SetPhase
  <2> QED
    BY <1>4, <1>11, <1>t, <2>1 DEF StepFor
<1>12. ASSUME RunIndex, ~Restart PROVE PassesCover'
  <2>0. NextIs("index") /\ queue' = Tail(queue)
    BY <1>12 DEF RunIndex
  <2>1. PICK o \in Owners : o = Head(queue).by
    BY <2>0, <1>t, NextJob
  <2>2. /\ InPass(o) /\ remaining[o] \in Nat /\ remaining[o] >= 1
        /\ remaining[o] = 1 => next[o] = Len(WalkOrder) + 1 /\ Pending(queue', "index", o) = 0
    BY <2>0, <2>1, TakenJob
  <2>3. PICK writes \in BOOLEAN : CountDone(o, writes)
    BY <1>12, <2>1 DEF RunIndex
  <2>4. next' = IF phase'[o] = "pass2" /\ phase[o] = "pass1"
                THEN [next EXCEPT ![o] = 1] ELSE next
    BY <1>12, <2>1 DEF RunIndex
  <2>5. CASE phase'[o] = phase[o]
    BY <1>4, <1>12, <2>1, <2>4, <2>5 DEF StepFor
  <2>6. CASE phase'[o] # phase[o]
    <3>1. /\ remaining[o] = 1
          /\ \/ phase'[o] = "pass2" /\ next'[o] = 1
             \/ phase'[o] \in {"head", "flag"}
      BY <2>2, <2>3, <2>4, <2>6, <1>t, CountDoneOutcome DEF IInv
    <3>2. Seen(o) = Files /\ QueuedFiles(queue', o) = {}
      <4>1. queue' \in Seq(Jobs)
        BY <2>0, <1>t, NextJob
      <4> QED
        BY <2>2, <3>1, <4>1, <1>t, SeenFiles, NoneWaiting
    <3>3. Files \subseteq indexed' \cup lost'
      <4>1. Seen(o) \subseteq indexed \cup lost \cup QueuedFiles(queue, o)
        BY <2>2, <1>c DEF Covers
      <4>2. QueuedFiles(queue, o) \subseteq QueuedFiles(queue', o) \cup indexed' \cup lost'
        BY <1>12, CoverGrows
      <4> QED
        BY <3>2, <4>1, <4>2, <1>g
    <3>4. phase'[o] = "pass2" => Seen(o)' = {}
      BY <3>1, <1>t, SeenFiles
    <3>5. Covers(o)'
      BY <3>1, <3>3, <3>4 DEF Covers, Complete, InPass
    <3> QED
      BY <1>2, <1>12, <2>1, <3>5 DEF StepFor
  <2> QED
    BY <2>5, <2>6
<1>13. CASE RunHead
  <2>0. NextIs("head")
    BY <1>13 DEF RunHead
  <2>1. PICK t \in Threads : t = Head(queue).by
    BY <2>0, TakenHead
  <2>2. phase[t] = "heading" /\ phase'[t] = "ready"
    BY <1>13, <2>0, <2>1, <1>t, TakenHead DEF RunHead, SetPhase
  <2> QED
    BY <1>4, <1>13, <1>t, <2>1, <2>2 DEF StepFor
<1>14. ASSUME \/ RunFlag \/ CloseQueue \/ OpenWorks \/ Quiet
              \/ \E t \in Threads : CheckReady(t) \/ StatDb(t)
       PROVE  PassesCover'
  <2>1. UNCHANGED passVars
    BY <1>14 DEF RunFlag, CloseQueue, OpenWorks, Quiet, vars, CheckReady, StatDb
  <2> QED
    BY <1>1, <1>3, <2>1
<1> QED
  BY <1>3, <1>5, <1>6, <1>7, <1>8, <1>9, <1>10, <1>11, <1>12, <1>13, <1>14
  DEF Next, RequestStep, PassStep, WriterStep
(* Jobs that set a marker are submitted, and run, after every file.             *)
LEMMA MarkersStep ==
    ASSUME IInv, Next
    PROVE  MarkersCover'
<1> USE DEF diskVars, coordVars, passVars
<1> DEFINE Marks(q) == \E j \in 1..Len(q) : q[j].op \in {"head", "flag"}
<1>t. queue \in Seq(Jobs) /\ Threads \subseteq Owners /\ TypeOK
  BY DEF IInv, TypeOK, Owners
<1>m. flag \/ headSha \/ Marks(queue) => Complete
  BY DEF IInv, MarkersCover
<1>c. \A o \in Owners : phase[o] \in {"head", "flag"} => Complete
  BY DEF IInv, PassesCover, Covers
<1>g. Complete => Complete'
  BY CoverGrows DEF Complete
<1>1. ASSUME flag' = flag, headSha' = headSha, Marks(queue') => Marks(queue) \/ Complete
      PROVE  MarkersCover'
  BY <1>1, <1>m, <1>g DEF MarkersCover
<1>2. ASSUME NEW entry \in Jobs, Put(entry), entry.op \in {"head", "flag"} => Complete
      PROVE  Marks(queue') => Marks(queue) \/ Complete
  <2>1. Len(queue) \in Nat /\ Len(queue') = Len(queue) + 1
        /\ queue'[Len(queue) + 1] = entry /\ \A j \in 1..Len(queue) : queue'[j] = queue[j]
    BY <1>2, <1>t DEF Put
  <2> QED
    BY <1>2, <2>1
<1>3. ASSUME NEW kind, NextIs(kind), queue' = Tail(queue)
      PROVE  /\ Marks(queue') => Marks(queue)
             /\ kind \in {"head", "flag"} => Marks(queue)
  <2>1. /\ Len(queue) \in Nat /\ Len(queue) >= 1 /\ queue[1].op = kind
        /\ Len(queue') = Len(queue) - 1
        /\ \A j \in 1..Len(queue') : j + 1 \in 1..Len(queue) /\ queue'[j] = queue[j + 1]
    BY <1>3, <1>t DEF NextIs
  <2> QED
    BY <2>1
<1>4. ASSUME NEW t \in Threads,
             CheckReady(t) \/ StatDb(t) \/ Claim(t) \/ Schedule(t) \/ MarkReady(t)
      PROVE  MarkersCover'
  BY <1>1, <1>4 DEF CheckReady, StatDb, Claim, Schedule, MarkReady
<1>5. ASSUME NEW o \in Owners, Walk(o) PROVE MarkersCover'
  BY <1>1, <1>5 DEF Walk
<1>6. ASSUME NEW o \in Owners, SubmitNext(o) PROVE MarkersCover'
  <2>1. CASE Refused(o)
    BY <1>1, <1>6, <2>1 DEF SubmitNext, NothingPut
  <2>2. CASE ~Refused(o)
    <3> DEFINE entry == [op |-> "index", file |-> WalkOrder[next[o]], by |-> o]
    <3>1. Put(entry) /\ entry \in Jobs /\ UNCHANGED <<flag, headSha>>
      BY <1>6, <2>2, RefusedJob, JobTypes, WalkPositions DEF SubmitNext
    <3> QED
      BY <1>1, <1>2, <3>1
  <2> QED
    BY <2>1, <2>2
<1>7. ASSUME NEW o \in Owners, SubmitFlag(o) PROVE MarkersCover'
  <2>1. phase[o] = "flag" /\ UNCHANGED <<flag, headSha>>
        /\ (queue' = queue \/ Put([op |-> "flag", by |-> o]))
    BY <1>7 DEF SubmitFlag, NothingPut
  <2> QED
    BY <1>1, <1>2, <1>c, <2>1, JobTypes
<1>8. ASSUME NEW t \in Threads, SubmitHead(t) PROVE MarkersCover'
  <2>1. phase[t] = "head" /\ UNCHANGED <<flag, headSha>>
        /\ (queue' = queue \/ Put([op |-> "head", by |-> t]))
    BY <1>8 DEF SubmitHead, NothingPut
  <2> QED
    BY <1>1, <1>2, <1>c, <1>t, <2>1, JobTypes
<1>9. CASE SubmitCheck
  <2>1. UNCHANGED <<flag, headSha>>
        /\ (queue' = queue \/ Put([op |-> "check", by |-> Migration]))
    BY <1>9 DEF SubmitCheck, NothingPut
  <2>2. [op |-> "check", by |-> Migration] \in Jobs
    BY JobTypes DEF Owners
  <2> QED
    BY <1>1, <1>2, <2>1, <2>2
<1>10. CASE RunIndex \/ RunCheck
  <2>1. UNCHANGED <<flag, headSha>> /\ queue' = Tail(queue)
        /\ (NextIs("index") \/ NextIs("check"))
    BY <1>10 DEF RunIndex, RunCheck
  <2> QED
    BY <1>1, <1>3, <2>1
<1>11. CASE RunHead \/ RunFlag
  <2>1. queue' = Tail(queue) /\ (NextIs("head") \/ NextIs("flag"))
    BY <1>11 DEF RunHead, RunFlag
  <2>2. Complete
    BY <1>3, <1>m, <2>1
  <2> QED
    BY <1>g, <2>2 DEF MarkersCover
<1>12. CASE CloseQueue \/ OpenWorks \/ Quiet
  BY <1>1, <1>12 DEF CloseQueue, OpenWorks, Quiet, vars
<1>13. CASE Restart
  <2>1. queue' = <<>> /\ UNCHANGED <<flag, headSha>>
    BY <1>13 DEF Restart
  <2> QED
    BY <1>1, <2>1
<1> QED
  BY <1>4, <1>5, <1>6, <1>7, <1>8, <1>9, <1>10, <1>11, <1>12, <1>13
  DEF Next, RequestStep, PassStep, WriterStep

(* Over a complete index and without a loss, a file that is indexed again is    *)
(* resolved, whoever submitted the job, and none is unresolved.                 *)
LEMMA ResolvedGrows ==
    ASSUME IInv, Next, Complete, lost' = {}
    PROVE  /\ resolved \subseteq resolved'
           /\ ~Restart => \A p : QueuedFiles(queue, p)
                                     \subseteq QueuedFiles(queue', p) \cup resolved'
<1> USE DEF diskVars, coordVars, passVars
<1>t. TypeOK /\ lost = {} /\ Files \subseteq indexed /\ Files \subseteq indexed'
  BY CoverGrows DEF IInv, Complete
<1>1. CASE RunIndex
  <2> DEFINE f == Head(queue).file
  <2>1. NextIs("index") /\ queue' = Tail(queue)
    BY <1>1 DEF RunIndex
  <2>2. f \in Files
    BY <2>1, <1>t, NextJob
  <2>3. DependsOn[f] \subseteq indexed'
    BY <2>2, <1>t, ConstantsAssumption DEF ConstantsAssumption
  <2>4. resolved' = resolved \cup {f}
    BY <1>1, <1>t, <2>3 DEF RunIndex
  <2>5. \A p : QueuedFiles(queue, p) \subseteq QueuedFiles(queue', p) \cup {f}
    BY <2>1, <1>t, TakeWaiting
  <2> QED
    BY <2>4, <2>5
<1>2. ASSUME ~RunIndex PROVE resolved' = resolved
  BY <1>2 DEF Next, RequestStep, PassStep, WriterStep, CheckReady, StatDb, Claim, Schedule,
     Walk, SubmitNext, SubmitFlag, SubmitHead, MarkReady, SubmitCheck, RunCheck, RunHead,
     RunFlag, CloseQueue, OpenWorks, Restart, Quiet, vars
<1>3. ASSUME ~RunIndex, ~Restart, NEW p
      PROVE  QueuedFiles(queue, p) \subseteq QueuedFiles(queue', p)
  <2>1. ASSUME NEW o \in Owners, SubmitNext(o)
        PROVE  QueuedFiles(queue, p) \subseteq QueuedFiles(queue', p)
    <3>1. CASE Refused(o)
      BY <2>1, <3>1 DEF SubmitNext
    <3>2. CASE ~Refused(o)
      BY <2>1, <3>2, <1>t, RefusedJob, JobTypes, WalkPositions, PutWaiting DEF SubmitNext
    <3> QED
      BY <3>1, <3>2
  <2>2. ASSUME NEW o \in Owners, SubmitFlag(o)
        PROVE  QueuedFiles(queue, p) \subseteq QueuedFiles(queue', p)
    BY <2>2, <1>t, JobTypes, PutWaiting DEF SubmitFlag, NothingPut
  <2>3. ASSUME NEW t \in Threads, SubmitHead(t)
        PROVE  QueuedFiles(queue, p) \subseteq QueuedFiles(queue', p)
    BY <2>3, <1>t, JobTypes, PutWaiting DEF SubmitHead, NothingPut, Owners
  <2>4. CASE SubmitCheck
    BY <2>4, <1>t, JobTypes, PutWaiting DEF SubmitCheck, NothingPut, Owners
  <2>5. CASE RunCheck \/ RunHead \/ RunFlag
    <3>1. queue' = Tail(queue) /\ (NextIs("check") \/ NextIs("head") \/ NextIs("flag"))
      BY <2>5 DEF RunCheck, RunHead, RunFlag
    <3> QED
      BY <3>1, <1>t, TakeWaiting
  <2>6. ASSUME \/ \E t \in Threads : CheckReady(t) \/ RequestStep(t) \/ MarkReady(t)
               \/ \E o \in Owners : Walk(o)
               \/ CloseQueue \/ OpenWorks \/ Quiet
        PROVE  QueuedFiles(queue, p) \subseteq QueuedFiles(queue', p)
    BY <2>6 DEF RequestStep, CheckReady, StatDb, Claim, Schedule, MarkReady, Walk,
       CloseQueue, OpenWorks, Quiet, vars
  <2> QED
    BY <1>3, <2>1, <2>2, <2>3, <2>4, <2>5, <2>6 DEF Next, PassStep, WriterStep
<1> QED
  BY <1>1, <1>2, <1>3
(* A bootstrap's second pass resolves every file it goes by.                    *)
LEMMA ResolveStep ==
    ASSUME IInv, Next
    PROVE  PassesResolve'
<1> USE DEF diskVars, coordVars, passVars
<1>t. TypeOK /\ phase \in [Owners -> Phases] /\ Threads \subseteq Owners
      /\ Migration \in Owners /\ next \in [Owners -> 1..Len(WalkOrder) + 1]
      /\ remaining \in [Owners -> 0..Len(WalkOrder)] /\ queue \in Seq(Jobs)
  BY DEF IInv, TypeOK, Owners
<1>m. Migration \notin Threads
  BY ConstantsAssumption DEF ConstantsAssumption
<1>c. \A t \in Threads : Resolves(t)
  BY DEF IInv, PassesResolve
<1>a. \A t \in Threads :
          phase[t] \in {"pass2", "head", "heading", "ready"} => Complete
  BY <1>t DEF IInv, PassesCover, Covers
<1>l. lost' = {} => lost = {}
  BY CoverGrows
<1>f. resolved' \subseteq Files
  BY NextType DEF IInv, TypeOK
<1>1. ASSUME Restart PROVE PassesResolve'
  BY <1>1, <1>t DEF Restart, PassesResolve, Resolves
<1>2. ASSUME ~Restart, NEW t \in Threads, phase'[t] = phase[t], next'[t] = next[t]
      PROVE  Resolves(t)'
  <2>1. Seen(t)' = Seen(t)
    BY <1>2, <1>t, SeenFiles
  <2> QED
    BY <1>2, <1>a, <1>c, <1>f, <1>l, <2>1, ResolvedGrows DEF Resolves
<1>3. ASSUME ~Restart, NEW o \in Owners, StepFor(o), o \in Threads => Resolves(o)'
      PROVE  PassesResolve'
  <2>1. ASSUME NEW t \in Threads, t # o PROVE Resolves(t)'
    BY <1>2, <1>3, <1>t, <2>1, OthersKeep
  <2> QED
    BY <1>3, <2>1 DEF PassesResolve
<1>4. ASSUME NEW o \in Owners, StepFor(o),
             \/ o \notin Threads
             \/ phase'[o] \notin {"pass2", "head", "heading", "ready"}
             \/ phase'[o] = phase[o] /\ next'[o] = next[o]
             \/ /\ phase[o] \in {"head", "heading"}
                /\ phase'[o] \in {"heading", "ready"}
      PROVE  PassesResolve'
  <2>1. CASE Restart
    BY <1>1, <2>1
  <2>2. CASE ~Restart
    <3> SUFFICES ASSUME o \in Threads PROVE Resolves(o)'
      BY <1>3, <1>4, <2>2
    <3>1. CASE phase'[o] \notin {"pass2", "head", "heading", "ready"}
      BY <3>1 DEF Resolves
    <3>2. CASE phase'[o] = phase[o] /\ next'[o] = next[o]
      BY <1>2, <2>2, <3>2
    <3>3. CASE phase[o] \in {"head", "heading"} /\ phase'[o] \in {"heading", "ready"}
      BY <3>3, <1>a, <1>c, <1>f, <1>l, ResolvedGrows DEF Resolves
    <3> QED
      BY <1>4, <3>1, <3>2, <3>3
  <2> QED
    BY <2>1, <2>2
<1>5. ASSUME NEW t \in Threads, Claim(t) PROVE PassesResolve'
  <2>1. phase'[t] \in {phase[t], "walk"} /\ next' = next
    BY <1>5, <1>t DEF Claim
  <2> QED
    BY <1>4, <1>5, <1>t, <2>1 DEF StepFor
<1>6. ASSUME SubmitCheck \/ RunCheck \/ \E t \in Threads : Schedule(t) PROVE PassesResolve'
  BY <1>4, <1>6, <1>m, <1>t DEF StepFor
<1>7. ASSUME NEW o \in Owners, Walk(o) PROVE PassesResolve'
  <2>1. o # Migration => phase'[o] \in {"none", "pass1"}
    BY <1>7, <1>t DEF Walk, SetPhase
  <2> QED
    BY <1>4, <1>7, <1>m, <2>1 DEF StepFor
<1>8. ASSUME NEW o \in Owners, SubmitNext(o), ~Restart PROVE PassesResolve'
  <2> DEFINE f == WalkOrder[next[o]]
             entry == [op |-> "index", file |-> f, by |-> o]
  <2>1. CASE Refused(o)
    <3>1. lost' # {}
      BY <1>8, <2>1 DEF SubmitNext
    <3> QED
      BY <3>1 DEF PassesResolve, Resolves
  <2>2. CASE ~Refused(o)
    <3>1. /\ Put(entry) /\ entry \in Jobs /\ phase' = phase
          /\ next' = [next EXCEPT ![o] = next[o] + 1]
          /\ InPass(o)
      BY <1>8, <2>2, RefusedJob, JobTypes, WalkPositions DEF SubmitNext
    <3>2. f \in QueuedFiles(queue', o)
      BY <3>1, <1>t, PutWaiting
    <3>3. Seen(o)' = Seen(o) \cup {f}
      BY <3>1, <1>t, SeenFiles
    <3>4. o \in Threads => Resolves(o)'
      BY <1>8, <3>1, <3>2, <3>3, <1>a, <1>c, <1>l, ResolvedGrows DEF Resolves, InPass
    <3> QED
      BY <1>3, <1>8, <3>4 DEF StepFor
  <2> QED
    BY <2>1, <2>2
<1>9. ASSUME NEW o \in Owners, SubmitFlag(o) PROVE PassesResolve'
  BY <1>4, <1>9, <1>t DEF SubmitFlag, SetPhase, StepFor
<1>10. ASSUME NEW t \in Threads, SubmitHead(t) \/ MarkReady(t) PROVE PassesResolve'
  <2>1. \/ phase[t] = "head" /\ phase'[t] \in {"heading", "ready"}
        \/ phase'[t] = "flag"
    BY <1>10, <1>t DEF SubmitHead, MarkReady, SetPhase
  <2> QED
    BY <1>4, <1>10, <1>t, <2>1 DEF StepFor
<1>11. ASSUME RunIndex, ~Restart PROVE PassesResolve'
  <2>0. NextIs("index") /\ queue' = Tail(queue)
    BY <1>11 DEF RunIndex
  <2>1. PICK o \in Owners : o = Head(queue).by
    BY <2>0, <1>t, NextJob
  <2>2. /\ InPass(o) /\ remaining[o] \in Nat /\ remaining[o] >= 1
        /\ remaining[o] = 1 => next[o] = Len(WalkOrder) + 1 /\ Pending(queue', "index", o) = 0
    BY <2>0, <2>1, TakenJob
  <2>3. PICK writes \in BOOLEAN : CountDone(o, writes)
    BY <1>11, <2>1 DEF RunIndex
  <2>4. next' = IF phase'[o] = "pass2" /\ phase[o] = "pass1"
                THEN [next EXCEPT ![o] = 1] ELSE next
    BY <1>11, <2>1 DEF RunIndex
  <2>5. CASE phase'[o] = phase[o]
    BY <1>4, <1>11, <2>1, <2>4, <2>5 DEF StepFor
  <2>6. CASE phase[o] = "pass1" /\ phase'[o] = "pass2"
    <3>1. Seen(o)' = {}
      BY <2>4, <2>6, <1>t, SeenFiles
    <3>2. Resolves(o)'
      BY <2>6, <3>1 DEF Resolves
    <3> QED
      BY <1>3, <1>11, <2>1, <3>2 DEF StepFor
  <2>7. CASE phase[o] = "pass2" /\ phase'[o] # "pass2"
    <3>1. remaining[o] = 1
      BY <2>2, <2>3, <2>7, <1>t, CountDoneOutcome DEF IInv
    <3>2. Seen(o) = Files /\ QueuedFiles(queue', o) = {}
      <4>1. queue' \in Seq(Jobs)
        BY <2>0, <1>t, NextJob
      <4> QED
        BY <2>2, <3>1, <4>1, <1>t, SeenFiles, NoneWaiting
    <3>3. ASSUME o \in Threads, lost' = {}
          PROVE  resolved' = Files
      <4>1. Seen(o) \subseteq resolved \cup QueuedFiles(queue, o)
        BY <2>7, <3>3, <1>c, <1>l DEF Resolves
      <4>2. /\ resolved \subseteq resolved'
            /\ QueuedFiles(queue, o) \subseteq QueuedFiles(queue', o) \cup resolved'
        BY <1>11, <2>7, <3>3, <1>a, ResolvedGrows
      <4> QED
        BY <3>2, <4>1, <4>2, <1>f
    <3>4. o \in Threads => Resolves(o)'
      BY <2>7, <3>3 DEF Resolves
    <3> QED
      BY <1>3, <1>11, <2>1, <3>4 DEF StepFor
  <2>8. CASE phase[o] = "pass1" /\ phase'[o] # "pass2" /\ phase'[o] # phase[o]
    BY <2>2, <2>3, <2>8, <1>t, CountDoneOutcome DEF IInv
  <2> QED
    BY <2>2, <2>5, <2>6, <2>7, <2>8 DEF InPass
<1>12. CASE RunHead
  <2>0. NextIs("head")
    BY <1>12 DEF RunHead
  <2>1. PICK t \in Threads : t = Head(queue).by
    BY <2>0, TakenHead
  <2>2. phase[t] = "heading" /\ phase'[t] = "ready"
    BY <1>12, <2>0, <2>1, <1>t, TakenHead DEF RunHead, SetPhase
  <2> QED
    BY <1>4, <1>12, <1>t, <2>1, <2>2 DEF StepFor
<1>13. ASSUME \/ RunFlag \/ CloseQueue \/ OpenWorks \/ Quiet
              \/ \E t \in Threads : CheckReady(t) \/ StatDb(t)
       PROVE  PassesResolve'
  <2>1. UNCHANGED passVars
    BY <1>13 DEF RunFlag, CloseQueue, OpenWorks, Quiet, vars, CheckReady, StatDb
  <2> QED
    BY <1>1, <1>2, <2>1 DEF PassesResolve
<1> QED
  BY <1>1, <1>5, <1>6, <1>7, <1>8, <1>9, <1>10, <1>11, <1>12, <1>13
  DEF Next, RequestStep, PassStep, WriterStep

-----------------------------------------------------------------------------

(* The strengthening holds when the daemon first starts.                        *)
LEMMA InitIInv == Init => IInv
<1> SUFFICES ASSUME Init PROVE IInv
  OBVIOUS
<1>1. TypeOK
  BY InitType
<1>2. queue = <<>> /\ \A o \in Owners : phase[o] = "none"
  BY DEF Init
<1>3. PhasesFit /\ Alone
  BY <1>2 DEF Init, PhasesFit, Alone, InFlight, Owners
<1>4. JobsCounted
  BY <1>2, EmptyWaiting DEF JobsCounted, Counted, InPass
<1>5. PassesCover /\ PassesResolve
  BY <1>2 DEF PassesCover, Covers, PassesResolve, Resolves, InPass, Owners
<1>6. MarkersCover
  BY <1>2 DEF Init, MarkersCover
<1> QED
  BY <1>1, <1>3, <1>4, <1>5, <1>6 DEF IInv

(* And is inductive.                                                            *)
LEMMA NextIInv == IInv /\ [Next]_vars => IInv'
<1> SUFFICES ASSUME IInv, [Next]_vars PROVE IInv'
  OBVIOUS
<1>1. CASE Next
  <2>1. TypeOK'
    BY <1>1, NextType DEF IInv
  <2> QED
    BY <1>1, <2>1, FitStep, CountedStep, AloneStep, CoverStep, ResolveStep, MarkersStep
    DEF IInv
<1>2. CASE UNCHANGED vars
  BY <1>2 DEF vars, diskVars, coordVars, passVars, IInv, TypeOK, PhasesFit, JobsCounted,
     Counted, Alone, InFlight, PassesCover, Covers, PassesResolve, Resolves, MarkersCover,
     InPass, Seen, Complete
<1> QED
  BY <1>1, <1>2

(* The coordinator's calls, submissions, jobs and restarts keep the strengthening. *)
THEOREM BootstrapInvariant == Spec => []IInv
  BY InitIInv, NextIInv, PTL DEF Spec

(* register and _mark_ready: however requests race, one bootstrap is in flight  *)
(* at a time, and _in_progress says whether one is.                             *)
THEOREM BootstrapsAreSerial == Spec => []OneBootstrapAtATime
<1>1. IInv => OneBootstrapAtATime
  <2> SUFFICES ASSUME IInv PROVE OneBootstrapAtATime
    OBVIOUS
  <2>1. (\A t, u \in InFlight : t = u) /\ (inProgress <=> InFlight # {})
    BY DEF IInv, Alone
  <2>2. CASE InFlight = {}
    BY <2>1, <2>2, FS_EmptySet DEF OneBootstrapAtATime
  <2>3. CASE InFlight # {}
    <3>1. PICK t \in InFlight : InFlight = {t}
      BY <2>1, <2>3
    <3> QED
      BY <2>1, <3>1, FS_Singleton DEF OneBootstrapAtATime
  <2> QED
    BY <2>2, <2>3
<1> QED
  BY <1>1, BootstrapInvariant, PTL

(* _persist_head_sha and _mark_cross_file_migration_done: the two markers on    *)
(* disk are never ahead of the index, whatever crashed in between.              *)
THEOREM MarkersAreBehindTheIndex == Spec => []MarkersNeverAhead
<1>1. IInv => MarkersNeverAhead
  BY DEF IInv, MarkersCover, Complete, MarkersNeverAhead
<1> QED
  BY <1>1, BootstrapInvariant, PTL

(* A bootstrap that lost no job announces readiness over an index with every    *)
(* cross-file edge, whatever order the walk found the files in.                 *)
THEOREM ReadyIsResolved == Spec => []ReadyAfterTwoPasses
<1>1. IInv => ReadyAfterTwoPasses
  BY DEF IInv, PassesResolve, Resolves, ReadyAfterTwoPasses
<1> QED
  BY <1>1, BootstrapInvariant, PTL

-----------------------------------------------------------------------------
(* Where the passes can come to rest *)

\* A pass has a job that is not counted done, an owner's continuation runs on the
\* writer only from its first pass to its flag, and only a request that has been
\* served started a bootstrap.
Going(o) ==
    /\ InPass(o) => remaining[o] # 0
    /\ onWriter[o] => phase[o] \in {"pass1", "pass2", "head", "heading", "ready", "flag"}

GoingInv ==
    /\ \A o \in Owners : Going(o)
    /\ \A t \in Threads : call[t] = "done" \/ phase[t] = "none"

LEMMA InitGoingInv == Init => GoingInv
BY DEF Init, GoingInv, Going, InPass, Owners

\* A step of one owner, which leaves the requests alone.
LEMMA OneGoes ==
    ASSUME IInv, GoingInv, call' = call, NEW o \in Owners, phase[o] # "none" \/ o = Migration,
           \A p \in Owners \ {o} : /\ phase'[p] = phase[p] /\ remaining'[p] = remaining[p]
                                  /\ onWriter'[p] = onWriter[p],
           Going(o)'
    PROVE  GoingInv'
<1>1. \A p \in Owners : Going(p)'
  BY DEF GoingInv, Going, InPass
<1>2. \A t \in Threads : call[t] = "done" \/ phase'[t] = "none"
  <2>1. Threads \subseteq Owners /\ Migration \notin Threads
    BY ConstantsAssumption DEF Owners
  <2> QED
    BY <2>1 DEF GoingInv
<1> QED
  BY <1>1, <1>2 DEF GoingInv

\* on_job_done, which counts a job of a pass.
LEMMA CountDoneGoes ==
    ASSUME IInv, GoingInv, call' = call, NEW o \in Owners, NEW writes \in BOOLEAN, InPass(o),
           remaining[o] >= 1, CountDone(o, writes)
    PROVE  GoingInv'
<1>1. TypeOK /\ PhasesFit /\ remaining[o] \in Nat /\ Len(WalkOrder) # 0
  BY WalkPositions DEF IInv, TypeOK
<1>2. \A p \in Owners \ {o} : /\ phase'[p] = phase[p] /\ remaining'[p] = remaining[p]
                             /\ onWriter'[p] = onWriter[p]
  <2>1. CASE remaining[o] > 1
    BY <1>1, <2>1 DEF CountDone, TypeOK
  <2>2. CASE ~(remaining[o] > 1)
    BY <1>1, <2>2 DEF CountDone, SetPhase, TypeOK
  <2> QED
    BY <2>1, <2>2
<1>3. /\ phase'[o] \in {"pass1", "pass2", "head", "flag"}
      /\ phase'[o] \in {"pass1", "pass2"} => remaining'[o] # 0
  <2>1. \/ remaining[o] > 1 /\ remaining'[o] = remaining[o] - 1 /\ phase' = phase
        \/ phase'[o] = "pass2" /\ remaining'[o] = Len(WalkOrder)
        \/ phase'[o] = "flag"
        \/ phase'[o] = "head"
    BY <1>1, CountDoneOutcome
  <2> QED
    BY <1>1, <2>1 DEF InPass
<1>4. Going(o)'
  BY <1>3 DEF Going, InPass
<1>5. phase[o] # "none"
  BY DEF InPass
<1> QED
  BY <1>2, <1>4, <1>5, OneGoes

\* Every step preserves GoingInv.
LEMMA StepGoingInv == IInv /\ GoingInv /\ [Next]_vars => GoingInv'
<1> SUFFICES ASSUME IInv, GoingInv, [Next]_vars PROVE GoingInv'
  OBVIOUS
<1> USE DEF SetPhase
<1>t. /\ phase \in [Owners -> Phases] /\ remaining \in [Owners -> 0..Len(WalkOrder)]
      /\ onWriter \in [Owners -> BOOLEAN]
      /\ call \in [Threads -> {"idle", "stat", "claim", "schedule", "done"}]
  BY DEF IInv, TypeOK
<1>o. Threads \subseteq Owners /\ Migration \in Owners /\ Migration \notin Threads
  BY ConstantsAssumption DEF Owners
<1>l. Len(WalkOrder) # 0
  BY WalkPositions
<1>1. ASSUME UNCHANGED <<call, passVars>> PROVE GoingInv'
  BY <1>1 DEF GoingInv, Going, InPass, passVars
<1>2. ASSUME NEW t \in Threads, CheckReady(t) \/ StatDb(t) PROVE GoingInv'
  <2>1. UNCHANGED passVars /\ call[t] # "done" /\ \A u \in Threads \ {t} : call'[u] = call[u]
    BY <1>2, <1>t DEF CheckReady, StatDb, Go
  <2> QED
    BY <2>1 DEF GoingInv, Going, InPass, passVars
<1>3. ASSUME NEW t \in Threads, Claim(t) PROVE GoingInv'
  <2>1. /\ call'[t] = "done" /\ phase[t] = "none"
        /\ \A u \in Threads \ {t} : call'[u] = call[u]
        /\ UNCHANGED <<remaining, onWriter>>
    BY <1>3, <1>t DEF Claim, Go, GoingInv
  <2>2. phase' = phase \/ phase' = [phase EXCEPT ![t] = "walk"]
    BY <1>3 DEF Claim
  <2>3. \A p \in Owners : p # t => phase'[p] = phase[p]
    BY <1>t, <2>2
  <2>4. phase'[t] \in {"none", "walk"} /\ onWriter[t] # TRUE
    BY <1>o, <1>t, <2>1, <2>2 DEF GoingInv, Going
  <2> QED
    BY <1>o, <2>1, <2>3, <2>4 DEF GoingInv, Going, InPass
<1>4. ASSUME NEW t \in Threads, Schedule(t) PROVE GoingInv'
  <2>1. /\ \A u \in Threads : call[u] = "done" => call'[u] = "done"
        /\ UNCHANGED <<remaining, onWriter>>
    BY <1>4, <1>t DEF Schedule, Go
  <2>2. \/ phase' = phase
        \/ phase[Migration] = "none" /\ phase' = [phase EXCEPT ![Migration] = "check"]
    BY <1>4 DEF Schedule, IInv, PhasesFit
  <2>3. \A p \in Owners : p # Migration => phase'[p] = phase[p]
    BY <1>t, <2>2
  <2>4. phase'[Migration] = phase[Migration]
            \/ (phase'[Migration] = "check" /\ onWriter[Migration] # TRUE)
    BY <1>o, <1>t, <2>2 DEF GoingInv, Going
  <2>5. \A p \in Owners : Going(p)'
    BY <2>1, <2>3, <2>4 DEF GoingInv, Going, InPass
  <2> QED
    BY <1>o, <2>1, <2>3, <2>5 DEF GoingInv
<1>5. ASSUME NEW o \in Owners, Walk(o) PROVE GoingInv'
  <2>1. phase[o] = "walk" /\ onWriter[o] # TRUE
    BY <1>5 DEF Walk, GoingInv, Going
  <2>2. UNCHANGED <<call, onWriter>>
    BY <1>5 DEF Walk
  <2>3. /\ \A p \in Owners \ {o} : phase'[p] = phase[p] /\ remaining'[p] = remaining[p]
        /\ InPass(o)' => remaining'[o] # 0
    BY <1>5, <1>t, <1>l DEF Walk, InPass
  <2>4. Going(o)'
    BY <2>1, <2>2, <2>3 DEF Going
  <2> QED
    BY <2>1, <2>2, <2>3, <2>4, OneGoes
<1>6. ASSUME NEW o \in Owners, SubmitNext(o) PROVE GoingInv'
  <2>1. InPass(o) /\ remaining[o] >= 1 /\ call' = call
    BY <1>6, RefusedJob DEF SubmitNext
  <2>2. CASE Refused(o)
    <3>1. CountDone(o, FALSE)
      BY <1>6, <2>2 DEF SubmitNext
    <3> QED
      BY <2>1, <3>1, CountDoneGoes
  <2>3. CASE ~Refused(o)
    <3>1. UNCHANGED <<phase, remaining, onWriter>>
      BY <1>6, <2>3 DEF SubmitNext
    <3> QED
      BY <2>1, <3>1 DEF GoingInv, Going, InPass
  <2> QED
    BY <2>2, <2>3
<1>7. ASSUME NEW t \in Threads, SubmitHead(t) \/ MarkReady(t) PROVE GoingInv'
  <2>1. /\ phase[t] # "none" /\ phase'[t] \in {"heading", "ready", "flag"}
        /\ \A p \in Owners \ {t} : phase'[p] = phase[p]
        /\ UNCHANGED <<call, remaining, onWriter>>
    BY <1>7, <1>t, <1>o DEF SubmitHead, MarkReady
  <2>2. Going(t)'
    BY <2>1 DEF Going, InPass
  <2> QED
    BY <1>o, <2>1, <2>2, OneGoes
<1>8. ASSUME NEW o \in Owners, SubmitFlag(o) PROVE GoingInv'
  <2>1. /\ phase[o] # "none" /\ phase'[o] = "none" /\ onWriter'[o] = FALSE
        /\ \A p \in Owners \ {o} : phase'[p] = phase[p] /\ onWriter'[p] = onWriter[p]
        /\ UNCHANGED <<call, remaining>>
    BY <1>8, <1>t DEF SubmitFlag
  <2>2. Going(o)'
    BY <2>1 DEF Going, InPass
  <2> QED
    BY <2>1, <2>2, OneGoes
<1>9. CASE SubmitCheck \/ RunCheck
  <2>1. phase[Migration] \in {"check", "checking"}
    BY <1>9, TakenCheck DEF SubmitCheck, RunCheck
  <2>2. /\ phase'[Migration] \in {"none", "checking", "walk"}
        /\ \A p \in Owners \ {Migration} : phase'[p] = phase[p]
        /\ UNCHANGED <<call, remaining, onWriter>>
    BY <1>9, <1>t, <1>o DEF SubmitCheck, RunCheck
  <2>3. onWriter[Migration] # TRUE
    BY <1>o, <2>1 DEF GoingInv, Going
  <2>4. Going(Migration)'
    BY <2>2, <2>3 DEF Going, InPass
  <2> QED
    BY <1>o, <2>2, <2>4, OneGoes
<1>10. CASE RunIndex
  <2>1. PICK o \in Owners : o = Head(queue).by /\ InPass(o) /\ remaining[o] >= 1
    BY <1>10, TakenJob DEF RunIndex
  <2>2. call' = call /\ \E writes \in BOOLEAN : CountDone(o, writes)
    BY <1>10, <2>1 DEF RunIndex
  <2> QED
    BY <2>1, <2>2, CountDoneGoes
<1>11. CASE RunHead
  <2>1. PICK t \in Threads : t = Head(queue).by /\ phase[t] = "heading"
    BY <1>11, TakenHead DEF RunHead
  <2>2. /\ phase'[t] = "ready" /\ UNCHANGED <<call, remaining>>
        /\ \A p \in Owners \ {t} : phase'[p] = phase[p] /\ onWriter'[p] = onWriter[p]
    BY <1>11, <1>t, <1>o, <2>1 DEF RunHead
  <2>3. Going(t)'
    BY <2>2 DEF Going, InPass
  <2> QED
    BY <1>o, <2>1, <2>2, <2>3, OneGoes
<1>12. CASE RunFlag \/ CloseQueue \/ OpenWorks \/ Quiet \/ UNCHANGED vars
  BY <1>1, <1>12 DEF RunFlag, CloseQueue, OpenWorks, Quiet, vars
<1>13. CASE Restart
  BY <1>13, <1>o DEF Restart, GoingInv, Going, InPass
<1> QED
  BY <1>2, <1>3, <1>4, <1>5, <1>6, <1>7, <1>8, <1>9, <1>10, <1>11, <1>12, <1>13
     DEF Next, RequestStep, PassStep, WriterStep

\* What an owner needs to go on by itself.
PassGoes(o) ==
    \/ phase[o] \in {"check", "walk", "head", "ready", "flag"}
    \/ InPass(o) /\ next[o] <= Len(WalkOrder)

AtRest == (\A o \in Owners : ~PassGoes(o)) /\ (queue = <<>> \/ ~WriterFree)

RestsOnlyWhenDone == AtRest => queue = <<>> /\ ~inProgress /\ \A o \in Owners : phase[o] = "none"

\* A bootstrap and a migration never wait for each other, for a job that was never
\* counted or for a continuation that blocks the writer: when no owner and no writer
\* can go on, the queue is empty, every pass is over and _in_progress is cleared, so
\* that no worktree is left in INDEX_NOT_READY (bootstrap.py:381).
THEOREM PassesComeToAnEnd == Spec => []RestsOnlyWhenDone
<1>1. IInv /\ GoingInv => RestsOnlyWhenDone
  <2> SUFFICES ASSUME IInv, GoingInv, AtRest
               PROVE  queue = <<>> /\ ~inProgress /\ \A o \in Owners : phase[o] = "none"
    BY DEF RestsOnlyWhenDone
  <2>1. WriterFree
    <3> SUFFICES ASSUME NEW o \in Owners, onWriter[o]
                 PROVE  \/ phase[o] \in {"pass1", "pass2"} /\ next[o] > Len(WalkOrder)
                        \/ phase[o] = "heading"
      BY DEF WriterFree
    <3>1. /\ phase[o] \in {"pass1", "pass2", "head", "heading", "ready", "flag"}
          /\ ~PassGoes(o)
      BY DEF GoingInv, Going, AtRest
    <3>2. next[o] \in Nat /\ Len(WalkOrder) \in Nat
      BY WalkPositions DEF IInv, TypeOK
    <3> QED
      BY <3>1, <3>2 DEF PassGoes, InPass
  <2>2. queue = <<>>
    BY <2>1 DEF AtRest
  <2>3. ASSUME NEW o \in Owners PROVE phase[o] = "none"
    <3>1. phase[o] \in Phases /\ ~PassGoes(o) /\ Counted(o) /\ Going(o)
      BY DEF IInv, TypeOK, AtRest, JobsCounted, GoingInv
    <3>2. \A op : Pending(queue, op, o) = 0
      BY <2>2, EmptyWaiting
    <3>3. phase[o] \notin {"checking", "heading"}
      BY <3>1, <3>2 DEF Counted
    <3>4. ~InPass(o)
      <4>1. InPass(o) => /\ remaining[o] + next[o] - (Len(WalkOrder) + 1) = 0
                        /\ remaining[o] # 0 /\ ~(next[o] <= Len(WalkOrder))
        BY <3>1, <3>2 DEF Counted, Going, PassGoes
      <4>2. /\ Len(WalkOrder) \in Nat /\ remaining[o] \in Nat
            /\ next[o] \in Nat /\ next[o] <= Len(WalkOrder) + 1
        BY WalkPositions DEF IInv, TypeOK
      <4> QED
        BY <4>1, <4>2
    <3> QED
      BY <3>1, <3>3, <3>4 DEF Phases, PassGoes, InPass
  <2>4. ~inProgress
    BY <2>3 DEF IInv, Alone, InFlight, Owners
  <2> QED
    BY <2>2, <2>3, <2>4
<1> QED
  BY <1>1, InitIInv, NextIInv, InitGoingInv, StepGoingInv, PTL DEF Spec

=============================================================================
