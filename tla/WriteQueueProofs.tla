-------------------------- MODULE WriteQueueProofs --------------------------
(***************************************************************************)
(* Safety of the write queue for any number of repositories and jobs.      *)
(*                                                                         *)
(* The heart of the argument is StopInv: without a timeout Stop is put     *)
(* into a queue only when nothing of that repository is outstanding, and   *)
(* from then on nothing can become outstanding there, because after        *)
(* close() only a callback of a job that is still resolving may enqueue.   *)
(* The rest of the inductive invariant says which job each thread and each *)
(* queue position stands for.                                              *)
(*                                                                         *)
(* Then the refinement of SerialJobs, and last the safety core of the      *)
(* liveness properties: where no submit, writer or close() can go on, only *)
(* a job that hangs, or a close() that stopped waiting for one, is to      *)
(* blame.                                                                  *)
(***************************************************************************)
EXTENDS WriteQueue, FiniteSetTheorems, SequenceTheorems, TLAPS

\* A writer thread is created once, by the job that holds the creation lock.
WorkerInv ==
    /\ \A r \in Repos :
        /\ ~published[r] => /\ writer[r] \in {"none", "opening", "idle"}
                            /\ queue[r] = <<>>
        /\ ~published[r] /\ creator[r] = NoJob => writer[r] = "none"
        /\ creator[r] # NoJob => /\ ~published[r]
                                 /\ creator[r] \in Jobs
                                 /\ job[creator[r]] = "creating"
                                 /\ RepoOf[creator[r]] = r
                                 /\ writer[r] \in {"opening", "idle"}
        /\ writer[r] = "opening" => creator[r] # NoJob
    /\ \A j \in Jobs :
        /\ job[j] = "creating" => creator[RepoOf[j]] = j
        /\ job[j] = "enqueuing" => published[RepoOf[j]]

\* The job a writer holds, seen from the writer and from the job.
CurrentInv ==
    /\ \A r \in Repos :
        writer[r] \in {"busy", "hung", "resolving"} =>
            /\ current[r] \in Jobs
            /\ RepoOf[current[r]] = r
            /\ job[current[r]] = IF writer[r] = "resolving" THEN "resolving"
                                                            ELSE "running"
    /\ \A j \in Jobs :
        /\ job[j] = "running" => /\ current[RepoOf[j]] = j
                                 /\ writer[RepoOf[j]] \in {"busy", "hung"}
        /\ job[j] = "resolving" => /\ current[RepoOf[j]] = j
                                   /\ writer[RepoOf[j]] = "resolving"

\* Every position of a queue other than Stop is a queued job of that repository,
\* and no job is in the queue twice.
QueueInv ==
    \A r \in Repos : \A i \in 1..Len(queue[r]) :
        queue[r][i] # Stop =>
            /\ job[queue[r][i]] = "queued"
            /\ RepoOf[queue[r][i]] = r
            /\ \A k \in 1..Len(queue[r]) : queue[r][k] = queue[r][i] => k = i

\* A submit that runs on a writer thread runs inside a callback.
CallbackInv ==
    \A j \in Jobs :
        /\ runner[j] = "writer" /\ job[j] \in Submitting
              => Parent[j] # NoJob /\ job[Parent[j]] = "resolving"
        /\ job[j] = "new" => runner[j] = "thread"

StopSent(r) ==
    \/ writer[r] = "stopped"
    \/ \E i \in 1..Len(queue[r]) : queue[r][i] = Stop

\* Stop is sent once, to a published writer, and without a timeout only when and
\* while nothing of the repository is outstanding.
StopInv ==
    /\ closer \in {"open", "snapshot"} => toStop = {}
    /\ closer = "open" => ~bounded
    /\ \A r \in Repos :
        /\ r \in toStop => published[r] /\ ~StopSent(r)
        /\ StopSent(r) => closer \in {"draining", "done"}
        /\ StopSent(r) /\ ~bounded => \A j \in Jobs : RepoOf[j] = r
                                                      => job[j] \notin Accepted

IInv ==
    /\ TypeOK
    /\ InFlightExact
    /\ WorkerInv
    /\ CurrentInv
    /\ QueueInv
    /\ CallbackInv
    /\ StopInv
    /\ UntimedCloseStrandsNothing

-----------------------------------------------------------------------------

\* Outstanding is a finite set, so that its cardinality is a number, and it is
\* the same set when a step changes the state of no accepted job.
LEMMA OutstandingFinite ==
    ASSUME NEW r \in Repos
    PROVE  IsFiniteSet(Outstanding(r)) /\ Cardinality(Outstanding(r)) \in Nat
BY FS_Subset, FS_CardinalityType, ConstantsAssumption DEF Outstanding

\* Appending to a queue and dropping its head, position by position.
LEMMA AppendPositions ==
    ASSUME NEW S, NEW s \in Seq(S), NEW e \in S
    PROVE  /\ Append(s, e) \in Seq(S)
           /\ Len(Append(s, e)) = Len(s) + 1
           /\ \A i \in 1..Len(s) : Append(s, e)[i] = s[i]
           /\ Append(s, e)[Len(s) + 1] = e
OBVIOUS

LEMMA TailPositions ==
    ASSUME NEW S, NEW s \in Seq(S), s # <<>>
    PROVE  /\ Tail(s) \in Seq(S)
           /\ Len(Tail(s)) = Len(s) - 1
           /\ Len(s) \in Nat \ {0}
           /\ \A i \in 1..Len(Tail(s)) : Tail(s)[i] = s[i + 1]
           /\ Head(s) = s[1] /\ Head(s) \in S
OBVIOUS

\* A step after which nothing new is accepted, no writer is withdrawn and Stop is
\* sent to nobody keeps what is known about Stop.
LEMMA StopInvKept ==
    ASSUME StopInv,
           UNCHANGED <<closer, bounded, toStop>>,
           \A r \in Repos : StopSent(r)' => StopSent(r),
           \A r \in Repos : published[r] => published'[r],
           \A j \in Jobs : job'[j] \in Accepted => job[j] \in Accepted
    PROVE  StopInv'
BY DEF StopInv

\* A queue nobody has submitted to satisfies every part of the invariant.
LEMMA InitIInv == Init => IInv
<1> SUFFICES ASSUME Init PROVE IInv
  OBVIOUS
<1>1. \A r \in Repos : Outstanding(r) = {}
  BY DEF Init, Outstanding, Accepted
<1>2. InFlightExact
  BY <1>1, FS_EmptySet DEF Init, InFlightExact
<1>3. TypeOK
  <2>1. queue \in [Repos -> Seq(Jobs \cup {Stop})]
    BY DEF Init
  <2> QED
    BY <2>1 DEF Init, TypeOK, JobStates, WriterStates
<1>4. WorkerInv /\ CurrentInv /\ QueueInv /\ CallbackInv
  BY DEF Init, WorkerInv, CurrentInv, QueueInv, CallbackInv, Submitting
<1>5. StopInv /\ UntimedCloseStrandsNothing
  BY DEF Init, StopInv, StopSent, UntimedCloseStrandsNothing, NothingStranded
<1> QED
  BY <1>2, <1>3, <1>4, <1>5 DEF IInv

\* Every step of a submit, a writer or close() preserves the invariant.
LEMMA StepIInv == IInv /\ [Next]_vars => IInv'
<1> SUFFICES ASSUME IInv, [Next]_vars PROVE IInv'
  OBVIOUS
<1> USE ConstantsAssumption DEF IInv, vars, jobVars, workerVars, queueVars, closeVars

<1>1. ASSUME NEW j \in Jobs, SubmitOnThread(j) PROVE IInv'
  <2>1. TypeOK'
    BY <1>1 DEF SubmitOnThread, Move, TypeOK, JobStates, WriterStates
  <2>2. InFlightExact'
    <3>1. \A q \in Repos : Outstanding(q)' = Outstanding(q)
      BY <1>1 DEF SubmitOnThread, Move, TypeOK, JobStates, Outstanding, Accepted
    <3> QED
      BY <3>1, <1>1 DEF SubmitOnThread, InFlightExact
  <2>3. WorkerInv'
    BY <1>1 DEF SubmitOnThread, Move, TypeOK, JobStates, WriterStates, WorkerInv
  <2>4. CurrentInv'
    BY <1>1 DEF SubmitOnThread, Move, TypeOK, JobStates, WriterStates, CurrentInv
  <2>5. QueueInv'
    BY <1>1 DEF SubmitOnThread, Move, TypeOK, JobStates, QueueInv
  <2>6. CallbackInv'
    BY <1>1 DEF SubmitOnThread, Move, TypeOK, JobStates, CallbackInv, Submitting
  <2>7. StopInv'
    <3>1. \A q \in Repos : StopSent(q)' => StopSent(q)
      BY <1>1 DEF SubmitOnThread, TypeOK, StopSent
    <3>2. \A k \in Jobs : job'[k] \in Accepted => job[k] \in Accepted
      BY <1>1 DEF SubmitOnThread, Move, TypeOK, Accepted
    <3> QED
      BY <3>1, <3>2, <1>1, StopInvKept DEF SubmitOnThread
  <2>8. UntimedCloseStrandsNothing'
    BY <1>1 DEF SubmitOnThread, Move, TypeOK, JobStates, UntimedCloseStrandsNothing, NothingStranded
  <2> QED
    BY <2>1, <2>2, <2>3, <2>4, <2>5, <2>6, <2>7, <2>8
<1>2. ASSUME NEW j \in Jobs, SubmitOnWriter(j) PROVE IInv'
  <2>1. TypeOK'
    BY <1>2 DEF SubmitOnWriter, Move, TypeOK, JobStates, WriterStates
  <2>2. InFlightExact'
    <3>1. \A q \in Repos : Outstanding(q)' = Outstanding(q)
      BY <1>2 DEF SubmitOnWriter, Move, TypeOK, JobStates, Outstanding, Accepted
    <3> QED
      BY <3>1, <1>2 DEF SubmitOnWriter, InFlightExact
  <2>3. WorkerInv'
    BY <1>2 DEF SubmitOnWriter, Move, TypeOK, JobStates, WriterStates, WorkerInv
  <2>4. CurrentInv'
    BY <1>2 DEF SubmitOnWriter, Move, TypeOK, JobStates, WriterStates, CurrentInv
  <2>5. QueueInv'
    BY <1>2 DEF SubmitOnWriter, Move, TypeOK, JobStates, QueueInv
  <2>6. CallbackInv'
    BY <1>2 DEF SubmitOnWriter, Move, TypeOK, JobStates, CallbackInv, Submitting
  <2>7. StopInv'
    <3>1. \A q \in Repos : StopSent(q)' => StopSent(q)
      BY <1>2 DEF SubmitOnWriter, TypeOK, StopSent
    <3>2. \A k \in Jobs : job'[k] \in Accepted => job[k] \in Accepted
      BY <1>2 DEF SubmitOnWriter, Move, TypeOK, Accepted
    <3> QED
      BY <3>1, <3>2, <1>2, StopInvKept DEF SubmitOnWriter
  <2>8. UntimedCloseStrandsNothing'
    BY <1>2 DEF SubmitOnWriter, Move, TypeOK, JobStates, UntimedCloseStrandsNothing, NothingStranded
  <2> QED
    BY <2>1, <2>2, <2>3, <2>4, <2>5, <2>6, <2>7, <2>8
<1>3. ASSUME NEW j \in Jobs, FindWorker(j) PROVE IInv'
  <2>1. TypeOK'
    BY <1>3 DEF FindWorker, Move, TypeOK, JobStates, WriterStates
  <2>2. InFlightExact'
    <3>1. \A q \in Repos : Outstanding(q)' = Outstanding(q)
      BY <1>3 DEF FindWorker, Move, TypeOK, JobStates, Outstanding, Accepted
    <3> QED
      BY <3>1, <1>3 DEF FindWorker, InFlightExact
  <2>3. WorkerInv'
    BY <1>3 DEF FindWorker, Move, TypeOK, JobStates, WriterStates, WorkerInv
  <2>4. CurrentInv'
    BY <1>3 DEF FindWorker, Move, TypeOK, JobStates, WriterStates, CurrentInv
  <2>5. QueueInv'
    BY <1>3 DEF FindWorker, Move, TypeOK, JobStates, QueueInv
  <2>6. CallbackInv'
    BY <1>3 DEF FindWorker, Move, TypeOK, JobStates, CallbackInv, Submitting
  <2>7. StopInv'
    <3>1. \A q \in Repos : StopSent(q)' => StopSent(q)
      BY <1>3 DEF FindWorker, TypeOK, StopSent
    <3>2. \A k \in Jobs : job'[k] \in Accepted => job[k] \in Accepted
      BY <1>3 DEF FindWorker, Move, TypeOK, Accepted
    <3> QED
      BY <3>1, <3>2, <1>3, StopInvKept DEF FindWorker
  <2>8. UntimedCloseStrandsNothing'
    BY <1>3 DEF FindWorker, Move, TypeOK, JobStates, UntimedCloseStrandsNothing, NothingStranded
  <2> QED
    BY <2>1, <2>2, <2>3, <2>4, <2>5, <2>6, <2>7, <2>8
<1>4. ASSUME NEW j \in Jobs, StartWorker(j) PROVE IInv'
  <2>1. TypeOK'
    BY <1>4 DEF StartWorker, Move, TypeOK, JobStates, WriterStates
  <2>2. InFlightExact'
    <3>1. \A q \in Repos : Outstanding(q)' = Outstanding(q)
      BY <1>4 DEF StartWorker, Move, TypeOK, JobStates, Outstanding, Accepted
    <3> QED
      BY <3>1, <1>4 DEF StartWorker, InFlightExact
  <2>3. WorkerInv'
    BY <1>4 DEF StartWorker, Move, TypeOK, JobStates, WriterStates, WorkerInv
  <2>4. CurrentInv'
    <3>1. writer[RepoOf[j]] = "none"
      BY <1>4 DEF StartWorker, WorkerInv
    <3> QED
      BY <3>1, <1>4 DEF StartWorker, Move, TypeOK, JobStates, WriterStates, CurrentInv
  <2>5. QueueInv'
    BY <1>4 DEF StartWorker, Move, TypeOK, JobStates, QueueInv
  <2>6. CallbackInv'
    BY <1>4 DEF StartWorker, Move, TypeOK, JobStates, CallbackInv, Submitting
  <2>7. StopInv'
    <3>1. \A q \in Repos : StopSent(q)' => StopSent(q)
      BY <1>4 DEF StartWorker, TypeOK, StopSent
    <3>2. \A k \in Jobs : job'[k] \in Accepted => job[k] \in Accepted
      BY <1>4 DEF StartWorker, Move, TypeOK, Accepted
    <3> QED
      BY <3>1, <3>2, <1>4, StopInvKept DEF StartWorker
  <2>8. UntimedCloseStrandsNothing'
    BY <1>4 DEF StartWorker, Move, TypeOK, JobStates, UntimedCloseStrandsNothing, NothingStranded
  <2> QED
    BY <2>1, <2>2, <2>3, <2>4, <2>5, <2>6, <2>7, <2>8
<1>5. ASSUME NEW j \in Jobs, PublishWorker(j) PROVE IInv'
  <2>1. TypeOK'
    BY <1>5 DEF PublishWorker, Move, TypeOK, JobStates, WriterStates
  <2>2. InFlightExact'
    <3>1. \A q \in Repos : Outstanding(q)' = Outstanding(q)
      BY <1>5 DEF PublishWorker, Move, TypeOK, JobStates, Outstanding, Accepted
    <3> QED
      BY <3>1, <1>5 DEF PublishWorker, InFlightExact
  <2>3. WorkerInv'
    BY <1>5 DEF PublishWorker, Move, TypeOK, JobStates, WriterStates, WorkerInv
  <2>4. CurrentInv'
    BY <1>5 DEF PublishWorker, Move, TypeOK, JobStates, WriterStates, CurrentInv
  <2>5. QueueInv'
    BY <1>5 DEF PublishWorker, Move, TypeOK, JobStates, QueueInv
  <2>6. CallbackInv'
    BY <1>5 DEF PublishWorker, Move, TypeOK, JobStates, CallbackInv, Submitting
  <2>7. StopInv'
    <3>1. \A q \in Repos : StopSent(q)' = StopSent(q)
      BY <1>5 DEF PublishWorker, StopSent
    <3>2. \A k \in Jobs : job'[k] \in Accepted => job[k] \in Accepted
      BY <1>5 DEF PublishWorker, Move, TypeOK, Accepted
    <3>3. \A q \in Repos : published[q] => published'[q]
      BY <1>5 DEF PublishWorker, TypeOK
    <3> QED
      BY <3>1, <3>2, <3>3, <1>5 DEF PublishWorker, StopInv
  <2>8. UntimedCloseStrandsNothing'
    BY <1>5 DEF PublishWorker, Move, TypeOK, JobStates, UntimedCloseStrandsNothing, NothingStranded
  <2> QED
    BY <2>1, <2>2, <2>3, <2>4, <2>5, <2>6, <2>7, <2>8
<1>6. ASSUME NEW j \in Jobs, Enqueue(j) PROVE IInv'
  <2>0. /\ RepoOf[j] \in Repos
        /\ published[RepoOf[j]]
        /\ \/ job' = [job EXCEPT ![j] = "refused"] /\ UNCHANGED <<inFlight, queue>>
           \/ /\ job' = [job EXCEPT ![j] = "queued"]
              /\ inFlight' = [inFlight EXCEPT ![RepoOf[j]] = @ + 1]
              /\ queue' = [queue EXCEPT ![RepoOf[j]] = Append(@, j)]
              /\ StopSent(RepoOf[j]) => bounded
    <3>1. Reentrant(j) /\ StopSent(RepoOf[j]) => bounded
      BY <1>6 DEF Enqueue, Reentrant, CallbackInv, StopInv, Accepted, Submitting
    <3>2. ~Closed => ~StopSent(RepoOf[j])
      BY DEF Closed, StopInv
    <3> QED
      BY <3>1, <3>2, <1>6 DEF Enqueue, Move, WorkerInv
  <2>1. TypeOK'
    <3>1. Append(queue[RepoOf[j]], j) \in Seq(Jobs \cup {Stop})
      BY <2>0, AppendPositions DEF TypeOK
    <3>2. queue' \in [Repos -> Seq(Jobs \cup {Stop})]
      BY <3>1, <2>0, Zenon DEF TypeOK
    <3>3. inFlight[RepoOf[j]] + 1 \in Nat
      BY <2>0 DEF TypeOK
    <3>4. inFlight' \in [Repos -> Nat]
      BY <3>3, <2>0 DEF TypeOK
    <3>5. job' \in [Jobs -> JobStates]
      BY <2>0 DEF TypeOK, JobStates
    <3> QED
      BY <3>2, <3>4, <3>5, <1>6 DEF Enqueue, TypeOK
  <2>2. InFlightExact'
    <3>1. \A q \in Repos : q # RepoOf[j] => Outstanding(q)' = Outstanding(q)
      BY <2>0, <1>6 DEF Enqueue, TypeOK, Outstanding, Accepted
    <3>2. CASE job' = [job EXCEPT ![j] = "refused"] /\ UNCHANGED inFlight
      <4>1. Outstanding(RepoOf[j])' = Outstanding(RepoOf[j])
        BY <3>2, <1>6 DEF Enqueue, TypeOK, Outstanding, Accepted
      <4> QED
        BY <4>1, <3>1, <3>2 DEF InFlightExact
    <3>3. CASE /\ job' = [job EXCEPT ![j] = "queued"]
               /\ inFlight' = [inFlight EXCEPT ![RepoOf[j]] = @ + 1]
      <4>1. /\ Outstanding(RepoOf[j])' = Outstanding(RepoOf[j]) \cup {j}
            /\ j \notin Outstanding(RepoOf[j])
        BY <3>3, <1>6 DEF Enqueue, TypeOK, Outstanding, Accepted
      <4>2. Cardinality(Outstanding(RepoOf[j])')
                = Cardinality(Outstanding(RepoOf[j])) + 1
        BY <4>1, <2>0, OutstandingFinite, FS_AddElement
      <4> QED
        BY <4>2, <3>1, <3>3, <2>0 DEF InFlightExact, TypeOK
    <3> QED
      BY <2>0, <3>2, <3>3
  <2>3. WorkerInv'
    BY <1>6 DEF Enqueue, Move, TypeOK, JobStates, WriterStates, WorkerInv
  <2>4. CurrentInv'
    BY <1>6 DEF Enqueue, Move, TypeOK, JobStates, WriterStates, CurrentInv
  <2>5. QueueInv'
    <3>1. CASE job' = [job EXCEPT ![j] = "refused"] /\ UNCHANGED queue
      BY <3>1, <1>6 DEF Enqueue, TypeOK, QueueInv
    <3>2. CASE /\ job' = [job EXCEPT ![j] = "queued"]
               /\ queue' = [queue EXCEPT ![RepoOf[j]] = Append(@, j)]
      <4>1. \A q \in Repos : \A i \in 1..Len(queue[q]) : queue[q][i] # j
        BY <1>6 DEF Enqueue, QueueInv
      <4>2. \A q \in Repos \ {RepoOf[j]} : queue'[q] = queue[q]
        BY <3>2, <2>0 DEF TypeOK
      <4>3. /\ Len(queue'[RepoOf[j]]) = Len(queue[RepoOf[j]]) + 1
            /\ \A i \in 1..Len(queue[RepoOf[j]]) :
                    queue'[RepoOf[j]][i] = queue[RepoOf[j]][i]
            /\ queue'[RepoOf[j]][Len(queue[RepoOf[j]]) + 1] = j
        BY <3>2, <2>0, AppendPositions DEF TypeOK
      <4>4. \A i \in 1..Len(queue'[RepoOf[j]]) :
                i \in 1..Len(queue[RepoOf[j]]) \/ i = Len(queue[RepoOf[j]]) + 1
        BY <4>3, <2>0 DEF TypeOK
      <4> QED
        BY <4>1, <4>2, <4>3, <4>4, <3>2, <2>0 DEF TypeOK, QueueInv
    <3> QED
      BY <2>0, <3>1, <3>2
  <2>6. CallbackInv'
    BY <1>6 DEF Enqueue, Move, TypeOK, JobStates, CallbackInv, Submitting
  <2>7. StopInv'
    <3>1. \A q \in Repos : StopSent(q)' => StopSent(q)
      <4>1. CASE UNCHANGED queue
        BY <4>1, <1>6 DEF Enqueue, StopSent
      <4>2. CASE queue' = [queue EXCEPT ![RepoOf[j]] = Append(@, j)]
        <5>1. \A i \in 1..Len(Append(queue[RepoOf[j]], j)) :
                  Append(queue[RepoOf[j]], j)[i] = Stop
                  => i \in 1..Len(queue[RepoOf[j]]) /\ queue[RepoOf[j]][i] = Stop
          BY <2>0, AppendPositions DEF TypeOK
        <5> QED
          BY <5>1, <4>2, <2>0, <1>6 DEF Enqueue, TypeOK, StopSent
      <4> QED
        BY <2>0, <4>1, <4>2
    <3> QED
      BY <3>1, <2>0, <1>6 DEF Enqueue, TypeOK, JobStates, StopInv, Accepted
  <2>8. UntimedCloseStrandsNothing'
    <3>1. CASE UNCHANGED queue
      BY <3>1, <1>6 DEF Enqueue, UntimedCloseStrandsNothing, NothingStranded
    <3>2. CASE /\ queue' = [queue EXCEPT ![RepoOf[j]] = Append(@, j)]
               /\ ~StopSent(RepoOf[j])
      BY <3>2, <2>0, <1>6, AppendPositions
         DEF Enqueue, TypeOK, StopSent, UntimedCloseStrandsNothing, NothingStranded
    <3> QED
      BY <2>0, <3>1, <3>2, <1>6 DEF Enqueue, UntimedCloseStrandsNothing
  <2> QED
    BY <2>1, <2>2, <2>3, <2>4, <2>5, <2>6, <2>7, <2>8
<1>7. ASSUME NEW r \in Repos, OpenConnection(r) PROVE IInv'
  <2>1. TypeOK'
    BY <1>7 DEF OpenConnection, Move, TypeOK, JobStates, WriterStates
  <2>2. InFlightExact'
    <3>1. \A q \in Repos : Outstanding(q)' = Outstanding(q)
      BY <1>7 DEF OpenConnection, Move, TypeOK, JobStates, Outstanding, Accepted
    <3> QED
      BY <3>1, <1>7 DEF OpenConnection, InFlightExact
  <2>3. WorkerInv'
    BY <1>7 DEF OpenConnection, Move, TypeOK, JobStates, WriterStates, WorkerInv
  <2>4. CurrentInv'
    BY <1>7 DEF OpenConnection, Move, TypeOK, JobStates, WriterStates, CurrentInv
  <2>5. QueueInv'
    BY <1>7 DEF OpenConnection, Move, TypeOK, JobStates, QueueInv
  <2>6. CallbackInv'
    BY <1>7 DEF OpenConnection, Move, TypeOK, JobStates, CallbackInv, Submitting
  <2>7. StopInv'
    <3>1. \A q \in Repos : StopSent(q)' => StopSent(q)
      BY <1>7 DEF OpenConnection, TypeOK, StopSent
    <3>2. \A k \in Jobs : job'[k] \in Accepted => job[k] \in Accepted
      BY <1>7 DEF OpenConnection, Move, TypeOK, Accepted
    <3> QED
      BY <3>1, <3>2, <1>7, StopInvKept DEF OpenConnection
  <2>8. UntimedCloseStrandsNothing'
    BY <1>7 DEF OpenConnection, Move, TypeOK, JobStates, UntimedCloseStrandsNothing, NothingStranded
  <2> QED
    BY <2>1, <2>2, <2>3, <2>4, <2>5, <2>6, <2>7, <2>8
<1>8. ASSUME NEW r \in Repos, OpenFails(r) PROVE IInv'
  <2>0. /\ creator[r] \in Jobs
        /\ job[creator[r]] = "creating"
        /\ RepoOf[creator[r]] = r
        /\ ~published[r]
    BY <1>8 DEF OpenFails, WorkerInv
  <2>1. TypeOK'
    BY <1>8 DEF OpenFails, Move, TypeOK, JobStates, WriterStates
  <2>2. InFlightExact'
    <3>1. \A q \in Repos : Outstanding(q)' = Outstanding(q)
      BY <2>0, <1>8 DEF OpenFails, Move, TypeOK, JobStates, Outstanding, Accepted
    <3> QED
      BY <3>1, <1>8 DEF OpenFails, InFlightExact
  <2>3. WorkerInv'
    BY <1>8 DEF OpenFails, Move, TypeOK, JobStates, WriterStates, WorkerInv
  <2>4. CurrentInv'
    BY <2>0, <1>8 DEF OpenFails, Move, TypeOK, JobStates, CurrentInv
  <2>5. QueueInv'
    BY <2>0, <1>8 DEF OpenFails, Move, TypeOK, JobStates, QueueInv
  <2>6. CallbackInv'
    BY <2>0, <1>8 DEF OpenFails, Move, TypeOK, JobStates, CallbackInv, Submitting
  <2>7. StopInv'
    <3>1. \A q \in Repos : StopSent(q)' => StopSent(q)
      BY <1>8 DEF OpenFails, TypeOK, StopSent
    <3>2. \A k \in Jobs : job'[k] \in Accepted => job[k] \in Accepted
      BY <1>8, <2>0 DEF OpenFails, Move, TypeOK, Accepted
    <3> QED
      BY <3>1, <3>2, <1>8, StopInvKept DEF OpenFails
  <2>8. UntimedCloseStrandsNothing'
    BY <1>8 DEF OpenFails, Move, TypeOK, JobStates, UntimedCloseStrandsNothing, NothingStranded
  <2> QED
    BY <2>1, <2>2, <2>3, <2>4, <2>5, <2>6, <2>7, <2>8
<1>9. ASSUME NEW r \in Repos, Hang(r) PROVE IInv'
  <2>1. TypeOK'
    BY <1>9 DEF Hang, Move, TypeOK, JobStates, WriterStates
  <2>2. InFlightExact'
    <3>1. \A q \in Repos : Outstanding(q)' = Outstanding(q)
      BY <1>9 DEF Hang, Move, TypeOK, JobStates, Outstanding, Accepted
    <3> QED
      BY <3>1, <1>9 DEF Hang, InFlightExact
  <2>3. WorkerInv'
    BY <1>9 DEF Hang, Move, TypeOK, JobStates, WriterStates, WorkerInv
  <2>4. CurrentInv'
    BY <1>9 DEF Hang, Move, TypeOK, JobStates, WriterStates, CurrentInv
  <2>5. QueueInv'
    BY <1>9 DEF Hang, Move, TypeOK, JobStates, QueueInv
  <2>6. CallbackInv'
    BY <1>9 DEF Hang, Move, TypeOK, JobStates, CallbackInv, Submitting
  <2>7. StopInv'
    <3>1. \A q \in Repos : StopSent(q)' => StopSent(q)
      BY <1>9 DEF Hang, TypeOK, StopSent
    <3>2. \A k \in Jobs : job'[k] \in Accepted => job[k] \in Accepted
      BY <1>9 DEF Hang, Move, TypeOK, Accepted
    <3> QED
      BY <3>1, <3>2, <1>9, StopInvKept DEF Hang
  <2>8. UntimedCloseStrandsNothing'
    BY <1>9 DEF Hang, Move, TypeOK, JobStates, UntimedCloseStrandsNothing, NothingStranded
  <2> QED
    BY <2>1, <2>2, <2>3, <2>4, <2>5, <2>6, <2>7, <2>8
<1>10. ASSUME NEW r \in Repos, TakeJob(r) PROVE IInv'
  <2>0. /\ Head(queue[r]) \in Jobs
        /\ Head(queue[r]) = queue[r][1]
        /\ job[Head(queue[r])] = "queued"
        /\ RepoOf[Head(queue[r])] = r
    BY <1>10, TailPositions DEF TakeJob, TypeOK, QueueInv
  <2>1. TypeOK'
    BY <1>10 DEF TakeJob, Move, TypeOK, JobStates, WriterStates
  <2>2. InFlightExact'
    <3>1. \A q \in Repos : Outstanding(q)' = Outstanding(q)
      BY <2>0, <1>10 DEF TakeJob, Move, TypeOK, JobStates, Outstanding, Accepted
    <3> QED
      BY <3>1, <1>10 DEF TakeJob, InFlightExact
  <2>3. WorkerInv'
    BY <2>0, <1>10 DEF TakeJob, Move, TypeOK, JobStates, WriterStates, WorkerInv
  <2>4. CurrentInv'
    BY <2>0, <1>10 DEF TakeJob, Move, TypeOK, JobStates, WriterStates, CurrentInv
  <2>5. QueueInv'
    BY <1>10 DEF TakeJob, Move, TypeOK, JobStates, QueueInv
  <2>6. CallbackInv'
    BY <2>0, <1>10 DEF TakeJob, Move, TypeOK, JobStates, WriterStates, CallbackInv, Submitting
  <2>7. StopInv'
    <3>1. \A q \in Repos : StopSent(q)' => StopSent(q)
      BY <1>10, TailPositions DEF TakeJob, TypeOK, StopSent
    <3> QED
      BY <3>1, <2>0, <1>10 DEF TakeJob, Move, TypeOK, JobStates, StopInv, Accepted
  <2>8. UntimedCloseStrandsNothing'
    BY <1>10 DEF TakeJob, Move, TypeOK, JobStates, UntimedCloseStrandsNothing, NothingStranded
  <2> QED
    BY <2>1, <2>2, <2>3, <2>4, <2>5, <2>6, <2>7, <2>8
<1>11. ASSUME NEW r \in Repos, TakeStop(r) PROVE IInv'
  <2>1. TypeOK'
    BY <1>11 DEF TakeStop, Move, TypeOK, JobStates, WriterStates
  <2>2. InFlightExact'
    <3>1. \A q \in Repos : Outstanding(q)' = Outstanding(q)
      BY <1>11 DEF TakeStop, Move, TypeOK, JobStates, Outstanding, Accepted
    <3> QED
      BY <3>1, <1>11 DEF TakeStop, InFlightExact
  <2>3. WorkerInv'
    BY <1>11 DEF TakeStop, Move, TypeOK, JobStates, WriterStates, WorkerInv
  <2>4. CurrentInv'
    BY <1>11 DEF TakeStop, Move, TypeOK, JobStates, WriterStates, CurrentInv
  <2>5. QueueInv'
    BY <1>11 DEF TakeStop, Move, TypeOK, JobStates, QueueInv
  <2>6. CallbackInv'
    BY <1>11 DEF TakeStop, Move, TypeOK, JobStates, CallbackInv, Submitting
  <2>7. StopInv'
    BY <1>11 DEF TakeStop, Move, TypeOK, JobStates, StopInv, StopSent, Accepted, Closed
  <2>8. UntimedCloseStrandsNothing'
    BY <1>11 DEF TakeStop, Move, TypeOK, JobStates, UntimedCloseStrandsNothing, NothingStranded
  <2> QED
    BY <2>1, <2>2, <2>3, <2>4, <2>5, <2>6, <2>7, <2>8
<1>12. ASSUME NEW r \in Repos, Resolve(r) PROVE IInv'
  <2>0. /\ current[r] \in Jobs
        /\ job[current[r]] = "running"
        /\ RepoOf[current[r]] = r
    BY <1>12 DEF Resolve, CurrentInv
  <2>1. TypeOK'
    BY <1>12 DEF Resolve, Move, TypeOK, JobStates, WriterStates
  <2>2. InFlightExact'
    <3>1. \A q \in Repos : Outstanding(q)' = Outstanding(q)
      BY <2>0, <1>12 DEF Resolve, Move, TypeOK, JobStates, Outstanding, Accepted
    <3> QED
      BY <3>1, <1>12 DEF Resolve, InFlightExact
  <2>3. WorkerInv'
    BY <2>0, <1>12 DEF Resolve, Move, TypeOK, JobStates, WriterStates, WorkerInv
  <2>4. CurrentInv'
    BY <1>12 DEF Resolve, Move, TypeOK, JobStates, WriterStates, CurrentInv
  <2>5. QueueInv'
    BY <2>0, <1>12 DEF Resolve, Move, TypeOK, JobStates, QueueInv
  <2>6. CallbackInv'
    BY <1>12 DEF Resolve, Move, TypeOK, JobStates, CallbackInv, Submitting
  <2>7. StopInv'
    <3>1. \A q \in Repos : StopSent(q)' => StopSent(q)
      BY <1>12 DEF Resolve, TypeOK, StopSent
    <3> QED
      BY <3>1, <2>0, <1>12 DEF Resolve, Move, TypeOK, JobStates, StopInv, Accepted
  <2>8. UntimedCloseStrandsNothing'
    BY <1>12 DEF Resolve, Move, TypeOK, JobStates, UntimedCloseStrandsNothing, NothingStranded
  <2> QED
    BY <2>1, <2>2, <2>3, <2>4, <2>5, <2>6, <2>7, <2>8
<1>13. ASSUME NEW r \in Repos, MarkResolved(r) PROVE IInv'
  <2>0. /\ current[r] \in Jobs
        /\ job[current[r]] = "resolving"
        /\ RepoOf[current[r]] = r
    BY <1>13 DEF MarkResolved, CurrentInv
  <2>1. TypeOK'
    <3>1. current[r] \in Outstanding(r)
      BY <2>0 DEF Outstanding, Accepted
    <3>2. inFlight[r] # 0
      BY <3>1, OutstandingFinite, FS_EmptySet DEF InFlightExact
    <3> QED
      BY <3>2, <2>0, <1>13 DEF MarkResolved, Move, TypeOK, JobStates, WriterStates
  <2>2. InFlightExact'
    <3>1. /\ Outstanding(r)' = Outstanding(r) \ {current[r]}
          /\ current[r] \in Outstanding(r)
      BY <2>0, <1>13 DEF MarkResolved, Move, TypeOK, JobStates, Outstanding, Accepted
    <3>2. \A q \in Repos \ {r} : Outstanding(q)' = Outstanding(q)
      BY <2>0, <1>13 DEF MarkResolved, Move, TypeOK, JobStates, Outstanding, Accepted
    <3>3. Cardinality(Outstanding(r) \ {current[r]}) = Cardinality(Outstanding(r)) - 1
      BY <3>1, OutstandingFinite, FS_RemoveElement
    <3> QED
      BY <3>1, <3>2, <3>3, <1>13 DEF MarkResolved, InFlightExact, TypeOK
  <2>3. WorkerInv'
    BY <2>0, <1>13 DEF MarkResolved, Move, TypeOK, JobStates, WriterStates, WorkerInv
  <2>4. CurrentInv'
    BY <1>13 DEF MarkResolved, Move, TypeOK, JobStates, WriterStates, CurrentInv
  <2>5. QueueInv'
    BY <2>0, <1>13 DEF MarkResolved, Move, TypeOK, JobStates, QueueInv
  <2>6. CallbackInv'
    BY <1>13 DEF MarkResolved, Move, TypeOK, JobStates, CallbackInv, Submitting
  <2>7. StopInv'
    <3>1. \A q \in Repos : StopSent(q)' => StopSent(q)
      BY <1>13 DEF MarkResolved, TypeOK, StopSent
    <3>2. \A k \in Jobs : job'[k] \in Accepted => job[k] \in Accepted
      BY <1>13, <2>0 DEF MarkResolved, Move, TypeOK, Accepted
    <3> QED
      BY <3>1, <3>2, <1>13, StopInvKept DEF MarkResolved
  <2>8. UntimedCloseStrandsNothing'
    BY <1>13 DEF MarkResolved, Move, TypeOK, JobStates, UntimedCloseStrandsNothing, NothingStranded
  <2> QED
    BY <2>1, <2>2, <2>3, <2>4, <2>5, <2>6, <2>7, <2>8
<1>14. ASSUME NEW r \in Repos, PutStop(r) PROVE IInv'
  <2>1. TypeOK'
    BY <1>14 DEF PutStop, Move, TypeOK, JobStates, WriterStates
  <2>2. InFlightExact'
    <3>1. \A q \in Repos : Outstanding(q)' = Outstanding(q)
      BY <1>14 DEF PutStop, Move, TypeOK, JobStates, Outstanding, Accepted
    <3> QED
      BY <3>1, <1>14 DEF PutStop, InFlightExact
  <2>3. WorkerInv'
    <3>1. published[r]
      BY <1>14 DEF PutStop, StopInv
    <3> QED
      BY <3>1, <1>14 DEF PutStop, TypeOK, WorkerInv
  <2>4. CurrentInv'
    BY <1>14 DEF PutStop, Move, TypeOK, JobStates, WriterStates, CurrentInv
  <2>5. QueueInv'
    BY <1>14 DEF PutStop, Move, TypeOK, JobStates, QueueInv
  <2>6. CallbackInv'
    BY <1>14 DEF PutStop, Move, TypeOK, JobStates, CallbackInv, Submitting
  <2>7. StopInv'
    <3>1. \A q \in Repos \ {r} : StopSent(q)' = StopSent(q)
      BY <1>14 DEF PutStop, TypeOK, StopSent
    <3>2. ~bounded => \A j \in Jobs : RepoOf[j] = r => job[j] \notin Accepted
      BY <1>14, OutstandingFinite, FS_EmptySet DEF PutStop, InFlightExact, Outstanding
    <3> QED
      BY <3>1, <3>2, <1>14 DEF PutStop, TypeOK, StopInv
  <2>8. UntimedCloseStrandsNothing'
    <3>1. ~StopSent(r)
      BY <1>14 DEF PutStop, StopInv
    <3> QED
      BY <3>1, <1>14, AppendPositions
         DEF PutStop, TypeOK, StopSent, UntimedCloseStrandsNothing, NothingStranded
  <2> QED
    BY <2>1, <2>2, <2>3, <2>4, <2>5, <2>6, <2>7, <2>8
<1>15. ASSUME NEW r \in Repos, JoinWriter(r) PROVE IInv'
  <2>1. TypeOK'
    BY <1>15 DEF JoinWriter, Move, TypeOK, JobStates, WriterStates
  <2>2. InFlightExact'
    <3>1. \A q \in Repos : Outstanding(q)' = Outstanding(q)
      BY <1>15 DEF JoinWriter, Move, TypeOK, JobStates, Outstanding, Accepted
    <3> QED
      BY <3>1, <1>15 DEF JoinWriter, InFlightExact
  <2>3. WorkerInv'
    BY <1>15 DEF JoinWriter, Move, TypeOK, JobStates, WriterStates, WorkerInv
  <2>4. CurrentInv'
    BY <1>15 DEF JoinWriter, Move, TypeOK, JobStates, WriterStates, CurrentInv
  <2>5. QueueInv'
    BY <1>15 DEF JoinWriter, Move, TypeOK, JobStates, QueueInv
  <2>6. CallbackInv'
    BY <1>15 DEF JoinWriter, Move, TypeOK, JobStates, CallbackInv, Submitting
  <2>7. StopInv'
    <3>1. \A q \in Repos : StopSent(q)' => StopSent(q)
      BY <1>15 DEF JoinWriter, TypeOK, StopSent
    <3>2. \A k \in Jobs : job'[k] \in Accepted => job[k] \in Accepted
      BY <1>15 DEF JoinWriter, Move, TypeOK, Accepted
    <3> QED
      BY <3>1, <3>2, <1>15, StopInvKept DEF JoinWriter
  <2>8. UntimedCloseStrandsNothing'
    BY <1>15 DEF JoinWriter, Move, TypeOK, JobStates, UntimedCloseStrandsNothing, NothingStranded
  <2> QED
    BY <2>1, <2>2, <2>3, <2>4, <2>5, <2>6, <2>7, <2>8
<1>16. ASSUME NEW timed \in BOOLEAN, Close(timed) PROVE IInv'
  <2>1. TypeOK'
    BY <1>16 DEF Close, Move, TypeOK, JobStates, WriterStates
  <2>2. InFlightExact'
    <3>1. \A q \in Repos : Outstanding(q)' = Outstanding(q)
      BY <1>16 DEF Close, Move, TypeOK, JobStates, Outstanding, Accepted
    <3> QED
      BY <3>1, <1>16 DEF Close, InFlightExact
  <2>3. WorkerInv'
    BY <1>16 DEF Close, Move, TypeOK, JobStates, WriterStates, WorkerInv
  <2>4. CurrentInv'
    BY <1>16 DEF Close, Move, TypeOK, JobStates, WriterStates, CurrentInv
  <2>5. QueueInv'
    BY <1>16 DEF Close, Move, TypeOK, JobStates, QueueInv
  <2>6. CallbackInv'
    BY <1>16 DEF Close, Move, TypeOK, JobStates, CallbackInv, Submitting
  <2>7. StopInv'
    BY <1>16 DEF Close, Move, TypeOK, JobStates, StopInv, StopSent, Accepted, Closed
  <2>8. UntimedCloseStrandsNothing'
    <3>1. \A r \in Repos : ~StopSent(r)
      BY <1>16 DEF Close, StopInv
    <3> QED
      BY <3>1, <1>16 DEF Close, StopSent, UntimedCloseStrandsNothing, NothingStranded
  <2> QED
    BY <2>1, <2>2, <2>3, <2>4, <2>5, <2>6, <2>7, <2>8
<1>17. ASSUME SnapshotWorkers PROVE IInv'
  <2>1. TypeOK'
    BY <1>17 DEF SnapshotWorkers, Move, TypeOK, JobStates, WriterStates
  <2>2. InFlightExact'
    <3>1. \A q \in Repos : Outstanding(q)' = Outstanding(q)
      BY <1>17 DEF SnapshotWorkers, Move, TypeOK, JobStates, Outstanding, Accepted
    <3> QED
      BY <3>1, <1>17 DEF SnapshotWorkers, InFlightExact
  <2>3. WorkerInv'
    BY <1>17 DEF SnapshotWorkers, Move, TypeOK, JobStates, WriterStates, WorkerInv
  <2>4. CurrentInv'
    BY <1>17 DEF SnapshotWorkers, Move, TypeOK, JobStates, WriterStates, CurrentInv
  <2>5. QueueInv'
    BY <1>17 DEF SnapshotWorkers, Move, TypeOK, JobStates, QueueInv
  <2>6. CallbackInv'
    BY <1>17 DEF SnapshotWorkers, Move, TypeOK, JobStates, CallbackInv, Submitting
  <2>7. StopInv'
    BY <1>17 DEF SnapshotWorkers, Move, TypeOK, JobStates, StopInv, StopSent, Accepted, Closed
  <2>8. UntimedCloseStrandsNothing'
    BY <1>17 DEF SnapshotWorkers, Move, TypeOK, JobStates, UntimedCloseStrandsNothing, NothingStranded
  <2> QED
    BY <2>1, <2>2, <2>3, <2>4, <2>5, <2>6, <2>7, <2>8
<1>18. ASSUME CloseReturns PROVE IInv'
  <2>1. TypeOK'
    BY <1>18 DEF CloseReturns, Move, TypeOK, JobStates, WriterStates
  <2>2. InFlightExact'
    <3>1. \A q \in Repos : Outstanding(q)' = Outstanding(q)
      BY <1>18 DEF CloseReturns, Move, TypeOK, JobStates, Outstanding, Accepted
    <3> QED
      BY <3>1, <1>18 DEF CloseReturns, InFlightExact
  <2>3. WorkerInv'
    BY <1>18 DEF CloseReturns, Move, TypeOK, JobStates, WriterStates, WorkerInv
  <2>4. CurrentInv'
    BY <1>18 DEF CloseReturns, Move, TypeOK, JobStates, WriterStates, CurrentInv
  <2>5. QueueInv'
    BY <1>18 DEF CloseReturns, Move, TypeOK, JobStates, QueueInv
  <2>6. CallbackInv'
    BY <1>18 DEF CloseReturns, Move, TypeOK, JobStates, CallbackInv, Submitting
  <2>7. StopInv'
    BY <1>18 DEF CloseReturns, Move, TypeOK, JobStates, StopInv, StopSent, Accepted, Closed
  <2>8. UntimedCloseStrandsNothing'
    BY <1>18 DEF CloseReturns, Move, TypeOK, JobStates, UntimedCloseStrandsNothing, NothingStranded
  <2> QED
    BY <2>1, <2>2, <2>3, <2>4, <2>5, <2>6, <2>7, <2>8
<1>19. CASE UNCHANGED vars
  BY <1>19 DEF TypeOK, InFlightExact, Outstanding, WorkerInv, CurrentInv, QueueInv,
     CallbackInv, StopInv, StopSent, UntimedCloseStrandsNothing, NothingStranded
<1> QED
  BY <1>1, <1>2, <1>3, <1>4, <1>5, <1>6, <1>7, <1>8, <1>9, <1>10, <1>11, <1>12, <1>13, <1>14, <1>15, <1>16, <1>17, <1>18, <1>19
     DEF Next, SubmitStep, WriterStep, CloseStep, Finished

\* What the inductive invariant is for.
LEMMA IInvImplies ==
    IInv => TypeOK /\ InFlightExact /\ UntimedCloseStrandsNothing /\ OneWriterOneJob
BY ConstantsAssumption DEF IInv, OneWriterOneJob, WorkerInv, CurrentInv

\* The invariant holds in every reachable state.
LEMMA Invariance == Spec => []IInv
BY InitIInv, StepIInv, PTL DEF Spec

\* Every variable keeps its type; in particular _in_flight never goes below zero.
THEOREM TypeCorrect == Spec => []TypeOK
BY Invariance, IInvImplies, PTL

\* _in_flight counts the accepted jobs that are not fully resolved.
THEOREM InFlightIsExact == Spec => []InFlightExact
BY Invariance, IInvImplies, PTL

\* close() without a timeout leaves no accepted job behind Stop.
THEOREM UntimedCloseIsSafe == Spec => []UntimedCloseStrandsNothing
BY Invariance, IInvImplies, PTL

\* One writer per repository, which runs one job at a time.
THEOREM WritesAreSerial == Spec => []OneWriterOneJob
BY Invariance, IInvImplies, PTL

-----------------------------------------------------------------------------
(* The queue implements SerialJobs *)

\* Stop is in a queue at most once.
OneStop(q) == \A i, k \in 1..Len(q) : StopsAt(q, i) /\ StopsAt(q, k) => i = k

\* What a repository has accepted has a published writer; once close() has its
\* snapshot, and without a timeout, only the writers not yet joined have any.
ClosingInv ==
    /\ \A r \in Repos : OneStop(queue[r])
    /\ \A j \in Jobs : job[j] \in Accepted => published[RepoOf[j]]
    /\ closer \in {"draining", "done"} /\ ~bounded
          => \A j \in Jobs : job[j] \in Accepted => RepoOf[j] \in toJoin
    /\ closer = "done" => toJoin = {}

\* A queue without Stop is its own jobs.
LEMMA NoStop == ASSUME NEW q \in Seq(Jobs \cup {Stop}), \A i \in 1..Len(q) : q[i] # Stop
                PROVE  WithoutStop(q) = q
BY DEF WithoutStop, StopsAt

\* Position by position, a queue without the one Stop it holds.
LEMMA StopAt ==
    ASSUME NEW q \in Seq(Jobs \cup {Stop}), OneStop(q), NEW s \in 1..Len(q), q[s] = Stop
    PROVE  /\ WithoutStop(q) = [i \in 1..(Len(q) - 1) |-> q[IF i < s THEN i ELSE i + 1]]
           /\ WithoutStop(q) \in Seq(Jobs)
           /\ Len(WithoutStop(q)) = Len(q) - 1
           /\ \A i \in 1..(Len(q) - 1) : WithoutStop(q)[i] = q[IF i < s THEN i ELSE i + 1]
<1>1. StopsAt(q, s)
  BY DEF StopsAt
<1>2. s = CHOOSE i \in 1..Len(q) : StopsAt(q, i)
  BY <1>1 DEF OneStop
<1>3. WithoutStop(q) = [i \in 1..(Len(q) - 1) |-> q[IF i < s THEN i ELSE i + 1]]
  BY <1>1, <1>2 DEF WithoutStop
<1>4. Len(q) - 1 \in Nat
  OBVIOUS
<1>5. ASSUME NEW i \in 1..(Len(q) - 1) PROVE q[IF i < s THEN i ELSE i + 1] \in Jobs
  <2>1. /\ (IF i < s THEN i ELSE i + 1) \in 1..Len(q)
        /\ (IF i < s THEN i ELSE i + 1) # s
    OBVIOUS
  <2>2. q[IF i < s THEN i ELSE i + 1] # Stop
    BY <1>1, <2>1 DEF OneStop, StopsAt
  <2> QED
    BY <2>1, <2>2
<1>6. WithoutStop(q) \in Seq(Jobs) /\ Len(WithoutStop(q)) = Len(q) - 1
  BY <1>3, <1>4, <1>5
<1> QED
  BY <1>3, <1>6

\* Such a queue holds jobs only.
LEMMA NoStopJobs ==
    ASSUME NEW q \in Seq(Jobs \cup {Stop}), \A i \in 1..Len(q) : q[i] # Stop
    PROVE  q \in Seq(Jobs)
<1>1. \A i \in 1..Len(q) : q[i] \in Jobs
  OBVIOUS
<1>2. q = [i \in 1..Len(q) |-> q[i]]
  OBVIOUS
<1>3. [i \in 1..Len(q) |-> q[i]] \in Seq(Jobs)
  BY <1>1
<1> QED
  BY <1>2, <1>3

\* close() puts Stop behind the jobs, which stay what they are.
LEMMA AppendStop ==
    ASSUME NEW q \in Seq(Jobs \cup {Stop}), \A i \in 1..Len(q) : q[i] # Stop
    PROVE  WithoutStop(Append(q, Stop)) = q
<1> DEFINE a == Append(q, Stop)
<1>1. a \in Seq(Jobs \cup {Stop}) /\ Len(a) = Len(q) + 1 /\ a[Len(q) + 1] = Stop
      /\ \A i \in 1..Len(q) : a[i] = q[i]
  BY AppendPositions
<1> HIDE DEF a
<1>2. Len(q) + 1 \in 1..Len(a) /\ OneStop(a)
  BY <1>1 DEF OneStop, StopsAt
<1>3. /\ WithoutStop(a) \in Seq(Jobs)
      /\ Len(WithoutStop(a)) = Len(q)
      /\ \A i \in 1..Len(q) : WithoutStop(a)[i] = a[i]
  BY <1>1, <1>2, StopAt
<1>4. WithoutStop(a) \in Seq(Jobs \cup {Stop})
  BY <1>3
<1>5. WithoutStop(a) = q
  BY <1>1, <1>3, <1>4, SeqEqual
<1> QED
  BY <1>5 DEF a

\* A job is put behind the jobs, on whichever side of Stop that is.
LEMMA AppendJob ==
    ASSUME NEW q \in Seq(Jobs \cup {Stop}), OneStop(q), NEW j \in Jobs
    PROVE  WithoutStop(Append(q, j)) = Append(WithoutStop(q), j)
<1> DEFINE a == Append(q, j)
<1>1. a \in Seq(Jobs \cup {Stop}) /\ Len(a) = Len(q) + 1 /\ a[Len(q) + 1] = j
      /\ \A i \in 1..Len(q) : a[i] = q[i]
  BY AppendPositions
<1>2. j # Stop
  BY ConstantsAssumption
<1>3. CASE \A i \in 1..Len(q) : q[i] # Stop
  <2>1. \A i \in 1..Len(a) : a[i] # Stop
    BY <1>1, <1>2, <1>3
  <2> QED
    BY <1>1, <1>3, <2>1, NoStop
<1>4. CASE \E i \in 1..Len(q) : q[i] = Stop
  <2>1. PICK s \in 1..Len(q) : q[s] = Stop
    BY <1>4
  <2> HIDE DEF a
  <2>2. s \in 1..Len(a) /\ a[s] = Stop /\ OneStop(a)
    BY <1>1, <1>2, <2>1 DEF OneStop, StopsAt
  <2>3. /\ WithoutStop(a) \in Seq(Jobs)
        /\ Len(WithoutStop(a)) = Len(q)
        /\ \A i \in 1..Len(q) : WithoutStop(a)[i] = a[IF i < s THEN i ELSE i + 1]
    <3>1. Len(a) - 1 = Len(q)
      BY <1>1
    <3> QED
      BY <1>1, <2>2, <3>1, StopAt
  <2>4. /\ WithoutStop(q) \in Seq(Jobs)
        /\ Len(WithoutStop(q)) = Len(q) - 1
        /\ \A i \in 1..(Len(q) - 1) : WithoutStop(q)[i] = q[IF i < s THEN i ELSE i + 1]
    BY <2>1, StopAt
  <2> DEFINE w == WithoutStop(q)
             b == Append(w, j)
  <2>5. /\ b \in Seq(Jobs) /\ Len(b) = Len(q) /\ b[Len(q)] = j
        /\ \A i \in 1..(Len(q) - 1) : b[i] = w[i]
    BY <2>4, AppendPositions
  <2>6. ASSUME NEW i \in 1..Len(q) PROVE WithoutStop(a)[i] = b[i]
    <3>1. CASE i = Len(q)
      BY <1>1, <2>3, <2>5, <3>1
    <3>2. CASE i # Len(q)
      <4>1. i \in 1..(Len(q) - 1) /\ (IF i < s THEN i ELSE i + 1) \in 1..Len(q)
        BY <3>2
      <4> QED
        BY <1>1, <2>3, <2>4, <2>5, <4>1
    <3> QED
      BY <3>1, <3>2
  <2> HIDE DEF b, w
  <2>7. WithoutStop(a) = b
    BY <2>3, <2>5, <2>6, SeqEqual
  <2> QED
    BY <2>7 DEF a, b, w
<1> QED
  BY <1>3, <1>4

\* Taking Stop takes no job.
LEMMA DropStop ==
    ASSUME NEW q \in Seq(Jobs \cup {Stop}), OneStop(q), q # <<>>, Head(q) = Stop
    PROVE  WithoutStop(Tail(q)) = WithoutStop(q)
<1> DEFINE t == Tail(q)
<1>1. /\ t \in Seq(Jobs \cup {Stop}) /\ Len(t) = Len(q) - 1 /\ Len(q) \in Nat \ {0}
      /\ \A i \in 1..Len(t) : t[i] = q[i + 1]
      /\ q[1] = Stop
  BY TailPositions
<1> HIDE DEF t
<1>2. \A i \in 1..Len(t) : t[i] # Stop
  BY <1>1 DEF OneStop, StopsAt
<1>3. WithoutStop(t) = t /\ t \in Seq(Jobs)
  BY <1>1, <1>2, NoStop, NoStopJobs
<1>4. /\ WithoutStop(q) \in Seq(Jobs)
      /\ Len(WithoutStop(q)) = Len(t)
      /\ \A i \in 1..Len(t) : WithoutStop(q)[i] = q[i + 1]
  BY <1>1, StopAt
<1>5. WithoutStop(q) = t
  BY <1>1, <1>3, <1>4, SeqEqual
<1> QED
  BY <1>3, <1>5 DEF t

\* Taking a job takes the first of the jobs, wherever Stop is.
LEMMA DropJob ==
    ASSUME NEW q \in Seq(Jobs \cup {Stop}), OneStop(q), q # <<>>, Head(q) # Stop
    PROVE  /\ WithoutStop(q) # <<>>
           /\ Head(WithoutStop(q)) = Head(q)
           /\ WithoutStop(Tail(q)) = Tail(WithoutStop(q))
<1> DEFINE t == Tail(q)
           w == WithoutStop(q)
<1>1. /\ t \in Seq(Jobs \cup {Stop}) /\ Len(t) = Len(q) - 1 /\ Len(q) \in Nat \ {0}
      /\ \A i \in 1..Len(t) : t[i] = q[i + 1]
      /\ Head(q) = q[1] /\ q[1] # Stop
  BY TailPositions
<1>2. CASE \A i \in 1..Len(q) : q[i] # Stop
  <2>1. \A i \in 1..Len(t) : t[i] # Stop
    BY <1>1, <1>2
  <2> QED
    BY <1>1, <1>2, <2>1, NoStop
<1>3. CASE \E i \in 1..Len(q) : q[i] = Stop
  <2>1. PICK s \in 1..Len(q) : q[s] = Stop
    BY <1>3
  <2>2. s # 1 /\ Len(q) > 1
    BY <1>1, <2>1
  <2>3. /\ w \in Seq(Jobs)
        /\ Len(w) = Len(q) - 1
        /\ \A i \in 1..(Len(q) - 1) : w[i] = q[IF i < s THEN i ELSE i + 1]
    BY <2>1, StopAt
  <2> HIDE DEF w, t
  <2>4. w # <<>> /\ w[1] = q[1]
    BY <2>2, <2>3
  <2>5. /\ Tail(w) \in Seq(Jobs) /\ Len(Tail(w)) = Len(q) - 2 /\ Head(w) = w[1]
        /\ \A i \in 1..(Len(q) - 2) : Tail(w)[i] = w[i + 1]
    BY <2>3, <2>4, TailPositions
  <2>6. s - 1 \in 1..Len(t) /\ t[s - 1] = Stop /\ OneStop(t)
    BY <1>1, <2>1, <2>2 DEF OneStop, StopsAt
  <2>7. /\ WithoutStop(t) \in Seq(Jobs)
        /\ Len(WithoutStop(t)) = Len(q) - 2
        /\ \A i \in 1..(Len(q) - 2) : WithoutStop(t)[i] = t[IF i < s - 1 THEN i ELSE i + 1]
    <3>1. Len(t) - 1 = Len(q) - 2
      BY <1>1
    <3> QED
      BY <1>1, <2>6, <3>1, StopAt
  <2>8. ASSUME NEW i \in 1..(Len(q) - 2) PROVE WithoutStop(t)[i] = Tail(w)[i]
    <3>1. i + 1 \in 1..(Len(q) - 1) /\ i \in 1..Len(t) /\ i + 1 \in 1..Len(t)
      BY <1>1
    <3>2. CASE i < s - 1
      <4>1. i + 1 < s
        BY <3>2
      <4> QED
        BY <1>1, <2>3, <2>5, <2>7, <3>1, <3>2, <4>1
    <3>3. CASE ~(i < s - 1)
      <4>1. ~(i + 1 < s)
        BY <3>3
      <4> QED
        BY <1>1, <2>3, <2>5, <2>7, <3>1, <3>3, <4>1
    <3> QED
      BY <3>2, <3>3
  <2>9. WithoutStop(t) = Tail(w)
    BY <2>5, <2>7, <2>8, SeqEqual
  <2> QED
    BY <1>1, <2>4, <2>5, <2>9 DEF w, t
<1> QED
  BY <1>2, <1>3

\* A queue nobody has submitted to.
LEMMA InitClosingInv == Init => ClosingInv
BY DEF Init, ClosingInv, OneStop, StopsAt, Accepted

\* A step that accepts nothing, touches no queue and is none of close().
LEMMA ClosingInvKept ==
    ASSUME ClosingInv, UNCHANGED <<queue, closer, bounded, toJoin>>,
           \A r \in Repos : published[r] => published'[r],
           \A j \in Jobs : job'[j] \in Accepted => job[j] \in Accepted
    PROVE  ClosingInv'
BY ConstantsAssumption DEF ClosingInv

\* The outcome of the locked section of submit: after close() only a job whose
\* parent is still resolving in the same repository is accepted.
LEMMA EnqueueFrame ==
    ASSUME IInv, NEW j \in Jobs, Enqueue(j)
    PROVE  /\ job[j] = "enqueuing" /\ RepoOf[j] \in Repos /\ published[RepoOf[j]]
           /\ UNCHANGED <<published, closer, bounded, toJoin>>
           /\ \/ job' = [job EXCEPT ![j] = "refused"] /\ queue' = queue
              \/ /\ job' = [job EXCEPT ![j] = "queued"]
                 /\ queue' = [queue EXCEPT ![RepoOf[j]] = Append(@, j)]
                 /\ \/ closer = "open"
                    \/ /\ Parent[j] \in Jobs /\ RepoOf[Parent[j]] = RepoOf[j]
                       /\ job[Parent[j]] = "resolving"
<1> USE ConstantsAssumption DEF IInv
<1>1. job[j] = "enqueuing" /\ RepoOf[j] \in Repos /\ published[RepoOf[j]]
  BY DEF Enqueue, WorkerInv
<1>2. Reentrant(j) => /\ Parent[j] \in Jobs /\ RepoOf[Parent[j]] = RepoOf[j]
                      /\ job[Parent[j]] = "resolving"
  BY <1>1 DEF Reentrant, CallbackInv, Submitting
<1> QED
  BY <1>1, <1>2 DEF Enqueue, Closed, Move, workerVars, queueVars, closeVars

\* Every step preserves ClosingInv.
LEMMA StepClosingInv == IInv /\ ClosingInv /\ [Next]_vars => ClosingInv'
<1> SUFFICES ASSUME IInv, ClosingInv, [Next]_vars PROVE ClosingInv'
  OBVIOUS
<1> USE ConstantsAssumption DEF IInv, vars, jobVars, workerVars, queueVars, closeVars
<1>1. ASSUME NEW j \in Jobs,
             SubmitOnThread(j) \/ SubmitOnWriter(j) \/ FindWorker(j) \/ StartWorker(j)
      PROVE  ClosingInv'
  <2>1. \A k \in Jobs : job'[k] \in Accepted => job[k] \in Accepted
    BY <1>1 DEF SubmitOnThread, SubmitOnWriter, FindWorker, StartWorker, Move, Accepted, TypeOK
  <2> QED
    BY <1>1, <2>1, ClosingInvKept DEF SubmitOnThread, SubmitOnWriter, FindWorker, StartWorker
<1>2. ASSUME NEW j \in Jobs, PublishWorker(j) PROVE ClosingInv'
  <2>1. /\ \A k \in Jobs : job'[k] \in Accepted => job[k] \in Accepted
        /\ \A r \in Repos : published[r] => published'[r]
    BY <1>2 DEF PublishWorker, Move, Accepted, TypeOK
  <2> QED
    BY <1>2, <2>1, ClosingInvKept DEF PublishWorker
<1>3. ASSUME NEW j \in Jobs, Enqueue(j) PROVE ClosingInv'
  <2>1. CASE job' = [job EXCEPT ![j] = "refused"] /\ queue' = queue
    <3>1. \A k \in Jobs : job'[k] \in Accepted => job[k] \in Accepted
      BY <2>1 DEF Accepted, TypeOK
    <3> QED
      BY <1>3, <2>1, <3>1, EnqueueFrame, ClosingInvKept
  <2>2. CASE /\ job' = [job EXCEPT ![j] = "queued"]
             /\ queue' = [queue EXCEPT ![RepoOf[j]] = Append(@, j)]
             /\ \/ closer = "open"
                \/ /\ Parent[j] \in Jobs /\ RepoOf[Parent[j]] = RepoOf[j]
                   /\ job[Parent[j]] = "resolving"
    <3>1. \A r \in Repos : OneStop(queue'[r])
      BY <1>3, <2>2, EnqueueFrame, AppendPositions DEF ClosingInv, OneStop, StopsAt, TypeOK
    <3>2. closer \in {"draining", "done"} /\ ~bounded => RepoOf[j] \in toJoin
      BY <2>2 DEF ClosingInv, Accepted
    <3>3. \A k \in Jobs : job'[k] \in Accepted => job[k] \in Accepted \/ k = j
      BY <2>2 DEF TypeOK
    <3> QED
      BY <1>3, <3>1, <3>2, <3>3, EnqueueFrame DEF ClosingInv
  <2> QED
    BY <1>3, <2>1, <2>2, EnqueueFrame
<1>4. ASSUME NEW r \in Repos, OpenConnection(r) \/ Hang(r) PROVE ClosingInv'
  BY <1>4, ClosingInvKept DEF OpenConnection, Hang
<1>5. ASSUME NEW r \in Repos, OpenFails(r) PROVE ClosingInv'
  <2>1. \A k \in Jobs : job'[k] \in Accepted => job[k] \in Accepted
    BY <1>5 DEF OpenFails, Move, Accepted, TypeOK
  <2> QED
    BY <1>5, <2>1, ClosingInvKept DEF OpenFails
<1>6. ASSUME NEW r \in Repos, TakeJob(r) PROVE ClosingInv'
  <2>1. /\ Head(queue[r]) \in Jobs /\ job[Head(queue[r])] = "queued"
        /\ queue[r] \in Seq(Jobs \cup {Stop}) /\ queue[r] # <<>>
    BY <1>6, TailPositions DEF TakeJob, TypeOK, QueueInv
  <2>2. \A k \in Jobs : job'[k] \in Accepted => job[k] \in Accepted
    BY <1>6, <2>1 DEF TakeJob, Move, Accepted, TypeOK
  <2>3. OneStop(Tail(queue[r]))
    BY <2>1, TailPositions DEF ClosingInv, OneStop, StopsAt
  <2> QED
    BY <1>6, <2>2, <2>3 DEF TakeJob, ClosingInv, TypeOK
<1>7. ASSUME NEW r \in Repos, TakeStop(r) PROVE ClosingInv'
  <2>1. queue[r] \in Seq(Jobs \cup {Stop}) /\ queue[r] # <<>>
    BY <1>7 DEF TakeStop, TypeOK
  <2>2. OneStop(Tail(queue[r]))
    BY <2>1, TailPositions DEF ClosingInv, OneStop, StopsAt
  <2> QED
    BY <1>7, <2>2 DEF TakeStop, ClosingInv, TypeOK
<1>8. ASSUME NEW r \in Repos, Resolve(r) \/ MarkResolved(r) PROVE ClosingInv'
  <2>1. current[r] \in Jobs /\ job[current[r]] \in Accepted
    BY <1>8 DEF Resolve, MarkResolved, CurrentInv, Accepted
  <2>2. \A k \in Jobs : job'[k] \in Accepted => job[k] \in Accepted
    BY <1>8, <2>1 DEF Resolve, MarkResolved, Move, TypeOK
  <2> QED
    BY <1>8, <2>2, ClosingInvKept DEF Resolve, MarkResolved
<1>9. ASSUME NEW r \in Repos, PutStop(r) PROVE ClosingInv'
  <2>1. \A i \in 1..Len(queue[r]) : queue[r][i] # Stop
    BY <1>9 DEF PutStop, StopInv, StopSent
  <2>2. OneStop(Append(queue[r], Stop))
    BY <2>1, AppendPositions DEF OneStop, StopsAt, TypeOK
  <2> QED
    BY <1>9, <2>2 DEF PutStop, ClosingInv, TypeOK
<1>10. ASSUME NEW r \in Repos, JoinWriter(r) PROVE ClosingInv'
  <2>1. ~bounded => \A j \in Jobs : RepoOf[j] = r => job[j] \notin Accepted
    BY <1>10 DEF JoinWriter, StopInv, StopSent
  <2> QED
    BY <1>10, <2>1 DEF JoinWriter, ClosingInv
<1>11. ASSUME NEW timed \in BOOLEAN, Close(timed) PROVE ClosingInv'
  BY <1>11 DEF Close, ClosingInv
<1>12. CASE SnapshotWorkers
  BY <1>12 DEF SnapshotWorkers, ClosingInv
<1>13. CASE CloseReturns
  BY <1>13 DEF CloseReturns, ClosingInv
<1>14. CASE UNCHANGED vars
  BY <1>14 DEF ClosingInv
<1> QED
  BY <1>1, <1>2, <1>3, <1>4, <1>5, <1>6, <1>7, <1>8, <1>9, <1>10, <1>11, <1>12, <1>13, <1>14
     DEF Next, SubmitStep, WriterStep, CloseStep, Finished

\* What a step on the caller's side of a job is called there.
LEMMA AbstractSteps ==
    ASSUME NEW j \in Jobs, NEW r \in Repos
    PROVE  /\ /\ Status[j] = "none" /\ Status' = [Status EXCEPT ![j] = "refused"]
              /\ Line' = Line /\ Phase' = Phase
              => Service!Refuse(j)
           /\ /\ Status[j] = "none" /\ Status' = [Status EXCEPT ![j] = "waiting"]
              /\ Line' = [Line EXCEPT ![RepoOf[j]] = Append(@, j)] /\ Phase' = Phase
              /\ \/ Phase = "open"
                 \/ /\ Phase = "closing" /\ Parent[j] # NoJob /\ RepoOf[Parent[j]] = RepoOf[j]
                    /\ Status[Parent[j]] = "answered"
              => Service!Accept(j)
           /\ /\ Line[r] # <<>> /\ Head(Line[r]) = j
              /\ \A k \in Jobs : RepoOf[k] = r => Status[k] # "running"
              /\ Status' = [Status EXCEPT ![j] = "running"]
              /\ Line' = [Line EXCEPT ![r] = Tail(@)] /\ Phase' = Phase
              => Service!Begin(r)
           /\ /\ Status[j] = "running" /\ Status' = [Status EXCEPT ![j] = "answered"]
              /\ Line' = Line /\ Phase' = Phase
              => Service!Answer(j)
BY DEF Service!Refuse, Service!Accept, Service!FollowUp, Service!Begin, Service!Answer

\* A step that leaves no trace on the caller's side.
LEMMA Unseen ==
    ASSUME Status' = Status, Line' = Line, Phase' = Phase
    PROVE  UNCHANGED Service!vars
BY DEF Service!vars

\* One job moves to another state.
LEMMA Moved ==
    ASSUME TypeOK, NEW j \in Jobs, NEW s, job' = [job EXCEPT ![j] = s]
    PROVE  /\ Status' = [Status EXCEPT ![j] = StatusOf(s)]
           /\ StatusOf(s) = StatusOf(job[j]) => Status' = Status
BY DEF Status, TypeOK

\* Phase changes only with closer and bounded, Line only with a queue.
LEMMA Still ==
    /\ closer' = closer /\ bounded' = bounded => Phase' = Phase
    /\ queue' = queue => Line' = Line
BY DEF Phase, Line

\* Every step of the queue is a step of the service or is not seen there.
LEMMA StepMaps ==
    IInv /\ ClosingInv /\ [Next]_vars => [Service!Next]_(Service!vars)
<1> SUFFICES ASSUME IInv, ClosingInv, [Next]_vars PROVE [Service!Next]_(Service!vars)
  OBVIOUS
<1> USE ConstantsAssumption DEF IInv, vars, jobVars, workerVars, queueVars, closeVars
<1>1. ASSUME NEW j \in Jobs, SubmitOnThread(j) \/ SubmitOnWriter(j)
      PROVE  Service!Refuse(j) \/ UNCHANGED Service!vars
  <2>1. job[j] = "new" /\ Status[j] = "none" /\ Line' = Line /\ Phase' = Phase
    BY <1>1, Still DEF SubmitOnThread, SubmitOnWriter, Status, StatusOf
  <2>2. PICK s \in {"refused", "admitted"} : job' = [job EXCEPT ![j] = s]
    BY <1>1 DEF SubmitOnThread, SubmitOnWriter, Move
  <2>3. CASE s = "refused"
    BY <2>1, <2>2, <2>3, Moved, AbstractSteps DEF StatusOf
  <2>4. CASE s = "admitted"
    BY <2>1, <2>2, <2>4, Moved, Unseen DEF StatusOf
  <2> QED
    BY <2>2, <2>3, <2>4
<1>2. ASSUME NEW j \in Jobs, FindWorker(j) \/ StartWorker(j) \/ PublishWorker(j)
      PROVE  UNCHANGED Service!vars
  <2>1. job[j] \in {"admitted", "creating"} /\ Line' = Line /\ Phase' = Phase
    BY <1>2, Still DEF FindWorker, StartWorker, PublishWorker
  <2>2. PICK s \in {"creating", "enqueuing"} : job' = [job EXCEPT ![j] = s]
    BY <1>2 DEF FindWorker, StartWorker, PublishWorker, Move
  <2> QED
    BY <2>1, <2>2, Moved, Unseen DEF StatusOf
<1>3. ASSUME NEW j \in Jobs, Enqueue(j) PROVE Service!Refuse(j) \/ Service!Accept(j)
  <2>1. job[j] = "enqueuing" /\ Status[j] = "none" /\ RepoOf[j] \in Repos /\ Phase' = Phase
    BY <1>3, EnqueueFrame, Still DEF Status, StatusOf
  <2>2. CASE job' = [job EXCEPT ![j] = "refused"] /\ queue' = queue
    BY <2>1, <2>2, Moved, Still, AbstractSteps DEF StatusOf
  <2>3. CASE /\ job' = [job EXCEPT ![j] = "queued"]
             /\ queue' = [queue EXCEPT ![RepoOf[j]] = Append(@, j)]
             /\ \/ closer = "open"
                \/ /\ Parent[j] \in Jobs /\ RepoOf[Parent[j]] = RepoOf[j]
                   /\ job[Parent[j]] = "resolving"
    <3>1. Line' = [Line EXCEPT ![RepoOf[j]] = Append(@, j)]
      <4>1. WithoutStop(Append(queue[RepoOf[j]], j)) = Append(WithoutStop(queue[RepoOf[j]]), j)
        BY <2>1, AppendJob DEF ClosingInv, TypeOK
      <4> QED
        BY <2>1, <2>3, <4>1 DEF Line, TypeOK
    <3>2. CASE closer = "open"
      <4>1. Phase = "open"
        BY <3>2 DEF Phase
      <4> QED
        BY <2>1, <2>3, <3>1, <4>1, Moved, AbstractSteps DEF StatusOf
    <3>3. CASE /\ closer # "open"
               /\ Parent[j] \in Jobs /\ RepoOf[Parent[j]] = RepoOf[j]
               /\ job[Parent[j]] = "resolving"
      <4>1. closer = "done" => bounded
        BY <3>3 DEF ClosingInv, Accepted
      <4>2. Phase = "closing" /\ Parent[j] # NoJob /\ Status[Parent[j]] = "answered"
        BY <3>3, <4>1 DEF Phase, Status, StatusOf
      <4> QED
        BY <2>1, <2>3, <3>1, <3>3, <4>2, Moved, AbstractSteps DEF StatusOf
    <3> QED
      BY <2>3, <3>2, <3>3
  <2> QED
    BY <1>3, <2>2, <2>3, EnqueueFrame
<1>4. ASSUME NEW r \in Repos, OpenConnection(r) \/ Hang(r) PROVE UNCHANGED Service!vars
  <2>1. Status' = Status
    BY <1>4 DEF OpenConnection, Hang, Status
  <2> QED
    BY <1>4, <2>1, Still, Unseen DEF OpenConnection, Hang
<1>5. ASSUME NEW r \in Repos, OpenFails(r)
      PROVE  creator[r] \in Jobs /\ Service!Refuse(creator[r])
  <2>1. creator[r] \in Jobs /\ job[creator[r]] = "creating"
    BY <1>5 DEF OpenFails, WorkerInv
  <2>2. Status[creator[r]] = "none" /\ Line' = Line /\ Phase' = Phase
    BY <1>5, <2>1, Still DEF OpenFails, Status, StatusOf
  <2>3. Status' = [Status EXCEPT ![creator[r]] = "refused"]
    BY <1>5, <2>1, Moved DEF OpenFails, Move, StatusOf
  <2> QED
    BY <2>1, <2>2, <2>3, AbstractSteps
<1>6. ASSUME NEW r \in Repos, TakeJob(r) PROVE Service!Begin(r)
  <2>1. PICK j \in Jobs : j = Head(queue[r])
    BY <1>6, TailPositions DEF TakeJob, TypeOK
  <2>2. queue[r] \in Seq(Jobs \cup {Stop}) /\ queue[r] # <<>> /\ OneStop(queue[r]) /\ j # Stop
    BY <1>6, <2>1 DEF TakeJob, ClosingInv, TypeOK
  <2>3. /\ Line[r] # <<>> /\ Head(Line[r]) = j
        /\ Line' = [Line EXCEPT ![r] = Tail(@)]
    BY <1>6, <2>1, <2>2, DropJob DEF TakeJob, Line, TypeOK
  <2>4. \A k \in Jobs : RepoOf[k] = r => Status[k] # "running"
    <3>1. \A k \in Jobs : RepoOf[k] = r => job[k] # "running"
      BY <1>6 DEF TakeJob, CurrentInv
    <3>2. \A k \in Jobs : job[k] \in JobStates
      BY DEF TypeOK
    <3> QED
      BY <3>1, <3>2 DEF Status, StatusOf, JobStates
  <2>5. Status' = [Status EXCEPT ![j] = "running"]
    BY <1>6, <2>1, Moved DEF TakeJob, Move, StatusOf
  <2> QED
    BY <1>6, <2>3, <2>4, <2>5, Still, AbstractSteps DEF TakeJob
<1>7. ASSUME NEW r \in Repos, TakeStop(r) PROVE UNCHANGED Service!vars
  <2>1. queue[r] \in Seq(Jobs \cup {Stop}) /\ OneStop(queue[r])
    BY DEF ClosingInv, TypeOK
  <2>2. Line' = Line
    BY <1>7, <2>1, DropStop DEF TakeStop, Line, TypeOK
  <2>3. Status' = Status
    BY <1>7 DEF TakeStop, Status
  <2> QED
    BY <1>7, <2>2, <2>3, Still, Unseen DEF TakeStop
<1>8. ASSUME NEW r \in Repos, Resolve(r)
      PROVE  current[r] \in Jobs /\ Service!Answer(current[r])
  <2>1. current[r] \in Jobs /\ job[current[r]] = "running"
    BY <1>8 DEF Resolve, CurrentInv
  <2>2. Status[current[r]] = "running" /\ Line' = Line /\ Phase' = Phase
    BY <1>8, <2>1, Still DEF Resolve, Status, StatusOf
  <2>3. Status' = [Status EXCEPT ![current[r]] = "answered"]
    BY <1>8, <2>1, Moved DEF Resolve, Move, StatusOf
  <2> QED
    BY <2>1, <2>2, <2>3, AbstractSteps
<1>9. ASSUME NEW r \in Repos, MarkResolved(r) PROVE UNCHANGED Service!vars
  <2>1. current[r] \in Jobs /\ job[current[r]] = "resolving"
    BY <1>9 DEF MarkResolved, CurrentInv
  <2>2. Status' = Status
    <3>1. StatusOf("resolved") = StatusOf(job[current[r]])
      BY <2>1 DEF StatusOf
    <3>2. job' = [job EXCEPT ![current[r]] = "resolved"]
      BY <1>9 DEF MarkResolved, Move
    <3> QED
      BY <2>1, <3>1, <3>2, Moved
  <2> QED
    BY <1>9, <2>2, Still, Unseen DEF MarkResolved
<1>10. ASSUME NEW r \in Repos, PutStop(r) PROVE UNCHANGED Service!vars
  <2>1. \A i \in 1..Len(queue[r]) : queue[r][i] # Stop
    BY <1>10 DEF PutStop, StopInv, StopSent
  <2>2. WithoutStop(Append(queue[r], Stop)) = WithoutStop(queue[r])
    BY <2>1, AppendStop, NoStop DEF TypeOK
  <2>3. Line' = Line
    BY <1>10, <2>2 DEF PutStop, Line, TypeOK
  <2>4. Status' = Status
    BY <1>10 DEF PutStop, Status
  <2> QED
    BY <1>10, <2>3, <2>4, Still, Unseen DEF PutStop
<1>11. ASSUME NEW r \in Repos, JoinWriter(r) PROVE UNCHANGED Service!vars
  <2>1. Status' = Status
    BY <1>11 DEF JoinWriter, Status
  <2> QED
    BY <1>11, <2>1, Still, Unseen DEF JoinWriter
<1>12. ASSUME NEW timed \in BOOLEAN, Close(timed) PROVE Service!BeginClosing
  BY <1>12 DEF Close, Service!BeginClosing, Phase, Line, Status
<1>13. CASE SnapshotWorkers
  BY <1>13, Unseen DEF SnapshotWorkers, Phase, Line, Status
<1>14. CASE CloseReturns
  <2>1. Status' = Status /\ Line' = Line /\ Phase = "closing"
    BY <1>14, Still DEF CloseReturns, Status, Phase
  <2>2. CASE bounded
    BY <1>14, <2>1, <2>2, Unseen DEF CloseReturns, Phase
  <2>3. CASE ~bounded
    <3>1. \A j \in Jobs : job[j] \notin Accepted /\ job[j] \in JobStates
      BY <1>14, <2>3 DEF CloseReturns, ClosingInv, TypeOK
    <3>2. \A j \in Jobs : Status[j] \notin {"waiting", "running"}
      BY <3>1 DEF Status, StatusOf, JobStates, Accepted
    <3> QED
      BY <1>14, <2>1, <2>3, <3>2 DEF CloseReturns, Phase, Service!Shut, Service!Next
  <2> QED
    BY <2>2, <2>3
<1>15. CASE UNCHANGED vars
  BY <1>15, Unseen DEF Phase, Line, Status
<1> QED
  BY <1>1, <1>2, <1>3, <1>4, <1>5, <1>6, <1>7, <1>8, <1>9, <1>10, <1>11, <1>12, <1>13, <1>14, <1>15
     DEF Next, SubmitStep, WriterStep, CloseStep, Finished, Service!Next

\* The whole refinement: the queue is a first-in first-out service that runs one job
\* of a repository at a time, accepts nothing but follow-ups while it closes, and is
\* closed without a timeout only when every accepted job has run.
THEOREM QueueServes == Spec => ImplementsSerialJobs
<1>1. Init => Service!Init
  <2>1. Init => Line = [r \in Repos |-> <<>>]
    BY DEF Init, Line, WithoutStop
  <2> QED
    BY <2>1 DEF Init, Service!Init, Status, StatusOf, Phase
<1>2. IInv /\ ClosingInv /\ [Next]_vars => [Service!Next]_(Service!vars)
  BY StepMaps
<1> QED
  BY <1>1, <1>2, Invariance, InitClosingInv, StepClosingInv, PTL
     DEF Spec, ImplementsSerialJobs, Service!Spec

-----------------------------------------------------------------------------
(* Where the queue can come to rest *)

\* A queued job is in its queue, a published writer has a thread, and a writer that
\* close() has still to join was published and will be, or has been, sent Stop.
RestInv ==
    /\ \A j \in Jobs : job[j] = "queued" => \E i \in 1..Len(queue[RepoOf[j]]) : queue[RepoOf[j]][i] = j
    /\ \A r \in Repos : published[r] => writer[r] # "none"
    /\ \A r \in toJoin : published[r] /\ (r \in toStop \/ StopSent(r))

LEMMA InitRestInv == Init => RestInv
BY DEF Init, RestInv

\* A step that queues nothing and that no thread of a writer ends.
LEMMA RestInvKept ==
    ASSUME RestInv, toJoin \subseteq Repos, UNCHANGED <<queue, toStop, toJoin>>,
           \A j \in Jobs : job'[j] = "queued" => job[j] = "queued",
           \A r \in Repos : /\ published[r] => published'[r]
                            /\ published'[r] => writer'[r] # "none"
                            /\ writer[r] = "stopped" => writer'[r] = "stopped"
    PROVE  RestInv'
BY ConstantsAssumption DEF RestInv, StopSent

\* Every step preserves RestInv.
LEMMA StepRestInv == IInv /\ RestInv /\ [Next]_vars => RestInv'
<1> SUFFICES ASSUME IInv, RestInv, [Next]_vars PROVE RestInv'
  OBVIOUS
<1> USE ConstantsAssumption DEF IInv, vars, jobVars, workerVars, queueVars, closeVars
<1>1. ASSUME NEW j \in Jobs, SubmitOnThread(j) \/ SubmitOnWriter(j) \/ FindWorker(j)
      PROVE  RestInv'
  <2>1. \A k \in Jobs : job'[k] = "queued" => job[k] = "queued"
    BY <1>1 DEF SubmitOnThread, SubmitOnWriter, FindWorker, Move, TypeOK
  <2>2. UNCHANGED <<queue, toStop, toJoin, published, writer>>
    BY <1>1 DEF SubmitOnThread, SubmitOnWriter, FindWorker
  <2> QED
    BY <2>1, <2>2 DEF RestInv, StopSent
<1>2. ASSUME NEW j \in Jobs, StartWorker(j) \/ PublishWorker(j) PROVE RestInv'
  <2>1. \A k \in Jobs : job'[k] = "queued" => job[k] = "queued"
    BY <1>2 DEF StartWorker, PublishWorker, Move, TypeOK
  <2>2. \A r \in Repos : /\ published[r] => published'[r]
                         /\ published'[r] => writer'[r] # "none"
                         /\ writer[r] = "stopped" => writer'[r] = "stopped"
    <3>1. RepoOf[j] \in Repos
      OBVIOUS
    <3>2. CASE StartWorker(j)
      <4>1. /\ published' = published /\ ~published[RepoOf[j]]
            /\ \A r \in Repos : r # RepoOf[j] => writer'[r] = writer[r]
        BY <3>1, <3>2 DEF StartWorker, TypeOK
      <4>2. writer[RepoOf[j]] # "stopped"
        BY <3>1, <4>1 DEF WorkerInv
      <4> QED
        BY <4>1, <4>2 DEF RestInv
    <3>3. CASE PublishWorker(j)
      <4>1. /\ writer' = writer /\ writer[RepoOf[j]] = "idle" /\ published'[RepoOf[j]]
            /\ \A r \in Repos : r # RepoOf[j] => published'[r] = published[r]
        BY <3>1, <3>3 DEF PublishWorker, TypeOK
      <4> QED
        BY <4>1 DEF RestInv
    <3> QED
      BY <1>2, <3>2, <3>3
  <2> QED
    BY <1>2, <2>1, <2>2, RestInvKept DEF TypeOK, StartWorker, PublishWorker
<1>3. ASSUME NEW j \in Jobs, Enqueue(j) PROVE RestInv'
  <2>1. UNCHANGED <<published, writer, toStop, toJoin>>
    BY <1>3 DEF Enqueue
  <2>2. CASE queue' = queue /\ Move(j, "refused")
    <3>1. \A k \in Jobs : job'[k] = "queued" => job[k] = "queued"
      BY <2>2 DEF Move, TypeOK
    <3> QED
      BY <2>1, <2>2, <3>1 DEF RestInv, StopSent
  <2>3. CASE Move(j, "queued") /\ queue' = [queue EXCEPT ![RepoOf[j]] = Append(@, j)]
    <3>1. \A r \in Repos : Len(queue[r]) \in Nat
      BY DEF TypeOK
    <3>2. \A r \in Repos : /\ Len(queue[r]) <= Len(queue'[r])
                           /\ \A i \in 1..Len(queue[r]) : queue'[r][i] = queue[r][i]
      BY <2>3, AppendPositions DEF TypeOK
    <3>3. /\ Len(queue'[RepoOf[j]]) = Len(queue[RepoOf[j]]) + 1
          /\ queue'[RepoOf[j]][Len(queue[RepoOf[j]]) + 1] = j
      BY <2>3, AppendPositions DEF TypeOK
    <3>4. \A r \in Repos : /\ Len(queue'[r]) \in Nat
                           /\ \A i \in 1..Len(queue[r]) : i \in 1..Len(queue'[r])
      BY <2>3, <3>1, <3>2, AppendPositions DEF TypeOK
    <3>5. \A k \in Jobs : job'[k] = "queued" => k = j \/ job[k] = "queued"
      BY <2>3 DEF Move, TypeOK
    <3>6. Len(queue[RepoOf[j]]) + 1 \in 1..Len(queue'[RepoOf[j]])
      BY <3>1, <3>3
    <3>7. \A r \in Repos : StopSent(r) => StopSent(r)'
      BY <2>1, <3>2, <3>4 DEF StopSent
    <3>8. \A k \in Jobs : job'[k] = "queued" =>
             \E i \in 1..Len(queue'[RepoOf[k]]) : queue'[RepoOf[k]][i] = k
      BY <3>2, <3>3, <3>4, <3>5, <3>6 DEF RestInv
    <3>9. toJoin \subseteq Repos
      BY DEF TypeOK
    <3> QED
      BY <2>1, <3>7, <3>8, <3>9 DEF RestInv
  <2> QED
    BY <1>3, <2>2, <2>3 DEF Enqueue
<1>4. ASSUME NEW r \in Repos, OpenConnection(r) \/ OpenFails(r) \/ Hang(r) PROVE RestInv'
  <2>1. \A k \in Jobs : job'[k] = "queued" => job[k] = "queued"
    BY <1>4 DEF OpenConnection, OpenFails, Hang, Move, TypeOK
  <2>2. \A q \in Repos : /\ published[q] => published'[q]
                         /\ published'[q] => writer'[q] # "none"
                         /\ writer[q] = "stopped" => writer'[q] = "stopped"
    <3>1. /\ published' = published /\ writer[r] \in {"opening", "busy"}
          /\ writer'[r] = "none" => writer[r] = "opening"
          /\ \A q \in Repos : q # r => writer'[q] = writer[q]
      BY <1>4 DEF OpenConnection, OpenFails, Hang, TypeOK
    <3>2. writer[r] = "opening" => ~published[r]
      BY DEF WorkerInv
    <3> QED
      BY <3>1, <3>2 DEF RestInv
  <2> QED
    BY <1>4, <2>1, <2>2, RestInvKept DEF TypeOK, OpenConnection, OpenFails, Hang
<1>5. ASSUME NEW r \in Repos, Resolve(r) \/ MarkResolved(r) PROVE RestInv'
  <2>1. \A k \in Jobs : job'[k] = "queued" => job[k] = "queued"
    BY <1>5 DEF Resolve, MarkResolved, Move, TypeOK
  <2>2. \A q \in Repos : /\ published[q] => published'[q]
                         /\ published'[q] => writer'[q] # "none"
                         /\ writer[q] = "stopped" => writer'[q] = "stopped"
    BY <1>5 DEF Resolve, MarkResolved, TypeOK, RestInv
  <2> QED
    BY <1>5, <2>1, <2>2, RestInvKept DEF TypeOK, Resolve, MarkResolved
<1>6. ASSUME NEW r \in Repos, TakeJob(r) \/ TakeStop(r) PROVE RestInv'
  <2>1. /\ queue' = [queue EXCEPT ![r] = Tail(@)] /\ queue[r] # <<>> /\ writer[r] = "idle"
        /\ UNCHANGED <<published, toStop, toJoin>>
    BY <1>6 DEF TakeJob, TakeStop
  <2>2. /\ Len(queue'[r]) = Len(queue[r]) - 1 /\ Len(queue[r]) \in Nat \ {0}
        /\ \A i \in 1..Len(queue'[r]) : queue'[r][i] = queue[r][i + 1]
        /\ Head(queue[r]) = queue[r][1]
    BY <2>1, TailPositions DEF TypeOK
  <2>3. ASSUME NEW e, NEW i \in 1..Len(queue[r]), queue[r][i] = e, e # Head(queue[r])
        PROVE  \E k \in 1..Len(queue'[r]) : queue'[r][k] = e
    <3>1. i # 1
      BY <2>2, <2>3
    <3>2. i - 1 \in 1..Len(queue'[r]) /\ (i - 1) + 1 = i
      BY <2>2, <3>1
    <3> QED
      BY <2>2, <2>3, <3>2
  <2>4. \A q \in Repos : q # r => queue'[q] = queue[q]
    BY <2>1 DEF TypeOK
  <2>5. \A k \in Jobs : job'[k] = "queued" => job[k] = "queued" /\ k # Head(queue[r])
    <3>1. CASE TakeJob(r)
      <4>1. Head(queue[r]) \in Jobs
        <5>1. Head(queue[r]) \in Jobs \cup {Stop}
          BY <2>1, TailPositions DEF TypeOK
        <5> QED
          BY <3>1, <5>1 DEF TakeJob
      <4> QED
        BY <3>1, <4>1 DEF TakeJob, Move, TypeOK
    <3>2. CASE TakeStop(r)
      BY <3>2 DEF TakeStop, TypeOK
    <3> QED
      BY <1>6, <3>1, <3>2
  <2>6. ASSUME NEW k \in Jobs, job'[k] = "queued"
        PROVE  \E i \in 1..Len(queue'[RepoOf[k]]) : queue'[RepoOf[k]][i] = k
    <3>1. RepoOf[k] \in Repos /\ \E i \in 1..Len(queue[RepoOf[k]]) : queue[RepoOf[k]][i] = k
      BY <2>5, <2>6 DEF RestInv
    <3>2. CASE RepoOf[k] = r
      BY <2>3, <2>5, <2>6, <3>1, <3>2
    <3>3. CASE RepoOf[k] # r
      BY <2>4, <3>1, <3>3
    <3> QED
      BY <3>2, <3>3
  <2>7. \A q \in Repos : q # r => writer'[q] = writer[q]
    BY <1>6 DEF TakeJob, TakeStop, TypeOK
  <2>8. writer'[r] # "none"
    BY <1>6 DEF TakeJob, TakeStop, TypeOK
  <2>9. StopSent(r) => StopSent(r)'
    <3>1. CASE TakeJob(r)
      BY <2>1, <2>3, <3>1 DEF TakeJob, StopSent
    <3>2. CASE TakeStop(r)
      BY <3>2 DEF TakeStop, StopSent, TypeOK
    <3> QED
      BY <1>6, <3>1, <3>2
  <2>10. \A q \in Repos : StopSent(q) => StopSent(q)'
    BY <2>4, <2>7, <2>9 DEF StopSent
  <2>11. toJoin \subseteq Repos
    BY DEF TypeOK
  <2> QED
    BY <2>1, <2>6, <2>7, <2>8, <2>10, <2>11 DEF RestInv
<1>7. ASSUME NEW timed \in BOOLEAN, Close(timed) PROVE RestInv'
  BY <1>7 DEF Close, RestInv, StopSent
<1>8. CASE SnapshotWorkers
  BY <1>8 DEF SnapshotWorkers, RestInv
<1>9. ASSUME NEW r \in Repos, PutStop(r) PROVE RestInv'
  <2>1. /\ queue' = [queue EXCEPT ![r] = Append(@, Stop)] /\ toStop' = toStop \ {r}
        /\ UNCHANGED <<job, published, writer, toJoin>>
    BY <1>9 DEF PutStop
  <2>2. /\ Len(queue[r]) \in Nat /\ Len(queue'[r]) = Len(queue[r]) + 1
        /\ \A i \in 1..Len(queue[r]) : queue'[r][i] = queue[r][i]
        /\ queue'[r][Len(queue[r]) + 1] = Stop
    BY <2>1, AppendPositions DEF TypeOK
  <2>3. /\ Len(queue[r]) + 1 \in 1..Len(queue'[r])
        /\ \A i \in 1..Len(queue[r]) : i \in 1..Len(queue'[r])
    BY <2>2
  <2>4. \A q \in Repos : q # r => queue'[q] = queue[q]
    BY <2>1 DEF TypeOK
  <2>5. StopSent(r)' /\ \A q \in Repos : StopSent(q) => StopSent(q)'
    BY <2>1, <2>2, <2>3, <2>4 DEF StopSent
  <2>6. \A q \in Repos, e \in Jobs : (\E i \in 1..Len(queue[q]) : queue[q][i] = e)
                                   => \E i \in 1..Len(queue'[q]) : queue'[q][i] = e
    BY <2>2, <2>3, <2>4
  <2>7. toJoin \subseteq Repos
    BY DEF TypeOK
  <2> QED
    BY <2>1, <2>5, <2>6, <2>7 DEF RestInv
<1>10. ASSUME NEW r \in Repos, JoinWriter(r) PROVE RestInv'
  BY <1>10 DEF JoinWriter, RestInv, StopSent
<1>11. CASE CloseReturns
  BY <1>11 DEF CloseReturns, RestInv, StopSent
<1>12. CASE UNCHANGED vars
  BY <1>12 DEF RestInv, StopSent
<1> QED
  BY <1>1, <1>2, <1>3, <1>4, <1>5, <1>6, <1>7, <1>8, <1>9, <1>10, <1>11, <1>12
     DEF Next, SubmitStep, WriterStep, CloseStep, Finished

\* What the submit of a job, a writer thread and close() need to go on.
SubmitGoes(j) ==
    \/ job[j] = "admitted" /\ (published[RepoOf[j]] \/ creator[RepoOf[j]] = NoJob)
    \/ job[j] = "creating" /\ writer[RepoOf[j]] = "idle"
    \/ job[j] = "enqueuing"

WriterGoes(r) ==
    \/ writer[r] \in {"opening", "busy"}
    \/ writer[r] = "idle" /\ queue[r] # <<>>
    \/ /\ writer[r] = "resolving"
       /\ \A k \in Jobs : Parent[k] = current[r] /\ runner[k] = "writer"
                             => job[k] \notin Submitting

CloseGoes ==
    \/ closer = "snapshot"
    \/ /\ closer = "draining"
       /\ \/ \E r \in toStop : inFlight[r] = 0 \/ bounded
          \/ toStop = {} /\ \E r \in toJoin : writer[r] = "stopped" \/ bounded
          \/ toStop = {} /\ toJoin = {}

AtRest == (\A j \in Jobs : ~SubmitGoes(j)) /\ (\A r \in Repos : ~WriterGoes(r)) /\ ~CloseGoes

RestsOnlyBehindHungJobs ==
    AtRest =>
        /\ \A j \in Jobs : \/ job[j] \in {"new", "resolved", "refused", "failed"}
                           \/ /\ job[j] \in {"queued", "running"}
                              /\ \/ writer[RepoOf[j]] = "hung"
                                 \/ writer[RepoOf[j]] = "stopped" /\ bounded
        /\ closer \in {"open", "done"} \/ (~bounded /\ AnyHung)

\* Locks, callbacks and close() never wait for each other in a circle: when no
\* submit, no writer and no close() can go on, every job that was submitted has its
\* answer unless a job of its repository hangs or a timed close() gave it up, and
\* close() has returned unless, without a timeout, it waits for a job that hangs
\* (write_queue.py:186, where close() holds the lock that callbacks need).
THEOREM NothingWaitsInACircle == Spec => []RestsOnlyBehindHungJobs
<1>1. IInv /\ ClosingInv /\ RestInv => RestsOnlyBehindHungJobs
  <2> SUFFICES ASSUME IInv, ClosingInv, RestInv, AtRest
               PROVE  /\ \A j \in Jobs : \/ job[j] \in {"new", "resolved", "refused", "failed"}
                                         \/ /\ job[j] \in {"queued", "running"}
                                            /\ \/ writer[RepoOf[j]] = "hung"
                                               \/ writer[RepoOf[j]] = "stopped" /\ bounded
                      /\ closer \in {"open", "done"} \/ (~bounded /\ AnyHung)
    BY DEF RestsOnlyBehindHungJobs
  <2> USE ConstantsAssumption DEF IInv
  <2>1. ASSUME NEW j \in Jobs, job[j] \in Submitting PROVE FALSE
    <3>1. RepoOf[j] \in Repos
      OBVIOUS
    <3>2. ~SubmitGoes(j) /\ ~WriterGoes(RepoOf[j])
      BY <3>1 DEF AtRest
    <3>3. CASE job[j] = "admitted"
      <4>1. ~published[RepoOf[j]] /\ creator[RepoOf[j]] # NoJob
        BY <3>2, <3>3 DEF SubmitGoes
      <4> DEFINE k == creator[RepoOf[j]]
      <4>2. /\ k \in Jobs /\ job[k] = "creating" /\ RepoOf[k] = RepoOf[j]
            /\ writer[RepoOf[j]] \in {"opening", "idle"}
        BY <3>1, <4>1 DEF WorkerInv
      <4>3. ~SubmitGoes(k)
        BY <4>2 DEF AtRest
      <4> QED
        BY <3>2, <4>2, <4>3 DEF SubmitGoes, WriterGoes
    <3>4. CASE job[j] = "creating"
      <4>1. creator[RepoOf[j]] = j
        BY <3>4 DEF WorkerInv
      <4>2. writer[RepoOf[j]] \in {"opening", "idle"}
        BY <3>1, <4>1 DEF WorkerInv
      <4> QED
        BY <3>2, <3>4, <4>2 DEF SubmitGoes, WriterGoes
    <3>5. CASE job[j] = "enqueuing"
      BY <3>2, <3>5 DEF SubmitGoes
    <3> QED
      BY <2>1, <3>3, <3>4, <3>5 DEF Submitting
  <2>2. ASSUME NEW r \in Repos
        PROVE  writer[r] \in {"none", "idle", "hung", "stopped"} /\ (writer[r] = "idle" => queue[r] = <<>>)
    <3>1. ~WriterGoes(r) /\ writer[r] \in WriterStates
      BY DEF AtRest, TypeOK
    <3> QED
      BY <2>1, <3>1 DEF WriterGoes, WriterStates
  <2>3. ASSUME NEW j \in Jobs, job[j] \in Accepted
        PROVE  /\ job[j] \in {"queued", "running"}
               /\ writer[RepoOf[j]] = "hung" \/ (writer[RepoOf[j]] = "stopped" /\ bounded)
    <3>1. RepoOf[j] \in Repos /\ published[RepoOf[j]]
      BY <2>3 DEF ClosingInv
    <3>2. CASE job[j] = "queued"
      <4>1. queue[RepoOf[j]] # <<>>
        <5>1. PICK i \in 1..Len(queue[RepoOf[j]]) : queue[RepoOf[j]][i] = j
          BY <3>2 DEF RestInv
        <5> QED
          BY <5>1
      <4>2. writer[RepoOf[j]] # "none"
        BY <3>1 DEF RestInv
      <4>3. writer[RepoOf[j]] = "stopped" => bounded
        BY <3>1, <4>1 DEF UntimedCloseStrandsNothing, NothingStranded
      <4> QED
        BY <2>2, <3>1, <3>2, <4>1, <4>2, <4>3
    <3>3. CASE job[j] = "running"
      BY <2>2, <3>1, <3>3 DEF CurrentInv
    <3>4. CASE job[j] = "resolving"
      BY <2>2, <3>1, <3>4 DEF CurrentInv
    <3> QED
      BY <2>3, <3>2, <3>3, <3>4 DEF Accepted
  <2>4. ASSUME NEW j \in Jobs
        PROVE  \/ job[j] \in {"new", "resolved", "refused", "failed"}
               \/ /\ job[j] \in {"queued", "running"}
                  /\ writer[RepoOf[j]] = "hung" \/ (writer[RepoOf[j]] = "stopped" /\ bounded)
    <3>1. job[j] \in JobStates
      BY DEF TypeOK
    <3>2. job[j] \in {"new", "resolved", "refused", "failed"} \cup Submitting \cup Accepted
      BY <3>1 DEF JobStates, Submitting, Accepted
    <3> QED
      BY <2>1, <2>3, <3>2
  <2>5. ASSUME closer \notin {"open", "done"} PROVE ~bounded /\ AnyHung
    <3>1. closer = "draining" /\ ~CloseGoes
      BY <2>5 DEF AtRest, CloseGoes, TypeOK
    <3>2. ~bounded
      BY <3>1 DEF CloseGoes
    <3>3. CASE toStop # {}
      <4>1. PICK r \in toStop : TRUE
        BY <3>3
      <4>2. r \in Repos /\ inFlight[r] # 0
        BY <3>1, <4>1 DEF CloseGoes, TypeOK
      <4>3. Outstanding(r) # {}
        BY <4>2, FS_EmptySet DEF InFlightExact
      <4> QED
        BY <2>3, <3>2, <4>2, <4>3 DEF Outstanding, AnyHung
    <3>4. CASE toStop = {}
      <4>1. PICK r \in toJoin : writer[r] # "stopped"
        BY <3>1, <3>4 DEF CloseGoes
      <4>2. r \in Repos /\ published[r] /\ StopSent(r)
        BY <3>4, <4>1 DEF RestInv, TypeOK
      <4>3. queue[r] # <<>>
        <5>1. PICK i \in 1..Len(queue[r]) : queue[r][i] = Stop
          BY <4>1, <4>2 DEF StopSent
        <5> QED
          BY <5>1
      <4>4. writer[r] # "none"
        BY <4>2 DEF RestInv
      <4>5. writer[r] = "hung"
        BY <2>2, <4>1, <4>2, <4>3, <4>4
      <4> QED
        BY <3>2, <4>2, <4>5 DEF AnyHung
    <3> QED
      BY <3>3, <3>4
  <2> QED
    BY <2>4, <2>5
<1> QED
  BY <1>1, Invariance, InitClosingInv, StepClosingInv, InitRestInv, StepRestInv, PTL DEF Spec

=============================================================================
