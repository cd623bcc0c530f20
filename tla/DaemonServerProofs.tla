------------------------- MODULE DaemonServerProofs -------------------------
(***************************************************************************)
(* Safety of the daemon processes, for any number of processes, clients,   *)
(* requests and signals.                                                   *)
(*                                                                         *)
(* The heart of the argument is HolderInv: a process that has bound the    *)
(* election port holds it for as long as it has not begun to drain, or has *)
(* a shutdown under way.  So it is the only one that can publish itself,   *)
(* and what it publishes can be deleted only by itself or by a process     *)
(* that was stopped as an outsider.  MainInv makes that hold in the middle *)
(* of start(): a process stopped there stands in its signal handler until  *)
(* it ends, so that start() does not go on beside its own shutdown.        *)
(*                                                                         *)
(* Last the safety core of ShutdownEnds: in every state a process that was *)
(* told to stop and still exists has a thread that can take the next step  *)
(* of the shutdown.                                                        *)
(***************************************************************************)
EXTENDS DaemonServer, TLAPS

\* The states of a thread that runs in a process.
Active == {"reading", "dispatching", "replying", "exiting"} \cup ShutdownStates

\* A client is answered last.  A running thread runs in a process that exists; past
\* the first step of a shutdown its process is stopping, and a request runs only
\* where one serves.
ThreadInv ==
    \A t \in Threads :
        /\ at[t] \in {"new", "connecting", "reading"} \cup ShutdownStates
              => answer[t] = "none"
        /\ at[t] = "connecting" => to[t] \in Daemons
        /\ at[t] \in Active => to[t] \in alive
        /\ at[t] \in ShutdownStates \cup {"replying", "exiting"}
              => t \in Triggers /\ to[t] \in stopping
        /\ at[t] \in Active /\ t \notin Signals => start[to[t]] = "serving"

\* One thread of a process carries its shutdown out, in the order of shutdown().
ShutdownInv ==
    /\ \A t, u \in Threads : at[t] \in ShutdownStates /\ at[u] \in ShutdownStates
                             /\ to[t] = to[u] => t = u
    /\ \A t \in Threads :
        /\ at[t] \in {"unpublishing", "closing", "releasing"} => drained[to[t]] # "no"
        /\ at[t] \in {"closing", "releasing"} => file # to[t]

ProcessInv ==
    /\ listening \subseteq alive
    /\ \A d \in Daemons :
        /\ d \in alive \cup stopping => start[d] # "unborn"
        /\ drained[d] # "no" => d \in stopping

\* A process that is stopped before it serves stays in its signal handler.
MainInv == \A d \in alive \cap stopping : start[d] = "serving" \/ MainBusy(d)

Started == {"elected", "bound", "published", "serving"}

ShuttingDown(d) == \E t \in Threads : to[t] = d /\ at[t] \in ShutdownStates

HolderInv ==
    \A d \in alive : start[d] \in Started /\ (drained[d] = "no" \/ ShuttingDown(d))
                     => election = d

\* What ServingIsDiscoverable says holds from publication on.
PublishedInv ==
    \A d \in alive : start[d] \in {"published", "serving"} /\ d \notin stopping
        => file = d \/ \E e \in Daemons : StoppedOutsider(e)

Finished(d) == drained[d] # "no" /\ file # d

\* A process whose socket is closed while it serves has drained and unpublished.
SocketInv ==
    \A d \in alive : start[d] \in {"bound", "published", "serving"} /\ d \notin listening
                     => Finished(d)

\* A stopping process has finished, has been triggered twice, or its one trigger
\* has not come far enough to tell anybody.
StopInv ==
    \A d \in stopping \ killed :
        \/ Finished(d)
        \/ ~TriggeredOnce(d)
        \/ /\ d \in alive
           /\ \E t \in TriggersOf(d) : at[t] \in {"draining", "unpublishing"}

IInv ==
    /\ TypeOK
    /\ ThreadInv
    /\ ShutdownInv
    /\ ProcessInv
    /\ MainInv
    /\ HolderInv
    /\ PublishedInv
    /\ SocketInv
    /\ StopInv
-----------------------------------------------------------------------------
(* What a step of one thread leaves alone *)

\* A second trigger is not forgotten: no thread becomes new or changes its process.
LEMMA TriggersKept ==
    ASSUME TypeOK, TypeOK', NEW d \in Daemons,
           \A u \in Threads : at[u] \notin {"new", "connecting"}
                              => at'[u] \notin {"new", "connecting"} /\ to'[u] = to[u]
    PROVE  ~TriggeredOnce(d) => ~TriggeredOnce(d)'
<1>1. \A u \in TriggersOf(d) : u \in TriggersOf(d)'
  BY DEF TriggersOf, Threads
<1> QED
  BY <1>1 DEF TriggeredOnce

\* A main thread stays busy, and a shutdown under way, when no thread is in them
\* that leaves them.
LEMMA BusyKept ==
    ASSUME NEW d \in Daemons,
           \A u \in Threads : \/ at'[u] = at[u] /\ to'[u] = to[u]
                              \/ /\ at[u] \notin ShutdownStates \cup {"exiting"}
                                 /\ at'[u] \notin ShutdownStates \cup {"exiting"}
    PROVE  (MainBusy(d)' <=> MainBusy(d)) /\ (ShuttingDown(d)' <=> ShuttingDown(d))
<1>1. MainBusy(d)' <=> MainBusy(d)
  BY DEF MainBusy, Threads, Triggers, ShutdownStates
<1>2. ShuttingDown(d)' <=> ShuttingDown(d)
  BY DEF ShuttingDown, ShutdownStates
<1> QED
  BY <1>1, <1>2

\* Without a step of a thread nothing about the triggers changes.
LEMMA ThreadsKept ==
    ASSUME at' = at, to' = to, NEW d \in Daemons
    PROVE  /\ MainBusy(d)' <=> MainBusy(d)
           /\ ShuttingDown(d)' <=> ShuttingDown(d)
           /\ TriggersOf(d)' = TriggersOf(d)
           /\ TriggeredOnce(d)' <=> TriggeredOnce(d)
BY DEF MainBusy, ShuttingDown, TriggersOf, TriggeredOnce

-----------------------------------------------------------------------------
(* Preservation *)

\* Nothing has been launched: every part of the invariant holds.
LEMMA InitIInv == Init => IInv
<1> SUFFICES ASSUME Init PROVE IInv
  OBVIOUS
<1>1. TypeOK
  BY DEF Init, TypeOK, StartStates, ThreadStates
<1>2. ThreadInv /\ ShutdownInv
  BY DEF Init, ThreadInv, ShutdownInv, Active, ShutdownStates
<1>3. ProcessInv /\ MainInv /\ HolderInv /\ PublishedInv /\ SocketInv /\ StopInv
  BY DEF Init, ProcessInv, MainInv, HolderInv, PublishedInv, SocketInv, StopInv
<1> QED
  BY <1>1, <1>2, <1>3 DEF IInv

\* A process is launched.
LEMMA LaunchIInv == ASSUME IInv, NEW d \in Daemons, Launch(d) PROVE IInv'
<1> USE DEF IInv, shared, threads
<1>1. /\ start[d] = "unborn" /\ start' = [start EXCEPT ![d] = "launched"]
      /\ alive' = alive \cup {d} /\ d \notin alive /\ d \notin stopping
      /\ UNCHANGED <<stopping, drained, killed, election, file, listening, at, to, answer>>
  BY DEF Launch, ProcessInv
<1>2. TypeOK'
  BY <1>1 DEF TypeOK, StartStates
<1>3. ThreadInv'
  BY <1>1 DEF TypeOK, ThreadInv, Active, ShutdownStates
<1>4. ShutdownInv' /\ ProcessInv'
  BY <1>1 DEF TypeOK, ShutdownInv, ProcessInv
<1>5. MainInv' /\ HolderInv'
  BY <1>1, ThreadsKept DEF TypeOK, MainInv, HolderInv, Started
<1>6. \A e \in Daemons : StoppedOutsider(e) => StoppedOutsider(e)'
  BY <1>1 DEF TypeOK, StoppedOutsider
<1>7. PublishedInv' /\ SocketInv'
  BY <1>1, <1>6 DEF TypeOK, PublishedInv, SocketInv, Finished
<1>8. StopInv'
  BY <1>1, ThreadsKept DEF TypeOK, StopInv, Finished
<1> QED
  BY <1>2, <1>3, <1>4, <1>5, <1>7, <1>8

\* What the steps of start() have in common: they are those of a process that is
\* not being stopped, and if it is past the election it holds the port.
LEMMA StartFrame ==
    ASSUME IInv, NEW d \in Daemons, StartStep(d)
    PROVE  /\ d \in alive /\ d \notin stopping /\ drained[d] = "no"
           /\ start[d] \in {"launched", "elected", "bound", "published"}
           /\ start[d] # "launched" => election = d
           /\ UNCHANGED <<alive, stopping, drained, killed, at, to, answer>>
           /\ start' = [start EXCEPT ![d] = start'[d]]
<1> USE DEF IInv, shared, threads
<1>1. PICK from \in {"launched", "elected", "bound", "published"},
           upto \in StartStates : MainStep(d, from, upto)
  <2>1. CASE BindElection(d)
    BY <2>1 DEF BindElection, StartStates
  <2>2. CASE BindService(d)
    BY <2>2 DEF BindService, StartStates
  <2>3. CASE PublishDiscovery(d)
    BY <2>3 DEF PublishDiscovery, StartStates
  <2>4. CASE StartAccepting(d)
    BY <2>4 DEF StartAccepting, StartStates
  <2>5. CASE StartFails(d)
    BY <2>5 DEF StartFails, StartStates
  <2> QED
    BY <2>1, <2>2, <2>3, <2>4, <2>5 DEF StartStep
<1>2. /\ d \in alive /\ start[d] = from /\ ~MainBusy(d)
      /\ start' = [start EXCEPT ![d] = upto]
      /\ UNCHANGED <<stopping, drained, killed, at, to, answer>>
  BY <1>1 DEF MainStep
<1>3. d \notin stopping
  BY <1>2 DEF MainInv
<1>4. drained[d] = "no"
  BY <1>3 DEF ProcessInv
<1>5. start[d] # "launched" => election = d
  BY <1>2, <1>4 DEF HolderInv, Started
<1>6. alive' = alive
  <2>1. CASE BindElection(d)
    BY <2>1 DEF BindElection
  <2>2. CASE BindService(d) \/ PublishDiscovery(d) \/ StartAccepting(d) \/ StartFails(d)
    BY <2>2 DEF BindService, PublishDiscovery, StartAccepting, StartFails
  <2> QED
    BY <2>1, <2>2 DEF StartStep
<1>7. start' = [start EXCEPT ![d] = start'[d]]
  BY <1>2 DEF TypeOK
<1> QED
  BY <1>2, <1>3, <1>4, <1>5, <1>6, <1>7

\* A step of start().
LEMMA StartIInv == ASSUME IInv, NEW d \in Daemons, StartStep(d) PROVE IInv'
<1> USE DEF IInv, shared
<1>1. /\ d \in alive /\ d \notin stopping /\ drained[d] = "no"
      /\ start[d] \in {"launched", "elected", "bound", "published"}
      /\ start[d] # "launched" => election = d
      /\ UNCHANGED <<alive, stopping, drained, killed, at, to, answer>>
      /\ start' = [start EXCEPT ![d] = start'[d]]
  BY StartFrame
<1>2. \/ /\ start[d] = "launched" /\ election = NoDaemon /\ start'[d] = "elected"
         /\ election' = d /\ UNCHANGED <<file, listening>>
      \/ start[d] = "launched" /\ start'[d] = "outvoted" /\ UNCHANGED <<election, file, listening>>
      \/ /\ start[d] = "elected" /\ start'[d] = "bound"
         /\ listening' = listening \cup {d} /\ UNCHANGED <<election, file>>
      \/ /\ start[d] = "bound" /\ start'[d] = "published"
         /\ file' = d /\ UNCHANGED <<election, listening>>
      \/ /\ start[d] = "published" /\ start'[d] = "serving"
         /\ UNCHANGED <<election, file, listening>>
      \/ /\ start[d] \in {"elected", "bound", "published"} /\ start'[d] = "failed"
         /\ file' = (IF start[d] = "published" THEN NoDaemon ELSE file)
         /\ listening' = listening \ {d} /\ election' = NoDaemon
  <2>1. CASE BindElection(d)
    BY <2>1 DEF BindElection, MainStep, TypeOK
  <2>2. CASE BindService(d)
    BY <2>2 DEF BindService, MainStep, TypeOK
  <2>3. CASE PublishDiscovery(d)
    BY <2>3 DEF PublishDiscovery, MainStep, TypeOK
  <2>4. CASE StartAccepting(d)
    BY <2>4 DEF StartAccepting, MainStep, TypeOK
  <2>5. CASE StartFails(d)
    BY <2>5 DEF StartFails, MainStep, TypeOK
  <2> QED
    BY <2>1, <2>2, <2>3, <2>4, <2>5 DEF StartStep
<1>3. /\ start'[d] \in StartStates \ {"unborn", "launched"}
      /\ \A e \in Daemons \ {d} : start'[e] = start[e]
      /\ election' \in Daemons \cup {NoDaemon}
      /\ \A e \in Daemons \ {d} : election = e => election' = e \/ start[d] # "launched"
  BY <1>1, <1>2, ConstantsAssumption DEF StartStates, TypeOK
<1>4. TypeOK'
  BY <1>1, <1>2, <1>3 DEF TypeOK
<1>5. ThreadInv'
  <2>1. \A e \in Daemons : start[e] = "serving" => start'[e] = "serving"
    BY <1>1, <1>3
  <2> QED
    BY <1>1, <2>1 DEF ThreadInv, Active, ShutdownStates, TypeOK
<1>6. ShutdownInv'
  <2>1. file' \in {file, d, NoDaemon}
    BY <1>1, <1>2
  <2>2. \A t \in Threads : at[t] \in {"closing", "releasing"}
                          => to[t] \in Daemons /\ to[t] # d /\ file # to[t]
    BY <1>1 DEF TypeOK, ThreadInv, ShutdownInv, ShutdownStates, Active
  <2>3. \A t \in Threads : at[t] \in {"closing", "releasing"} => file' # to[t]
    BY <2>1, <2>2, ConstantsAssumption
  <2> QED
    BY <1>1, <2>3 DEF ShutdownInv
<1>7. ProcessInv'
  BY <1>1, <1>2, <1>3 DEF TypeOK, ProcessInv
<1>8. MainInv'
  BY <1>1, <1>3, ThreadsKept DEF TypeOK, MainInv
<1>9. HolderInv'
  <2>1. SUFFICES ASSUME NEW e \in alive, start'[e] \in Started,
                        drained[e] = "no" \/ ShuttingDown(e)
                 PROVE  election' = e
    BY <1>1, ThreadsKept DEF HolderInv, TypeOK
  <2>2. CASE e = d
    BY <1>1, <1>2, <2>1, <2>2 DEF Started
  <2>3. CASE e # d
    BY <1>1, <1>2, <1>3, <2>1, <2>3, ConstantsAssumption DEF HolderInv, TypeOK
  <2> QED
    BY <2>2, <2>3
<1>10. PublishedInv'
  <2>1. SUFFICES ASSUME NEW e \in alive, start'[e] \in {"published", "serving"},
                        e \notin stopping
                 PROVE  file' = e \/ \E o \in Daemons : StoppedOutsider(o)'
    BY <1>1 DEF PublishedInv
  <2>2. \A o \in Daemons : StoppedOutsider(o) => StoppedOutsider(o)'
    BY <1>1, <1>3 DEF StoppedOutsider
  <2>3. CASE e = d
    BY <1>1, <1>2, <2>1, <2>2, <2>3 DEF PublishedInv
  <2>4. CASE e # d
    <3>1. election = e
      BY <1>3, <2>1, <2>4 DEF HolderInv, ProcessInv, Started, TypeOK
    <3>2. start[d] = "launched"
      BY <1>1, <2>4, <3>1
    <3> QED
      BY <1>2, <1>3, <2>1, <2>2, <2>4, <3>2 DEF PublishedInv, TypeOK
  <2> QED
    BY <2>3, <2>4
<1>11. \A e \in Daemons : Finished(e) => Finished(e)'
  BY <1>1, <1>2, ConstantsAssumption DEF Finished
<1>12. SocketInv'
  <2>1. SUFFICES ASSUME NEW e \in alive, start'[e] \in {"bound", "published", "serving"},
                        e \notin listening'
                 PROVE  Finished(e)
    BY <1>1, <1>11 DEF SocketInv, TypeOK
  <2>2. CASE e = d
    BY <1>1, <1>2, <2>1, <2>2 DEF SocketInv
  <2>3. CASE e # d
    BY <1>1, <1>2, <1>3, <2>1, <2>3 DEF SocketInv, TypeOK
  <2> QED
    BY <2>2, <2>3
<1>13. StopInv'
  <2>1. \A e \in Daemons : TriggersOf(e)' = TriggersOf(e)
                          /\ (TriggeredOnce(e)' <=> TriggeredOnce(e))
    BY <1>1, ThreadsKept
  <2>2. ASSUME NEW e \in stopping \ killed
        PROVE  \/ Finished(e)'
               \/ ~TriggeredOnce(e)'
               \/ /\ e \in alive
                  /\ \E t \in TriggersOf(e)' : at[t] \in {"draining", "unpublishing"}
    BY <1>11, <2>1 DEF StopInv, TypeOK
  <2> QED
    BY <1>1, <2>2 DEF StopInv
<1> QED
  BY <1>4, <1>5, <1>6, <1>7, <1>8, <1>9, <1>10, <1>12, <1>13

\* A process ends, and every thread of it with it.
LEMMA EndIInv ==
    ASSUME IInv, NEW d \in alive, ProcessEnds(d), killed' \in SUBSET Daemons, killed \subseteq killed',
           d \in killed' \/ d \notin stopping \/ Finished(d) \/ ~TriggeredOnce(d)
    PROVE  IInv'
<1> USE DEF IInv
<1>1. /\ alive' = alive \ {d} /\ d \in Daemons
      /\ election' = (IF election = d THEN NoDaemon ELSE election)
      /\ listening' = listening \ {d}
      /\ at' = [t \in Threads |-> IF to[t] = d /\ at[t] \notin {"connecting", "done"}
                                  THEN "lost" ELSE at[t]]
      /\ UNCHANGED <<start, stopping, drained, file, to, answer>>
  BY DEF ProcessEnds, TypeOK
<1>2. TypeOK'
  BY <1>1 DEF TypeOK, ThreadStates
<1>3. ThreadInv'
  BY <1>1 DEF TypeOK, ThreadInv, Active, ShutdownStates
<1>4. ShutdownInv'
  BY <1>1 DEF TypeOK, ShutdownInv, ShutdownStates
<1>5. ProcessInv'
  BY <1>1 DEF TypeOK, ProcessInv
<1>6. \A e \in alive' : (MainBusy(e)' <=> MainBusy(e)) /\ (ShuttingDown(e)' <=> ShuttingDown(e))
  BY <1>1, ConstantsAssumption DEF TypeOK, MainBusy, ShuttingDown, ShutdownStates, Threads, Triggers
<1>7. MainInv' /\ HolderInv'
  BY <1>1, <1>6 DEF TypeOK, MainInv, HolderInv
<1>8. PublishedInv' /\ SocketInv'
  BY <1>1 DEF TypeOK, PublishedInv, SocketInv, StoppedOutsider, Finished
<1>9. \A e \in Daemons : ~TriggeredOnce(e) => ~TriggeredOnce(e)'
  BY <1>1, <1>2, TriggersKept DEF TypeOK
<1>10. StopInv'
  <2>1. SUFFICES ASSUME NEW e \in stopping \ killed', ~Finished(e), TriggeredOnce(e)
                 PROVE  /\ e \in alive'
                        /\ \E t \in TriggersOf(e)' : at'[t] \in {"draining", "unpublishing"}
    BY <1>1, <1>9 DEF StopInv, Finished, TypeOK
  <2>2. e # d
    BY <2>1
  <2>3. PICK t \in TriggersOf(e) : at[t] \in {"draining", "unpublishing"}
    BY <2>1 DEF StopInv
  <2>4. e \in alive' /\ at'[t] = at[t] /\ to'[t] = to[t]
    BY <1>1, <2>1, <2>2, <2>3 DEF StopInv, TriggersOf, Threads
  <2> QED
    BY <2>3, <2>4 DEF TriggersOf
<1> QED
  BY <1>2, <1>3, <1>4, <1>5, <1>7, <1>8, <1>10

\* main() returned, or the process was killed.
LEMMA DeathIInv == ASSUME IInv, NEW d \in Daemons, MainReturns(d) \/ Kill(d) PROVE IInv'
<1> USE DEF IInv
<1>1. CASE MainReturns(d)
  <2>1. d \notin stopping \/ Finished(d)
    BY <1>1 DEF MainReturns, MainInv, SocketInv
  <2> QED
    BY <1>1, <2>1, EndIInv DEF MainReturns, TypeOK
<1>2. CASE Kill(d)
  BY <1>2, EndIInv DEF Kill, TypeOK
<1> QED
  BY <1>1, <1>2

\* os._exit by a thread that has run a shutdown, or found one running.
LEMMA ExitIInv == ASSUME IInv, NEW t \in Threads, ForceExit(t) PROVE IInv'
<1> USE DEF IInv
<1>1. at[t] = "exiting" /\ ProcessEnds(to[t]) /\ killed' = killed
  BY DEF ForceExit
<1>2. to[t] \in alive /\ to[t] \in stopping /\ t \in TriggersOf(to[t])
  BY <1>1 DEF ThreadInv, Active, TriggersOf
<1>3. to[t] \in killed \/ Finished(to[t]) \/ ~TriggeredOnce(to[t])
  BY <1>1, <1>2 DEF StopInv, TriggeredOnce
<1> QED
  BY <1>1, <1>2, <1>3, EndIInv DEF TypeOK

\* The steps of a request before it is, or is not, a shutdown.
LEMMA RequestIInv ==
    ASSUME IInv, NEW t \in Threads, Discover(t) \/ Connect(t) \/ DispatchOne(t) \/ Answer(t)
    PROVE  IInv'
<1> USE DEF IInv, process, shared
<1>1. /\ UNCHANGED <<start, alive, stopping, drained, killed, election, file, listening>>
      /\ at' = [at EXCEPT ![t] = at'[t]]
      /\ to' = [to EXCEPT ![t] = to'[t]]
      /\ answer' = [answer EXCEPT ![t] = answer'[t]]
  BY DEF Discover, Connect, DispatchOne, Answer, Advance, TypeOK
<1>2. \/ /\ at[t] = "new" /\ to'[t] = file /\ answer'[t] = answer[t]
         /\ at'[t] = IF file = NoDaemon THEN "lost" ELSE "connecting"
      \/ /\ at[t] \in {"connecting", "reading", "dispatching"} /\ to'[t] = to[t]
         /\ at'[t] \in {"lost", "reading", "dispatching", "done"}
         /\ at'[t] = "reading" => /\ to[t] \in listening /\ start[to[t]] = "serving"
                                  /\ at[t] = "connecting" /\ answer'[t] = answer[t]
         /\ at'[t] = "dispatching" => at[t] = "reading" /\ t \notin Signals
         /\ answer'[t] \in {"none", "ok", "error", "shutting down"}
  <2>1. CASE Discover(t)
    BY <2>1 DEF Discover, Advance, TypeOK
  <2>2. CASE Connect(t)
    BY <2>2 DEF Connect, Advance, TypeOK
  <2>3. CASE DispatchOne(t)
    BY <2>3, ConstantsAssumption DEF DispatchOne, Advance, TypeOK
  <2>4. CASE Answer(t)
    BY <2>4 DEF Answer, Advance, TypeOK
  <2> QED
    BY <2>1, <2>2, <2>3, <2>4
<1>3. /\ \A u \in Threads \ {t} : at'[u] = at[u] /\ to'[u] = to[u] /\ answer'[u] = answer[u]
      /\ at[t] \notin ShutdownStates \cup {"replying", "exiting"}
      /\ at'[t] \in {"lost", "connecting", "reading", "dispatching", "done"}
  BY <1>1, <1>2 DEF ShutdownStates, TypeOK
<1>4. TypeOK'
  <2>1. at'[t] \in ThreadStates /\ to'[t] \in Daemons \cup {NoDaemon}
        /\ answer'[t] \in {"none", "ok", "error", "shutting down"}
    BY <1>2, <1>3 DEF ThreadStates, TypeOK
  <2> QED
    BY <1>1, <2>1 DEF TypeOK
<1>5. ThreadInv'
  <2>1. SUFFICES ASSUME NEW u \in Threads
                 PROVE  /\ at'[u] \in {"new", "connecting", "reading"} \cup ShutdownStates
                              => answer'[u] = "none"
                        /\ at'[u] = "connecting" => to'[u] \in Daemons
                        /\ at'[u] \in Active => to'[u] \in alive
                        /\ at'[u] \in ShutdownStates \cup {"replying", "exiting"}
                              => u \in Triggers /\ to'[u] \in stopping
                        /\ at'[u] \in Active /\ u \notin Signals => start[to'[u]] = "serving"
    BY <1>1 DEF ThreadInv
  <2>2. CASE u # t
    BY <1>3, <2>1, <2>2 DEF ThreadInv
  <2>3. CASE u = t /\ at[t] = "new"
    BY <1>2, <2>3 DEF TypeOK, ThreadInv, Active, ShutdownStates
  <2>4. CASE u = t /\ at[t] # "new"
    BY <1>2, <2>4 DEF ThreadInv, ProcessInv, Active, ShutdownStates
  <2> QED
    BY <2>2, <2>3, <2>4
<1>6. ShutdownInv'
  BY <1>1, <1>3 DEF ShutdownInv, ShutdownStates
<1>7. ProcessInv' /\ PublishedInv' /\ SocketInv'
  BY <1>1 DEF ProcessInv, PublishedInv, SocketInv, StoppedOutsider, Finished
<1>8. \A e \in Daemons : (MainBusy(e)' <=> MainBusy(e)) /\ (ShuttingDown(e)' <=> ShuttingDown(e))
  <2>1. at'[t] \notin ShutdownStates \cup {"exiting"}
    BY <1>3 DEF ShutdownStates
  <2> QED
    BY <1>3, <2>1, BusyKept
<1>9. MainInv' /\ HolderInv'
  BY <1>1, <1>8 DEF MainInv, HolderInv, TypeOK
<1>10. \A e \in Daemons : ~TriggeredOnce(e) => ~TriggeredOnce(e)'
  BY <1>2, <1>3, <1>4, TriggersKept
<1>11. StopInv'
  <2>1. SUFFICES ASSUME NEW e \in stopping \ killed, ~Finished(e), TriggeredOnce(e)
                 PROVE  /\ e \in alive
                        /\ \E u \in TriggersOf(e)' : at'[u] \in {"draining", "unpublishing"}
    BY <1>1, <1>10 DEF StopInv, Finished, TypeOK
  <2>2. PICK u \in TriggersOf(e) : at[u] \in {"draining", "unpublishing"}
    BY <2>1 DEF StopInv
  <2>3. u \in Threads \ {t}
    BY <1>3, <2>2 DEF TriggersOf, Threads, ShutdownStates
  <2> QED
    BY <1>3, <2>1, <2>2, <2>3 DEF StopInv, TriggersOf
<1> QED
  BY <1>4, <1>5, <1>6, <1>7, <1>9, <1>11

\* A signal reaches a process, which may be stopping already.
LEMMA SignalIInv ==
    ASSUME IInv, NEW d \in Daemons, NEW t \in Signals, Signal(t, d) PROVE IInv'
<1> USE DEF IInv, shared
<1>1. /\ t \in Threads /\ at[t] = "new" /\ d \in alive
      /\ to' = [to EXCEPT ![t] = d]
      /\ stopping' = stopping \cup {d}
      /\ at' = [at EXCEPT ![t] = IF d \in stopping THEN "exiting" ELSE "draining"]
      /\ UNCHANGED <<start, alive, drained, killed, election, file, listening, answer>>
  BY DEF Signal, Advance, Threads, Triggers
<1>2. /\ \A u \in Threads \ {t} : at'[u] = at[u] /\ to'[u] = to[u]
      /\ to'[t] = d /\ at'[t] = IF d \in stopping THEN "exiting" ELSE "draining"
  BY <1>1 DEF TypeOK
<1>3. TypeOK'
  BY <1>1 DEF TypeOK, ThreadStates, ShutdownStates
<1>4. ThreadInv'
  <2>1. SUFFICES ASSUME NEW u \in Threads
                 PROVE  /\ at'[u] \in {"new", "connecting", "reading"} \cup ShutdownStates
                              => answer[u] = "none"
                        /\ at'[u] = "connecting" => to'[u] \in Daemons
                        /\ at'[u] \in Active => to'[u] \in alive
                        /\ at'[u] \in ShutdownStates \cup {"replying", "exiting"}
                              => u \in Triggers /\ to'[u] \in stopping'
                        /\ at'[u] \in Active /\ u \notin Signals => start[to'[u]] = "serving"
    BY <1>1 DEF ThreadInv
  <2>2. CASE u # t
    BY <1>1, <1>2, <2>1, <2>2 DEF ThreadInv
  <2>3. CASE u = t
    BY <1>1, <1>2, <2>3 DEF ThreadInv, Triggers
  <2> QED
    BY <2>2, <2>3
<1>5. ShutdownInv'
  BY <1>1, <1>2 DEF ThreadInv, ShutdownInv, ShutdownStates
<1>6. ProcessInv'
  BY <1>1 DEF ProcessInv, TypeOK
<1>7. /\ MainBusy(d)'
      /\ \A e \in Daemons : MainBusy(e) => MainBusy(e)'
  BY <1>1, <1>2 DEF MainBusy, ShutdownStates, Threads, Triggers
<1>8. MainInv'
  BY <1>1, <1>7 DEF MainInv, TypeOK
<1>9. HolderInv'
  <2>1. \A e \in Daemons : ShuttingDown(e)' => ShuttingDown(e) \/ (e = d /\ d \notin stopping)
    BY <1>2 DEF ShuttingDown, ShutdownStates
  <2> QED
    BY <1>1, <2>1 DEF HolderInv, ProcessInv, TypeOK
<1>10. PublishedInv'
  BY <1>1 DEF PublishedInv, StoppedOutsider
<1>11. SocketInv'
  BY <1>1 DEF SocketInv, Finished
<1>12. \A e \in Daemons : ~TriggeredOnce(e) => ~TriggeredOnce(e)'
  BY <1>1, <1>2, <1>3, TriggersKept
<1>13. \A e \in Daemons : TriggersOf(e) \subseteq TriggersOf(e)' /\ t \notin TriggersOf(e)
  BY <1>1, <1>2 DEF TriggersOf, Threads
<1>14. t \in TriggersOf(d)'
  BY <1>2 DEF TriggersOf, Triggers
<1>15. StopInv'
  <2>1. SUFFICES ASSUME NEW e \in stopping' \ killed, ~Finished(e), TriggeredOnce(e)'
                 PROVE  /\ e \in alive
                        /\ \E u \in TriggersOf(e)' : at'[u] \in {"draining", "unpublishing"}
    BY <1>1 DEF StopInv, Finished, TypeOK
  <2>2. CASE e \in stopping
    <3>1. e \in alive /\ e \in Daemons /\ TriggeredOnce(e)
      BY <1>12, <2>1, <2>2 DEF StopInv, TypeOK
    <3>2. PICK u \in TriggersOf(e) : at[u] \in {"draining", "unpublishing"}
      BY <2>1, <2>2, <3>1 DEF StopInv
    <3> QED
      BY <1>2, <1>13, <3>1, <3>2 DEF TriggersOf, Threads
  <2>3. CASE e = d /\ d \notin stopping
    BY <1>1, <1>2, <1>14, <2>3 DEF ThreadInv
  <2> QED
    BY <1>1, <2>1, <2>2, <2>3
<1> QED
  BY <1>3, <1>4, <1>5, <1>6, <1>8, <1>9, <1>10, <1>11, <1>15

\* A `shutdown' request starts the shutdown, or finds it started.
LEMMA ShutdownIInv == ASSUME IInv, NEW t \in Threads, Shutdown(t) PROVE IInv'
<1> USE DEF IInv, shared
<1>0. PICK d \in Daemons : d = to[t]
  BY DEF Shutdown, ThreadInv, Active, TypeOK
<1>1. /\ t \in Stops /\ t \in Triggers /\ t \notin Signals /\ at[t] = "reading"
      /\ stopping' = stopping \cup {d}
      /\ at' = [at EXCEPT ![t] = IF d \in stopping THEN "replying" ELSE "draining"]
      /\ UNCHANGED <<start, alive, drained, killed, election, file, listening, to, answer>>
  BY <1>0, ConstantsAssumption DEF Shutdown, Advance, Triggers
<1>2. /\ \A u \in Threads \ {t} : at'[u] = at[u]
      /\ at'[t] = IF d \in stopping THEN "replying" ELSE "draining"
      /\ d \in alive /\ d \in Daemons /\ start[d] = "serving"
  BY <1>0, <1>1 DEF TypeOK, ThreadInv, Active
<1>3. TypeOK'
  <2>1. at'[t] \in ThreadStates
    BY <1>2 DEF ThreadStates, ShutdownStates
  <2> QED
    BY <1>1, <1>2, <2>1 DEF TypeOK
<1>4. ThreadInv'
  <2>1. SUFFICES ASSUME NEW u \in Threads
                 PROVE  /\ at'[u] \in {"new", "connecting", "reading"} \cup ShutdownStates
                              => answer[u] = "none"
                        /\ at'[u] = "connecting" => to[u] \in Daemons
                        /\ at'[u] \in Active => to[u] \in alive
                        /\ at'[u] \in ShutdownStates \cup {"replying", "exiting"}
                              => u \in Triggers /\ to[u] \in stopping'
                        /\ at'[u] \in Active /\ u \notin Signals => start[to[u]] = "serving"
    BY <1>1 DEF ThreadInv
  <2>2. CASE u # t
    BY <1>1, <1>2, <2>1, <2>2 DEF ThreadInv
  <2>3. CASE u = t
    BY <1>0, <1>1, <1>2, <2>3 DEF ThreadInv
  <2> QED
    BY <2>2, <2>3
<1>5. ShutdownInv'
  BY <1>0, <1>1, <1>2 DEF ThreadInv, ShutdownInv, ShutdownStates
<1>6. ProcessInv'
  BY <1>1, <1>2 DEF ProcessInv, TypeOK
<1>7. \A e \in Daemons : MainBusy(e) => MainBusy(e)'
  BY <1>1, <1>2 DEF MainBusy, Threads, Triggers
<1>8. MainInv'
  BY <1>1, <1>2, <1>7 DEF MainInv, TypeOK
<1>9. HolderInv'
  <2>1. \A e \in Daemons : ShuttingDown(e)' => ShuttingDown(e) \/ (e = d /\ d \notin stopping)
    BY <1>0, <1>1, <1>2 DEF ShuttingDown, ShutdownStates
  <2> QED
    BY <1>1, <2>1 DEF HolderInv, ProcessInv, TypeOK
<1>10. PublishedInv' /\ SocketInv'
  BY <1>1 DEF PublishedInv, SocketInv, StoppedOutsider, Finished
<1>11. \A e \in Daemons : ~TriggeredOnce(e) => ~TriggeredOnce(e)'
  BY <1>1, <1>2, <1>3, TriggersKept
<1>12. \A e \in Daemons : TriggersOf(e) \subseteq TriggersOf(e)'
  BY <1>1, <1>2 DEF TriggersOf, Threads
<1>13. t \in TriggersOf(d)'
  BY <1>0, <1>1, <1>2 DEF TriggersOf
<1>14. StopInv'
  <2>1. SUFFICES ASSUME NEW e \in stopping' \ killed, ~Finished(e), TriggeredOnce(e)'
                 PROVE  /\ e \in alive
                        /\ \E u \in TriggersOf(e)' : at'[u] \in {"draining", "unpublishing"}
    BY <1>1 DEF StopInv, Finished, TypeOK
  <2>2. CASE e \in stopping
    <3>1. e \in alive /\ e \in Daemons /\ TriggeredOnce(e)
      BY <1>11, <2>1, <2>2 DEF StopInv, TypeOK
    <3>2. PICK u \in TriggersOf(e) : at[u] \in {"draining", "unpublishing"}
      BY <2>1, <2>2, <3>1 DEF StopInv
    <3> QED
      BY <1>1, <1>2, <1>12, <3>1, <3>2 DEF TriggersOf, Threads
  <2>3. CASE e = d /\ d \notin stopping
    BY <1>2, <1>13, <2>3
  <2> QED
    BY <1>1, <2>1, <2>2, <2>3
<1> QED
  BY <1>3, <1>4, <1>5, <1>6, <1>8, <1>9, <1>10, <1>14

\* The steps of a shutdown up to the reply.
LEMMA ShutdownStepIInv ==
    ASSUME IInv, NEW t \in Threads,
           Drain(t) \/ DeleteDiscovery(t) \/ CloseService(t) \/ ReleaseElection(t) \/ Reply(t)
    PROVE  IInv'
<1> USE DEF IInv, process
<1>0. PICK d \in Daemons : d = to[t]
  BY DEF Drain, DeleteDiscovery, CloseService, ReleaseElection, Reply, ShutdownStates, ThreadInv,
         Active, TypeOK
<1>1. /\ UNCHANGED <<start, alive, stopping, killed, to>>
      /\ at' = [at EXCEPT ![t] = at'[t]]
      /\ drained' = [drained EXCEPT ![d] = drained'[d]]
      /\ \A u \in Threads \ {t} : at'[u] = at[u] /\ answer'[u] = answer[u]
  <2>1. CASE Drain(t)
    BY <1>0, <2>1 DEF Drain, Advance, shared, TypeOK
  <2>2. CASE DeleteDiscovery(t)
    BY <1>0, <2>2 DEF DeleteDiscovery, Advance, TypeOK
  <2>3. CASE CloseService(t)
    BY <1>0, <2>3 DEF CloseService, Advance, TypeOK
  <2>4. CASE ReleaseElection(t)
    BY <1>0, <2>4 DEF ReleaseElection, Advance, TypeOK
  <2>5. CASE Reply(t)
    BY <1>0, <2>5 DEF Reply, Advance, TypeOK
  <2> QED
    BY <2>1, <2>2, <2>3, <2>4, <2>5
<1>2. at[t] \in ShutdownStates \cup {"replying"}
  BY DEF Drain, DeleteDiscovery, CloseService, ReleaseElection, Reply, ShutdownStates
<1>3. d \in alive /\ d \in Daemons /\ d \in stopping /\ t \in Triggers
  BY <1>0, <1>2 DEF ThreadInv, Active, TypeOK
<1>4. \/ /\ at[t] = "draining" /\ at'[t] = "unpublishing" /\ drained'[d] \in {"yes", "timed out"}
         /\ UNCHANGED <<election, file, listening, answer>>
      \/ /\ at[t] = "unpublishing" /\ at'[t] = "closing" /\ file' = NoDaemon
         /\ UNCHANGED <<drained, election, listening, answer>>
      \/ /\ at[t] = "closing" /\ at'[t] = "releasing" /\ listening' = listening \ {d}
         /\ UNCHANGED <<drained, election, file, answer>>
      \/ /\ at[t] = "releasing" /\ at'[t] = (IF t \in Signals THEN "exiting" ELSE "replying")
         /\ election' = (IF election = d THEN NoDaemon ELSE election)
         /\ UNCHANGED <<drained, file, listening, answer>>
      \/ /\ at[t] = "replying" /\ at'[t] = "exiting" /\ answer' = [answer EXCEPT ![t] = "ok"]
         /\ UNCHANGED <<drained, election, file, listening>>
  <2>1. CASE Drain(t)
    BY <1>0, <1>3, <2>1 DEF Drain, Advance, shared, TypeOK
  <2>2. CASE DeleteDiscovery(t)
    BY <1>0, <2>2 DEF DeleteDiscovery, Advance, TypeOK
  <2>3. CASE CloseService(t)
    BY <1>0, <2>3 DEF CloseService, Advance, TypeOK
  <2>4. CASE ReleaseElection(t)
    BY <1>0, <2>4 DEF ReleaseElection, Advance, TypeOK
  <2>5. CASE Reply(t)
    BY <1>0, <2>5 DEF Reply, Advance, shared, TypeOK
  <2> QED
    BY <2>1, <2>2, <2>3, <2>4, <2>5
<1>5. at'[t] \in ShutdownStates \cup {"replying", "exiting"}
  BY <1>4 DEF ShutdownStates
<1>6. /\ \A e \in Daemons : drained[e] # "no" => drained'[e] # "no"
      /\ \A e \in Daemons \ {d} : drained'[e] = drained[e]
      /\ file' \in {file, NoDaemon}
  BY <1>1, <1>3, <1>4 DEF TypeOK
<1>7. TypeOK'
  <2>1. at'[t] \in ThreadStates
    BY <1>5 DEF ThreadStates
  <2>2. drained'[d] \in {"no", "yes", "timed out"} /\ election' \in Daemons \cup {NoDaemon}
        /\ listening' \in SUBSET Daemons
    BY <1>3, <1>4 DEF TypeOK
  <2>3. answer' \in [Threads -> {"none", "ok", "error", "shutting down"}]
    BY <1>4 DEF TypeOK
  <2> QED
    BY <1>1, <1>6, <2>1, <2>2, <2>3 DEF TypeOK
<1>8. ThreadInv'
  <2>1. SUFFICES ASSUME NEW u \in Threads
                 PROVE  /\ at'[u] \in {"new", "connecting", "reading"} \cup ShutdownStates
                              => answer'[u] = "none"
                        /\ at'[u] = "connecting" => to[u] \in Daemons
                        /\ at'[u] \in Active => to[u] \in alive
                        /\ at'[u] \in ShutdownStates \cup {"replying", "exiting"}
                              => u \in Triggers /\ to[u] \in stopping
                        /\ at'[u] \in Active /\ u \notin Signals => start[to[u]] = "serving"
    BY <1>1 DEF ThreadInv
  <2>2. CASE u # t
    BY <1>1, <2>1, <2>2 DEF ThreadInv
  <2>3. CASE u = t
    <3>1. to[t] \in alive /\ (t \notin Signals => start[to[t]] = "serving")
      BY <1>2 DEF ThreadInv, Active
    <3>2. at'[t] \in ShutdownStates => answer'[t] = "none"
      BY <1>4 DEF ThreadInv, ShutdownStates
    <3> QED
      BY <1>0, <1>3, <1>5, <2>3, <3>1, <3>2 DEF ShutdownStates
  <2> QED
    BY <2>2, <2>3
<1>9. \A u \in Threads : at'[u] \in ShutdownStates => at[u] \in ShutdownStates
  BY <1>1, <1>4 DEF ShutdownStates
<1>10. ShutdownInv'
  <2>1. \A u, v \in Threads : at'[u] \in ShutdownStates /\ at'[v] \in ShutdownStates
                             /\ to[u] = to[v] => u = v
    BY <1>9 DEF ShutdownInv
  <2>2. ASSUME NEW u \in Threads, at'[u] \in {"unpublishing", "closing", "releasing"}
        PROVE  /\ drained'[to[u]] # "no"
               /\ at'[u] \in {"closing", "releasing"} => file' # to[u]
    <3>1. to[u] \in Daemons
      BY <1>7, <1>8, <2>2, <1>1 DEF ThreadInv, Active, ShutdownStates, TypeOK
    <3>2. CASE u # t
      BY <1>1, <1>6, <2>2, <3>1, <3>2, ConstantsAssumption DEF ShutdownInv
    <3>3. CASE u = t
      BY <1>0, <1>3, <1>4, <1>6, <2>2, <3>3, ConstantsAssumption DEF ShutdownInv
    <3> QED
      BY <3>2, <3>3
  <2> QED
    BY <1>1, <2>1, <2>2 DEF ShutdownInv
<1>11. ProcessInv'
  BY <1>1, <1>3, <1>4, <1>6 DEF ProcessInv, TypeOK
<1>12. \A e \in Daemons : ShuttingDown(e)' => ShuttingDown(e)
  BY <1>1, <1>9 DEF ShuttingDown
<1>13. \A e \in Daemons : MainBusy(e) => MainBusy(e)'
  BY <1>1, <1>4 DEF MainBusy, ShutdownStates, Threads, Triggers
<1>14. MainInv'
  BY <1>1, <1>13 DEF MainInv, TypeOK
<1>15. HolderInv'
  <2>1. SUFFICES ASSUME NEW e \in alive, start[e] \in Started,
                        drained'[e] = "no" \/ ShuttingDown(e)'
                 PROVE  election' = e
    BY <1>1 DEF HolderInv
  <2>2. election = e
    BY <1>6, <1>12, <2>1 DEF HolderInv, TypeOK
  <2>3. CASE at[t] = "releasing"
    <3>1. drained'[d] # "no"
      BY <1>0, <1>4, <2>3 DEF ShutdownInv
    <3>2. ~ShuttingDown(d)'
      <4>1. \A u \in Threads \ {t} : to[u] = d => at[u] \notin ShutdownStates
        BY <1>0, <2>3 DEF ShutdownInv, ShutdownStates
      <4>2. at'[t] \notin ShutdownStates
        BY <1>4, <2>3 DEF ShutdownStates
      <4> QED
        BY <1>1, <4>1, <4>2 DEF ShuttingDown
    <3> QED
      BY <1>4, <2>1, <2>2, <2>3, <3>1, <3>2
  <2> QED
    BY <1>4, <2>2, <2>3
<1>16. PublishedInv'
  <2>1. SUFFICES ASSUME NEW e \in alive, start[e] \in {"published", "serving"}, e \notin stopping
                 PROVE  file' = e \/ \E o \in Daemons : StoppedOutsider(o)
    BY <1>1 DEF PublishedInv, StoppedOutsider
  <2>2. election = e
    BY <2>1 DEF HolderInv, ProcessInv, Started, TypeOK
  <2>3. CASE at[t] = "unpublishing"
    <3>1. start[d] \notin Started
      BY <1>0, <1>3, <2>1, <2>2, <2>3 DEF HolderInv, ShuttingDown, ShutdownStates
    <3> QED
      BY <1>3, <3>1 DEF StoppedOutsider, Started, StartStates, ProcessInv, TypeOK
  <2> QED
    BY <1>4, <2>1, <2>3 DEF PublishedInv
<1>17. \A e \in Daemons : Finished(e) => Finished(e)'
  BY <1>6, ConstantsAssumption DEF Finished
<1>18. SocketInv'
  <2>1. at[t] = "closing" => Finished(d)
    BY <1>0 DEF ShutdownInv, Finished
  <2> QED
    BY <1>1, <1>4, <1>17, <2>1 DEF SocketInv, TypeOK
<1>19. \A e \in Daemons : ~TriggeredOnce(e) => ~TriggeredOnce(e)'
  <2>1. \A u \in Threads : at[u] \notin {"new", "connecting"}
                          => at'[u] \notin {"new", "connecting"} /\ to'[u] = to[u]
    BY <1>1, <1>5 DEF ShutdownStates
  <2> QED
    BY <1>7, <2>1, TriggersKept
<1>20. StopInv'
  <2>1. SUFFICES ASSUME NEW e \in stopping \ killed, ~Finished(e)', TriggeredOnce(e)
                 PROVE  /\ e \in alive
                        /\ \E u \in TriggersOf(e)' : at'[u] \in {"draining", "unpublishing"}
    BY <1>1, <1>19 DEF StopInv, TypeOK
  <2>2. PICK u \in TriggersOf(e) : at[u] \in {"draining", "unpublishing"}
    BY <1>17, <2>1 DEF StopInv, TypeOK
  <2>3. e \in alive
    BY <1>17, <2>1 DEF StopInv, TypeOK
  <2>4. CASE u # t
    BY <1>1, <2>2, <2>3, <2>4 DEF TriggersOf, Threads
  <2>5. CASE u = t /\ at[t] = "draining"
    BY <1>1, <1>4, <2>2, <2>3, <2>5 DEF TriggersOf
  <2>6. CASE u = t /\ at[t] = "unpublishing"
    <3>1. e = d /\ drained[d] # "no"
      BY <1>0, <2>2, <2>6 DEF TriggersOf, ShutdownInv
    <3> QED
      BY <1>0, <1>3, <1>4, <2>1, <2>6, <3>1, ConstantsAssumption DEF Finished
  <2> QED
    BY <2>2, <2>4, <2>5, <2>6
<1> QED
  BY <1>7, <1>8, <1>10, <1>11, <1>14, <1>15, <1>16, <1>18, <1>20

\* Every step preserves the invariant.
LEMMA StepIInv == IInv /\ [Next]_vars => IInv'
<1> SUFFICES ASSUME IInv, [Next]_vars PROVE IInv'
  OBVIOUS
<1>1. CASE \E d \in Daemons : \/ Launch(d) \/ StartStep(d) \/ MainReturns(d) \/ Kill(d)
                              \/ \E t \in Signals : Signal(t, d)
  BY <1>1, LaunchIInv, StartIInv, DeathIInv, SignalIInv
<1>2. CASE \E t \in Threads : \/ Discover(t) \/ Connect(t) \/ DispatchOne(t) \/ Answer(t)
                              \/ Shutdown(t) \/ ShutdownStep(t)
  BY <1>2, RequestIInv, ShutdownIInv, ShutdownStepIInv, ExitIInv DEF ShutdownStep
<1>3. CASE UNCHANGED vars
  <2>1. UNCHANGED <<start, alive, stopping, drained, election, file, listening, at, to, answer, killed>>
    BY <1>3 DEF vars, process, shared, threads
  <2>2. TypeOK' /\ ThreadInv' /\ ShutdownInv' /\ ProcessInv'
    BY <2>1 DEF IInv, TypeOK, ThreadInv, ShutdownInv, ProcessInv
  <2>3. MainInv' /\ HolderInv' /\ PublishedInv' /\ SocketInv' /\ StopInv'
    BY <2>1 DEF IInv, MainInv, MainBusy, HolderInv, ShuttingDown, PublishedInv, StoppedOutsider,
                SocketInv, StopInv, Finished, TriggeredOnce, TriggersOf
  <2> QED
    BY <2>2, <2>3 DEF IInv
<1> QED
  BY <1>1, <1>2, <1>3 DEF Next

\* The inductive invariant holds in every reachable state.
LEMMA Invariance == Spec => []IInv
BY InitIInv, StepIInv, PTL DEF Spec

-----------------------------------------------------------------------------
(* The theorems *)

\* The variables keep their types, whatever the processes and requests are.
THEOREM TypeCorrect == Spec => []TypeOK
BY Invariance, PTL DEF IInv

\* Both writers would have to hold the election port: on_shutdown gives it up only
\* after the queues were drained, or after the deadline of the drain.
THEOREM OneWriter == Spec => []OneWritingDaemon
<1>1. IInv => OneWritingDaemon
  <2>1. SUFFICES ASSUME IInv, NEW d \in Daemons, NEW e \in Daemons, Writing(d), Writing(e), d # e,
                        drained[d] # "timed out", drained[e] # "timed out"
                 PROVE  FALSE
    BY DEF OneWritingDaemon
  <2>2. drained[d] = "no" /\ drained[e] = "no"
    BY <2>1 DEF IInv, TypeOK, Writing
  <2>3. election = d /\ election = e
    BY <2>1, <2>2 DEF IInv, HolderInv, Started, Writing
  <2> QED
    BY <2>1, <2>3
<1> QED
  BY <1>1, Invariance, PTL

\* The discovery file names the daemon that serves, unless a process was stopped
\* that had not won the election, or had lost it again.
THEOREM Discoverable == Spec => []ServingIsDiscoverable
<1>1. IInv => ServingIsDiscoverable
  BY DEF IInv, PublishedInv, ServingIsDiscoverable
<1> QED
  BY <1>1, Invariance, PTL

\* shutdown() run once does all it promises before its process ends or anybody is told.
THEOREM CleanStops == Spec => []OneTriggerStopsCleanly
<1>1. IInv => OneTriggerStopsCleanly
  <2>1. SUFFICES ASSUME IInv, NEW d \in stopping \ killed, TriggeredOnce(d), ~Finished(d),
                        NEW u \in Triggers, to[u] = d, answer[u] = "ok" \/ d \notin alive
                 PROVE  FALSE
    BY DEF OneTriggerStopsCleanly, CleanStop, Finished
  <2>2. PICK t \in TriggersOf(d) : d \in alive /\ at[t] \in {"draining", "unpublishing"}
    BY <2>1 DEF IInv, StopInv
  <2>3. t \in Threads /\ u \in Threads /\ answer[t] = "none" /\ answer[u] = "ok"
    BY <2>1, <2>2 DEF IInv, ThreadInv, ShutdownStates, TriggersOf, Threads
  <2>4. u \in TriggersOf(d)
    BY <2>1, <2>3 DEF IInv, ThreadInv, TriggersOf
  <2> QED
    BY <2>1, <2>2, <2>3, <2>4 DEF TriggeredOnce
<1> QED
  BY <1>1, Invariance, PTL
-----------------------------------------------------------------------------
(* A shutdown is never left half done *)

\* Where a thread stands that runs a shutdown, answers for it or ends the process:
\* each ShutdownStep waits for nothing but its own place in this order.
Carrying == ShutdownStates \cup {"replying", "exiting"}

\* Some thread of a process that was told to stop carries the shutdown on, whatever
\* became of its accept loop, of start() and of the other triggers.
ShutdownGoesOn ==
    \A d \in alive \cap stopping : \E t \in Triggers : to[t] = d /\ at[t] \in Carrying

\* A thread of another process does not move when a process ends, and no thread moves
\* by a step of start(): whoever carried the shutdown on still does.
LEMMA OthersCarryOn ==
    ASSUME TypeOK, ShutdownGoesOn, NEW x,
           alive' \cap stopping' \subseteq (alive \cap stopping) \ {x}, to' = to,
           \A t \in Threads : to[t] # x => at'[t] = at[t]
    PROVE  ShutdownGoesOn'
<1> SUFFICES ASSUME NEW d \in alive' \cap stopping'
             PROVE  \E t \in Triggers : to'[t] = d /\ at'[t] \in Carrying
  BY DEF ShutdownGoesOn
<1>1. d \in alive \cap stopping /\ d # x
  OBVIOUS
<1>2. PICK t \in Triggers : to[t] = d /\ at[t] \in Carrying
  BY <1>1 DEF ShutdownGoesOn
<1> QED
  BY <1>1, <1>2 DEF Threads

\* A thread moves and the processes stay: it carries on itself, or it did not before.
LEMMA OneThreadMoves ==
    ASSUME TypeOK, ShutdownGoesOn, NEW t \in Threads, alive' = alive,
           stopping' \subseteq stopping \cup {to'[t]},
           \A u \in Threads \ {t} : at'[u] = at[u] /\ to'[u] = to[u],
           \/ at'[t] \in Carrying /\ t \in Triggers /\ (at[t] \in Carrying => to'[t] = to[t])
           \/ at[t] \notin Carrying /\ stopping' = stopping
    PROVE  ShutdownGoesOn'
<1> SUFFICES ASSUME NEW d \in alive \cap stopping'
             PROVE  \E u \in Triggers : to'[u] = d /\ at'[u] \in Carrying
  BY DEF ShutdownGoesOn
<1>1. CASE d = to'[t] /\ at'[t] \in Carrying /\ t \in Triggers
  BY <1>1
<1>2. CASE ~(d = to'[t] /\ at'[t] \in Carrying /\ t \in Triggers)
  <2>1. d \in stopping
    BY <1>2
  <2>2. PICK u \in Triggers : to[u] = d /\ at[u] \in Carrying
    BY <2>1 DEF ShutdownGoesOn
  <2>3. u \in Threads /\ u # t
    BY <1>2, <2>2 DEF Threads
  <2> QED
    BY <2>2, <2>3
<1> QED
  BY <1>1, <1>2

\* The steps of the processes.
LEMMA ProcessGoesOn ==
    ASSUME IInv, ShutdownGoesOn, NEW d \in Daemons,
           Launch(d) \/ StartStep(d) \/ MainReturns(d) \/ Kill(d)
    PROVE  ShutdownGoesOn'
<1>1. TypeOK
  BY DEF IInv
<1>2. CASE Launch(d)
  <2>1. d \notin stopping
    BY <1>2 DEF Launch, IInv, ProcessInv
  <2>2. alive' \cap stopping' = alive \cap stopping /\ at' = at /\ to' = to
    BY <1>2, <2>1 DEF Launch, threads
  <2> QED
    BY <2>2 DEF ShutdownGoesOn
<1>3. CASE StartStep(d)
  <2>1. alive' = alive /\ stopping' = stopping /\ at' = at /\ to' = to
    BY <1>3 DEF StartStep, BindElection, BindService, PublishDiscovery, StartAccepting, StartFails,
                MainStep, threads
  <2> QED
    BY <2>1 DEF ShutdownGoesOn
<1>4. CASE MainReturns(d) \/ Kill(d)
  <2>1. ProcessEnds(d)
    BY <1>4 DEF MainReturns, Kill
  <2> QED
    BY <1>1, <2>1, OthersCarryOn DEF ProcessEnds
<1> QED
  BY <1>2, <1>3, <1>4

\* The steps of the threads.
LEMMA ThreadGoesOn ==
    ASSUME IInv, ShutdownGoesOn, NEW t \in Threads,
           \/ Discover(t) \/ Connect(t) \/ DispatchOne(t) \/ Answer(t)
           \/ Shutdown(t) \/ ShutdownStep(t) \/ \E d \in Daemons : Signal(t, d)
    PROVE  ShutdownGoesOn'
<1>1. TypeOK
  BY DEF IInv
<1>2. CASE Discover(t) \/ Connect(t) \/ DispatchOne(t) \/ Answer(t)
  <2>1. at[t] \notin Carrying
    BY <1>2 DEF Discover, Connect, DispatchOne, Answer, Carrying, ShutdownStates
  <2>2. /\ alive' = alive /\ stopping' = stopping
        /\ \A u \in Threads \ {t} : at'[u] = at[u] /\ to'[u] = to[u]
    BY <1>1, <1>2 DEF TypeOK, Discover, Connect, DispatchOne, Answer, Advance, process
  <2> QED
    BY <1>1, <2>1, <2>2, OneThreadMoves
<1>3. CASE Shutdown(t)
  <2>1. /\ t \in Triggers /\ alive' = alive /\ to' = to /\ stopping' = stopping \cup {to[t]}
        /\ \A u \in Threads \ {t} : at'[u] = at[u]
    BY <1>1, <1>3 DEF TypeOK, Shutdown, Advance, Triggers
  <2>2. at'[t] \in Carrying
    BY <1>1, <1>3 DEF TypeOK, Shutdown, Advance, Carrying, ShutdownStates
  <2> QED
    BY <1>1, <2>1, <2>2, OneThreadMoves
<1>4. CASE \E d \in Daemons : Signal(t, d)
  <2>1. PICK d \in Daemons : Signal(t, d)
    BY <1>4
  <2>2. /\ t \in Triggers /\ alive' = alive /\ to'[t] = d /\ stopping' = stopping \cup {d}
        /\ \A u \in Threads \ {t} : at'[u] = at[u] /\ to'[u] = to[u]
    BY <1>1, <2>1 DEF TypeOK, Signal, Advance, Triggers, shared
  <2>3. at'[t] \in Carrying /\ at[t] \notin Carrying
    BY <1>1, <2>1 DEF TypeOK, Signal, Advance, Carrying, ShutdownStates
  <2> QED
    BY <1>1, <2>2, <2>3, OneThreadMoves
<1>5. CASE Drain(t) \/ DeleteDiscovery(t) \/ CloseService(t) \/ ReleaseElection(t) \/ Reply(t)
  <2>1. /\ alive' = alive /\ to' = to /\ stopping' = stopping /\ at[t] \in Carrying
        /\ \A u \in Threads \ {t} : at'[u] = at[u]
    BY <1>1, <1>5 DEF TypeOK, Drain, DeleteDiscovery, CloseService, ReleaseElection, Reply, Advance,
                      process, Carrying, ShutdownStates
  <2>2. at'[t] \in Carrying
    BY <1>1, <1>5 DEF TypeOK, Drain, DeleteDiscovery, CloseService, ReleaseElection, Reply, Advance,
                      Carrying, ShutdownStates
  <2>3. t \in Triggers
    BY <2>1 DEF IInv, ThreadInv, Carrying
  <2> QED
    BY <1>1, <2>1, <2>2, <2>3, OneThreadMoves
<1>6. CASE ForceExit(t)
  BY <1>1, <1>6, OthersCarryOn DEF ForceExit, ProcessEnds
<1> QED
  BY <1>2, <1>3, <1>4, <1>5, <1>6 DEF ShutdownStep

\* What ShutdownEnds needs of every state: a process that was told to stop and still
\* exists has a thread whose next step ends it or brings its end nearer
\* (server.py:179, shutdown; server.py:204, _exit_process).
THEOREM ShutdownIsCarriedOut == Spec => []ShutdownGoesOn
<1>1. Init => ShutdownGoesOn
  BY DEF Init, ShutdownGoesOn
<1>2. IInv /\ ShutdownGoesOn /\ [Next]_vars => ShutdownGoesOn'
  <2> SUFFICES ASSUME IInv, ShutdownGoesOn, [Next]_vars PROVE ShutdownGoesOn'
    OBVIOUS
  <2>1. CASE \E d \in Daemons : \/ Launch(d) \/ StartStep(d) \/ MainReturns(d) \/ Kill(d)
                                \/ \E t \in Signals : Signal(t, d)
    BY <2>1, ProcessGoesOn, ThreadGoesOn DEF Threads, Triggers
  <2>2. CASE \E t \in Threads : \/ Discover(t) \/ Connect(t) \/ DispatchOne(t) \/ Answer(t)
                                \/ Shutdown(t) \/ ShutdownStep(t)
    BY <2>2, ThreadGoesOn
  <2>3. CASE UNCHANGED vars
    BY <2>3 DEF vars, process, threads, ShutdownGoesOn
  <2> QED
    BY <2>1, <2>2, <2>3 DEF Next
<1> QED
  BY <1>1, <1>2, Invariance, PTL DEF Spec
=============================================================================
