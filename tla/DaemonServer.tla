---------------------------- MODULE DaemonServer ----------------------------
(***************************************************************************)
(* The life of daemon processes and of the requests they serve             *)
(* (daemon/server.py, with main() and the exit_process and on_shutdown of  *)
(* daemon/runtime.py).  Two resources are shared by the processes of one   *)
(* machine: the election port, which the operating system takes back from  *)
(* a process that ends, and the discovery file, which it does not.         *)
(*                                                                         *)
(* Shutdown is triggered by a `shutdown' request, which runs it on its     *)
(* connection's thread, or by a signal, which runs it on the main thread   *)
(* wherever that thread is.                                                *)
(***************************************************************************)
EXTENDS Naturals, FiniteSets

CONSTANTS Daemons,    \* the processes that may ever be launched
          Calls,      \* the tool requests of clients
          Stops,      \* the `shutdown' requests of clients
          Signals,    \* the SIGTERMs and SIGINTs sent to daemons
          NoDaemon,
          MaxKills    \* bound on the processes killed outright

ASSUME ConstantsAssumption ==
    /\ IsFiniteSet(Daemons)
    /\ NoDaemon \notin Daemons
    /\ Calls \cap Stops = {} /\ Calls \cap Signals = {} /\ Stops \cap Signals = {}
    /\ MaxKills \in Nat

VARIABLES
    start,      \* how far main() and start() have come in each process
    alive,      \* the processes that exist
    stopping,   \* those with _shutdown_started and _shutting_down set
    drained,    \* whether on_shutdown has returned in each, and how
    election,   \* the process that holds the election port
    file,       \* the process that the discovery file names
    listening,  \* the processes whose service socket is open
    at,         \* where each request or signal is
    to,         \* the process it is for
    answer,     \* the response its client received
    killed      \* the processes that were killed

process == <<start, alive, stopping, drained, killed>>
shared  == <<election, file, listening>>
threads == <<at, to, answer>>
vars == <<process, shared, threads>>

Triggers == Stops \cup Signals
Threads  == Calls \cup Triggers

StartStates == {"unborn", "launched", "elected", "bound", "published", "serving",
                "outvoted", "failed"}
ShutdownStates == {"draining", "unpublishing", "closing", "releasing"}
ThreadStates == {"new", "connecting", "reading", "dispatching", "replying",
                 "exiting", "done", "lost"} \cup ShutdownStates

TypeOK ==
    /\ start \in [Daemons -> StartStates]
    /\ alive \in SUBSET Daemons
    /\ stopping \in SUBSET Daemons
    /\ drained \in [Daemons -> {"no", "yes", "timed out"}]
    /\ election \in Daemons \cup {NoDaemon}
    /\ file \in Daemons \cup {NoDaemon}
    /\ listening \in SUBSET Daemons
    /\ at \in [Threads -> ThreadStates]
    /\ to \in [Threads -> Daemons \cup {NoDaemon}]
    /\ answer \in [Threads -> {"none", "ok", "error", "shutting down"}]
    /\ killed \in SUBSET Daemons

Init ==
    /\ start = [d \in Daemons |-> "unborn"]
    /\ alive = {}
    /\ stopping = {}
    /\ drained = [d \in Daemons |-> "no"]
    /\ election = NoDaemon
    /\ file = NoDaemon
    /\ listening = {}
    /\ at = [t \in Threads |-> "new"]
    /\ to = [t \in Threads |-> NoDaemon]
    /\ answer = [t \in Threads |-> "none"]
    /\ killed = {}

-----------------------------------------------------------------------------
(* main and start *)

\* A signal handler runs on the main thread, which does nothing else meanwhile.
MainBusy(d) ==
    \E s \in Signals : to[s] = d /\ at[s] \in ShutdownStates \cup {"exiting"}

MainStep(d, from, upto) ==
    /\ d \in alive
    /\ start[d] = from
    /\ ~MainBusy(d)
    /\ start' = [start EXCEPT ![d] = upto]
    /\ UNCHANGED <<stopping, drained, killed, threads>>

\* A client spawns a daemon; its signal handlers are installed before start().
Launch(d) ==
    /\ start[d] = "unborn"
    /\ start' = [start EXCEPT ![d] = "launched"]
    /\ alive' = alive \cup {d}
    /\ UNCHANGED <<stopping, drained, killed, shared, threads>>

\* Mutant: the election port can be bound twice.
BindElectionShared(d) ==
    /\ MainStep(d, "launched", "elected")
    /\ election' = d
    /\ UNCHANGED <<alive, file, listening>>

\* _bind_election_port
BindElection(d) ==
    \/ /\ election = NoDaemon
       /\ MainStep(d, "launched", "elected")
       /\ election' = d
       /\ UNCHANGED <<alive, file, listening>>
    \/ /\ election # NoDaemon
       /\ MainStep(d, "launched", "outvoted")
       /\ UNCHANGED <<alive, shared>>

BindService(d) ==
    /\ MainStep(d, "elected", "bound")
    /\ listening' = listening \cup {d}
    /\ UNCHANGED <<alive, election, file>>

PublishDiscovery(d) ==
    /\ MainStep(d, "bound", "published")
    /\ file' = d
    /\ UNCHANGED <<alive, election, listening>>

StartAccepting(d) ==
    /\ MainStep(d, "published", "serving")
    /\ UNCHANGED <<alive, shared>>

\* A step of start() raises: its handler undoes what was done before.
StartFails(d) ==
    /\ \E from \in {"elected", "bound", "published"} : MainStep(d, from, "failed")
    /\ file' = IF start[d] = "published" THEN NoDaemon ELSE file
    /\ listening' = listening \ {d}
    /\ election' = NoDaemon
    /\ UNCHANGED alive

\* The end of a process: its sockets are closed and its threads are gone.
ProcessEnds(d) ==
    /\ alive' = alive \ {d}
    /\ election' = IF election = d THEN NoDaemon ELSE election
    /\ listening' = listening \ {d}
    /\ at' = [t \in Threads |->
                IF to[t] = d /\ at[t] \notin {"connecting", "done"} THEN "lost" ELSE at[t]]
    /\ UNCHANGED <<start, stopping, drained, file, to, answer>>

\* main() raised out of start(), or the accept loop noticed that its socket is
\* closed, which it may never do, and serve_forever() returned.
MainReturns(d) ==
    /\ d \in alive
    /\ ~MainBusy(d)
    /\ \/ start[d] \in {"outvoted", "failed"}
       \/ start[d] = "serving" /\ d \notin listening
    /\ ProcessEnds(d)
    /\ UNCHANGED killed

Kill(d) ==
    /\ d \in alive
    /\ Cardinality(killed) < MaxKills
    /\ killed' = killed \cup {d}
    /\ ProcessEnds(d)

-----------------------------------------------------------------------------
(* Requests *)

Advance(t, state) == at' = [at EXCEPT ![t] = state]

\* The client reads the discovery file.
Discover(t) ==
    /\ t \in Calls \cup Stops
    /\ at[t] = "new"
    /\ to' = [to EXCEPT ![t] = file]
    /\ Advance(t, IF file = NoDaemon THEN "lost" ELSE "connecting")
    /\ UNCHANGED <<process, shared, answer>>

\* It connects by what it read, and is accepted once the accept loop runs.
Connect(t) ==
    /\ at[t] = "connecting"
    /\ \/ to[t] \notin listening /\ Advance(t, "lost")
       \/ to[t] \in listening /\ start[to[t]] = "serving" /\ Advance(t, "reading")
    /\ UNCHANGED <<process, shared, to, answer>>

\* _dispatch_one for anything but `shutdown'
DispatchOne(t) ==
    /\ t \in Calls
    /\ at[t] = "reading"
    /\ \/ /\ to[t] \in stopping
          /\ Advance(t, "done")
          /\ answer' = [answer EXCEPT ![t] = "shutting down"]
       \/ /\ to[t] \notin stopping
          /\ Advance(t, "dispatching")
          /\ UNCHANGED answer
    /\ UNCHANGED <<process, shared, to>>

\* The dispatched request's submits are refused once the queues are closed.
Answer(t) ==
    /\ at[t] = "dispatching"
    /\ Advance(t, "done")
    /\ \E a \in {"ok"} \cup (IF to[t] \in stopping THEN {"error"} ELSE {}) :
           answer' = [answer EXCEPT ![t] = a]
    /\ UNCHANGED <<process, shared, to>>

-----------------------------------------------------------------------------
(* shutdown *)

\* A signal reaches a process, and its handler takes the main thread over.
Signal(t, d) ==
    /\ t \in Signals
    /\ at[t] = "new"
    /\ d \in alive
    /\ to' = [to EXCEPT ![t] = d]
    /\ stopping' = stopping \cup {d}
    /\ Advance(t, IF d \in stopping THEN "exiting" ELSE "draining")
    /\ UNCHANGED <<start, alive, drained, killed, shared, answer>>

\* A second shutdown() returns at once, to a caller that goes on to reply.
Shutdown(t) ==
    /\ t \in Stops
    /\ at[t] = "reading"
    /\ stopping' = stopping \cup {to[t]}
    /\ Advance(t, IF to[t] \in stopping THEN "replying" ELSE "draining")
    /\ UNCHANGED <<start, alive, drained, killed, shared, to, answer>>

\* Mutant: the election port is released before the queues are drained.
ReleaseElectionFirst(t) ==
    /\ at[t] = "draining"
    /\ election' = IF election = to[t] THEN NoDaemon ELSE election
    /\ drained' = [drained EXCEPT ![to[t]] = "yes"]
    /\ Advance(t, "unpublishing")
    /\ UNCHANGED <<start, alive, stopping, killed, file, listening, to, answer>>

\* on_shutdown: bounded by a deadline.
Drain(t) ==
    /\ at[t] = "draining"
    /\ \E result \in {"yes", "timed out"} :
           drained' = [drained EXCEPT ![to[t]] = result]
    /\ Advance(t, "unpublishing")
    /\ UNCHANGED <<start, alive, stopping, killed, shared, to, answer>>

\* Mutant: the discovery file is left to whoever starts next.
LeaveDiscovery(t) ==
    /\ at[t] = "unpublishing"
    /\ Advance(t, "closing")
    /\ UNCHANGED <<process, shared, to, answer>>

\* delete_discovery_file: whatever file is there.
DeleteDiscovery(t) ==
    /\ at[t] = "unpublishing"
    /\ file' = NoDaemon
    /\ Advance(t, "closing")
    /\ UNCHANGED <<process, election, listening, to, answer>>

CloseService(t) ==
    /\ at[t] = "closing"
    /\ listening' = listening \ {to[t]}
    /\ Advance(t, "releasing")
    /\ UNCHANGED <<process, election, file, to, answer>>

ReleaseElection(t) ==
    /\ at[t] = "releasing"
    /\ election' = IF election = to[t] THEN NoDaemon ELSE election
    /\ Advance(t, IF t \in Signals THEN "exiting" ELSE "replying")
    /\ UNCHANGED <<process, file, listening, to, answer>>

Reply(t) ==
    /\ at[t] = "replying"
    /\ answer' = [answer EXCEPT ![t] = "ok"]
    /\ Advance(t, "exiting")
    /\ UNCHANGED <<process, shared, to>>

\* Mutant: the process is left to end when the accept loop notices.
NoForcedExit(t) ==
    /\ at[t] = "exiting"
    /\ Advance(t, "done")
    /\ UNCHANGED <<process, shared, to, answer>>

\* _exit_process: os._exit
ForceExit(t) ==
    /\ at[t] = "exiting"
    /\ ProcessEnds(to[t])
    /\ UNCHANGED killed

-----------------------------------------------------------------------------

StartStep(d) ==
    \/ BindElection(d) \/ BindService(d) \/ PublishDiscovery(d)
    \/ StartAccepting(d) \/ StartFails(d)

ShutdownStep(t) ==
    \/ Drain(t) \/ DeleteDiscovery(t) \/ CloseService(t) \/ ReleaseElection(t)
    \/ Reply(t) \/ ForceExit(t)

Next ==
    \/ \E d \in Daemons : \/ Launch(d) \/ StartStep(d) \/ MainReturns(d) \/ Kill(d)
                          \/ \E t \in Signals : Signal(t, d)
    \/ \E t \in Threads : \/ Discover(t) \/ Connect(t) \/ DispatchOne(t) \/ Answer(t)
                          \/ Shutdown(t) \/ ShutdownStep(t)

\* The threads of a process run, and the drain keeps its deadline; whether the
\* accept loop ever notices its closed socket is left open.
Fairness == \A t \in Threads : WF_vars(Connect(t) \/ ShutdownStep(t))

Spec == Init /\ [][Next]_vars /\ Fairness

-----------------------------------------------------------------------------
(* Properties *)

\* The process can have a job of some repository running.
Writing(d) == d \in alive /\ start[d] = "serving" /\ drained[d] # "yes"

\* Two processes never write to the indexes at once: a new daemon is kept out by
\* the election port until the old one has drained its queues, unless the drain
\* ran out of its time and left a writer behind.
OneWritingDaemon ==
    \A d, e \in Daemons : Writing(d) /\ Writing(e) /\ d # e
        => "timed out" \in {drained[d], drained[e]}

\* A process stopped by a signal while it does not hold the election port: before
\* it tried to bind it, or on its way out of a start() that failed.
StoppedOutsider(d) ==
    d \in stopping /\ start[d] \in {"launched", "outvoted", "failed"}

\* Clients can find the daemon that serves: a stale file, a process that is
\* ending and a process that lost the election do not hide it.  Only a process
\* that is stopped without holding the port can: it deletes the file of another.
ServingIsDiscoverable ==
    \A d \in alive : start[d] = "serving" /\ d \notin stopping
        => file = d \/ \E e \in Daemons : StoppedOutsider(e)

TriggersOf(d) == {t \in Triggers : to[t] = d /\ at[t] \notin {"new", "connecting"}}

\* A stop was clean if the queues were drained, or their time was used up, before
\* anybody was told and before the process ended, and no file names the process.
CleanStop(d) ==
    (\E t \in Triggers : to[t] = d /\ (answer[t] = "ok" \/ d \notin alive))
        => drained[d] # "no" /\ file # d

TriggeredOnce(d) == \A t, u \in TriggersOf(d) : t = u

\* A daemon that was triggered once and not killed stops cleanly.
OneTriggerStopsCleanly ==
    \A d \in stopping \ killed : TriggeredOnce(d) => CleanStop(d)

\* The same for any number of triggers, as if a second one were a no-op.
\* It does not hold: README, Disagreements.
SecondTriggerIsNoOp == \A d \in stopping \ killed : CleanStop(d)

\* A daemon whose shutdown was triggered ends, even if its accept loop never
\* notices the closed socket.
ShutdownEnds == \A d \in Daemons : d \in stopping ~> d \notin alive
=============================================================================
