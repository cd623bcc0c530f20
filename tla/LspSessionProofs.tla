-------------------------- MODULE LspSessionProofs --------------------------
(***************************************************************************)
(* Proofs about the language server processes and the sessions over them.  *)
(*                                                                         *)
(* First the registry alone, for any number of overlapping calls and of    *)
(* children: ensure_process, crashes, idle timers and close() together     *)
(* never run two children and never lose one.  Then the sessions: every    *)
(* step of LspSession is a step of PyrightRegistry or leaves its variables *)
(* alone, so that what holds of the registry holds in every session.  Last *)
(* what the sessions add: their types, what a pass leaves behind, and that *)
(* it can be held up only by a child that does not read.                   *)
(***************************************************************************)
EXTENDS LspSession, TLAPS

-----------------------------------------------------------------------------
(* The registry *)

\* The calls between their second look-up and their return hold the creation lock,
\* and nobody else does.
Locked == {"foundLocked", "spawning", "spawned", "terminating"}

LockInv ==
    /\ \A u \in Users : call[u] \in Locked => creator = u
    /\ creator # None => call[creator] \in Locked

\* While a call spawns there is no entry, since only that call could add one; what
\* it has spawned and what is registered are children that have been born.
SpawnInv ==
    /\ \A u \in Users : call[u] \in {"spawning", "spawned"} => entry = None
    /\ \A u \in Users : call[u] = "spawned" => held[u] \in Procs /\ proc[held[u]] # "new"
    /\ entry # None => proc[entry] # "new"

\* What a call holds has been born, and a spawner alone holds what it spawned.
BornInv ==
    /\ \A u \in Users : held[u] # None => proc[held[u]] # "new"
    /\ \A u, v \in Users : call[u] = "spawned" /\ held[v] = held[u] => v = u

\* The second half of OneManagedChild, from which the first one follows, and for
\* the children that have been told to exit as well.
NoneUnnoticed ==
    \A p \in Procs : Alive(p) => \/ p = entry
                                 \/ p \in doomed
                                 \/ \E u \in Users : call[u] = "spawned" /\ held[u] = p

RInv ==
    /\ RegistryTypeOK
    /\ LockInv
    /\ SpawnInv
    /\ BornInv
    /\ NoneUnnoticed
    /\ EntriesExpire

-----------------------------------------------------------------------------

\* A registry without children satisfies every part of the invariant.
LEMMA InitRInv == RegistryInit => RInv
BY UsersAndProcs DEF RegistryInit, RInv, RegistryTypeOK, LockInv, Locked, SpawnInv, BornInv,
                     NoneUnnoticed, Alive, EntriesExpire

\* Every step of a call, a timer, close() or a child preserves the invariant.
LEMMA StepRInv == RInv /\ [RegistryNext]_registryVars => RInv'
<1> SUFFICES ASSUME RInv, [RegistryNext]_registryVars PROVE RInv'
  OBVIOUS
<1> USE UsersAndProcs DEF RInv, Locked, registryVars, timerVars, callVars
<1>1. ASSUME NEW u \in Users, Ensure(u) PROVE RInv'
  <2>1. RegistryTypeOK'
    BY <1>1 DEF Ensure, LookUp, DropEntry, Goto, Hold, Alive, RegistryTypeOK
  <2>2. LockInv'
    BY <1>1 DEF Ensure, LookUp, DropEntry, Goto, Hold, Alive, LockInv, RegistryTypeOK
  <2>3. SpawnInv'
    BY <1>1 DEF Ensure, LookUp, DropEntry, Goto, Hold, Alive, SpawnInv, RegistryTypeOK, LockInv
  <2>4. NoneUnnoticed'
    BY <1>1 DEF Ensure, LookUp, DropEntry, Goto, Hold, Alive, NoneUnnoticed, RegistryTypeOK, LockInv, SpawnInv
  <2>5. BornInv'
    BY <1>1 DEF Ensure, LookUp, DropEntry, Goto, Hold, Alive, BornInv, RegistryTypeOK, LockInv, SpawnInv
  <2>6. EntriesExpire'
    BY <1>1 DEF Ensure, LookUp, DropEntry, Goto, Hold, Alive, EntriesExpire, RegistryTypeOK
  <2> QED
    BY <2>1, <2>2, <2>3, <2>4, <2>5, <2>6 DEF RInv
<1>2. ASSUME NEW u \in Users, EnsureLocked(u) PROVE RInv'
  <2>1. RegistryTypeOK'
    BY <1>2 DEF EnsureLocked, LookUp, DropEntry, Goto, Hold, Alive, RegistryTypeOK
  <2>2. LockInv'
    BY <1>2 DEF EnsureLocked, LookUp, DropEntry, Goto, Hold, Alive, LockInv, RegistryTypeOK
  <2>3. SpawnInv'
    BY <1>2 DEF EnsureLocked, LookUp, DropEntry, Goto, Hold, Alive, SpawnInv, RegistryTypeOK, LockInv
  <2>4. NoneUnnoticed'
    BY <1>2 DEF EnsureLocked, LookUp, DropEntry, Goto, Hold, Alive, NoneUnnoticed, RegistryTypeOK, LockInv, SpawnInv
  <2>5. BornInv'
    BY <1>2 DEF EnsureLocked, LookUp, DropEntry, Goto, Hold, Alive, BornInv, RegistryTypeOK, LockInv, SpawnInv
  <2>6. EntriesExpire'
    BY <1>2 DEF EnsureLocked, LookUp, DropEntry, Goto, Hold, Alive, EntriesExpire, RegistryTypeOK
  <2> QED
    BY <2>1, <2>2, <2>3, <2>4, <2>5, <2>6 DEF RInv
<1>3. ASSUME NEW u \in Users, Touch(u) PROVE RInv'
  <2>1. RegistryTypeOK'
    BY <1>3 DEF Touch, Goto, Unlock, Alive, RegistryTypeOK
  <2>2. LockInv'
    BY <1>3 DEF Touch, Goto, Unlock, Alive, LockInv, RegistryTypeOK
  <2>3. SpawnInv'
    BY <1>3 DEF Touch, Goto, Unlock, Alive, SpawnInv, RegistryTypeOK, LockInv
  <2>4. NoneUnnoticed'
    BY <1>3 DEF Touch, Goto, Unlock, Alive, NoneUnnoticed, RegistryTypeOK, LockInv, SpawnInv
  <2>5. BornInv'
    BY <1>3 DEF Touch, Goto, Unlock, Alive, BornInv, RegistryTypeOK, LockInv, SpawnInv
  <2>6. EntriesExpire'
    BY <1>3 DEF Touch, Goto, Unlock, Alive, EntriesExpire, RegistryTypeOK
  <2> QED
    BY <2>1, <2>2, <2>3, <2>4, <2>5, <2>6 DEF RInv
<1>4. ASSUME NEW u \in Users, SpawnFails(u) PROVE RInv'
  <2>1. RegistryTypeOK'
    BY <1>4 DEF SpawnFails, Goto, Unlock, RegistryTypeOK
  <2>2. LockInv'
    BY <1>4 DEF SpawnFails, Goto, Unlock, LockInv, RegistryTypeOK
  <2>3. SpawnInv'
    BY <1>4 DEF SpawnFails, Goto, Unlock, SpawnInv, RegistryTypeOK, LockInv
  <2>4. NoneUnnoticed'
    BY <1>4 DEF SpawnFails, Goto, Unlock, Alive, NoneUnnoticed, RegistryTypeOK, LockInv, SpawnInv
  <2>5. BornInv'
    BY <1>4 DEF SpawnFails, Goto, Unlock, Alive, BornInv, RegistryTypeOK, LockInv, SpawnInv
  <2>6. EntriesExpire'
    BY <1>4 DEF SpawnFails, Goto, Unlock, EntriesExpire, RegistryTypeOK
  <2> QED
    BY <2>1, <2>2, <2>3, <2>4, <2>5, <2>6 DEF RInv
<1>5. ASSUME NEW u \in Users, Spawn(u) PROVE RInv'
  <2>1. RegistryTypeOK'
    BY <1>5 DEF Spawn, Goto, Hold, Unborn, RegistryTypeOK
  <2>2. LockInv'
    BY <1>5 DEF Spawn, Goto, Hold, Unborn, LockInv, RegistryTypeOK
  <2>3. SpawnInv'
    BY <1>5 DEF Spawn, Goto, Hold, Unborn, SpawnInv, RegistryTypeOK, LockInv
  <2>4. NoneUnnoticed'
    BY <1>5 DEF Spawn, Goto, Hold, Unborn, Alive, NoneUnnoticed, RegistryTypeOK, LockInv, SpawnInv
  <2>5. BornInv'
    BY <1>5 DEF Spawn, Goto, Hold, Unborn, Alive, BornInv, RegistryTypeOK, LockInv, SpawnInv
  <2>6. EntriesExpire'
    BY <1>5 DEF Spawn, Goto, Hold, Unborn, EntriesExpire, RegistryTypeOK
  <2> QED
    BY <2>1, <2>2, <2>3, <2>4, <2>5, <2>6 DEF RInv
<1>6. ASSUME NEW u \in Users, Register(u) PROVE RInv'
  <2>1. RegistryTypeOK'
    <3>1. held[u] \in Procs
      BY <1>6 DEF Register, SpawnInv
    <3>2. CASE closing = "open"
      BY <3>1, <3>2, <1>6 DEF Register, Goto, Unlock, RegistryTypeOK
    <3>3. CASE closing # "open"
      BY <3>1, <3>3, <1>6 DEF Register, Goto, Doom, RegistryTypeOK
    <3> QED
      BY <3>2, <3>3
  <2>2. LockInv'
    BY <1>6 DEF Register, Goto, Unlock, Doom, Alive, LockInv, RegistryTypeOK
  <2>3. SpawnInv'
    BY <1>6 DEF Register, Goto, Unlock, Doom, Alive, SpawnInv, RegistryTypeOK, LockInv
  <2>4. NoneUnnoticed'
    BY <1>6 DEF Register, Goto, Unlock, Doom, Alive, NoneUnnoticed, RegistryTypeOK, LockInv, SpawnInv
  <2>5. BornInv'
    BY <1>6 DEF Register, Goto, Unlock, Doom, Alive, BornInv, RegistryTypeOK, LockInv, SpawnInv
  <2>6. EntriesExpire'
    BY <1>6 DEF Register, Goto, Unlock, Doom, Alive, EntriesExpire, RegistryTypeOK
  <2> QED
    BY <2>1, <2>2, <2>3, <2>4, <2>5, <2>6 DEF RInv
<1>7. ASSUME NEW u \in Users, GiveUp(u) PROVE RInv'
  <2>1. RegistryTypeOK'
    BY <1>7 DEF GiveUp, Goto, Hold, Unlock, RegistryTypeOK
  <2>2. LockInv'
    BY <1>7 DEF GiveUp, Goto, Hold, Unlock, LockInv, RegistryTypeOK
  <2>3. SpawnInv'
    BY <1>7 DEF GiveUp, Goto, Hold, Unlock, SpawnInv, RegistryTypeOK, LockInv
  <2>4. NoneUnnoticed'
    BY <1>7 DEF GiveUp, Goto, Hold, Unlock, Alive, NoneUnnoticed, RegistryTypeOK, LockInv, SpawnInv
  <2>5. BornInv'
    BY <1>7 DEF GiveUp, Goto, Hold, Unlock, Alive, BornInv, RegistryTypeOK, LockInv, SpawnInv
  <2>6. EntriesExpire'
    BY <1>7 DEF GiveUp, Goto, Hold, Unlock, EntriesExpire, RegistryTypeOK
  <2> QED
    BY <2>1, <2>2, <2>3, <2>4, <2>5, <2>6 DEF RInv
<1>8. ASSUME Elapse PROVE RInv'
  <2>1. RegistryTypeOK'
    BY <1>8 DEF Elapse, RegistryTypeOK
  <2>2. LockInv'
    BY <1>8 DEF Elapse, LockInv, RegistryTypeOK
  <2>3. SpawnInv'
    BY <1>8 DEF Elapse, SpawnInv, RegistryTypeOK, LockInv
  <2>4. NoneUnnoticed'
    BY <1>8 DEF Elapse, Alive, NoneUnnoticed, RegistryTypeOK, LockInv, SpawnInv
  <2>5. BornInv'
    BY <1>8 DEF Elapse, Alive, BornInv, RegistryTypeOK, LockInv, SpawnInv
  <2>6. EntriesExpire'
    BY <1>8 DEF Elapse, EntriesExpire, RegistryTypeOK
  <2> QED
    BY <2>1, <2>2, <2>3, <2>4, <2>5, <2>6 DEF RInv
<1>9. ASSUME OnIdleTimeout PROVE RInv'
  <2>1. RegistryTypeOK'
    BY <1>9 DEF OnIdleTimeout, DropEntry, Doom, Alive, RegistryTypeOK
  <2>2. LockInv'
    BY <1>9 DEF OnIdleTimeout, DropEntry, Doom, Alive, LockInv, RegistryTypeOK
  <2>3. SpawnInv'
    BY <1>9 DEF OnIdleTimeout, DropEntry, Doom, Alive, SpawnInv, RegistryTypeOK, LockInv
  <2>4. NoneUnnoticed'
    BY <1>9 DEF OnIdleTimeout, DropEntry, Doom, Alive, NoneUnnoticed, RegistryTypeOK, LockInv, SpawnInv
  <2>5. BornInv'
    BY <1>9 DEF OnIdleTimeout, DropEntry, Doom, Alive, BornInv, RegistryTypeOK, LockInv, SpawnInv
  <2>6. EntriesExpire'
    BY <1>9 DEF OnIdleTimeout, DropEntry, Doom, Alive, EntriesExpire, RegistryTypeOK
  <2> QED
    BY <2>1, <2>2, <2>3, <2>4, <2>5, <2>6 DEF RInv
<1>10. ASSUME SetClosed PROVE RInv'
  <2>1. RegistryTypeOK'
    BY <1>10 DEF SetClosed, RegistryTypeOK
  <2>2. LockInv'
    BY <1>10 DEF SetClosed, LockInv, RegistryTypeOK
  <2>3. SpawnInv'
    BY <1>10 DEF SetClosed, SpawnInv, RegistryTypeOK, LockInv
  <2>4. NoneUnnoticed'
    BY <1>10 DEF SetClosed, Alive, NoneUnnoticed, RegistryTypeOK, LockInv, SpawnInv
  <2>5. BornInv'
    BY <1>10 DEF SetClosed, Alive, BornInv, RegistryTypeOK, LockInv, SpawnInv
  <2>6. EntriesExpire'
    BY <1>10 DEF SetClosed, EntriesExpire, RegistryTypeOK
  <2> QED
    BY <2>1, <2>2, <2>3, <2>4, <2>5, <2>6 DEF RInv
<1>11. ASSUME ClearEntries PROVE RInv'
  <2>1. RegistryTypeOK'
    BY <1>11 DEF ClearEntries, DropEntry, Doom, Alive, RegistryTypeOK
  <2>2. LockInv'
    BY <1>11 DEF ClearEntries, DropEntry, Doom, Alive, LockInv, RegistryTypeOK
  <2>3. SpawnInv'
    BY <1>11 DEF ClearEntries, DropEntry, Doom, Alive, SpawnInv, RegistryTypeOK, LockInv
  <2>4. NoneUnnoticed'
    BY <1>11 DEF ClearEntries, DropEntry, Doom, Alive, NoneUnnoticed, RegistryTypeOK, LockInv, SpawnInv
  <2>5. BornInv'
    BY <1>11 DEF ClearEntries, DropEntry, Doom, Alive, BornInv, RegistryTypeOK, LockInv, SpawnInv
  <2>6. EntriesExpire'
    BY <1>11 DEF ClearEntries, DropEntry, Doom, Alive, EntriesExpire, RegistryTypeOK
  <2> QED
    BY <2>1, <2>2, <2>3, <2>4, <2>5, <2>6 DEF RInv
<1>12. ASSUME NEW p \in Procs, Terminate(p) PROVE RInv'
  <2>1. RegistryTypeOK'
    BY <1>12 DEF Terminate, RegistryTypeOK
  <2>2. LockInv'
    BY <1>12 DEF Terminate, LockInv, RegistryTypeOK
  <2>3. SpawnInv'
    BY <1>12 DEF Terminate, SpawnInv, RegistryTypeOK, LockInv
  <2>4. NoneUnnoticed'
    BY <1>12 DEF Terminate, Alive, NoneUnnoticed, RegistryTypeOK, LockInv, SpawnInv
  <2>5. BornInv'
    BY <1>12 DEF Terminate, Alive, BornInv, RegistryTypeOK, LockInv, SpawnInv
  <2>6. EntriesExpire'
    BY <1>12 DEF Terminate, EntriesExpire, RegistryTypeOK
  <2> QED
    BY <2>1, <2>2, <2>3, <2>4, <2>5, <2>6 DEF RInv
<1>13. ASSUME NEW p \in Procs, Exit(p) PROVE RInv'
  <2>1. RegistryTypeOK'
    BY <1>13 DEF Exit, Alive, RegistryTypeOK
  <2>2. LockInv'
    BY <1>13 DEF Exit, Alive, LockInv, RegistryTypeOK
  <2>3. SpawnInv'
    BY <1>13 DEF Exit, Alive, SpawnInv, RegistryTypeOK, LockInv
  <2>4. NoneUnnoticed'
    BY <1>13 DEF Exit, Alive, NoneUnnoticed, RegistryTypeOK, LockInv, SpawnInv
  <2>5. BornInv'
    BY <1>13 DEF Exit, Alive, BornInv, RegistryTypeOK, LockInv, SpawnInv
  <2>6. EntriesExpire'
    BY <1>13 DEF Exit, Alive, EntriesExpire, RegistryTypeOK
  <2> QED
    BY <2>1, <2>2, <2>3, <2>4, <2>5, <2>6 DEF RInv
<1>14. ASSUME NEW p \in Procs, Leave(p) PROVE RInv'
  <2>1. RegistryTypeOK'
    BY <1>14 DEF Leave, RegistryTypeOK
  <2>2. LockInv'
    BY <1>14 DEF Leave, LockInv, RegistryTypeOK
  <2>3. SpawnInv'
    BY <1>14 DEF Leave, SpawnInv, RegistryTypeOK, LockInv
  <2>4. NoneUnnoticed'
    BY <1>14 DEF Leave, Alive, NoneUnnoticed, RegistryTypeOK, LockInv, SpawnInv
  <2>5. BornInv'
    BY <1>14 DEF Leave, Alive, BornInv, RegistryTypeOK, LockInv, SpawnInv
  <2>6. EntriesExpire'
    BY <1>14 DEF Leave, EntriesExpire, RegistryTypeOK
  <2> QED
    BY <2>1, <2>2, <2>3, <2>4, <2>5, <2>6 DEF RInv
<1>15. CASE UNCHANGED registryVars
  BY <1>15 DEF RegistryTypeOK, LockInv, SpawnInv, BornInv, NoneUnnoticed, Alive, EntriesExpire
<1> QED
  BY <1>1, <1>2, <1>3, <1>4, <1>5, <1>6, <1>7, <1>8, <1>9, <1>10, <1>11, <1>12, <1>13, <1>14,
     <1>15 DEF RegistryNext, EnsureStep, CloseStep

\* Two children that nobody is about to terminate would both be the entry, or both
\* be held by the call that has the creation lock.
LEMMA OneFromRInv == RInv => OneManagedChild
BY UsersAndProcs DEF RInv, LockInv, Locked, SpawnInv, NoneUnnoticed, Alive, OneManagedChild,
                     RegistryTypeOK

\* The invariant holds in every reachable state.
LEMMA Invariance == RegistrySpec => []RInv
BY InitRInv, StepRInv, PTL DEF RegistrySpec

\* Types are respected.
THEOREM TypeCorrect == RegistrySpec => []RegistryTypeOK
BY Invariance, PTL DEF RInv

\* At most one child runs that nobody is about to terminate, and none unnoticed.
THEOREM ChildrenManaged == RegistrySpec => []OneManagedChild
BY Invariance, OneFromRInv, PTL

\* Every entry expires in the end, and a closed registry keeps no entry or timer.
THEOREM NothingKept == RegistrySpec => []EntriesExpire
BY Invariance, PTL DEF RInv

\* A call of ensure_process that has begun has something to do, unless it waits for
\* the creation lock or for the end of the child that it terminates.
CallGoes(u) ==
    \/ call[u] \in {"found", "foundLocked", "spawning", "spawned"}
    \/ call[u] = "missed" /\ creator = None
    \/ call[u] = "terminating" /\ held[u] \notin doomed

Terminates(u) == call[u] = "terminating" /\ held[u] \in doomed

CallsWait ==
    \A u \in Users : call[u] \notin {"out", "returned"} /\ ~CallGoes(u) =>
        \/ Terminates(u)
        \/ call[u] = "missed" /\ creator # u /\ (CallGoes(creator) \/ Terminates(creator))

\* No call of ensure_process is stuck: each waits at most for a child that is being
\* terminated, or for one other call that goes on or waits for such a child
\* (pyright_process.py:107).
THEOREM NoCallIsStuck == RegistrySpec => []CallsWait
<1>1. RInv => CallsWait
  BY UsersAndProcs DEF RInv, RegistryTypeOK, LockInv, Locked, CallsWait, CallGoes, Terminates
<1> QED
  BY <1>1, Invariance, PTL

-----------------------------------------------------------------------------
(* The sessions *)

\* A step of a session is a step of its registry or does not touch it.
LEMMA StepOfRegistry == [SessionNext]_threadVars => [RegistryNext]_registryVars
<1> SUFFICES ASSUME [SessionNext]_threadVars PROVE [RegistryNext]_registryVars
  OBVIOUS
<1>1. ASSUME NEW n \in Users, StartPass(n) PROVE RegistryNext
  BY <1>1 DEF StartPass, RegistryNext, EnsureStep
<1>2. ASSUME NEW n \in Users, PassStep(n) PROVE [RegistryNext]_registryVars
  <2>1. CASE GetProcess(n)
    BY <2>1 DEF GetProcess, RegistryNext
  <2>2. CASE Connect(n)
    BY <2>2 DEF Connect
  <2>3. CASE LockToSend(n)
    BY <2>3 DEF LockToSend
  <2>4. CASE SendMessage(n)
    BY <2>4 DEF SendMessage
  <2>5. CASE SendFails(n)
    BY <2>5 DEF SendFails
  <2>6. CASE Await(n)
    BY <2>6 DEF Await
  <2>7. CASE Join(n)
    BY <2>7 DEF Join
  <2> QED
    BY <1>2, <2>1, <2>2, <2>3, <2>4, <2>5, <2>6, <2>7 DEF PassStep
<1>3. ASSUME NEW n \in Users, ReaderStep(n) PROVE UNCHANGED registryVars
  <2>1. CASE ReadFrame(n)
    BY <2>1 DEF ReadFrame
  <2>2. CASE ReadEof(n)
    BY <2>2 DEF ReadEof
  <2>3. CASE HandleResponse(n)
    BY <2>3 DEF HandleResponse
  <2>4. CASE LockToReply(n)
    BY <2>4 DEF LockToReply
  <2>5. CASE Reply(n)
    BY <2>5 DEF Reply
  <2> QED
    BY <1>3, <2>1, <2>2, <2>3, <2>4, <2>5 DEF ReaderStep
<1>4. ASSUME NEW p \in Procs, ChildStep(p) PROVE [RegistryNext]_registryVars
  <2>1. CASE Serve(p)
    BY <2>1 DEF Serve, RegistryNext
  <2>2. CASE End(p, Terminate(p)) \/ End(p, Exit(p))
    BY <2>2 DEF End, RegistryNext
  <2> QED
    BY <1>4, <2>1, <2>2 DEF ChildStep
<1>5. CASE RegistryStep
  BY <1>5 DEF RegistryStep, RegistryNext
<1>6. CASE UNCHANGED threadVars
  BY <1>6 DEF threadVars
<1> QED
  BY <1>1, <1>2, <1>3, <1>4, <1>5, <1>6 DEF SessionNext

\* The end of the process is no step of the sessions, and what a child does after it
\* could have been one before.
LEMMA SessionSteps == Spec => SessionInit /\ [][SessionNext]_threadVars
<1>1. Init => SessionInit
  BY DEF Init
<1>2. [Next]_vars => [SessionNext]_threadVars
  <2>1. Lasting(SessionNext) => SessionNext
    BY DEF Lasting
  <2>2. ASSUME NEW p \in Procs, Orphaned(p) PROVE SessionNext
    BY <2>2 DEF Orphaned, SessionNext, ChildStep
  <2>3. ProcessExit \/ Finished \/ UNCHANGED vars => UNCHANGED threadVars
    BY DEF ProcessExit, Finished, vars
  <2> QED
    BY <2>1, <2>2, <2>3 DEF Next
<1> QED
  BY <1>1, <1>2, PTL DEF Spec

\* Every session implements the registry.
THEOREM SessionIsRegistry == Spec => RegistrySpec
<1>1. SessionInit => RegistryInit
  BY DEF SessionInit
<1> QED
  BY <1>1, StepOfRegistry, SessionSteps, PTL DEF RegistrySpec

\* In every session at most one language server runs that nobody is about to
\* terminate and none runs unnoticed, whatever the passes and the servers do.
THEOREM SessionManagesChildren == Spec => []OneManagedChild
BY SessionIsRegistry, ChildrenManaged, PTL

\* In every session an idle language server is reclaimed and close() keeps none.
THEOREM SessionKeepsNothing == Spec => []EntriesExpire
BY SessionIsRegistry, NothingKept, PTL
-----------------------------------------------------------------------------
(* What a pass leaves behind *)

\* The pass holds its write lock exactly while it writes a frame, and the reader
\* exactly while it replies; only a message is sent, and only a request waited for.
LockView(n) ==
    /\ step[n] = "write" <=> writeLock[n] = "pass"
    /\ step[n] # "lock" => at[n] \in Messages
    /\ step[n] = "wait" => at[n] \in Requests
    /\ writeLock[n] = "reader" <=> reader[n] = "replying"

\* The reader starts with the connection, which is to a child.
Connected(n) ==
    /\ at[n] \in {"new", "ensure"} => reader[n] = "none"
    /\ at[n] \in Messages \cup {"join"} \/ reader[n] # "none" => held[n] \in Procs

\* A request is registered only by a pass that will come to its join.
Accounted(n) == at[n] \in {"new", "ensure", "ended"} => Own(n) = {}

SInv ==
    /\ ThreadsTypeOK
    /\ \A n \in Users : LockView(n) /\ Connected(n) /\ Accounted(n)

Stages == Messages \cup {"new", "ensure", "join", "ended"}

Pipe(pipe) == pipe \in [Procs -> Seq(Frames)] /\ \A p \in Procs : Len(pipe[p]) <= PipeSize

\* A frame more in a pipe that has room for it.
LEMMA PipeTakes ==
    ASSUME NEW pipe, Pipe(pipe), NEW p \in Procs, Room(pipe[p]), NEW f \in Frames
    PROVE  Pipe([pipe EXCEPT ![p] = Append(@, f)])
<1>1. PipeSize \in Nat
  BY SessionAssumption DEF SessionAssumption
<1>2. pipe[p] \in Seq(Frames) /\ Len(pipe[p]) < PipeSize
  BY DEF Pipe, Room
<1>3. Append(pipe[p], f) \in Seq(Frames) /\ Len(Append(pipe[p], f)) = Len(pipe[p]) + 1
  BY <1>2
<1>4. Len(pipe[p]) \in Nat
  BY <1>2
<1>5. Len(Append(pipe[p], f)) <= PipeSize
  BY <1>1, <1>2, <1>3, <1>4
<1> QED
  BY <1>3, <1>5 DEF Pipe

\* The first frame of a pipe is taken out.
LEMMA PipeGives ==
    ASSUME NEW pipe, Pipe(pipe), NEW p \in Procs, pipe[p] # <<>>
    PROVE  Head(pipe[p]) \in Frames /\ Pipe([pipe EXCEPT ![p] = Tail(@)])
<1>1. PipeSize \in Nat
  BY SessionAssumption DEF SessionAssumption
<1>2. pipe[p] \in Seq(Frames) /\ Len(pipe[p]) <= PipeSize
  BY DEF Pipe
<1>3. Head(pipe[p]) \in Frames /\ Tail(pipe[p]) \in Seq(Frames)
      /\ Len(Tail(pipe[p])) = Len(pipe[p]) - 1
  BY <1>2
<1>4. Len(pipe[p]) \in Nat
  BY <1>2
<1>5. Len(Tail(pipe[p])) <= PipeSize
  BY <1>1, <1>2, <1>3, <1>4
<1> QED
  BY <1>3, <1>5 DEF Pipe

\* A child that has ended reads nothing more.
LEMMA PipeEmptied ==
    ASSUME NEW pipe, Pipe(pipe), NEW p \in Procs
    PROVE  Pipe([pipe EXCEPT ![p] = <<>>])
<1>1. <<>> \in Seq(Frames) /\ Len(<<>>) = 0 /\ PipeSize \in Nat
  BY SessionAssumption DEF SessionAssumption
<1> QED
  BY <1>1 DEF Pipe

\* What the passes, the readers and the children write are frames.
LEMMA FramesWritten ==
    /\ NoFrame \in Frames /\ <<0, "ask", 0>> \in Frames
    /\ \A n \in Users : <<n, "reply", 0>> \in Frames
  BY DEF NoFrame, Frames

\* So is the message a pass sends.
LEMMA MessageFrame ==
    ASSUME ThreadsTypeOK, NEW n \in Users, at[n] \in Messages
    PROVE  Message(n) \in Frames
<1>1. site[n] \in Nat
  BY DEF ThreadsTypeOK
<1> QED
  BY <1>1 DEF Frames, Message

\* The types of the variables a session adds to the registry's.
SessionVariables ==
    /\ at \in [Users -> Stages]
    /\ step \in [Users -> {"lock", "write", "wait"}]
    /\ site \in [Users -> Nat]
    /\ answer \in [Users -> {"waiting", "result", "error", "broken"}]
    /\ pending \subseteq Frames
    /\ writeLock \in [Users -> {"free", "pass", "reader"}]
    /\ reader \in [Users -> {"none", "reading", "holding", "replying", "ended"}]
    /\ frame \in [Users -> Frames]
    /\ Pipe(stdin) /\ Pipe(stdout)
    /\ garbled \subseteq Procs

\* ThreadsTypeOK in two parts.
LEMMA TypesAreThese == ThreadsTypeOK <=> RegistryTypeOK /\ SessionVariables
  BY DEF ThreadsTypeOK, SessionVariables, Stages, Pipe

\* What a pass and its reader look at, of the pass itself.
Kept(n) == /\ at'[n] = at[n] /\ step'[n] = step[n]
           /\ writeLock'[n] = writeLock[n] /\ reader'[n] = reader[n]
           /\ held'[n] = held[n] /\ Own(n)' \subseteq Own(n)

View(n) == LockView(n) /\ Connected(n) /\ Accounted(n)

\* A pass whose own variables do not move keeps its view.
LEMMA KeptView == ASSUME NEW n \in Users, View(n), Kept(n) PROVE View(n)'
<1> USE DEF Kept, View
<1>1. LockView(n)'
  BY DEF LockView
<1>2. Connected(n)'
  BY DEF Connected
<1>3. Accounted(n)'
  BY DEF Accounted
<1> QED
  BY <1>1, <1>2, <1>3

\* The requests of one pass come and go without those of another.
LEMMA OwnElsewhere ==
    ASSUME SInv, NEW n \in Users, NEW m \in Users, m # n,
           \/ \E some : pending' = pending \ some
           \/ at[n] \in Messages /\ pending' = pending \cup {Message(n)}
           \/ pending' = pending
    PROVE  Own(m)' \subseteq Own(m)
  BY DEF Own, Message

\* What a step has to keep, the registry's types apart.
Holds == SessionVariables /\ \A n \in Users : View(n)

\* The invariant in the parts that the steps are checked against.
LEMMA SInvHolds == SInv => Holds
  BY TypesAreThese DEF SInv, Holds, View

\* A step of a pass and its reader keeps the other passes as they are; what is left
\* to see is the pass itself.
LEMMA ElsewhereKept ==
    ASSUME SInv, NEW n \in Users, NEW m \in Users, m # n,
           \E new : at' = [at EXCEPT ![n] = new],
           \E new : step' = [step EXCEPT ![n] = new],
           \E new : writeLock' = [writeLock EXCEPT ![n] = new],
           \E new : reader' = [reader EXCEPT ![n] = new],
           held'[m] = held[m],
           \/ \E some : pending' = pending \ some
           \/ at[n] \in Messages /\ pending' = pending \cup {Message(n)}
    PROVE  View(m)'
<1>1. /\ at \in [Users -> Stages]
      /\ step \in [Users -> {"lock", "write", "wait"}]
      /\ writeLock \in [Users -> {"free", "pass", "reader"}]
      /\ reader \in [Users -> {"none", "reading", "holding", "replying", "ended"}]
  BY SInvHolds DEF Holds, SessionVariables
<1>2. at'[m] = at[m] /\ step'[m] = step[m] /\ writeLock'[m] = writeLock[m]
      /\ reader'[m] = reader[m]
  BY <1>1
<1>3. Own(m)' \subseteq Own(m)
  BY OwnElsewhere
<1>4. View(m)
  BY SInvHolds DEF Holds
<1> QED
  BY <1>2, <1>3, <1>4, KeptView DEF Kept

\* A variable that stays is one in which the pass's own value stays.
LEMMA Same ==
    ASSUME SInv, NEW n \in Users
    PROVE  /\ at' = at => at' = [at EXCEPT ![n] = at[n]]
           /\ step' = step => step' = [step EXCEPT ![n] = step[n]]
           /\ writeLock' = writeLock => writeLock' = [writeLock EXCEPT ![n] = writeLock[n]]
           /\ reader' = reader => reader' = [reader EXCEPT ![n] = reader[n]]
           /\ pending' = pending => pending' = pending \ {}
  BY SInvHolds DEF Holds, SessionVariables

\* A pass starts.
LEMMA StartPassHolds ==
    ASSUME SInv, NEW n \in Users, StartPass(n)
    PROVE  Holds'
<1>h. Holds
  BY SInvHolds
<1>1. /\ at[n] = "new"
      /\ at' = [at EXCEPT ![n] = "ensure"] /\ step' = [step EXCEPT ![n] = "lock"]
      /\ UNCHANGED <<site, answer, pending, writeLock, reader, frame, stdin, stdout, garbled>>
  BY DEF StartPass, Begin, clientVars, pipeVars
<1>2. SessionVariables'
  BY <1>h, <1>1 DEF Holds, SessionVariables, Stages
<1>3. ASSUME NEW m \in Users, m # n PROVE held'[m] = held[m]
  BY <1>3 DEF StartPass, Ensure, LookUp, Hold, SInv, ThreadsTypeOK, RegistryTypeOK
<1>4. ASSUME NEW m \in Users, m # n PROVE View(m)'
  BY <1>1, <1>3, <1>4, ElsewhereKept, Same
<1>5. View(n)
  BY <1>h DEF Holds
<1>6. at'[n] = "ensure" /\ step'[n] = "lock" /\ Own(n)' = Own(n)
  BY <1>1, <1>h DEF Holds, SessionVariables, Own
<1>7. View(n)'
  <2>1. writeLock'[n] = writeLock[n] /\ reader'[n] = reader[n] /\ reader[n] = "none"
    BY <1>1, <1>5 DEF View, Connected
  <2>2. step[n] # "write"
    BY <1>1, <1>5 DEF View, LockView, Messages, Requests
  <2>3. LockView(n)'
    BY <1>5, <1>6, <2>1, <2>2 DEF View, LockView
  <2>4. Connected(n)'
    BY <1>6, <2>1 DEF Connected, Messages, Requests
  <2>5. Accounted(n)'
    BY <1>1, <1>5, <1>6 DEF View, Accounted
  <2> QED
    BY <2>3, <2>4, <2>5 DEF View
<1> QED
  BY <1>2, <1>4, <1>7 DEF Holds

\* Inside ensure_process the session does not move.
LEMMA GetProcessHolds ==
    ASSUME SInv, NEW n \in Users, GetProcess(n)
    PROVE  Holds'
<1>h. Holds
  BY SInvHolds
<1>1. at[n] = "ensure" /\ UNCHANGED sessionVars
  BY DEF GetProcess
<1>2. SessionVariables'
  BY <1>h, <1>1 DEF Holds, SessionVariables, sessionVars, passVars, clientVars, pipeVars
<1>3. \A m \in Users : m # n => held'[m] = held[m]
  BY DEF GetProcess, EnsureStep, Ensure, EnsureLocked, LookUp, Touch, SpawnFails, Spawn,
         Register, GiveUp, Hold, SInv, ThreadsTypeOK, RegistryTypeOK, timerVars
<1>4. ASSUME NEW m \in Users PROVE View(m)'
  <2>1. View(m)
    BY <1>h DEF Holds
  <2>2. UNCHANGED <<at, step, writeLock, reader, pending>>
    BY <1>1 DEF sessionVars, passVars, clientVars
  <2>3. CASE m # n
    BY <1>3, <2>1, <2>2, <2>3, KeptView DEF Kept, Own
  <2>4. CASE m = n
    <3>1. at[m] = "ensure" /\ reader[m] = "none"
      BY <1>1, <2>1, <2>4 DEF View, Connected
    <3>2. Connected(m)'
      BY <2>2, <3>1 DEF Connected, Messages, Requests
    <3>3. LockView(m)' /\ Accounted(m)'
      BY <2>1, <2>2 DEF View, LockView, Accounted, Own
    <3> QED
      BY <3>2, <3>3 DEF View
  <2> QED
    BY <2>3, <2>4
<1> QED
  BY <1>2, <1>4 DEF Holds

\* A connected pass goes on to its next message or to its join.
LEMMA MovedView ==
    ASSUME SInv, NEW n \in Users, at[n] \in Messages \cup {"join"},
           NEW stage \in Messages \cup {"join"},
           NEW stand \in {"lock", "write", "wait"}, NEW lock \in {"free", "pass", "reader"},
           at' = [at EXCEPT ![n] = stage],
           step' = [step EXCEPT ![n] = stand],
           writeLock' = [writeLock EXCEPT ![n] = lock],
           reader' = reader, held' = held,
           stand = "write" <=> lock = "pass",
           stand # "lock" => stage \in Messages,
           stand = "wait" => stage \in Requests,
           lock = "reader" <=> writeLock[n] = "reader"
    PROVE  /\ at' \in [Users -> Stages]
           /\ step' \in [Users -> {"lock", "write", "wait"}]
           /\ writeLock' \in [Users -> {"free", "pass", "reader"}]
           /\ View(n)'
<1>1. /\ at \in [Users -> Stages]
      /\ step \in [Users -> {"lock", "write", "wait"}]
      /\ writeLock \in [Users -> {"free", "pass", "reader"}]
  BY SInvHolds DEF Holds, SessionVariables
<1>2. at'[n] = stage /\ step'[n] = stand /\ writeLock'[n] = lock
  BY <1>1
<1>3. View(n)
  BY SInvHolds DEF Holds
<1>4. stage \notin {"new", "ensure", "ended"} /\ stage \in Stages
  BY DEF Stages, Messages, Requests
<1>5. LockView(n)'
  BY <1>2, <1>3 DEF View, LockView
<1>6. Connected(n)'
  BY <1>2, <1>3, <1>4 DEF View, Connected
<1>7. Accounted(n)'
  BY <1>2, <1>4 DEF Accounted
<1> QED
  BY <1>1, <1>4, <1>5, <1>6, <1>7 DEF View

\* The client starts its reader, or there is no child and the pass is over.
LEMMA ConnectHolds ==
    ASSUME SInv, NEW n \in Users, Connect(n)
    PROVE  Holds'
<1>h. Holds /\ RegistryTypeOK
  BY SInvHolds DEF SInv, ThreadsTypeOK
<1>1. /\ at[n] = "ensure"
      /\ step' = [step EXCEPT ![n] = "lock"]
      /\ UNCHANGED <<held, site, answer, pending, writeLock, frame, stdin, stdout, garbled>>
  BY DEF Connect, Begin, registryVars, callVars, pipeVars
<1>2. \/ at' = [at EXCEPT ![n] = "ended"] /\ reader' = reader
      \/ /\ at' = [at EXCEPT ![n] = "initialize"] /\ held[n] # None
         /\ reader' = [reader EXCEPT ![n] = "reading"]
  BY DEF Connect, Begin
<1>3. SessionVariables'
  BY <1>h, <1>1, <1>2 DEF Holds, SessionVariables, Stages, Messages, Requests
<1>4. ASSUME NEW m \in Users, m # n PROVE View(m)'
  BY <1>1, <1>2, <1>4, ElsewhereKept, Same
<1>5. View(n) /\ at \in [Users -> Stages] /\ step \in [Users -> {"lock", "write", "wait"}]
      /\ reader \in [Users -> {"none", "reading", "holding", "replying", "ended"}]
  BY <1>h DEF Holds, SessionVariables
<1>6. /\ reader[n] = "none" /\ writeLock[n] = "free" /\ Own(n) = {}
  <2>1. reader[n] = "none" /\ Own(n) = {}
    BY <1>1, <1>5 DEF View, Connected, Accounted
  <2>2. step[n] # "write"
    BY <1>1, <1>5 DEF View, LockView, Messages, Requests
  <2>3. writeLock[n] \in {"free", "pass", "reader"}
    BY <1>h DEF Holds, SessionVariables
  <2> QED
    BY <1>5, <2>1, <2>2, <2>3 DEF View, LockView
<1>7. step'[n] = "lock" /\ writeLock'[n] = "free" /\ held'[n] = held[n] /\ Own(n)' = {}
  BY <1>1, <1>5, <1>6 DEF Own
<1>8. CASE at' = [at EXCEPT ![n] = "ended"] /\ reader' = reader
  <2>1. at'[n] = "ended" /\ reader'[n] = "none"
    BY <1>5, <1>6, <1>8
  <2> QED
    BY <1>3, <1>4, <1>7, <2>1
    DEF Holds, View, LockView, Connected, Accounted, Messages, Requests
<1>9. CASE /\ at' = [at EXCEPT ![n] = "initialize"] /\ held[n] # None
           /\ reader' = [reader EXCEPT ![n] = "reading"]
  <2>1. at'[n] = "initialize" /\ reader'[n] = "reading"
    BY <1>5, <1>9
  <2>2. held[n] \in Procs
    BY <1>h, <1>9 DEF RegistryTypeOK
  <2> QED
    BY <1>3, <1>4, <1>7, <2>1, <2>2
    DEF Holds, View, LockView, Connected, Accounted, Messages, Requests
<1> QED
  BY <1>2, <1>8, <1>9

\* The pass takes its write lock, and registers a request.
LEMMA LockToSendHolds ==
    ASSUME SInv, NEW n \in Users, LockToSend(n)
    PROVE  Holds'
<1>h. Holds
  BY SInvHolds
<1>1. /\ at[n] \in Messages /\ writeLock[n] = "free"
      /\ writeLock' = [writeLock EXCEPT ![n] = "pass"]
      /\ step' = [step EXCEPT ![n] = "write"]
      /\ pending' = pending \cup {Message(n)} \/ pending' = pending
      /\ UNCHANGED <<held, at, site, answer, reader, frame, stdin, stdout, garbled>>
  BY DEF LockToSend, registryVars, callVars, pipeVars
<1>2. at' = [at EXCEPT ![n] = at[n]]
  BY <1>1, Same
<1>3. /\ at' \in [Users -> Stages]
      /\ step' \in [Users -> {"lock", "write", "wait"}]
      /\ writeLock' \in [Users -> {"free", "pass", "reader"}]
      /\ View(n)'
  BY <1>1, <1>2, MovedView
<1>4. Message(n) \in Frames
  BY <1>1, MessageFrame DEF SInv
<1>5. SessionVariables'
  BY <1>h, <1>1, <1>3, <1>4 DEF Holds, SessionVariables
<1>6. ASSUME NEW m \in Users, m # n PROVE View(m)'
  BY <1>1, <1>2, <1>6, ElsewhereKept, Same
<1> QED
  BY <1>3, <1>5, <1>6 DEF Holds

\* The stages a pass may come to after a message.
LEMMA NextStages ==
    ASSUME SInv, NEW n \in Users
    PROVE  /\ Close(n) => \E stage \in Messages \cup {"join"} : Begin(n, stage)
           /\ Continue(n) => /\ \E stage \in Messages \cup {"join"} : Begin(n, stage)
                             /\ site' \in [Users -> Nat]
<1>1. Close(n) => \E stage \in Messages \cup {"join"} : Begin(n, stage)
  BY DEF Close, Messages, Requests
<1>2. site \in [Users -> Nat]
  BY SInvHolds DEF Holds, SessionVariables
<1>3. NextSite(n) => /\ \E stage \in Messages \cup {"join"} : Begin(n, stage)
                     /\ site' \in [Users -> Nat]
  BY <1>2 DEF NextSite, Messages, Requests
<1> QED
  BY <1>1, <1>2, <1>3 DEF Continue

\* A message that begins after a step of the pass.
LEMMA BegunHolds ==
    ASSUME SInv, NEW n \in Users, at[n] \in Messages,
           NEW stage \in Messages \cup {"join"}, Begin(n, stage),
           NEW lock \in {"free", "reader"},
           writeLock' = [writeLock EXCEPT ![n] = lock],
           lock = "reader" <=> writeLock[n] = "reader",
           \E some : pending' = pending \ some,
           answer' \in [Users -> {"waiting", "result", "error", "broken"}],
           site' \in [Users -> Nat], Pipe(stdin'),
           UNCHANGED <<held, reader, frame, stdout, garbled>>
    PROVE  Holds'
<1>h. Holds
  BY SInvHolds
<1>1. at' = [at EXCEPT ![n] = stage] /\ step' = [step EXCEPT ![n] = "lock"]
  BY DEF Begin
<1>2. /\ at' \in [Users -> Stages]
      /\ step' \in [Users -> {"lock", "write", "wait"}]
      /\ writeLock' \in [Users -> {"free", "pass", "reader"}]
      /\ View(n)'
  BY <1>1, MovedView
<1>3. SessionVariables'
  BY <1>h, <1>2 DEF Holds, SessionVariables
<1>4. ASSUME NEW m \in Users, m # n PROVE View(m)'
  BY <1>1, <1>4, ElsewhereKept, Same
<1> QED
  BY <1>2, <1>3, <1>4 DEF Holds

\* The frame is written and the write lock freed.
LEMMA SendMessageHolds ==
    ASSUME SInv, NEW n \in Users, SendMessage(n)
    PROVE  Holds'
<1>h. Holds
  BY SInvHolds
<1>1. /\ step[n] = "write" /\ Room(stdin[held[n]])
      /\ stdin' = [stdin EXCEPT ![held[n]] = Append(@, Message(n))]
      /\ writeLock' = [writeLock EXCEPT ![n] = "free"]
      /\ UNCHANGED <<held, answer, pending, reader, frame, stdout, garbled>>
  BY DEF SendMessage, Write, Free, registryVars, callVars
<1>2. View(n)
  BY <1>h DEF Holds
<1>3. at[n] \in Messages /\ writeLock[n] = "pass" /\ held[n] \in Procs
  BY <1>1, <1>2 DEF View, LockView, Connected
<1>4. Message(n) \in Frames
  BY <1>3, MessageFrame DEF SInv
<1>5. Pipe(stdin')
  BY <1>h, <1>1, <1>3, <1>4, PipeTakes DEF Holds, SessionVariables
<1>6. pending' = pending \ {} /\ answer' \in [Users -> {"waiting", "result", "error", "broken"}]
      /\ site \in [Users -> Nat]
  BY <1>h, <1>1 DEF Holds, SessionVariables
<1>7. CASE at[n] \in Requests
  <2>1. step' = [step EXCEPT ![n] = "wait"] /\ UNCHANGED <<at, site>>
    BY <1>7 DEF SendMessage, Requests
  <2>2. at' = [at EXCEPT ![n] = at[n]]
    BY <2>1, Same
  <2>3. /\ at' \in [Users -> Stages]
        /\ step' \in [Users -> {"lock", "write", "wait"}]
        /\ writeLock' \in [Users -> {"free", "pass", "reader"}]
        /\ View(n)'
    BY <1>1, <1>3, <1>7, <2>1, <2>2, MovedView
  <2>4. SessionVariables'
    BY <1>h, <1>1, <1>5, <2>1, <2>3 DEF Holds, SessionVariables
  <2>5. ASSUME NEW m \in Users, m # n PROVE View(m)'
    BY <1>1, <1>6, <2>1, <2>2, <2>5, ElsewhereKept, Same
  <2> QED
    BY <2>3, <2>4, <2>5 DEF Holds
<1>8. CASE at[n] \notin Requests
  <2>1. /\ \E stage \in Messages \cup {"join"} : Begin(n, stage)
        /\ site' \in [Users -> Nat]
    <3>1. CASE at[n] = "initialized"
      <4>1. Continue(n)
        BY <1>8, <3>1 DEF SendMessage
      <4> QED
        BY <4>1, NextStages
    <3>2. CASE at[n] = "didOpen"
      <4>1. Begin(n, "definition") /\ UNCHANGED site
        BY <1>8, <3>2 DEF SendMessage
      <4> QED
        BY <1>6, <4>1 DEF Messages, Requests
    <3>3. CASE at[n] = "exit"
      <4>1. Begin(n, "join") /\ UNCHANGED site
        BY <1>8, <3>3 DEF SendMessage
      <4> QED
        BY <1>6, <4>1
    <3> QED
      BY <1>3, <1>8, <3>1, <3>2, <3>3 DEF Messages
  <2>2. PICK stage \in Messages \cup {"join"} : Begin(n, stage)
    BY <2>1
  <2> QED
    BY <1>1, <1>3, <1>5, <1>6, <2>1, <2>2, BegunHolds
<1> QED
  BY <1>7, <1>8

\* The write raises: the lock is freed and the request taken back.
LEMMA SendFailsHolds ==
    ASSUME SInv, NEW n \in Users, SendFails(n)
    PROVE  Holds'
<1>h. Holds
  BY SInvHolds
<1>1. /\ step[n] = "write"
      /\ writeLock' = [writeLock EXCEPT ![n] = "free"]
      /\ pending' = pending \ {Message(n)}
      /\ answer' = [answer EXCEPT ![n] = "waiting"]
      /\ UNCHANGED <<held, site, reader, frame, stdin, stdout, garbled>>
  BY DEF SendFails, Free, registryVars, callVars, pipeVars
<1>2. View(n)
  BY <1>h DEF Holds
<1>3. at[n] \in Messages /\ writeLock[n] = "pass"
  BY <1>1, <1>2 DEF View, LockView
<1>4. \E stage \in Messages \cup {"join"} : Begin(n, stage)
  BY NextStages DEF SendFails
<1>5. PICK stage \in Messages \cup {"join"} : Begin(n, stage)
  BY <1>4
<1>6. /\ answer' \in [Users -> {"waiting", "result", "error", "broken"}]
      /\ site' \in [Users -> Nat] /\ Pipe(stdin')
  BY <1>h, <1>1 DEF Holds, SessionVariables
<1> QED
  BY <1>1, <1>3, <1>5, <1>6, BegunHolds

\* The wait ends, with the Future done or timed out.
LEMMA AwaitHolds ==
    ASSUME SInv, NEW n \in Users, Await(n)
    PROVE  Holds'
<1>h. Holds
  BY SInvHolds
<1>1. /\ step[n] = "wait"
      /\ answer' = [answer EXCEPT ![n] = "waiting"]
      /\ UNCHANGED <<held, pending, writeLock, reader, frame, stdin, stdout, garbled>>
  BY DEF Await, registryVars, callVars, clientVars, pipeVars
<1>2. View(n)
  BY <1>h DEF Holds
<1>3. at[n] \in Requests /\ at[n] \in Messages /\ writeLock[n] # "pass"
  BY <1>1, <1>2 DEF View, LockView, Messages
<1>4. site \in [Users -> Nat]
  BY <1>h DEF Holds, SessionVariables
<1>5. /\ \E stage \in Messages \cup {"join"} : Begin(n, stage)
      /\ site' \in [Users -> Nat]
  <2>1. CASE at[n] = "initialize"
    <3>1. (Begin(n, "initialized") \/ Begin(n, "join")) /\ UNCHANGED site
      BY <2>1 DEF Await
    <3> QED
      BY <1>4, <3>1 DEF Messages
  <2>2. CASE at[n] = "definition"
    <3>1. (Close(n) /\ UNCHANGED site) \/ Continue(n)
      BY <2>2 DEF Await
    <3> QED
      BY <1>4, <3>1, NextStages
  <2>3. CASE at[n] = "shutdown"
    <3>1. (Begin(n, "exit") \/ Begin(n, "join")) /\ UNCHANGED site
      BY <2>3 DEF Await
    <3> QED
      BY <1>4, <3>1 DEF Messages
  <2> QED
    BY <1>3, <2>1, <2>2, <2>3 DEF Requests
<1>6. PICK stage \in Messages \cup {"join"} : Begin(n, stage)
  BY <1>5
<1>7. /\ answer' \in [Users -> {"waiting", "result", "error", "broken"}]
      /\ Pipe(stdin') /\ writeLock[n] \in {"free", "reader"}
      /\ writeLock' = [writeLock EXCEPT ![n] = writeLock[n]]
      /\ pending' = pending \ {}
  BY <1>h, <1>1, <1>3 DEF Holds, SessionVariables
<1> QED
  BY <1>1, <1>3, <1>5, <1>6, <1>7, BegunHolds

\* close() fails what is still pending.
LEMMA JoinHolds ==
    ASSUME SInv, NEW n \in Users, Join(n)
    PROVE  Holds'
<1>h. Holds
  BY SInvHolds
<1>1. /\ at[n] = "join" /\ pending' = pending \ Own(n)
      /\ at' = [at EXCEPT ![n] = "ended"] /\ step' = [step EXCEPT ![n] = "lock"]
      /\ UNCHANGED <<held, site, answer, writeLock, reader, frame, stdin, stdout, garbled>>
  BY DEF Join, Begin, registryVars, callVars, pipeVars
<1>2. SessionVariables'
  BY <1>h, <1>1 DEF Holds, SessionVariables, Stages
<1>3. ASSUME NEW m \in Users, m # n PROVE View(m)'
  BY <1>1, <1>3, ElsewhereKept, Same
<1>4. View(n) /\ at'[n] = "ended" /\ step'[n] = "lock" /\ Own(n)' = {}
  BY <1>h, <1>1 DEF Holds, SessionVariables, Own
<1>5. LockView(n)'
  BY <1>1, <1>4 DEF View, LockView, Messages, Requests
<1>6. Connected(n)' /\ Accounted(n)'
  BY <1>1, <1>4 DEF View, Connected, Accounted, Messages, Requests
<1> QED
  BY <1>2, <1>3, <1>5, <1>6 DEF Holds, View

\* A step of the reader, in the view of its own pass.
LEMMA ReaderHolds ==
    ASSUME SInv, NEW n \in Users, reader[n] # "none",
           NEW stage \in {"reading", "holding", "replying", "ended"},
           NEW lock \in {"free", "pass", "reader"},
           reader' = [reader EXCEPT ![n] = stage],
           writeLock' = [writeLock EXCEPT ![n] = lock],
           lock = "reader" <=> stage = "replying",
           lock = "pass" <=> writeLock[n] = "pass",
           \E some : pending' = pending \ some,
           UNCHANGED <<held, at, step, site>>,
           answer' \in [Users -> {"waiting", "result", "error", "broken"}],
           frame' \in [Users -> Frames], Pipe(stdin'), Pipe(stdout'), garbled' \subseteq Procs
    PROVE  Holds'
<1>h. Holds
  BY SInvHolds
<1>1. /\ reader \in [Users -> {"none", "reading", "holding", "replying", "ended"}]
      /\ writeLock \in [Users -> {"free", "pass", "reader"}]
  BY <1>h DEF Holds, SessionVariables
<1>2. SessionVariables'
  BY <1>h, <1>1 DEF Holds, SessionVariables
<1>3. ASSUME NEW m \in Users, m # n PROVE View(m)'
  BY <1>3, ElsewhereKept, Same
<1>4. View(n) /\ reader'[n] = stage /\ writeLock'[n] = lock
  BY <1>h, <1>1 DEF Holds
<1>5. Own(n)' \subseteq Own(n)
  BY DEF Own
<1>6. LockView(n)'
  BY <1>4 DEF View, LockView
<1>7. Connected(n)'
  BY <1>4 DEF View, Connected
<1>8. Accounted(n)'
  BY <1>4, <1>5 DEF View, Accounted
<1> QED
  BY <1>2, <1>3, <1>6, <1>7, <1>8 DEF Holds, View

\* A reader reads, answers, replies or ends.
LEMMA ReaderStepHolds ==
    ASSUME SInv, NEW n \in Users, ReaderStep(n)
    PROVE  Holds'
<1>h. Holds
  BY SInvHolds
<1>1. /\ writeLock[n] \in {"free", "pass", "reader"} /\ garbled \subseteq Procs
      /\ reader[n] \in {"none", "reading", "holding", "replying", "ended"}
      /\ answer \in [Users -> {"waiting", "result", "error", "broken"}]
      /\ frame \in [Users -> Frames] /\ Pipe(stdin) /\ Pipe(stdout)
      /\ writeLock \in [Users -> {"free", "pass", "reader"}]
  BY <1>h DEF Holds, SessionVariables
<1>2. View(n)
  BY <1>h DEF Holds
<1>3. Loop(n) => \E stage \in {"reading", "ended"} : reader' = [reader EXCEPT ![n] = stage]
  BY DEF Loop
<1>4. writeLock' = writeLock => writeLock' = [writeLock EXCEPT ![n] = writeLock[n]]
  BY Same
<1>5. pending' = pending => pending' = pending \ {}
  OBVIOUS
<1>6. reader[n] # "replying" => writeLock[n] # "reader"
  BY <1>2 DEF View, LockView
<1>7. reader[n] # "none" => held[n] \in Procs
  BY <1>2 DEF View, Connected
<1>8. CASE ReadFrame(n)
  <2>1. /\ reader[n] = "reading" /\ stdout[held[n]] # <<>>
        /\ stdout' = [stdout EXCEPT ![held[n]] = Tail(@)]
        /\ UNCHANGED <<held, at, step, site, answer, pending, writeLock, stdin>>
    BY <1>8 DEF ReadFrame, registryVars, callVars, passVars
  <2>2. Head(stdout[held[n]]) \in Frames /\ Pipe(stdout')
    BY <1>1, <1>7, <2>1, PipeGives
  <2>3. CASE /\ frame' = [frame EXCEPT ![n] = Head(stdout[held[n]])]
             /\ reader' = [reader EXCEPT ![n] = "holding"]
             /\ UNCHANGED garbled
    <3>1. frame' \in [Users -> Frames]
      BY <1>1, <2>2, <2>3
    <3> QED
      BY <1>1, <1>4, <1>5, <1>6, <2>1, <2>2, <2>3, <3>1, ReaderHolds
  <2>4. CASE garbled' = garbled \cup {held[n]} /\ Loop(n) /\ UNCHANGED frame
    <3>1. PICK stage \in {"reading", "ended"} : reader' = [reader EXCEPT ![n] = stage]
      BY <1>3, <2>4
    <3>2. garbled' \subseteq Procs
      BY <1>1, <1>7, <2>1, <2>4
    <3> QED
      BY <1>1, <1>4, <1>5, <1>6, <2>1, <2>2, <2>4, <3>1, <3>2, ReaderHolds
  <2> QED
    BY <1>8, <2>3, <2>4 DEF ReadFrame
<1>9. CASE ReadEof(n)
  <2>1. /\ reader[n] = "reading" /\ reader' = [reader EXCEPT ![n] = "ended"]
        /\ pending' = pending \ Own(n)
        /\ UNCHANGED <<held, at, step, site, writeLock, frame, stdin, stdout, garbled>>
    BY <1>9 DEF ReadEof, registryVars, callVars, pipeVars
  <2>2. answer' \in [Users -> {"waiting", "result", "error", "broken"}]
    BY <1>1, <1>9 DEF ReadEof
  <2> QED
    BY <1>1, <1>4, <1>6, <2>1, <2>2, ReaderHolds
<1>10. CASE HandleResponse(n)
  <2>1. /\ reader[n] = "holding" /\ Loop(n)
        /\ pending' = pending \ (Own(n) \cap {frame[n]})
        /\ frame' = [frame EXCEPT ![n] = NoFrame]
        /\ UNCHANGED <<held, at, step, site, writeLock, stdin, stdout, garbled>>
    BY <1>10 DEF HandleResponse, registryVars, callVars, pipeVars
  <2>2. answer' \in [Users -> {"waiting", "result", "error", "broken"}]
    BY <1>1, <1>10 DEF HandleResponse
  <2>3. frame' \in [Users -> Frames]
    BY <1>1, <2>1, FramesWritten
  <2>4. PICK stage \in {"reading", "ended"} : reader' = [reader EXCEPT ![n] = stage]
    BY <1>3, <2>1
  <2> QED
    BY <1>1, <1>4, <1>6, <2>1, <2>2, <2>3, <2>4, ReaderHolds
<1>11. CASE LockToReply(n)
  <2>1. /\ reader[n] = "holding" /\ reader' = [reader EXCEPT ![n] = "replying"]
        /\ writeLock[n] = "free" /\ writeLock' = [writeLock EXCEPT ![n] = "reader"]
        /\ frame' = [frame EXCEPT ![n] = NoFrame]
        /\ UNCHANGED <<held, at, step, site, answer, pending, stdin, stdout, garbled>>
    BY <1>11 DEF LockToReply, registryVars, callVars, passVars, pipeVars
  <2>2. frame' \in [Users -> Frames]
    BY <1>1, <2>1, FramesWritten
  <2> QED
    BY <1>1, <1>5, <2>1, <2>2, ReaderHolds
<1>12. CASE Reply(n)
  <2>1. /\ reader[n] = "replying" /\ Loop(n)
        /\ writeLock' = [writeLock EXCEPT ![n] = "free"]
        /\ UNCHANGED <<held, at, step, site, answer, pending, frame, stdout, garbled>>
    BY <1>12 DEF Reply, Free, registryVars, callVars, passVars
  <2>2. \/ stdin' = stdin
        \/ /\ Room(stdin[held[n]])
           /\ stdin' = [stdin EXCEPT ![held[n]] = Append(@, <<n, "reply", 0>>)]
    BY <1>12 DEF Reply
  <2>3. Pipe(stdin')
    BY <1>1, <1>7, <2>1, <2>2, FramesWritten, PipeTakes
  <2>4. PICK stage \in {"reading", "ended"} : reader' = [reader EXCEPT ![n] = stage]
    BY <1>3, <2>1
  <2>5. writeLock[n] = "reader"
    BY <1>2, <2>1 DEF View, LockView
  <2> QED
    BY <1>1, <1>5, <2>1, <2>3, <2>4, <2>5, ReaderHolds
<1> QED
  BY <1>8, <1>9, <1>10, <1>11, <1>12 DEF ReaderStep

\* Steps that move only pipes and children.
LEMMA PipesHold ==
    ASSUME SInv, Pipe(stdin'), Pipe(stdout'),
           UNCHANGED <<held, at, step, site, answer, pending, writeLock, reader, frame, garbled>>
    PROVE  Holds'
<1>h. Holds
  BY SInvHolds
<1>1. SessionVariables'
  BY <1>h DEF Holds, SessionVariables
<1>2. ASSUME NEW m \in Users PROVE View(m)'
  <2>1. View(m)
    BY <1>h DEF Holds
  <2> QED
    BY <2>1, KeptView DEF Kept, Own
<1> QED
  BY <1>1, <1>2 DEF Holds

\* A child takes a frame and may write one.
LEMMA ServeHolds ==
    ASSUME SInv, NEW p \in Procs, Serve(p)
    PROVE  Holds'
<1>h. Pipe(stdin) /\ Pipe(stdout)
  BY SInvHolds DEF Holds, SessionVariables
<1>1. /\ stdin[p] # <<>> /\ stdin' = [stdin EXCEPT ![p] = Tail(@)]
      /\ UNCHANGED <<at, step, site, answer, pending, writeLock, reader, frame, garbled>>
  BY DEF Serve, passVars, clientVars
<1>2. Head(stdin[p]) \in Frames /\ Pipe(stdin')
  BY <1>h, <1>1, PipeGives
<1> DEFINE f == Head(stdin[p])
<1>3. held' = held /\ Pipe(stdout')
  <2>1. CASE f[2] = "exit"
    <3>1. Leave(p) /\ UNCHANGED stdout
      BY <2>1 DEF Serve, Requests
    <3> QED
      BY <1>h, <3>1 DEF Leave, callVars
  <2>2. CASE f[2] \in Requests
    <3>1. /\ Room(stdout[p]) /\ stdout' = [stdout EXCEPT ![p] = Append(@, f)]
          /\ UNCHANGED registryVars
      BY <2>2 DEF Serve, Requests
    <3> QED
      BY <1>h, <1>2, <3>1, PipeTakes DEF registryVars, callVars
  <2>3. CASE f[2] = "initialized"
    <3>1. /\ UNCHANGED registryVars
          /\ \/ stdout' = stdout
             \/ /\ Room(stdout[p])
                /\ stdout' = [stdout EXCEPT ![p] = Append(@, <<0, "ask", 0>>)]
      BY <2>3 DEF Serve, Requests
    <3> QED
      BY <1>h, <3>1, FramesWritten, PipeTakes DEF registryVars, callVars
  <2>4. CASE f[2] \notin Requests \cup {"exit", "initialized"}
    <3>1. UNCHANGED <<registryVars, stdout>>
      BY <2>4 DEF Serve
    <3> QED
      BY <1>h, <3>1 DEF registryVars, callVars
  <2> QED
    BY <2>1, <2>2, <2>3, <2>4
<1> QED
  BY <1>1, <1>2, <1>3, PipesHold

\* A child is terminated or exits.
LEMMA EndHolds ==
    ASSUME SInv, NEW p \in Procs, End(p, Terminate(p)) \/ End(p, Exit(p))
    PROVE  Holds'
<1>h. Pipe(stdin) /\ Pipe(stdout)
  BY SInvHolds DEF Holds, SessionVariables
<1>1. /\ Terminate(p) \/ Exit(p)
      /\ stdin' = [stdin EXCEPT ![p] = IF proc'[p] = "gone" THEN <<>> ELSE @]
      /\ UNCHANGED <<at, step, site, answer, pending, writeLock, reader, frame, stdout, garbled>>
  BY DEF End, passVars, clientVars
<1>2. held' = held
  BY <1>1 DEF Terminate, Exit, callVars
<1>3. Pipe(stdin')
  <2>1. CASE proc'[p] = "gone"
    BY <1>h, <1>1, <2>1, PipeEmptied
  <2>2. CASE proc'[p] # "gone"
    <3>1. stdin' = stdin
      BY <1>h, <1>1, <2>2 DEF Pipe
    <3> QED
      BY <1>h, <3>1
  <2> QED
    BY <2>1, <2>2
<1> QED
  BY <1>h, <1>1, <1>2, <1>3, PipesHold

\* Timers and close() of the registry do not touch a session.
LEMMA RegistryStepHolds == ASSUME SInv, RegistryStep PROVE Holds'
<1>1. UNCHANGED sessionVars
  BY DEF RegistryStep
<1>2. held' = held
  BY DEF RegistryStep, Elapse, OnIdleTimeout, CloseStep, SetClosed, ClearEntries, callVars
<1>3. Pipe(stdin) /\ Pipe(stdout)
  BY SInvHolds DEF Holds, SessionVariables
<1> QED
  BY <1>1, <1>2, <1>3, PipesHold DEF sessionVars, passVars, clientVars, pipeVars

\* Every step of a session keeps its invariant, given the registry's.
LEMMA StepSInv == SInv /\ RInv' /\ [SessionNext]_threadVars => SInv'
<1> SUFFICES ASSUME SInv, RInv', [SessionNext]_threadVars PROVE Holds'
  BY TypesAreThese DEF SInv, Holds, View, RInv, ThreadsTypeOK, SessionVariables, Stages, Pipe
<1>1. ASSUME NEW n \in Users, PassStep(n) PROVE Holds'
  BY <1>1, GetProcessHolds, ConnectHolds, LockToSendHolds, SendMessageHolds, SendFailsHolds,
     AwaitHolds, JoinHolds DEF PassStep
<1>2. CASE UNCHANGED threadVars
  <2>2. Pipe(stdin) /\ Pipe(stdout)
    BY SInvHolds DEF Holds, SessionVariables
  <2> QED
    BY <1>2, <2>2, PipesHold
    DEF threadVars, registryVars, callVars, sessionVars, passVars, clientVars, pipeVars
<1> QED
  BY <1>1, <1>2, StartPassHolds, ReaderStepHolds, ServeHolds, EndHolds, RegistryStepHolds
  DEF SessionNext, ChildStep

\* The first passes have said nothing yet.
LEMMA InitSInv == SessionInit => SInv
<1> SUFFICES ASSUME SessionInit PROVE SInv
  OBVIOUS
<1>1. RegistryTypeOK
  BY InitRInv DEF SessionInit, RInv
<1>2. \A p \in Procs : stdin[p] = <<>> /\ stdout[p] = <<>>
  BY DEF SessionInit
<1>3. <<>> \in Seq(Frames) /\ Len(<<>>) = 0 /\ PipeSize \in Nat /\ 0 <= PipeSize
  BY SessionAssumption DEF SessionAssumption
<1>4. Pipe(stdin) /\ Pipe(stdout)
  BY <1>2, <1>3 DEF SessionInit, Pipe
<1>5. SessionVariables
  BY <1>4, FramesWritten DEF SessionInit, SessionVariables, Stages
<1>6. \A n \in Users : LockView(n) /\ Connected(n) /\ Accounted(n)
  BY DEF SessionInit, LockView, Connected, Accounted, Own, Messages, Requests
<1> QED
  BY <1>1, <1>5, <1>6, TypesAreThese DEF SInv

LEMMA SessionInvariance == Spec => []SInv
<1>1. Spec => []RInv
  BY SessionIsRegistry, Invariance, PTL
<1> QED
  BY <1>1, InitSInv, StepSInv, SessionSteps, PTL

\* The variables of the sessions have their types; no pipe is ever overfilled.
THEOREM SessionTypesHold == Spec => []SessionTypeOK
<1> DEFINE ProcessTypeOK == taken \in Procs \cup {None} /\ exited \in BOOLEAN
<1>1. Init => ProcessTypeOK
  BY DEF Init
<1>2. ThreadsTypeOK /\ ProcessTypeOK /\ [Next]_vars => ProcessTypeOK'
  BY DEF ThreadsTypeOK, RegistryTypeOK, Next, Lasting, ProcessExit, Orphaned, Finished, vars
<1>3. ThreadsTypeOK /\ ProcessTypeOK => SessionTypeOK
  BY DEF SessionTypeOK
<1>4. SInv => ThreadsTypeOK
  BY DEF SInv
<1> HIDE DEF ProcessTypeOK
<1> QED
  BY <1>1, <1>2, <1>3, <1>4, SessionInvariance, PTL DEF Spec

\* However a pass ends, by an answer, an error, a timeout, a lost child or the
\* shutdown, it leaves no request pending and no write lock to anyone but a reader
\* that still replies.
THEOREM PassesCleanUp == Spec => []NothingLeftBehind
<1>1. SInv => NothingLeftBehind
  <2> SUFFICES ASSUME SInv, NEW n \in Users, at[n] = "ended"
               PROVE  Own(n) = {} /\ (writeLock[n] # "free" => reader[n] = "replying")
    BY DEF NothingLeftBehind
  <2>1. View(n) /\ writeLock[n] \in {"free", "pass", "reader"}
    BY SInvHolds DEF Holds, SessionVariables
  <2> QED
    BY <2>1 DEF View, LockView, Accounted, Messages, Requests
<1> QED
  BY <1>1, SessionInvariance, PTL

\* A pass that sends a message, or waits for an answer, and its reader where it
\* replies to the child: what they need to go on.
SendGoes(n) ==
    \/ step[n] = "lock" /\ writeLock[n] = "free"
    \/ step[n] = "write" /\ (Alive(held[n]) => Room(stdin[held[n]]))
    \/ step[n] = "wait"

ReplyGoes(n) == reader[n] = "replying" /\ (Alive(held[n]) => Room(stdin[held[n]]))

\* The child that blocks a pass does not read, and its end is on its way: a thread
\* terminates it, or it is the entry that expires.
BlocksForNow(p) ==
    /\ Alive(p) /\ Len(stdin[p]) = PipeSize
    /\ \/ p \in doomed
       \/ p = entry /\ (armed \/ (expired /\ fired) \/ closing = "set")

BlockedByChild ==
    \A n \in Users : at[n] \in Messages /\ ~SendGoes(n) /\ ~ReplyGoes(n) => BlocksForNow(held[n])

\* A pass that is past ensure_process has its call behind it.
Returned == \A n \in Users : at[n] \in {"new", "ensure"} \/ call[n] = "returned"

LEMMA ReturnedKept ==
    ASSUME SInv, Returned, call' = call, NEW n \in Users, at[n] \notin {"new", "ensure"},
           \A m \in Users \ {n} : at'[m] = at[m]
    PROVE  Returned'
BY DEF Returned

LEMMA StepReturned == SInv /\ Returned /\ [SessionNext]_threadVars => Returned'
<1> SUFFICES ASSUME SInv, Returned, [SessionNext]_threadVars PROVE Returned'
  OBVIOUS
<1>1. at \in [Users -> Stages] /\ call \in [Users -> {"out", "found", "missed", "foundLocked",
                                    "spawning", "spawned", "terminating", "returned"}]
  BY SInvHolds DEF SInv, ThreadsTypeOK, RegistryTypeOK, Stages
<1>2. ASSUME NEW n \in Users, StartPass(n) PROVE Returned'
  BY <1>1, <1>2 DEF StartPass, Begin, Ensure, LookUp, Goto, Returned
<1>3. ASSUME NEW n \in Users, PassStep(n) PROVE Returned'
  <2>1. CASE GetProcess(n)
    <3>1. at[n] = "ensure" /\ at' = at
      BY <2>1 DEF GetProcess, sessionVars, passVars
    <3>2. \A m \in Users \ {n} : call'[m] = call[m]
      BY <1>1, <2>1 DEF GetProcess, EnsureStep, Ensure, EnsureLocked, Touch, SpawnFails, Spawn,
                        Register, GiveUp, LookUp, Goto
    <3> QED
      BY <3>1, <3>2 DEF Returned
  <2>2. CASE Connect(n)
    <3>1. call' = call /\ call[n] = "returned"
      BY <2>2 DEF Connect, registryVars, callVars
    <3>2. \A m \in Users \ {n} : at'[m] = at[m]
      BY <1>1, <2>2 DEF Connect, Begin
    <3> QED
      BY <3>1, <3>2 DEF Returned
  <2>3. CASE LockToSend(n) \/ SendMessage(n) \/ SendFails(n) \/ Await(n) \/ Join(n)
    <3>1. call' = call
      BY <2>3 DEF LockToSend, SendMessage, SendFails, Await, Join, registryVars, callVars
    <3>2. at[n] \notin {"new", "ensure"}
      <4>1. LockView(n)
        BY DEF SInv
      <4>2. CASE LockToSend(n) \/ Join(n)
        BY <4>2 DEF LockToSend, Join, Messages, Requests
      <4>3. CASE SendMessage(n) \/ SendFails(n) \/ Await(n)
        <5>1. step[n] \in {"write", "wait"}
          BY <4>3 DEF SendMessage, Write, SendFails, Await
        <5> QED
          BY <4>1, <5>1 DEF LockView, Messages, Requests
      <4> QED
        BY <2>3, <4>2, <4>3
    <3>3. \A m \in Users \ {n} : at'[m] = at[m]
      <4>1. CASE LockToSend(n) \/ Join(n)
        BY <1>1, <4>1 DEF LockToSend, Join, Begin
      <4>2. CASE SendMessage(n)
        <5>1. at' = at \/ \E message : at' = [at EXCEPT ![n] = message]
          <6>1. at[n] \in Messages
            BY <3>2, <4>2 DEF SendMessage, Write, SInv, LockView
          <6>2. \/ at[n] \in Requests \/ at[n] = "initialized" \/ at[n] = "didOpen" \/ at[n] = "exit"
            BY <6>1 DEF Messages
          <6>3. CASE at[n] \in Requests
            BY <4>2, <6>3 DEF SendMessage, Requests
          <6>4. CASE at[n] = "initialized"
            BY <4>2, <6>4 DEF SendMessage, Requests, Continue, NextSite, Close, Begin
          <6>5. CASE at[n] = "didOpen"
            BY <4>2, <6>5 DEF SendMessage, Requests, Begin
          <6>6. CASE at[n] = "exit"
            BY <4>2, <6>6 DEF SendMessage, Requests, Begin
          <6> QED
            BY <6>2, <6>3, <6>4, <6>5, <6>6
        <5> QED
          BY <1>1, <5>1
      <4>3. CASE SendFails(n)
        BY <1>1, <4>3 DEF SendFails, Close, Begin
      <4>4. CASE Await(n)
        <5>1. at[n] = "initialize" \/ at[n] = "definition" \/ at[n] = "shutdown"
          BY <4>4 DEF Await, SInv, LockView, Requests
        <5>2. \E message : at' = [at EXCEPT ![n] = message]
          <6>1. CASE at[n] = "initialize"
            BY <4>4, <6>1 DEF Await, Begin
          <6>2. CASE at[n] = "definition"
            BY <4>4, <6>2 DEF Await, Continue, NextSite, Close, Begin
          <6>3. CASE at[n] = "shutdown"
            BY <4>4, <6>3 DEF Await, Begin
          <6> QED
            BY <5>1, <6>1, <6>2, <6>3
        <5> QED
          BY <1>1, <5>2
      <4> QED
        BY <2>3, <4>1, <4>2, <4>3, <4>4
    <3> QED
      BY <3>1, <3>2, <3>3, ReturnedKept
  <2> QED
    BY <1>3, <2>1, <2>2, <2>3 DEF PassStep
<1>4. ASSUME UNCHANGED <<at, call>> PROVE Returned'
  BY <1>4 DEF Returned
<1>5. ASSUME NEW n \in Users, ReaderStep(n) PROVE Returned'
  <2>1. UNCHANGED <<at, call>>
    BY <1>5 DEF ReaderStep, ReadFrame, ReadEof, HandleResponse, LockToReply, Reply,
                registryVars, callVars, passVars
  <2> QED
    BY <1>4, <2>1
<1>6. ASSUME NEW p \in Procs, ChildStep(p) PROVE Returned'
  <2>1. UNCHANGED <<at, call>>
    <3>1. CASE Serve(p)
      <4>1. at' = at
        BY <3>1 DEF Serve, passVars
      <4>2. Leave(p) \/ UNCHANGED registryVars
        BY <3>1 DEF Serve
      <4> QED
        BY <4>1, <4>2 DEF Leave, registryVars, callVars
    <3>2. CASE End(p, Terminate(p)) \/ End(p, Exit(p))
      BY <3>2 DEF End, Terminate, Exit, callVars, passVars
    <3> QED
      BY <1>6, <3>1, <3>2 DEF ChildStep
  <2> QED
    BY <1>4, <2>1
<1>7. CASE RegistryStep
  <2>1. UNCHANGED <<at, call>>
    BY <1>7 DEF RegistryStep, Elapse, OnIdleTimeout, CloseStep, SetClosed, ClearEntries, callVars,
                sessionVars, passVars
  <2> QED
    BY <1>4, <2>1
<1>8. CASE UNCHANGED threadVars
  BY <1>4, <1>8 DEF threadVars, registryVars, callVars, sessionVars, passVars
<1> QED
  BY <1>2, <1>3, <1>5, <1>6, <1>7, <1>8 DEF SessionNext

\* No pass is stuck in a conversation by its own reader, its own lock or another
\* pass: where neither it nor its reader can go on, a live child leaves its stdin
\* full, and a timer, a shutdown or a termination that has begun is there to end
\* that child (lsp_client.py:168; no write of a frame has a timeout).
THEOREM OnlyTheChildBlocks == Spec => []BlockedByChild
<1>1. Spec => []RInv
  BY SessionIsRegistry, Invariance, PTL
<1>2. SInv /\ RInv /\ Returned => BlockedByChild
  <2> SUFFICES ASSUME SInv, RInv, Returned, NEW n \in Users, at[n] \in Messages, ~SendGoes(n), ~ReplyGoes(n)
               PROVE  BlocksForNow(held[n])
    BY DEF BlockedByChild
  <2> DEFINE p == held[n]
  <2>1. /\ View(n) /\ ThreadsTypeOK /\ step[n] \in {"lock", "write", "wait"}
        /\ writeLock[n] \in {"free", "pass", "reader"}
    BY SInvHolds DEF Holds, SessionVariables, SInv
  <2>2. p \in Procs
    BY <2>1 DEF View, Connected
  <2>3. Alive(p) /\ ~Room(stdin[p])
    <3>1. CASE step[n] = "lock"
      <4>1. reader[n] = "replying"
        BY <2>1, <3>1 DEF SendGoes, View, LockView
      <4> QED
        BY <4>1 DEF ReplyGoes
    <3>2. CASE step[n] = "write"
      BY <3>2 DEF SendGoes
    <3> QED
      BY <2>1, <3>1, <3>2 DEF SendGoes
  <2>4. Len(stdin[p]) = PipeSize
    <3>1. Len(stdin[p]) \in Nat /\ Len(stdin[p]) <= PipeSize /\ PipeSize \in Nat
      BY <2>1, <2>2, SessionAssumption DEF ThreadsTypeOK
    <3> QED
      BY <2>3, <3>1 DEF Room
  <2>5. ASSUME NEW u \in Users, call[u] = "spawned", held[u] = p PROVE FALSE
    BY <2>5 DEF RInv, BornInv, Returned, Messages, Requests
  <2>6. p = entry \/ p \in doomed
    BY <2>2, <2>3, <2>5 DEF RInv, NoneUnnoticed
  <2>7. p # None
    BY <2>2, UsersAndProcs
  <2> QED
    BY <2>3, <2>4, <2>6, <2>7 DEF BlocksForNow, RInv, EntriesExpire
<1>3. SessionInit => Returned
  BY DEF SessionInit, Returned
<1> QED
  BY <1>1, <1>2, <1>3, StepReturned, SessionInvariance, SessionSteps, PTL

=============================================================================
