--------------------------- MODULE PyrightRegistry ---------------------------
(***************************************************************************)
(* The language servers of one repository (daemon/pyright_process.py): a   *)
(* child process is spawned when ensure_process finds none alive, kept in  *)
(* _entries, and terminated when its idle deadline passes, when the        *)
(* registry is closed, or at once when it was spawned too late.            *)
(*                                                                         *)
(* _entries, the creation lock and the timers are kept per repository, so  *)
(* that one repository shows all there is.  Users are calls of             *)
(* ensure_process; any number may overlap.  A section under _lock is one   *)
(* action.  terminate() and kill() are assumed to succeed, as they do on a *)
(* child of one's own.                                                     *)
(***************************************************************************)
EXTENDS Naturals, FiniteSets

CONSTANTS Users,   \* the calls of ensure_process
          Procs,   \* the children that can be spawned
          None     \* no child, no call

ASSUME UsersAndProcs == None \notin Users \cup Procs

VARIABLES
    proc,      \* each child; poll() is None while it is "up" or "leaving"
    doomed,    \* the live children that some thread is terminating
    entry,     \* the child in _entries
    armed,     \* whether the entry's timer is counting down
    expired,   \* whether the entry's idle_deadline has passed
    fired,     \* whether some timer callback is waiting for _lock
    call,      \* where each call of ensure_process stands
    held,      \* the child each call has looked up or spawned
    creator,   \* the call that holds the creation lock
    closing    \* close(): "open", "set" once _closed is set, "cleared"

timerVars    == <<entry, armed, expired, fired>>
callVars     == <<call, held, creator>>
registryVars == <<proc, doomed, timerVars, callVars, closing>>

RegistryTypeOK ==
    /\ proc \in [Procs -> {"new", "up", "leaving", "gone"}]
    /\ doomed \subseteq Procs
    /\ entry \in Procs \cup {None}
    /\ armed \in BOOLEAN
    /\ expired \in BOOLEAN
    /\ fired \in BOOLEAN
    /\ call \in [Users -> {"out", "found", "missed", "foundLocked", "spawning",
                           "spawned", "terminating", "returned"}]
    /\ held \in [Users -> Procs \cup {None}]
    /\ creator \in Users \cup {None}
    /\ closing \in {"open", "set", "cleared"}

RegistryInit ==
    /\ proc = [p \in Procs |-> "new"]
    /\ doomed = {}
    /\ entry = None
    /\ armed = FALSE
    /\ expired = FALSE
    /\ fired = FALSE
    /\ call = [u \in Users |-> "out"]
    /\ held = [u \in Users |-> None]
    /\ creator = None
    /\ closing = "open"

-----------------------------------------------------------------------------
(* ensure_process *)

Alive(p) == proc[p] \in {"up", "leaving"}

Goto(u, stage) == call' = [call EXCEPT ![u] = stage]

\* Somebody calls _terminate_process, which does nothing to a dead child.
Doom(p) == doomed' = doomed \cup {q \in {p} : Alive(q)}

Hold(u, p) == held' = [held EXCEPT ![u] = p]

\* The entry goes, and with it its timer and its deadline.
DropEntry == entry' = None /\ armed' = FALSE /\ expired' = FALSE

\* _live_process_for, which drops an entry whose child it finds dead.
LookUp(u, hit, miss) ==
    \/ /\ entry # None /\ Alive(entry)
       /\ Hold(u, entry)
       /\ Goto(u, hit)
       /\ UNCHANGED <<entry, armed, expired>>
    \/ /\ entry # None => ~Alive(entry)
       /\ DropEntry
       /\ Goto(u, miss)
       /\ UNCHANGED held

Ensure(u) ==
    /\ call[u] = "out"
    /\ \/ /\ closing # "open"
          /\ Goto(u, "returned")
          /\ UNCHANGED <<held, entry, armed, expired>>
       \/ /\ closing = "open"
          /\ LookUp(u, "found", "missed")
    /\ UNCHANGED <<proc, doomed, fired, creator, closing>>

\* The second check, with the creation lock.
EnsureLocked(u) ==
    /\ call[u] = "missed"
    /\ creator = None
    /\ \/ /\ closing # "open"
          /\ Goto(u, "returned")
          /\ UNCHANGED <<held, entry, armed, expired, creator>>
       \/ /\ closing = "open"
          /\ LookUp(u, "foundLocked", "spawning")
          /\ creator' = u
    /\ UNCHANGED <<proc, doomed, fired, closing>>

Unlock(u) == creator' = IF creator = u THEN None ELSE creator

\* Mutant: the timer is cancelled and no new one is started.
TouchStopsTimer(u) ==
    /\ call[u] \in {"found", "foundLocked"}
    /\ IF closing = "open" /\ entry # None /\ Alive(entry)
       THEN armed' = FALSE /\ expired' = FALSE
       ELSE UNCHANGED <<armed, expired>>
    /\ Goto(u, "returned")
    /\ Unlock(u)
    /\ UNCHANGED <<proc, doomed, entry, fired, held, closing>>

\* touch, on whatever the entry is by now; then the child found is returned.
Touch(u) ==
    /\ call[u] \in {"found", "foundLocked"}
    /\ IF closing = "open" /\ entry # None /\ Alive(entry)
       THEN armed' = TRUE /\ expired' = FALSE
       ELSE UNCHANGED <<armed, expired>>
    /\ Goto(u, "returned")
    /\ Unlock(u)
    /\ UNCHANGED <<proc, doomed, entry, fired, held, closing>>

\* No binary on the PATH, or Popen raised.
SpawnFails(u) ==
    /\ call[u] = "spawning"
    /\ Goto(u, "returned")
    /\ Unlock(u)
    /\ UNCHANGED <<proc, doomed, timerVars, held, closing>>

\* Children that were not spawned yet are all alike.
Unborn == {p \in Procs : proc[p] = "new"}

Spawn(u) ==
    /\ call[u] = "spawning"
    /\ Unborn # {}
    /\ LET p == CHOOSE p \in Unborn : TRUE IN
          /\ proc' = [proc EXCEPT ![p] = "up"]
          /\ Hold(u, p)
    /\ Goto(u, "spawned")
    /\ UNCHANGED <<doomed, timerVars, creator, closing>>

\* Mutant: _closed is not checked again after the spawn.
RegisterUnchecked(u) ==
    /\ call[u] = "spawned"
    /\ entry' = held[u]
    /\ armed' = TRUE
    /\ expired' = FALSE
    /\ Goto(u, "returned")
    /\ Unlock(u)
    /\ UNCHANGED <<proc, doomed, fired, held, closing>>

\* The new child becomes the entry, unless close() came first.
Register(u) ==
    /\ call[u] = "spawned"
    /\ \/ /\ closing = "open"
          /\ entry' = held[u]
          /\ armed' = TRUE
          /\ expired' = FALSE
          /\ Goto(u, "returned")
          /\ Unlock(u)
          /\ UNCHANGED <<doomed, held>>
       \/ /\ closing # "open"
          /\ Doom(held[u])
          /\ Goto(u, "terminating")
          /\ UNCHANGED <<entry, armed, expired, held, creator>>
    /\ UNCHANGED <<proc, fired, closing>>

\* The late child was terminated; ensure_process returns None.
GiveUp(u) ==
    /\ call[u] = "terminating"
    /\ held[u] \notin doomed
    /\ Hold(u, None)
    /\ Goto(u, "returned")
    /\ Unlock(u)
    /\ UNCHANGED <<proc, doomed, timerVars, closing>>

EnsureStep(u) ==
    \/ Ensure(u) \/ EnsureLocked(u) \/ Touch(u)
    \/ SpawnFails(u) \/ Spawn(u) \/ Register(u) \/ GiveUp(u)

-----------------------------------------------------------------------------
(* Timers, termination and close() *)

\* The idle deadline passes and the timer's thread starts its callback.
Elapse ==
    /\ armed
    /\ armed' = FALSE
    /\ expired' = TRUE
    /\ fired' = TRUE
    /\ UNCHANGED <<proc, doomed, entry, callVars, closing>>

\* Mutant: the entry is deleted and its child is not terminated.
OnIdleTimeoutForgets ==
    /\ fired
    /\ fired' = FALSE
    /\ IF closing # "open" \/ entry = None \/ ~expired
       THEN UNCHANGED <<entry, armed, expired>>
       ELSE DropEntry
    /\ UNCHANGED <<proc, doomed, callVars, closing>>

\* The callback of this timer, or of an earlier one that a touch cancelled too late.
OnIdleTimeout ==
    /\ fired
    /\ fired' = FALSE
    /\ IF closing # "open" \/ entry = None \/ ~expired
       THEN UNCHANGED <<doomed, entry, armed, expired>>
       ELSE DropEntry /\ Doom(entry)
    /\ UNCHANGED <<proc, callVars, closing>>

SetClosed ==
    /\ closing = "open"
    /\ closing' = "set"
    /\ UNCHANGED <<proc, doomed, timerVars, callVars>>

ClearEntries ==
    /\ closing = "set"
    /\ closing' = "cleared"
    /\ DropEntry
    /\ IF entry = None THEN UNCHANGED doomed ELSE Doom(entry)
    /\ UNCHANGED <<proc, fired, callVars>>

\* _terminate_process on a child that still runs: terminate() and, when its wait
\* runs out, kill().
Terminate(p) ==
    /\ p \in doomed
    /\ \/ /\ proc[p] = "up"
          /\ proc' = [proc EXCEPT ![p] = "leaving"]
          /\ UNCHANGED doomed
       \/ /\ proc[p] = "leaving"
          /\ proc' = [proc EXCEPT ![p] = "gone"]
          /\ doomed' = doomed \ {p}
    /\ UNCHANGED <<timerVars, callVars, closing>>

\* A child is told to exit by the client that talks to it (LspClient.close).
Leave(p) ==
    /\ proc[p] = "up"
    /\ proc' = [proc EXCEPT ![p] = "leaving"]
    /\ UNCHANGED <<doomed, timerVars, callVars, closing>>

\* A child crashes, or one that was told to exit has done so.
Exit(p) ==
    /\ Alive(p)
    /\ proc' = [proc EXCEPT ![p] = "gone"]
    /\ doomed' = doomed \ {p}
    /\ UNCHANGED <<timerVars, callVars, closing>>

CloseStep == SetClosed \/ ClearEntries

RegistryNext ==
    \/ \E u \in Users : EnsureStep(u)
    \/ Elapse \/ OnIdleTimeout
    \/ CloseStep
    \/ \E p \in Procs : Terminate(p) \/ Leave(p) \/ Exit(p)

RegistrySpec == RegistryInit /\ [][RegistryNext]_registryVars

-----------------------------------------------------------------------------
(* Properties *)

\* However ensure_process, crashes, timers and close() interleave, at most one
\* child runs that nobody is about to terminate, and none runs unnoticed: it is
\* the entry, or its spawner is about to register or to terminate it.
OneManagedChild ==
    /\ \A p, q \in Procs : /\ proc[p] = "up" /\ p \notin doomed
                           /\ proc[q] = "up" /\ q \notin doomed
                           => p = q
    /\ \A p \in Procs : proc[p] = "up" => \/ p = entry
                                          \/ p \in doomed
                                          \/ \E u \in Users : /\ call[u] = "spawned"
                                                              /\ held[u] = p

\* A child is never kept for ever: its entry has a timer that counts or a callback
\* that will find the deadline passed, or close() is about to take it; and a closed
\* registry has neither an entry nor a timer that would keep the process running.
EntriesExpire ==
    /\ entry # None => armed \/ (expired /\ fired) \/ closing = "set"
    /\ closing = "cleared" => entry = None /\ ~armed
=============================================================================
