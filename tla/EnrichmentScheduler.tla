------------------------- MODULE EnrichmentScheduler -------------------------
(***************************************************************************)
(* When the daemon enriches a repository with the language server          *)
(* (daemon/enrichment_scheduler.py, the pass started by daemon/runtime.py, *)
(* the startup reconciliation of daemon/bootstrap.py).                     *)
(*                                                                         *)
(* Every method of the scheduler runs under its one lock and is one        *)
(* action.  Time is counted by Tick; a timer whose countdown is 0 calls    *)
(* back at any later moment, and cancelling it then may come too late:     *)
(* the callback is left as a stray that must find its token replaced.  The *)
(* quiet timer, the max-wait timer, both tokens and _first_pending_at of a *)
(* repository are created and dropped together: they are its window.       *)
(*                                                                         *)
(* The content of a working tree is a version number.                      *)
(***************************************************************************)
EXTENDS Naturals, FiniteSets

CONSTANTS Repos,
          Quiet,         \* quiet_seconds
          MaxWait,       \* max_wait_seconds
          ServerFails,   \* whether the language server can be unavailable
          MaxEdits,      \* bound on the edits of each repository
          MaxRestarts    \* bound on the restarts of the daemon

ASSUME ConstantsAssumption ==
    /\ Quiet \in Nat \ {0}
    /\ MaxWait \in Nat \ {0}
    /\ ServerFails \in BOOLEAN
    /\ MaxEdits \in Nat
    /\ MaxRestarts \in Nat

VARIABLES
    tree,        \* version of each working tree
    unnoticed,   \* repositories with an edit the watcher has yet to report
    window,      \* the pending watcher edits' two countdowns, or NoWindow
    strays,      \* callbacks of timers that fired but were then replaced
    running,     \* _running
    pending,     \* _pending_rerun
    pass,        \* the pass threads of each repository
    attempted,   \* the version the last pass of each repository started from
    recorded,    \* last_enrichment_fingerprint, and the version its pass saw
    check,       \* the reconciliation check of each repository, and what it has read
    restarts     \* how often the daemon was restarted

timing    == <<window, strays>>
scheduler == <<timing, running, pending>>
results   == <<attempted, recorded>>
vars == <<tree, unnoticed, scheduler, pass, results, check, restarts>>

NoWindow == [quiet |-> Quiet + 1, max |-> MaxWait + 1]
NoTree   == MaxEdits + 1
Timers   == {"quiet", "max"}

\* One thread slot more than the scheduler may ever use.
Slots  == {1, 2}
Phases == {"none", "starting", "asking", "storing", "ending"}
NoPass == [phase |-> "none", saw |-> NoTree, print |-> NoTree]
NewPass == [phase |-> "starting", saw |-> NoTree, print |-> NoTree]

\* _reconciliation_checked is the set of repositories whose check is not to do.
Checks  == {"todo", "read", "compare", "trigger", "done"}
NoCheck == [step |-> "todo", stored |-> NoTree]

Versions == 0..NoTree

TypeOK ==
    /\ tree \in [Repos -> 0..MaxEdits]
    /\ unnoticed \in SUBSET Repos
    /\ window \in [Repos -> [quiet : 0..Quiet, max : 0..MaxWait] \cup {NoWindow}]
    /\ strays \in [Repos -> SUBSET Timers]
    /\ running \in SUBSET Repos
    /\ pending \in SUBSET Repos
    /\ pass \in [Repos -> [Slots -> [phase : Phases, saw : Versions,
                                     print : Versions]]]
    /\ attempted \in [Repos -> Versions]
    /\ recorded \in [Repos -> [print : Versions, saw : Versions]]
    /\ check \in [Repos -> [step : Checks, stored : Versions]]
    /\ restarts \in 0..MaxRestarts

Init ==
    /\ tree = [r \in Repos |-> 0]
    /\ unnoticed = {}
    /\ window = [r \in Repos |-> NoWindow]
    /\ strays = [r \in Repos |-> {}]
    /\ running = {}
    /\ pending = {}
    /\ pass = [r \in Repos |-> [s \in Slots |-> NoPass]]
    /\ attempted = [r \in Repos |-> NoTree]
    /\ recorded = [r \in Repos |-> [print |-> NoTree, saw |-> NoTree]]
    /\ check = [r \in Repos |-> NoCheck]
    /\ restarts = 0

-----------------------------------------------------------------------------
(* The sections under the lock *)

Expired(r) == {k \in Timers : window[r] # NoWindow /\ window[r][k] = 0}

\* Cancelling a timer that has expired may come too late.
Strand(r, kinds) ==
    \E late \in SUBSET (kinds \cap Expired(r)) :
        strays' = [strays EXCEPT ![r] = @ \cup late]

\* _clear_pending_timing_locked
ClearPendingTiming(r, cancelled) ==
    /\ window' = [window EXCEPT ![r] = NoWindow]
    /\ Strand(r, cancelled)

FreeSlot(slots) == IF slots[1].phase = "none" THEN 1 ELSE 2

Started(slots) == [slots EXCEPT ![FreeSlot(slots)] = NewPass]

\* Mutant: _running is not consulted.
FireAlways(r) ==
    /\ running' = running \cup {r}
    /\ pass' = [pass EXCEPT ![r] = Started(@)]
    /\ UNCHANGED pending

\* Mutant: a trigger that finds a pass running is dropped.
FireOrDrop(r) ==
    \/ /\ r \in running
       /\ UNCHANGED <<running, pass, pending>>
    \/ /\ r \notin running
       /\ running' = running \cup {r}
       /\ pass' = [pass EXCEPT ![r] = Started(@)]
       /\ UNCHANGED pending

\* _fire_or_mark_pending_locked, but for the timing
FireOrMarkPending(r) ==
    \/ /\ r \in running
       /\ pending' = pending \cup {r}
       /\ UNCHANGED <<running, pass>>
    \/ /\ r \notin running
       /\ running' = running \cup {r}
       /\ pass' = [pass EXCEPT ![r] = Started(@)]
       /\ UNCHANGED pending

TriggerNow(r) ==
    /\ \/ r \in running /\ UNCHANGED timing
       \/ r \notin running /\ ClearPendingTiming(r, Timers)
    /\ FireOrMarkPending(r)
    /\ UNCHANGED <<tree, unnoticed, results, check, restarts>>

\* Mutant: every edit restarts the max-wait timer as well.
OnWatcherEditUncapped(r) ==
    /\ unnoticed' = unnoticed \ {r}
    /\ window' = [window EXCEPT ![r] = [quiet |-> Quiet, max |-> MaxWait]]
    /\ Strand(r, Timers)
    /\ UNCHANGED <<tree, running, pending, pass, results, check, restarts>>

\* on_watcher_edit; also called for events that changed no file's content.
OnWatcherEdit(r) ==
    /\ unnoticed' = unnoticed \ {r}
    /\ \/ /\ window[r] = NoWindow
          /\ window' = [window EXCEPT ![r] = [quiet |-> Quiet, max |-> MaxWait]]
          /\ UNCHANGED <<strays, running, pending, pass>>
       \/ /\ window[r] # NoWindow
          /\ window[r].max > 0
          /\ window' = [window EXCEPT ![r] = [quiet |-> Quiet, max |-> window[r].max]]
          /\ Strand(r, {"quiet"})
          /\ UNCHANGED <<running, pending, pass>>
       \/ /\ window[r].max = 0
          /\ ClearPendingTiming(r, Timers)
          /\ FireOrMarkPending(r)
    /\ UNCHANGED <<tree, results, check, restarts>>

\* _on_quiet_elapsed and _on_max_wait_elapsed with a current token
OnElapsed(r, k) ==
    /\ k \in Expired(r)
    /\ ClearPendingTiming(r, Timers \ {k})
    /\ FireOrMarkPending(r)
    /\ UNCHANGED <<tree, unnoticed, results, check, restarts>>

\* Mutant: the token is not compared.
OnElapsedStaleTrusted(r, k) ==
    /\ k \in strays[r]
    /\ strays' = [strays EXCEPT ![r] = @ \ {k}]
    /\ window' = [window EXCEPT ![r] = NoWindow]
    /\ FireOrMarkPending(r)
    /\ UNCHANGED <<tree, unnoticed, results, check, restarts>>

\* The same callbacks when their token is no longer current: they return.
OnElapsedStale(r, k) ==
    /\ k \in strays[r]
    /\ strays' = [strays EXCEPT ![r] = @ \ {k}]
    /\ UNCHANGED <<tree, unnoticed, window, running, pending, pass, results,
                   check, restarts>>

-----------------------------------------------------------------------------
(* _run and _run_triggered_enrichment *)

SetPass(r, s, new) == pass' = [pass EXCEPT ![r][s] = new]

Ending(p) == [phase |-> "ending", saw |-> p.saw, print |-> p.print]

\* run_enrichment_pass walks the tree.
Walk(r, s) ==
    /\ pass[r][s].phase = "starting"
    /\ SetPass(r, s, [phase |-> "asking", saw |-> tree[r], print |-> NoTree])
    /\ attempted' = [attempted EXCEPT ![r] = tree[r]]
    /\ UNCHANGED <<tree, unnoticed, scheduler, recorded, check, restarts>>

\* The index cannot be opened, or the pass raises: logged, nothing is recorded.
PassRaises(r, s) ==
    /\ pass[r][s].phase \in {"starting", "asking"}
    /\ SetPass(r, s, Ending(pass[r][s]))
    /\ attempted' = IF pass[r][s].phase = "starting"
                    THEN [attempted EXCEPT ![r] = tree[r]] ELSE attempted
    /\ UNCHANGED <<tree, unnoticed, scheduler, recorded, check, restarts>>

\* The pass returns, early and having asked nothing if there is no language
\* server, and compute_repo_fingerprint reads the tree as it is by now.
Fingerprint(r, s) ==
    /\ pass[r][s].phase = "asking"
    /\ \E asked \in {TRUE} \cup {~ServerFails} :
           SetPass(r, s, [phase |-> "storing",
                          saw   |-> IF asked THEN pass[r][s].saw ELSE NoTree,
                          print |-> tree[r]])
    /\ UNCHANGED <<tree, unnoticed, scheduler, results, check, restarts>>

\* set_last_enrichment_fingerprint, unless git failed.
StoreFingerprint(r, s) ==
    /\ pass[r][s].phase = "storing"
    /\ SetPass(r, s, Ending(pass[r][s]))
    /\ \/ recorded' = [recorded EXCEPT ![r] = [print |-> pass[r][s].print,
                                               saw   |-> pass[r][s].saw]]
       \/ UNCHANGED recorded
    /\ UNCHANGED <<tree, unnoticed, scheduler, attempted, check, restarts>>

\* The finally block of _run, under the lock.
EndPass(r, s) ==
    LET ended == [pass[r] EXCEPT ![s] = NoPass] IN
    /\ pass[r][s].phase = "ending"
    /\ \/ /\ r \notin pending
          /\ running' = running \ {r}
          /\ pass' = [pass EXCEPT ![r] = ended]
          /\ UNCHANGED <<pending, timing>>
       \/ /\ r \in pending
          /\ pending' = pending \ {r}
          /\ ClearPendingTiming(r, Timers)
          /\ pass' = [pass EXCEPT ![r] = Started(ended)]
          /\ UNCHANGED running
    /\ UNCHANGED <<tree, unnoticed, results, check, restarts>>

-----------------------------------------------------------------------------
(* Startup reconciliation, and the world *)

SetCheck(r, step, stored) ==
    check' = [check EXCEPT ![r] = [step |-> step, stored |-> stored]]

\* _maybe_schedule_reconciliation_check, from a register that finds the index ready
StartCheck(r) ==
    /\ check[r].step = "todo"
    /\ SetCheck(r, "read", NoTree)
    /\ UNCHANGED <<tree, unnoticed, scheduler, pass, results, restarts>>

\* The stored fingerprint, read by a job of the write queue.
ReadStored(r) ==
    /\ check[r].step = "read"
    /\ SetCheck(r, "compare", recorded[r].print)
    /\ UNCHANGED <<tree, unnoticed, scheduler, pass, results, restarts>>

\* Mutant: a check whose read failed counts as done.
ReadFailsForGood(r) ==
    /\ check[r].step = "read"
    /\ SetCheck(r, "done", NoTree)
    /\ UNCHANGED <<tree, unnoticed, scheduler, pass, results, restarts>>

\* The job raises or is refused: the next register starts another check.
ReadFails(r) ==
    /\ check[r].step = "read"
    /\ SetCheck(r, "todo", NoTree)
    /\ UNCHANGED <<tree, unnoticed, scheduler, pass, results, restarts>>

\* No trigger when git gives the stored fingerprint for the tree as it is by now.
Compare(r) ==
    /\ check[r].step = "compare"
    /\ \/ /\ check[r].stored = tree[r]
          /\ SetCheck(r, "done", NoTree)
       \/ SetCheck(r, "trigger", NoTree)
    /\ UNCHANGED <<tree, unnoticed, scheduler, pass, results, restarts>>

\* on_indexed
TriggerChecked(r) ==
    /\ check[r].step = "trigger"
    /\ SetCheck(r, "done", NoTree)
    /\ \/ r \in running /\ UNCHANGED timing
       \/ r \notin running /\ ClearPendingTiming(r, Timers)
    /\ FireOrMarkPending(r)
    /\ UNCHANGED <<tree, unnoticed, results, restarts>>

Edit(r) ==
    /\ tree[r] < MaxEdits
    /\ tree' = [tree EXCEPT ![r] = @ + 1]
    /\ unnoticed' = unnoticed \cup {r}
    /\ UNCHANGED <<scheduler, pass, results, check, restarts>>

CountDown(n) == IF n = 0 THEN 0 ELSE n - 1

Tick ==
    /\ window' = [r \in Repos |->
                    IF window[r] = NoWindow THEN NoWindow
                    ELSE [quiet |-> CountDown(window[r].quiet),
                          max   |-> CountDown(window[r].max)]]
    /\ UNCHANGED <<tree, unnoticed, strays, running, pending, pass, results,
                   check, restarts>>

\* The daemon ends and is started again: only the index and the tree remain.
Restart ==
    /\ restarts < MaxRestarts
    /\ restarts' = restarts + 1
    /\ unnoticed' = {}
    /\ window' = [r \in Repos |-> NoWindow]
    /\ strays' = [r \in Repos |-> {}]
    /\ running' = {}
    /\ pending' = {}
    /\ pass' = [r \in Repos |-> [s \in Slots |-> NoPass]]
    /\ check' = [r \in Repos |-> NoCheck]
    /\ UNCHANGED <<tree, results>>

CheckStep(r) == StartCheck(r) \/ ReadStored(r) \/ Compare(r) \/ TriggerChecked(r)

PassStep(r, s) ==
    \/ Walk(r, s) \/ PassRaises(r, s) \/ Fingerprint(r, s)
    \/ StoreFingerprint(r, s) \/ EndPass(r, s)

Next ==
    \/ \E r \in Repos : TriggerNow(r) \/ OnWatcherEdit(r) \/ Edit(r)
    \/ \E r \in Repos : CheckStep(r) \/ ReadFails(r)
    \/ \E r \in Repos, k \in Timers : OnElapsed(r, k) \/ OnElapsedStale(r, k)
    \/ \E r \in Repos, s \in Slots : PassStep(r, s)
    \/ Tick
    \/ Restart

\* Time passes, timers call back, threads run and passes end; a started daemon is
\* asked about each repository again and again, the read of a fingerprint does not
\* fail each time, and the watcher reports each edit.
Fairness ==
    /\ WF_vars(Tick)
    /\ \A r \in Repos : /\ WF_vars(\E k \in Timers : OnElapsed(r, k))
                        /\ WF_vars(r \in unnoticed /\ OnWatcherEdit(r))
                        /\ WF_vars(CheckStep(r))
                        /\ SF_vars(ReadStored(r))
                        /\ \A s \in Slots : WF_vars(PassStep(r, s))

Spec == Init /\ [][Next]_vars /\ Fairness

-----------------------------------------------------------------------------
(* Properties *)

Live(r) == {s \in Slots : pass[r][s].phase # "none"}

\* However bootstrap, migration, reconciliation, timers and a finishing pass
\* interleave, a repository never has two pass threads, and _running says exactly
\* which repositories have one.
OnePassAtATime ==
    \A r \in Repos : /\ Cardinality(Live(r)) =< 1
                     /\ r \in running <=> Live(r) # {}

\* A stored fingerprint of another tree than the pass had walked, or of a pass that
\* asked no language server.
Overstated(r) == recorded[r].print # recorded[r].saw

\* Nothing is left that would still start a pass for the repository.
AtRest(r) ==
    /\ check[r].step = "done"
    /\ r \notin unnoticed \cup pending
    /\ window[r] = NoWindow
    /\ \A s \in Slots : pass[r][s].phase # "starting"

\* When the scheduler rests, a pass has been started from the tree as it is: no
\* edit is lost between the timers, the running pass, its follow-up and a restart,
\* except behind a fingerprint that overstates its pass.
NoEditForgotten ==
    \A r \in Repos : AtRest(r) => attempted[r] = tree[r] \/ Overstated(r)

\* An edit that is not yet covered is in the end covered by a pass, even when
\* events keep arriving so fast that the quiet timer never elapses.
EditsReachAPass ==
    \A r \in Repos : attempted[r] # tree[r]
                        ~> attempted[r] = tree[r] \/ Overstated(r)

\* While one pass runs, the window of edits made meanwhile closes only when one of
\* its own timers has elapsed: a cancelled timer's late callback never closes the
\* window of later edits.
WindowClosesOnTime ==
    [][\A r \in Repos :
          /\ window[r] # NoWindow /\ window'[r] = NoWindow
          /\ \E s \in Slots : pass[r][s].phase # "none" /\ pass'[r] = pass[r]
          => Expired(r) # {}]_vars

\* Every trigger source sees one coalescing service.
Coalesced == INSTANCE CoalescedPasses WITH
    wanted <- pending \cup {r \in Repos : window[r] # NoWindow},
    active <- {r \in Repos : Live(r) # {}},
    fresh  <- {r \in Repos : \E s \in Slots : pass[r][s].phase = "starting"}

ImplementsCoalescedPasses == Coalesced!Spec

\* A stored fingerprint is that of the tree as a full pass enriched it, which is
\* what lets the reconciliation after a restart skip the pass.
\* It does not hold: README, Disagreements.
FingerprintMeansEnriched ==
    \A r \in Repos : recorded[r].print # NoTree =>
        recorded[r].saw = recorded[r].print
==============================================================================
