---------------------- MODULE EnrichmentSchedulerProofs ----------------------
(***************************************************************************)
(* Of the enrichment scheduler, for any repositories, time-outs and        *)
(* numbers of edits and restarts: type correctness, the exclusion of a     *)
(* second pass, the coalescing service implemented (its safety), that no   *)
(* edit is forgotten and that windows close on time.                       *)
(***************************************************************************)
EXTENDS EnrichmentScheduler, FiniteSetTheorems, TLAPS

Active(slots, s) == slots[s].phase # "none"

\* One of the two slots is free, and _running says whether the other is not.
Alone ==
    \A r \in Repos :
        /\ ~(Active(pass[r], 1) /\ Active(pass[r], 2))
        /\ r \in running <=> Active(pass[r], 1) \/ Active(pass[r], 2)

\* A rerun is pending only behind a pass that will see to it.
PendingRuns == pending \subseteq running

IInv == TypeOK /\ Alone /\ PendingRuns

PassRecord == [phase : Phases, saw : Versions, print : Versions]
Windows    == [quiet : 0..Quiet, max : 0..MaxWait] \cup {NoWindow}

-----------------------------------------------------------------------------

(* The sentinels are of the types that the variables range over. *)
LEMMA Sentinels ==
    /\ NoTree \in Versions
    /\ NoPass \in PassRecord
    /\ NewPass \in PassRecord
    /\ 0..MaxEdits \subseteq Versions
    /\ NoWindow \in Windows
    /\ [quiet |-> Quiet, max |-> MaxWait] \in Windows
    /\ [quiet |-> Quiet, max |-> MaxWait] # NoWindow
  BY ConstantsAssumption
  DEF ConstantsAssumption, NoTree, NoPass, NewPass, PassRecord, Phases, Versions, NoWindow, Windows

(* Starting a thread when no slot is in use takes the first slot.  _fire_or_    *)
(* mark_pending_locked does so only when _running does not hold the repository. *)
LEMMA StartedInFreeSlot ==
    ASSUME NEW slots \in [Slots -> PassRecord],
           ~Active(slots, 1), ~Active(slots, 2)
    PROVE  /\ Started(slots) \in [Slots -> PassRecord]
           /\ Active(Started(slots), 1)
           /\ Started(slots)[1].phase = "starting"
           /\ Started(slots)[2] = slots[2]
           /\ ~Active(Started(slots), 2)
<1>1. FreeSlot(slots) = 1
  BY DEF FreeSlot, Active
<1>2. Started(slots) = [slots EXCEPT ![1] = NewPass]
  BY <1>1 DEF Started
<1>3. NewPass \in PassRecord /\ NewPass.phase = "starting"
  BY Sentinels DEF NewPass
<1> QED
  BY <1>2, <1>3 DEF Active, Slots

(* Stranding callbacks keeps the strays a set of timer names. *)
LEMMA StrandType ==
    ASSUME TypeOK, NEW r \in Repos, NEW kinds \in SUBSET Timers, Strand(r, kinds)
    PROVE  strays' \in [Repos -> SUBSET Timers]
<1>1. PICK late \in SUBSET (kinds \cap Expired(r)) :
          strays' = [strays EXCEPT ![r] = @ \cup late]
  BY DEF Strand
<1>2. late \in SUBSET Timers
  BY <1>1
<1>3. strays \in [Repos -> SUBSET Timers]
  BY DEF TypeOK
<1> QED
  BY <1>1, <1>2, <1>3

(* A trigger keeps at most one pass thread per repository. *)
LEMMA FireKeepsAlone ==
    ASSUME IInv, NEW r \in Repos, FireOrMarkPending(r)
    PROVE  /\ running' \in SUBSET Repos
           /\ pending' \in SUBSET Repos
           /\ pass' \in [Repos -> [Slots -> PassRecord]]
           /\ Alone' /\ PendingRuns'
<1> USE DEF IInv, TypeOK
<1>p. PendingRuns'
  BY DEF FireOrMarkPending, PendingRuns
<1>1. CASE r \in running
  BY <1>1, <1>p DEF FireOrMarkPending, Alone, Active, PassRecord
<1>2. CASE r \notin running
  <2>1. /\ running' = running \cup {r}
        /\ pass' = [pass EXCEPT ![r] = Started(@)]
        /\ UNCHANGED pending
    BY <1>2 DEF FireOrMarkPending
  <2>2. /\ pass[r] \in [Slots -> PassRecord]
        /\ ~Active(pass[r], 1) /\ ~Active(pass[r], 2)
    BY <1>2 DEF Alone, PassRecord
  <2>3. /\ Started(pass[r]) \in [Slots -> PassRecord]
        /\ Active(Started(pass[r]), 1)
        /\ ~Active(Started(pass[r]), 2)
    BY <2>2, StartedInFreeSlot
  <2>4. pass' \in [Repos -> [Slots -> PassRecord]]
    BY <2>1, <2>3 DEF PassRecord
  <2>5. ASSUME NEW q \in Repos
        PROVE  /\ ~(Active(pass'[q], 1) /\ Active(pass'[q], 2))
               /\ q \in running' <=> Active(pass'[q], 1) \/ Active(pass'[q], 2)
    <3>1. CASE q = r
      BY <3>1, <2>1, <2>3
    <3>2. CASE q # r
      <4>1. pass'[q] = pass[q] /\ (q \in running' <=> q \in running)
        BY <3>2, <2>1
      <4> QED
        BY <4>1 DEF Alone
    <3> QED
      BY <3>1, <3>2
  <2> QED
    BY <1>p, <2>1, <2>4, <2>5 DEF Alone
<1> QED
  BY <1>1, <1>2

(* A step inside one running thread leaves the scheduler's view as it is. *)
LEMMA SetPassKeepsAlone ==
    ASSUME IInv, NEW r \in Repos, NEW s \in Slots, NEW new \in PassRecord,
           Active(pass[r], s), new.phase # "none",
           SetPass(r, s, new), UNCHANGED <<running, pending>>
    PROVE  /\ pass' \in [Repos -> [Slots -> PassRecord]]
           /\ Alone' /\ PendingRuns'
<1> USE DEF IInv, TypeOK
<1>1. pass' \in [Repos -> [Slots -> PassRecord]]
  BY DEF SetPass, PassRecord
<1>2. ASSUME NEW q \in Repos, NEW u \in Slots
      PROVE  Active(pass'[q], u) <=> Active(pass[q], u)
  BY DEF SetPass, Active
<1> QED
  BY <1>1, <1>2 DEF Alone, PendingRuns, Slots

-----------------------------------------------------------------------------

(* The invariant holds initially. *)
LEMMA InitIInv == Init => IInv
<1> SUFFICES ASSUME Init PROVE IInv
  OBVIOUS
<1>0. check \in [Repos -> [step : Checks, stored : Versions]]
  BY Sentinels DEF Init, NoCheck, Checks
<1>1. TypeOK
  BY <1>0, Sentinels, ConstantsAssumption
  DEF Init, TypeOK, ConstantsAssumption, Windows, PassRecord, Slots, Timers, Versions, NoTree
<1>2. Alone
  BY DEF Init, Alone, Active, NoPass, Slots
<1>3. PendingRuns
  BY DEF Init, PendingRuns
<1> QED
  BY <1>1, <1>2, <1>3 DEF IInv

(* Dropping a window leaves the two timing variables well typed. *)
LEMMA ClearType ==
    ASSUME TypeOK, NEW r \in Repos, NEW kinds \in SUBSET Timers,
           ClearPendingTiming(r, kinds)
    PROVE  /\ window' \in [Repos -> Windows]
           /\ strays' \in [Repos -> SUBSET Timers]
<1>1. window' \in [Repos -> Windows]
  BY Sentinels DEF ClearPendingTiming, TypeOK, Windows
<1>2. Strand(r, kinds)
  BY DEF ClearPendingTiming
<1> QED
  BY <1>1, <1>2, StrandType

(* A step of a reconciliation check keeps its type. *)
LEMMA CheckType ==
    ASSUME TypeOK, NEW r \in Repos, NEW step \in Checks,
           NEW stored \in Versions, SetCheck(r, step, stored)
    PROVE  check' \in [Repos -> [step : Checks, stored : Versions]]
  BY DEF TypeOK, SetCheck

(* Every step keeps the invariant. *)
LEMMA StepIInv == IInv /\ [Next]_vars => IInv'
<1> SUFFICES ASSUME IInv, [Next]_vars PROVE IInv'
  OBVIOUS
<1> USE DEF IInv
<1>t. /\ window \in [Repos -> Windows]
      /\ strays \in [Repos -> SUBSET Timers]
      /\ running \in SUBSET Repos
      /\ pending \in SUBSET Repos
      /\ pass \in [Repos -> [Slots -> PassRecord]]
      /\ tree \in [Repos -> 0..MaxEdits]
      /\ attempted \in [Repos -> Versions]
  BY DEF TypeOK, Windows, PassRecord
<1>v. \A r \in Repos : tree[r] \in Versions
  BY <1>t, Sentinels
<1>a. \A K \in SUBSET Timers, k \in Timers : K \ {k} \in SUBSET Timers /\ {k} \in SUBSET Timers
  OBVIOUS
<1>1. ASSUME NEW r \in Repos, TriggerNow(r) PROVE IInv'
  <2>1. /\ running' \in SUBSET Repos /\ pending' \in SUBSET Repos
        /\ pass' \in [Repos -> [Slots -> PassRecord]] /\ Alone' /\ PendingRuns'
    BY <1>1, FireKeepsAlone DEF TriggerNow
  <2>2. window' \in [Repos -> Windows] /\ strays' \in [Repos -> SUBSET Timers]
    <3>1. CASE UNCHANGED timing
      BY <1>t, <3>1 DEF timing
    <3>2. CASE ClearPendingTiming(r, Timers)
      BY <3>2, ClearType
    <3> QED
      BY <1>1, <3>1, <3>2 DEF TriggerNow
  <2>3. UNCHANGED <<tree, unnoticed, results, check, restarts>>
    BY <1>1 DEF TriggerNow
  <2> QED
    BY <2>1, <2>2, <2>3 DEF TypeOK, Windows, PassRecord, results
<1>2. ASSUME NEW r \in Repos, OnWatcherEdit(r) PROVE IInv'
  <2>1. /\ running' \in SUBSET Repos /\ pending' \in SUBSET Repos
        /\ pass' \in [Repos -> [Slots -> PassRecord]] /\ Alone' /\ PendingRuns'
        /\ window' \in [Repos -> Windows] /\ strays' \in [Repos -> SUBSET Timers]
    <3>1. CASE /\ window' = [window EXCEPT ![r] = [quiet |-> Quiet, max |-> MaxWait]]
               /\ UNCHANGED <<strays, running, pending, pass>>
      <4>1. window' \in [Repos -> Windows]
        BY <3>1, <1>t, Sentinels
      <4> QED
        BY <4>1, <3>1, <1>t DEF Alone, PendingRuns
    <3>2. CASE /\ window[r] # NoWindow
               /\ window' = [window EXCEPT ![r] = [quiet |-> Quiet, max |-> window[r].max]]
               /\ Strand(r, {"quiet"})
               /\ UNCHANGED <<running, pending, pass>>
      <4>1. window[r] \in [quiet : 0..Quiet, max : 0..MaxWait]
        BY <3>2, <1>t DEF Windows
      <4>2. [quiet |-> Quiet, max |-> window[r].max] \in Windows
        BY <4>1, ConstantsAssumption DEF Windows, ConstantsAssumption
      <4>3. window' \in [Repos -> Windows]
        BY <3>2, <4>2, <1>t
      <4>4. strays' \in [Repos -> SUBSET Timers]
        BY <3>2, StrandType DEF Timers
      <4> QED
        BY <3>2, <4>3, <4>4, <1>t DEF Alone, PendingRuns
    <3>3. CASE /\ ClearPendingTiming(r, Timers)
               /\ FireOrMarkPending(r)
      BY <3>3, ClearType, FireKeepsAlone
    <3> QED
      BY <1>2, <3>1, <3>2, <3>3 DEF OnWatcherEdit
  <2>2. /\ unnoticed' = unnoticed \ {r}
        /\ UNCHANGED <<tree, results, check, restarts>>
    BY <1>2 DEF OnWatcherEdit
  <2> QED
    BY <2>1, <2>2 DEF TypeOK, Windows, PassRecord, results
<1>3. ASSUME NEW r \in Repos, NEW k \in Timers, OnElapsed(r, k) PROVE IInv'
  <2>1. /\ running' \in SUBSET Repos /\ pending' \in SUBSET Repos
        /\ pass' \in [Repos -> [Slots -> PassRecord]] /\ Alone' /\ PendingRuns'
    BY <1>3, FireKeepsAlone DEF OnElapsed
  <2>2. window' \in [Repos -> Windows] /\ strays' \in [Repos -> SUBSET Timers]
    BY <1>3, ClearType, <1>a DEF OnElapsed
  <2>3. UNCHANGED <<tree, unnoticed, results, check, restarts>>
    BY <1>3 DEF OnElapsed
  <2> QED
    BY <2>1, <2>2, <2>3 DEF TypeOK, Windows, PassRecord, results
<1>4. ASSUME NEW r \in Repos, NEW k \in Timers, OnElapsedStale(r, k) PROVE IInv'
  <2>1. strays' \in [Repos -> SUBSET Timers]
    BY <1>4, <1>t DEF OnElapsedStale
  <2> QED
    BY <1>4, <2>1 DEF OnElapsedStale, TypeOK, Alone, PendingRuns, results
<1>5. ASSUME NEW r \in Repos, NEW s \in Slots, Walk(r, s) PROVE IInv'
  <2> DEFINE new == [phase |-> "asking", saw |-> tree[r], print |-> NoTree]
  <2>1. new \in PassRecord /\ new.phase # "none"
    BY <1>v, Sentinels DEF PassRecord, Phases
  <2>2. Active(pass[r], s) /\ SetPass(r, s, new) /\ UNCHANGED <<running, pending>>
    BY <1>5 DEF Walk, Active, scheduler
  <2>3. pass' \in [Repos -> [Slots -> PassRecord]] /\ Alone' /\ PendingRuns'
    <3> HIDE DEF new
    <3> QED
      BY <2>1, <2>2, SetPassKeepsAlone
  <2>4. attempted' \in [Repos -> Versions]
    BY <1>5, <1>v, <1>t DEF Walk
  <2> QED
    BY <1>5, <2>3, <2>4 DEF Walk, TypeOK, PassRecord, scheduler, timing
<1>6. ASSUME NEW r \in Repos, NEW s \in Slots, PassRaises(r, s) PROVE IInv'
  <2>1. Ending(pass[r][s]) \in PassRecord /\ Ending(pass[r][s]).phase # "none"
    BY <1>t DEF Ending, PassRecord, Phases
  <2>2. Active(pass[r], s) /\ SetPass(r, s, Ending(pass[r][s])) /\ UNCHANGED <<running, pending>>
    BY <1>6 DEF PassRaises, Active, scheduler
  <2>3. pass' \in [Repos -> [Slots -> PassRecord]] /\ Alone' /\ PendingRuns'
    BY <2>1, <2>2, SetPassKeepsAlone
  <2>4. attempted' \in [Repos -> Versions]
    BY <1>6, <1>v, <1>t DEF PassRaises
  <2> QED
    BY <1>6, <2>3, <2>4 DEF PassRaises, TypeOK, PassRecord, scheduler, timing
<1>7. ASSUME NEW r \in Repos, NEW s \in Slots, Fingerprint(r, s) PROVE IInv'
  <2>1. PICK asked \in {TRUE} \cup {~ServerFails} :
            SetPass(r, s, [phase |-> "storing",
                           saw   |-> IF asked THEN pass[r][s].saw ELSE NoTree,
                           print |-> tree[r]])
    BY <1>7 DEF Fingerprint
  <2> DEFINE new == [phase |-> "storing",
                     saw   |-> IF asked THEN pass[r][s].saw ELSE NoTree,
                     print |-> tree[r]]
  <2>2. (IF asked THEN pass[r][s].saw ELSE NoTree) \in Versions
    BY <1>t, Sentinels DEF PassRecord
  <2>3. new \in PassRecord /\ new.phase # "none"
    BY <1>v, <2>2 DEF PassRecord, Phases
  <2>4. Active(pass[r], s) /\ SetPass(r, s, new) /\ UNCHANGED <<running, pending>>
    BY <1>7, <2>1 DEF Fingerprint, Active, scheduler
  <2>5. pass' \in [Repos -> [Slots -> PassRecord]] /\ Alone' /\ PendingRuns'
    <3> HIDE DEF new
    <3> QED
      BY <2>3, <2>4, SetPassKeepsAlone
  <2> QED
    BY <1>7, <2>5 DEF Fingerprint, TypeOK, PassRecord, scheduler, timing, results
<1>8. ASSUME NEW r \in Repos, NEW s \in Slots, StoreFingerprint(r, s) PROVE IInv'
  <2>1. Ending(pass[r][s]) \in PassRecord /\ Ending(pass[r][s]).phase # "none"
    BY <1>t DEF Ending, PassRecord, Phases
  <2>2. Active(pass[r], s) /\ SetPass(r, s, Ending(pass[r][s])) /\ UNCHANGED <<running, pending>>
    BY <1>8 DEF StoreFingerprint, Active, scheduler
  <2>3. pass' \in [Repos -> [Slots -> PassRecord]] /\ Alone' /\ PendingRuns'
    BY <2>1, <2>2, SetPassKeepsAlone
  <2>4. recorded' \in [Repos -> [print : Versions, saw : Versions]]
    <3>1. [print |-> pass[r][s].print, saw |-> pass[r][s].saw]
              \in [print : Versions, saw : Versions]
      BY <1>t DEF PassRecord
    <3>2. recorded \in [Repos -> [print : Versions, saw : Versions]]
      BY DEF TypeOK
    <3> QED
      BY <1>8, <3>1, <3>2 DEF StoreFingerprint
  <2> QED
    BY <1>8, <2>3, <2>4 DEF StoreFingerprint, TypeOK, PassRecord, scheduler, timing
<1>9. ASSUME NEW r \in Repos, NEW s \in Slots, EndPass(r, s) PROVE IInv'
  <2> DEFINE ended == [pass[r] EXCEPT ![s] = NoPass]
  <2>1. /\ ended \in [Slots -> PassRecord]
        /\ ~Active(ended, 1) /\ ~Active(ended, 2)
    BY <1>9, <1>t, Sentinels DEF EndPass, Alone, Active, Slots, NoPass
  <2>2. r \in running
    BY <1>9 DEF EndPass, Alone, Active, Slots
  <2>3. /\ running' \in SUBSET Repos /\ pending' \in SUBSET Repos
        /\ pass' \in [Repos -> [Slots -> PassRecord]] /\ Alone' /\ PendingRuns'
        /\ window' \in [Repos -> Windows] /\ strays' \in [Repos -> SUBSET Timers]
    <3> HIDE DEF ended
    <3>1. CASE /\ running' = running \ {r}
               /\ pass' = [pass EXCEPT ![r] = ended]
               /\ UNCHANGED <<pending, timing>>
      <4>1. \A q \in Repos : q # r =>
                pass'[q] = pass[q] /\ (q \in running' <=> q \in running)
        BY <3>1, <1>t
      <4>2. pass'[r] = ended /\ r \notin running'
        BY <3>1, <1>t
      <4>3. Alone'
        <5> SUFFICES ASSUME NEW q \in Repos
                     PROVE  /\ ~(Active(pass'[q], 1) /\ Active(pass'[q], 2))
                            /\ q \in running' <=> Active(pass'[q], 1) \/ Active(pass'[q], 2)
          BY DEF Alone
        <5>1. CASE q = r
          BY <5>1, <4>2, <2>1
        <5>2. CASE q # r
          <6>1. pass'[q] = pass[q] /\ (q \in running' <=> q \in running)
            BY <5>2, <4>1
          <6>2. /\ ~(Active(pass[q], 1) /\ Active(pass[q], 2))
                /\ q \in running <=> Active(pass[q], 1) \/ Active(pass[q], 2)
            BY DEF Alone
          <6> QED
            BY <6>1, <6>2 DEF Active
        <5> QED
          BY <5>1, <5>2
      <4>4. PendingRuns'
        BY <1>9, <3>1, <1>t DEF PendingRuns, EndPass
      <4> QED
        BY <3>1, <4>3, <4>4, <1>t, <2>1 DEF timing
    <3>2. CASE /\ pending' = pending \ {r}
               /\ ClearPendingTiming(r, Timers)
               /\ pass' = [pass EXCEPT ![r] = Started(ended)]
               /\ UNCHANGED running
      <4>1. /\ Started(ended) \in [Slots -> PassRecord]
            /\ Active(Started(ended), 1) /\ ~Active(Started(ended), 2)
        BY <2>1, StartedInFreeSlot
      <4>2. \A q \in Repos : q # r => pass'[q] = pass[q]
        BY <3>2, <1>t
      <4>3. pass'[r] = Started(ended)
        BY <3>2, <1>t
      <4>4. Alone'
        BY <4>1, <4>2, <4>3, <2>2, <3>2 DEF Alone, Active
      <4>5. window' \in [Repos -> Windows] /\ strays' \in [Repos -> SUBSET Timers]
        BY <3>2, ClearType
      <4>6. PendingRuns'
        BY <3>2 DEF PendingRuns
      <4> QED
        BY <3>2, <4>1, <4>4, <4>5, <4>6, <1>t
    <3> QED
      BY <1>9, <3>1, <3>2 DEF EndPass, ended
  <2>4. UNCHANGED <<tree, unnoticed, results, check, restarts>>
    BY <1>9 DEF EndPass
  <2> QED
    BY <2>3, <2>4 DEF TypeOK, Windows, PassRecord, results
<1>10. ASSUME NEW r \in Repos, TriggerChecked(r) PROVE IInv'
  <2>1. /\ running' \in SUBSET Repos /\ pending' \in SUBSET Repos
        /\ pass' \in [Repos -> [Slots -> PassRecord]] /\ Alone' /\ PendingRuns'
        /\ window' \in [Repos -> Windows] /\ strays' \in [Repos -> SUBSET Timers]
    <3>1. CASE UNCHANGED timing
      BY <1>10, <3>1, <1>t, FireKeepsAlone DEF TriggerChecked, timing
    <3>2. CASE ClearPendingTiming(r, Timers)
      BY <1>10, <3>2, ClearType, FireKeepsAlone DEF TriggerChecked
    <3> QED
      BY <1>10, <3>1, <3>2 DEF TriggerChecked
  <2>2. check' \in [Repos -> [step : Checks, stored : Versions]]
    BY <1>10, CheckType, Sentinels DEF TriggerChecked, Checks
  <2>3. UNCHANGED <<tree, unnoticed, results, restarts>>
    BY <1>10 DEF TriggerChecked
  <2> QED
    BY <2>1, <2>2, <2>3 DEF TypeOK, Windows, PassRecord, results
<1>15. ASSUME NEW r \in Repos, StartCheck(r) \/ ReadStored(r) \/ ReadFails(r) \/ Compare(r)
       PROVE  IInv'
  <2>1. recorded[r].print \in Versions
    BY DEF TypeOK
  <2>2. check' \in [Repos -> [step : Checks, stored : Versions]]
    BY <1>15, <2>1, CheckType, Sentinels DEF StartCheck, ReadStored, ReadFails, Compare, Checks
  <2>3. UNCHANGED <<tree, unnoticed, scheduler, pass, results, restarts>>
    BY <1>15 DEF StartCheck, ReadStored, ReadFails, Compare
  <2> QED
    BY <2>2, <2>3 DEF TypeOK, Alone, PendingRuns, scheduler, timing, results
<1>11. ASSUME NEW r \in Repos, Edit(r) PROVE IInv'
  <2>1. tree' \in [Repos -> 0..MaxEdits]
    BY <1>11, <1>t, ConstantsAssumption DEF Edit, ConstantsAssumption
  <2> QED
    BY <1>11, <2>1 DEF Edit, TypeOK, Alone, PendingRuns, scheduler, timing, results
<1>12. CASE Tick
  <2>1. \A r \in Repos : window[r] # NoWindow =>
            [quiet |-> CountDown(window[r].quiet), max |-> CountDown(window[r].max)]
                \in [quiet : 0..Quiet, max : 0..MaxWait]
    <3>1. \A n, m \in Nat : n \in 0..m => CountDown(n) \in 0..m
      BY DEF CountDown
    <3>2. \A r \in Repos : window[r] # NoWindow =>
              window[r].quiet \in 0..Quiet /\ window[r].max \in 0..MaxWait
      BY <1>t DEF Windows
    <3>3. Quiet \in Nat /\ MaxWait \in Nat
      BY ConstantsAssumption DEF ConstantsAssumption
    <3>4. \A n : n \in 0..Quiet \/ n \in 0..MaxWait => n \in Nat
      BY <3>3
    <3> QED
      BY <3>1, <3>2, <3>3, <3>4
  <2>2. window' \in [Repos -> Windows]
    BY <1>12, <2>1, Sentinels DEF Tick, Windows
  <2> QED
    BY <1>12, <2>2 DEF Tick, TypeOK, Windows, Alone, PendingRuns, results
<1>13. CASE Restart
  <2>1. /\ window' \in [Repos -> Windows]
        /\ strays' \in [Repos -> SUBSET Timers]
        /\ pass' \in [Repos -> [Slots -> PassRecord]]
    BY <1>13, Sentinels DEF Restart
  <2>2. Alone' /\ PendingRuns'
    BY <1>13 DEF Restart, Alone, PendingRuns, Active, NoPass, Slots
  <2>3. restarts' \in 0..MaxRestarts
    BY <1>13, ConstantsAssumption DEF Restart, TypeOK, ConstantsAssumption
  <2>4. check' \in [Repos -> [step : Checks, stored : Versions]]
    BY <1>13, Sentinels DEF Restart, NoCheck, Checks
  <2> QED
    BY <1>13, <2>1, <2>2, <2>3, <2>4 DEF Restart, TypeOK, Windows, PassRecord, results
<1>14. CASE UNCHANGED vars
  BY <1>14 DEF vars, TypeOK, Alone, PendingRuns, scheduler, timing, results
<1> QED
  BY <1>1, <1>2, <1>3, <1>4, <1>5, <1>6, <1>7, <1>8, <1>9, <1>10, <1>11, <1>12,
     <1>13, <1>14, <1>15
  DEF Next, PassStep, CheckStep

(* The invariant holds in every reachable state. *)
LEMMA Invariance == Spec => []IInv
  BY InitIInv, StepIInv, PTL DEF Spec

-----------------------------------------------------------------------------

(* Every variable keeps its type: whichever callbacks, passes and restarts of  *)
(* daemon/enrichment_scheduler.py interleave, countdowns stay in range.        *)
THEOREM TypeCorrect == Spec => []TypeOK
<1>1. IInv => TypeOK
  BY DEF IInv
<1> QED
  BY <1>1, Invariance, PTL

(* No two passes of a repository ever run at once, and _running is exact, for  *)
(* any interleaving of EnrichmentScheduler's trigger sources.                  *)
THEOREM PassesExclude == Spec => []OnePassAtATime
<1>1. IInv => OnePassAtATime
  <2> SUFFICES ASSUME IInv, NEW r \in Repos
               PROVE  /\ Cardinality(Live(r)) =< 1
                      /\ r \in running <=> Live(r) # {}
    BY DEF OnePassAtATime
  <2>1. /\ ~(Active(pass[r], 1) /\ Active(pass[r], 2))
        /\ r \in running <=> Active(pass[r], 1) \/ Active(pass[r], 2)
    BY DEF IInv, Alone
  <2>2. \A s : s \in Live(r) <=> (s = 1 /\ Active(pass[r], 1)) \/ (s = 2 /\ Active(pass[r], 2))
    BY DEF Live, Slots, Active
  <2>3. CASE Live(r) = {}
    BY <2>1, <2>2, <2>3, FS_EmptySet
  <2>4. CASE Live(r) # {}
    <3>1. PICK s : Live(r) = {s}
      BY <2>1, <2>2, <2>4
    <3>2. Cardinality(Live(r)) = 1
      BY <3>1, FS_Singleton
    <3>3. r \in running
      BY <2>1, <2>2, <2>4
    <3> QED
      BY <2>4, <3>2, <3>3
  <2> QED
    BY <2>3, <2>4
<1> QED
  BY <1>1, Invariance, PTL

-----------------------------------------------------------------------------
(* The three sets that the abstract service sees *)

Wanted == pending \cup {r \in Repos : window[r] # NoWindow}
Busy   == {r \in Repos : Live(r) # {}}
Fresh  == {r \in Repos : \E s \in Slots : pass[r][s].phase = "starting"}

Starting(slots) == slots[1].phase = "starting" \/ slots[2].phase = "starting"

(* Under the invariant the busy repositories are those in _running. *)
LEMMA BusyIsRunning == IInv => Busy = running
<1> SUFFICES ASSUME IInv PROVE Busy = running
  OBVIOUS
<1>1. \A r \in Repos : Live(r) # {} <=> Active(pass[r], 1) \/ Active(pass[r], 2)
  BY DEF Live, Slots, Active
<1>2. running \subseteq Repos
  BY DEF IInv, TypeOK
<1> QED
  BY <1>1, <1>2 DEF IInv, Alone, Busy

(* The same of the next state. *)
LEMMA BusyIsRunningNext == IInv' => Busy' = running'
<1> SUFFICES ASSUME IInv' PROVE Busy' = running'
  OBVIOUS
<1>1. \A r \in Repos : Live(r)' # {} <=> Active(pass'[r], 1) \/ Active(pass'[r], 2)
  BY DEF Live, Slots, Active
<1>2. running' \subseteq Repos
  BY DEF IInv, TypeOK
<1> QED
  BY <1>1, <1>2 DEF IInv, Alone, Busy

(* The fresh repositories, by the two slots. *)
LEMMA FreshBySlot == \A r \in Repos : r \in Fresh <=> Starting(pass[r])
  BY DEF Fresh, Starting, Slots

(* Only the passes of one repository change, so that only it can become fresh or *)
(* cease to be. *)
LEMMA FreshElsewhere ==
    ASSUME NEW r \in Repos, \A q \in Repos : q # r => pass'[q] = pass[q]
    PROVE  /\ Starting(pass'[r]) => Fresh' = Fresh \cup {r}
           /\ ~Starting(pass'[r]) => Fresh' = Fresh \ {r}
<1>1. \A q \in Repos : q \in Fresh' <=> Starting(pass'[q])
  BY DEF Fresh, Starting, Slots
<1>2. \A q \in Repos : q # r => (q \in Fresh' <=> q \in Fresh)
  BY <1>1, FreshBySlot
<1>3. Fresh \subseteq Repos /\ Fresh' \subseteq Repos
  BY DEF Fresh
<1> QED
  BY <1>1, <1>2, <1>3

(* A trigger marks a running repository, or begins a pass that is fresh. *)
LEMMA FireMaps ==
    ASSUME IInv, NEW r \in Repos, FireOrMarkPending(r)
    PROVE  \/ /\ r \in running
              /\ pending' = pending \cup {r}
              /\ running' = running
              /\ Fresh' = Fresh
           \/ /\ r \notin running
              /\ pending' = pending
              /\ running' = running \cup {r}
              /\ Fresh' = Fresh \cup {r}
<1>1. CASE r \in running
  BY <1>1 DEF FireOrMarkPending, Fresh
<1>2. CASE r \notin running
  <2>1. /\ running' = running \cup {r}
        /\ pass' = [pass EXCEPT ![r] = Started(@)]
        /\ pending' = pending
    BY <1>2 DEF FireOrMarkPending
  <2>2. /\ pass \in [Repos -> [Slots -> PassRecord]]
        /\ ~Active(pass[r], 1) /\ ~Active(pass[r], 2)
    BY <1>2 DEF IInv, TypeOK, Alone, PassRecord
  <2>3. Starting(Started(pass[r]))
    BY <2>2, StartedInFreeSlot DEF Starting
  <2>4. /\ pass'[r] = Started(pass[r])
        /\ \A q \in Repos : q # r => pass'[q] = pass[q]
    BY <2>1, <2>2
  <2>5. Fresh' = Fresh \cup {r}
    BY <2>3, <2>4, FreshElsewhere
  <2> QED
    BY <1>2, <2>1, <2>5
<1> QED
  BY <1>1, <1>2

(* Dropping the window of a repository withdraws its request, unless a rerun is *)
(* pending for it. *)
LEMMA ClearMaps ==
    ASSUME IInv, NEW r \in Repos, NEW kinds, ClearPendingTiming(r, kinds)
    PROVE  /\ r \in pending' /\ pending' = pending \cup {r} => Wanted' = Wanted \cup {r}
           /\ r \notin pending' /\ pending' = pending \ {r} => Wanted' = Wanted \ {r}
<1>1. window \in [Repos -> Windows]
  BY DEF IInv, TypeOK, Windows
<1>2. window' = [window EXCEPT ![r] = NoWindow]
  BY DEF ClearPendingTiming
<1>3. /\ window'[r] = NoWindow
      /\ \A q \in Repos : q # r => window'[q] = window[q]
  BY <1>1, <1>2
<1> QED
  BY <1>3 DEF Wanted

(* A step inside a running pass leaves it fresh only if it was and still starts. *)
LEMMA SetPassMaps ==
    ASSUME IInv, NEW r \in Repos, NEW s \in Slots, NEW new \in PassRecord,
           Active(pass[r], s), new.phase \notin {"none", "starting"},
           SetPass(r, s, new)
    PROVE  Fresh' = Fresh \ {r}
<1>1. pass \in [Repos -> [Slots -> PassRecord]]
  BY DEF IInv, TypeOK, PassRecord
<1>2. /\ pass'[r] = [pass[r] EXCEPT ![s] = new]
      /\ \A q \in Repos : q # r => pass'[q] = pass[q]
  BY <1>1 DEF SetPass
<1>3. ~Starting(pass'[r])
  BY <1>1, <1>2 DEF IInv, Alone, Active, Starting, Slots
<1> QED
  BY <1>2, <1>3, FreshElsewhere

(* The abstract steps, in terms of the three sets. *)
LEMMA AbstractSteps ==
    /\ \A r \in Repos :
        /\ Wanted' = Wanted \cup {r} /\ Busy' = Busy /\ Fresh' = Fresh
               => Coalesced!Request(r)
        /\ r \notin Busy /\ Busy' = Busy \cup {r} /\ Fresh' = Fresh \cup {r}
           /\ Wanted' = Wanted \ {r}
               => Coalesced!Begin(r)
        /\ r \in Fresh /\ Fresh' = Fresh \ {r} /\ Wanted' = Wanted /\ Busy' = Busy
               => Coalesced!Look(r)
        /\ r \in Busy \ Fresh /\ Busy' = Busy \ {r} /\ Wanted' = Wanted /\ Fresh' = Fresh
               => Coalesced!Finish(r)
        /\ r \in (Busy \ Fresh) \cap Wanted /\ Wanted' = Wanted \ {r}
           /\ Fresh' = Fresh \cup {r} /\ Busy' = Busy
               => Coalesced!BeginNext(r)
    /\ Wanted' = {} /\ Busy' = {} /\ Fresh' = {} => Coalesced!Forget
    /\ Wanted' = Wanted /\ Busy' = Busy /\ Fresh' = Fresh => UNCHANGED Coalesced!vars
  BY DEF Coalesced!Request, Coalesced!Begin, Coalesced!Look, Coalesced!Finish,
         Coalesced!BeginNext, Coalesced!Forget, Coalesced!vars, Wanted, Busy, Fresh

(* A trigger that drops the window is a request, or the beginning of a pass. *)
LEMMA TriggerMaps ==
    ASSUME IInv, IInv', NEW r \in Repos, NEW kinds,
           ClearPendingTiming(r, kinds), FireOrMarkPending(r)
    PROVE  Coalesced!Request(r) \/ Coalesced!Begin(r)
<1>1. Busy = running /\ Busy' = running'
  BY BusyIsRunning, BusyIsRunningNext
<1>2. CASE r \in running
  <2>1. pending' = pending \cup {r} /\ running' = running /\ Fresh' = Fresh
    BY <1>2, FireMaps
  <2>2. Wanted' = Wanted \cup {r}
    BY <2>1, ClearMaps
  <2> QED
    BY <1>1, <2>1, <2>2, AbstractSteps
<1>3. CASE r \notin running
  <2>1. pending' = pending /\ running' = running \cup {r} /\ Fresh' = Fresh \cup {r}
    BY <1>3, FireMaps
  <2>2. r \notin pending
    BY <1>3 DEF IInv, PendingRuns
  <2>3. Wanted' = Wanted \ {r}
    BY <2>1, <2>2, ClearMaps
  <2> QED
    BY <1>1, <1>3, <2>1, <2>3, AbstractSteps
<1> QED
  BY <1>2, <1>3

(* A trigger that finds a pass running and leaves the window is a request. *)
LEMMA RunningTriggerMaps ==
    ASSUME IInv, IInv', NEW r \in Repos, r \in running,
           UNCHANGED timing, FireOrMarkPending(r)
    PROVE  Coalesced!Request(r)
<1>1. Busy = running /\ Busy' = running'
  BY BusyIsRunning, BusyIsRunningNext
<1>2. pending' = pending \cup {r} /\ running' = running /\ Fresh' = Fresh
  BY FireMaps
<1>3. Wanted' = Wanted \cup {r}
  BY <1>2 DEF Wanted, timing
<1> QED
  BY <1>1, <1>2, <1>3, AbstractSteps

(* Every step of the scheduler is a step of the coalescing service or leaves it *)
(* as it is. *)
LEMMA StepMaps ==
    ASSUME IInv, IInv', [Next]_vars
    PROVE  [Coalesced!Next]_(Coalesced!vars)
<1>b. Busy = running /\ Busy' = running'
  BY BusyIsRunning, BusyIsRunningNext
<1>t. /\ window \in [Repos -> Windows]
      /\ pass \in [Repos -> [Slots -> PassRecord]]
      /\ tree \in [Repos -> Versions]
      /\ \A r \in Repos : tree[r] \in Versions
  BY Sentinels DEF IInv, TypeOK, Windows, PassRecord
<1>1. ASSUME NEW r \in Repos, TriggerNow(r) PROVE Coalesced!Request(r) \/ Coalesced!Begin(r)
  BY <1>1, TriggerMaps, RunningTriggerMaps DEF TriggerNow
<1>2. ASSUME NEW r \in Repos, OnWatcherEdit(r)
      PROVE  Coalesced!Request(r) \/ Coalesced!Begin(r)
  <2>1. CASE /\ \E w \in Windows : w # NoWindow /\ window' = [window EXCEPT ![r] = w]
             /\ UNCHANGED <<running, pending, pass>>
    <3>1. PICK w \in Windows : w # NoWindow /\ window' = [window EXCEPT ![r] = w]
      BY <2>1
    <3>2. /\ window'[r] # NoWindow
          /\ \A q \in Repos : q # r => window'[q] = window[q]
      BY <1>t, <3>1
    <3>3. Wanted' = Wanted \cup {r}
      BY <2>1, <3>2 DEF Wanted
    <3>4. Fresh' = Fresh
      BY <2>1 DEF Fresh
    <3> QED
      BY <1>b, <2>1, <3>3, <3>4, AbstractSteps
  <2>2. CASE ClearPendingTiming(r, Timers) /\ FireOrMarkPending(r)
    BY <2>2, TriggerMaps
  <2>3. ASSUME window[r] # NoWindow
        PROVE  /\ [quiet |-> Quiet, max |-> window[r].max] \in Windows
               /\ [quiet |-> Quiet, max |-> window[r].max] # NoWindow
    <3>1. window[r] \in [quiet : 0..Quiet, max : 0..MaxWait]
      BY <1>t, <2>3 DEF Windows
    <3> QED
      BY <3>1, ConstantsAssumption DEF Windows, NoWindow, ConstantsAssumption
  <2> QED
    BY <1>2, <2>1, <2>2, <2>3, Sentinels DEF OnWatcherEdit
<1>3. ASSUME NEW r \in Repos, NEW k \in Timers, OnElapsed(r, k)
      PROVE  Coalesced!Request(r) \/ Coalesced!Begin(r)
  BY <1>3, TriggerMaps DEF OnElapsed
<1>4. ASSUME NEW r \in Repos, NEW k \in Timers, OnElapsedStale(r, k)
      PROVE  UNCHANGED Coalesced!vars
  BY <1>4, AbstractSteps, <1>b DEF OnElapsedStale, Wanted, Fresh
<1>5. ASSUME NEW r \in Repos, NEW s \in Slots, NEW new \in PassRecord,
             Active(pass[r], s), new.phase \notin {"none", "starting"},
             SetPass(r, s, new), UNCHANGED scheduler
      PROVE  Coalesced!Look(r) \/ UNCHANGED Coalesced!vars
  <2>1. Fresh' = Fresh \ {r}
    BY <1>5, SetPassMaps
  <2>2. Wanted' = Wanted /\ Busy' = Busy
    BY <1>5, <1>b DEF Wanted, scheduler, timing
  <2> QED
    BY <2>1, <2>2, AbstractSteps
<1>6. ASSUME NEW r \in Repos, NEW s \in Slots, Walk(r, s)
      PROVE  Coalesced!Look(r) \/ UNCHANGED Coalesced!vars
  <2> DEFINE new == [phase |-> "asking", saw |-> tree[r], print |-> NoTree]
  <2>1. new \in PassRecord /\ new.phase \notin {"none", "starting"}
    BY <1>t, Sentinels DEF PassRecord, Phases
  <2>2. Active(pass[r], s) /\ SetPass(r, s, new) /\ UNCHANGED scheduler
    BY <1>6 DEF Walk, Active
  <2> HIDE DEF new
  <2> QED
    BY <1>5, <2>1, <2>2
<1>7. ASSUME NEW r \in Repos, NEW s \in Slots, PassRaises(r, s) \/ StoreFingerprint(r, s)
      PROVE  Coalesced!Look(r) \/ UNCHANGED Coalesced!vars
  <2>1. /\ Ending(pass[r][s]) \in PassRecord
        /\ Ending(pass[r][s]).phase \notin {"none", "starting"}
    BY <1>t DEF Ending, PassRecord, Phases
  <2>2. /\ Active(pass[r], s) /\ SetPass(r, s, Ending(pass[r][s]))
        /\ UNCHANGED scheduler
    BY <1>7 DEF PassRaises, StoreFingerprint, Active
  <2> QED
    BY <1>5, <2>1, <2>2
<1>8. ASSUME NEW r \in Repos, NEW s \in Slots, Fingerprint(r, s)
      PROVE  Coalesced!Look(r) \/ UNCHANGED Coalesced!vars
  <2>1. PICK asked \in {TRUE} \cup {~ServerFails} :
            SetPass(r, s, [phase |-> "storing",
                           saw   |-> IF asked THEN pass[r][s].saw ELSE NoTree,
                           print |-> tree[r]])
    BY <1>8 DEF Fingerprint
  <2> DEFINE new == [phase |-> "storing",
                     saw   |-> IF asked THEN pass[r][s].saw ELSE NoTree,
                     print |-> tree[r]]
  <2>2. (IF asked THEN pass[r][s].saw ELSE NoTree) \in Versions
    BY <1>t, Sentinels DEF PassRecord
  <2>3. new \in PassRecord /\ new.phase \notin {"none", "starting"}
    BY <1>t, <2>2 DEF PassRecord, Phases
  <2>4. Active(pass[r], s) /\ SetPass(r, s, new) /\ UNCHANGED scheduler
    BY <1>8, <2>1 DEF Fingerprint, Active
  <2> HIDE DEF new
  <2> QED
    BY <1>5, <2>3, <2>4
<1>9. ASSUME NEW r \in Repos, NEW s \in Slots, EndPass(r, s)
      PROVE  Coalesced!Finish(r) \/ Coalesced!BeginNext(r)
  <2> DEFINE ended == [pass[r] EXCEPT ![s] = NoPass]
  <2>1. /\ ended \in [Slots -> PassRecord]
        /\ ~Active(ended, 1) /\ ~Active(ended, 2)
        /\ ~Starting(pass[r]) /\ ~Starting(ended)
        /\ r \in running
    BY <1>9, <1>t, Sentinels DEF EndPass, IInv, Alone, Active, Starting, Slots, NoPass
  <2>2. r \in Busy \ Fresh
    BY <1>b, <2>1, FreshBySlot
  <2> HIDE DEF ended
  <2>3. CASE /\ running' = running \ {r}
             /\ pass' = [pass EXCEPT ![r] = ended]
             /\ UNCHANGED <<pending, timing>>
    <3>1. /\ pass'[r] = ended
          /\ \A q \in Repos : q # r => pass'[q] = pass[q]
      BY <2>3, <1>t
    <3>2. Fresh' = Fresh
      BY <2>1, <2>2, <3>1, FreshElsewhere
    <3>3. Wanted' = Wanted
      BY <2>3 DEF Wanted, timing
    <3> QED
      BY <1>b, <2>2, <2>3, <3>2, <3>3, AbstractSteps
  <2>4. CASE /\ r \in pending
             /\ pending' = pending \ {r}
             /\ ClearPendingTiming(r, Timers)
             /\ pass' = [pass EXCEPT ![r] = Started(ended)]
             /\ UNCHANGED running
    <3>1. /\ pass'[r] = Started(ended)
          /\ \A q \in Repos : q # r => pass'[q] = pass[q]
      BY <2>4, <1>t
    <3>2. Starting(Started(ended))
      BY <2>1, StartedInFreeSlot DEF Starting
    <3>3. Fresh' = Fresh \cup {r}
      BY <3>1, <3>2, FreshElsewhere
    <3>4. Wanted' = Wanted \ {r} /\ r \in Wanted
      BY <2>4, ClearMaps DEF Wanted
    <3> QED
      BY <1>b, <2>2, <2>4, <3>3, <3>4, AbstractSteps
  <2> QED
    BY <1>9, <2>3, <2>4 DEF EndPass, ended
<1>10. ASSUME NEW r \in Repos, TriggerChecked(r)
       PROVE  Coalesced!Request(r) \/ Coalesced!Begin(r) \/ UNCHANGED Coalesced!vars
  BY <1>10, TriggerMaps, RunningTriggerMaps DEF TriggerChecked
<1>15. ASSUME NEW r \in Repos, StartCheck(r) \/ ReadStored(r) \/ ReadFails(r) \/ Compare(r)
       PROVE  UNCHANGED Coalesced!vars
  BY <1>15, <1>b, AbstractSteps
  DEF StartCheck, ReadStored, ReadFails, Compare, scheduler, timing, Wanted, Fresh
<1>11. ASSUME NEW r \in Repos, Edit(r) PROVE UNCHANGED Coalesced!vars
  BY <1>11, <1>b, AbstractSteps DEF Edit, scheduler, timing, Wanted, Fresh
<1>12. CASE Tick
  <2>1. \A r \in Repos : window'[r] = NoWindow <=> window[r] = NoWindow
    <3>1. \A r \in Repos : window[r] # NoWindow =>
              [quiet |-> CountDown(window[r].quiet), max |-> CountDown(window[r].max)]
                  # NoWindow
      <4> SUFFICES ASSUME NEW r \in Repos, window[r] # NoWindow
                   PROVE  CountDown(window[r].quiet) # Quiet + 1
        BY DEF NoWindow
      <4>1. window[r].quiet \in 0..Quiet
        BY <1>t DEF Windows
      <4> QED
        BY <4>1, ConstantsAssumption DEF CountDown, ConstantsAssumption
    <3> QED
      BY <1>12, <3>1 DEF Tick
  <2> QED
    BY <1>12, <1>b, <2>1, AbstractSteps DEF Tick, Wanted, Fresh
<1>13. CASE Restart
  <2>1. Wanted' = {} /\ running' = {}
    BY <1>13 DEF Restart, Wanted
  <2>2. Fresh' = {}
    BY <1>13 DEF Restart, Fresh, NoPass
  <2>3. Coalesced!Forget
    BY <1>b, <2>1, <2>2, AbstractSteps
  <2> QED
    BY <2>3 DEF Coalesced!Next
<1>14. CASE UNCHANGED vars
  BY <1>14, <1>b, AbstractSteps DEF vars, scheduler, timing, Wanted, Fresh
<1> QED
  BY <1>1, <1>2, <1>3, <1>4, <1>6, <1>7, <1>8, <1>9, <1>10, <1>11, <1>12, <1>13, <1>14, <1>15
  DEF Next, PassStep, CheckStep, Coalesced!Next

(* The scheduler implements the coalescing service, but for its liveness: no     *)
(* trigger source of EnrichmentScheduler sees a request dropped, or swallowed by  *)
(* a pass that had already looked, or a second pass under way.                   *)
THEOREM ImplementsService == Spec => Coalesced!Safety
<1>1. Init => Coalesced!Init
  BY DEF Init, Coalesced!Init, Live, NoPass
<1>2. IInv /\ IInv' /\ [Next]_vars => [Coalesced!Next]_(Coalesced!vars)
  BY StepMaps
<1> QED
  BY <1>1, <1>2, Invariance, PTL DEF Spec, Coalesced!Safety

-----------------------------------------------------------------------------
(* No edit is forgotten *)

\* Nothing but a pass that is already under way is to come.
Settled(r) == r \notin unnoticed \cup pending /\ window[r] = NoWindow

(* A pass past its walk that was followed by no further request has walked the  *)
(* tree as it is.                                                               *)
PassCovers(r) ==
    Settled(r) /\ (\E s \in Slots : pass[r][s].phase \in {"asking", "storing", "ending"})
        => attempted[r] = tree[r]

(* A version that a pass or the index claims to have seen is no later than the  *)
(* last one walked, which is no later than the tree.                            *)
Walked(r, version) == version # NoTree => attempted[r] # NoTree /\ version <= attempted[r]

History(r) ==
    /\ attempted[r] # NoTree => attempted[r] <= tree[r]
    /\ Walked(r, recorded[r].saw)
    /\ \A s \in Slots : Walked(r, pass[r][s].saw)

Covered(r) == AtRest(r) => attempted[r] = tree[r] \/ Overstated(r)

Remembered(r) == PassCovers(r) /\ History(r) /\ Covered(r)

(* A fingerprint is that of a tree of the past, and one that is stored is no      *)
(* later than what the pass that is now asking or storing has walked.           *)
Printed(r) ==
    /\ recorded[r].print # NoTree => recorded[r].print <= tree[r]
    /\ \A s \in Slots :
        /\ pass[r][s].print # NoTree => pass[r][s].print <= tree[r]
        /\ pass[r][s].phase \in {"asking", "storing"} =>
              attempted[r] # NoTree /\ (recorded[r].print # NoTree
                                            => recorded[r].print <= attempted[r])

(* A check that has read the fingerprint of the tree as it is by now may end     *)
(* without a trigger.                                                           *)
Checked(r) ==
    check[r].step = "compare" =>
        /\ check[r].stored # NoTree => check[r].stored <= tree[r]
        /\ check[r].stored = tree[r] =>
              attempted[r] = tree[r] \/ (Overstated(r) /\ recorded[r].print = tree[r])

EditInv  == \A r \in Repos : Remembered(r)
CheckInv == \A r \in Repos : Printed(r) /\ Checked(r)

(* What concerns a repository is unchanged, except perhaps how long its timers  *)
(* still run.                                                                   *)
Untouched(r) ==
    /\ tree'[r] = tree[r]
    /\ r \in unnoticed' <=> r \in unnoticed
    /\ window'[r] = NoWindow <=> window[r] = NoWindow
    /\ r \in pending' <=> r \in pending
    /\ pass'[r] = pass[r]
    /\ attempted'[r] = attempted[r]
    /\ recorded'[r] = recorded[r]
    /\ check'[r] = check[r]

(* A repository whose view is unchanged is still remembered. *)
LEMMA UntouchedRemembered ==
    ASSUME NEW r \in Repos, Remembered(r), Untouched(r)
    PROVE  Remembered(r)'
<1> USE DEF Untouched
<1>1. Settled(r)' <=> Settled(r)
  BY DEF Settled
<1>2. PassCovers(r)'
  BY <1>1 DEF Remembered, PassCovers
<1>3. History(r)'
  BY DEF Remembered, History, Walked
<1>4. AtRest(r)' <=> AtRest(r)
  BY DEF AtRest
<1>5. Covered(r)'
  BY <1>4 DEF Remembered, Covered, Overstated
<1> QED
  BY <1>2, <1>3, <1>5 DEF Remembered

(* The versions that the types allow. *)
LEMMA VersionTypes ==
    ASSUME TypeOK, NEW r \in Repos
    PROVE  /\ tree[r] \in Nat /\ tree[r] <= MaxEdits /\ tree[r] # NoTree
           /\ attempted[r] \in Nat /\ NoTree \in Nat
           /\ recorded[r] \in [print : Versions, saw : Versions]
           /\ recorded[r].saw \in Nat /\ recorded[r].print \in Nat
           /\ pass[r] \in [Slots -> PassRecord]
           /\ \A s \in Slots : pass[r][s] \in PassRecord /\ pass[r][s].saw \in Nat
<1>1. MaxEdits \in Nat
  BY ConstantsAssumption DEF ConstantsAssumption
<1>2. tree[r] \in 0..MaxEdits /\ attempted[r] \in Versions
      /\ recorded[r] \in [print : Versions, saw : Versions]
      /\ pass[r] \in [Slots -> PassRecord]
  BY DEF TypeOK, PassRecord
<1>3. \A s \in Slots : pass[r][s] \in PassRecord
  BY <1>2
<1>4. \A v \in Versions : v \in Nat
  BY <1>1 DEF Versions, NoTree
<1>5. \A p \in PassRecord : p.saw \in Versions
  BY DEF PassRecord
<1>6. recorded[r].saw \in Versions /\ recorded[r].print \in Versions
  BY <1>2
<1>7. tree[r] \in Nat /\ tree[r] <= MaxEdits /\ tree[r] # NoTree /\ NoTree \in Nat
  BY <1>1, <1>2 DEF NoTree
<1> QED
  BY <1>2, <1>3, <1>4, <1>5, <1>6, <1>7

(* A trigger leaves a request pending, or a pass that is still to walk: either   *)
(* way the scheduler is not at rest.                                            *)
LEMMA TriggerRemembered ==
    ASSUME IInv, NEW r \in Repos, Remembered(r), FireOrMarkPending(r),
           tree'[r] = tree[r], attempted'[r] = attempted[r], recorded'[r] = recorded[r]
    PROVE  Remembered(r)'
<1>1. CASE r \in running
  <2>1. r \in pending' /\ pass'[r] = pass[r]
    BY <1>1 DEF FireOrMarkPending
  <2>2. PassCovers(r)' /\ Covered(r)'
    BY <2>1 DEF PassCovers, Settled, Covered, AtRest
  <2>3. History(r)'
    BY <2>1 DEF Remembered, History, Walked
  <2> QED
    BY <2>2, <2>3 DEF Remembered
<1>2. CASE r \notin running
  <2>1. pass \in [Repos -> [Slots -> PassRecord]]
    BY DEF IInv, TypeOK, PassRecord
  <2>2. ~Active(pass[r], 1) /\ ~Active(pass[r], 2)
    BY <1>2 DEF IInv, Alone
  <2>3. pass'[r] = [pass[r] EXCEPT ![1] = NewPass]
    BY <1>2, <2>1, <2>2 DEF FireOrMarkPending, Started, FreeSlot, Active
  <2>4. pass'[r][1] = NewPass /\ pass'[r][2] = pass[r][2]
    BY <2>1, <2>3 DEF Slots
  <2>5. pass'[r][1].phase = "starting" /\ pass'[r][2].phase = "none"
        /\ pass'[r][1].saw = NoTree
    BY <2>2, <2>4 DEF NewPass, Active
  <2>6. PassCovers(r)' /\ Covered(r)'
    BY <2>5 DEF PassCovers, Covered, AtRest, Slots
  <2>7. History(r)'
    BY <2>4, <2>5 DEF Remembered, History, Walked, Slots
  <2> QED
    BY <2>6, <2>7 DEF Remembered
<1> QED
  BY <1>1, <1>2

(* A trigger touches no other repository. *)
LEMMA TriggerElsewhere ==
    ASSUME IInv, NEW r \in Repos, NEW q \in Repos, q # r, FireOrMarkPending(r)
    PROVE  (q \in pending' <=> q \in pending) /\ pass'[q] = pass[q]
  BY DEF IInv, TypeOK, FireOrMarkPending

(* Dropping the window of a repository touches no other one's. *)
LEMMA ClearElsewhere ==
    ASSUME IInv, NEW r \in Repos, NEW q \in Repos, q # r, NEW kinds,
           ClearPendingTiming(r, kinds)
    PROVE  window'[q] = window[q]
  BY DEF IInv, TypeOK, ClearPendingTiming

(* A thread that has come past its walk.  Its repository stays remembered when   *)
(* the pass keeps what it saw, or gives it up.                                   *)
LEMMA WalkedPassRemembered ==
    ASSUME IInv, NEW r \in Repos, NEW s \in Slots, Remembered(r),
           pass[r][s].phase \in {"asking", "storing"},
           NEW new \in PassRecord, new.phase \in {"asking", "storing", "ending"},
           new.saw \in {pass[r][s].saw, NoTree},
           SetPass(r, s, new),
           UNCHANGED <<tree, unnoticed, window, pending, attempted, check>>,
           recorded'[r] = recorded[r] \/ recorded'[r].saw = pass[r][s].saw
    PROVE  Remembered(r)'
<1>1. pass \in [Repos -> [Slots -> PassRecord]]
  BY DEF IInv, TypeOK, PassRecord
<1>2. pass'[r] = [pass[r] EXCEPT ![s] = new]
  BY <1>1 DEF SetPass
<1>3. pass'[r][s] = new /\ \A u \in Slots : u # s => pass'[r][u] = pass[r][u]
  BY <1>1, <1>2
<1>4. Settled(r)' <=> Settled(r)
  BY DEF Settled
<1>5. PassCovers(r)'
  BY <1>4 DEF Remembered, PassCovers
<1>6. \A u \in Slots : Walked(r, pass[r][u].saw)
  BY DEF Remembered, History
<1>7. History(r)'
  <2>1. \A u \in Slots : pass'[r][u].saw \in {pass[r][u].saw, NoTree}
    BY <1>3
  <2>2. recorded'[r].saw \in {recorded[r].saw, pass[r][s].saw}
    OBVIOUS
  <2>3. Walked(r, recorded[r].saw)
    BY DEF Remembered, History
  <2> QED
    BY <1>6, <2>1, <2>2, <2>3 DEF Remembered, History, Walked
<1>8. Covered(r)'
  <2> SUFFICES ASSUME AtRest(r)' PROVE attempted[r] = tree[r]
    BY DEF Covered
  <2>1. Settled(r)
    BY DEF AtRest, Settled
  <2> QED
    BY <2>1 DEF Remembered, PassCovers
<1> QED
  BY <1>5, <1>7, <1>8 DEF Remembered

(* The walk reads the tree as it is: every version seen before is at most this. *)
LEMMA WalkRemembered ==
    ASSUME IInv, NEW r \in Repos, NEW s \in Slots, Remembered(r), Walk(r, s)
    PROVE  Remembered(r)'
<1>1. /\ pass \in [Repos -> [Slots -> PassRecord]]
      /\ attempted \in [Repos -> Versions]
  BY DEF IInv, TypeOK, PassRecord
<1>2. tree[r] \in Nat /\ tree[r] # NoTree /\ attempted[r] \in Nat
      /\ recorded[r].saw \in Nat /\ \A u \in Slots : pass[r][u].saw \in Nat
  BY VersionTypes DEF IInv
<1>3. tree' = tree /\ recorded' = recorded /\ attempted'[r] = tree[r]
  BY <1>1 DEF Walk
<1>4. /\ pass'[r][s].saw = tree[r]
      /\ \A u \in Slots : u # s => pass'[r][u] = pass[r][u]
  BY <1>1 DEF Walk, SetPass
<1>5. \A v \in Nat : Walked(r, v) => (v # NoTree => v <= tree[r])
  BY <1>2 DEF Remembered, History, Walked
<1>6. History(r)'
  <2>1. \A u \in Slots : pass'[r][u].saw # NoTree => pass'[r][u].saw <= tree[r]
    BY <1>2, <1>4, <1>5 DEF Remembered, History
  <2>2. recorded[r].saw # NoTree => recorded[r].saw <= tree[r]
    BY <1>2, <1>5 DEF Remembered, History
  <2> QED
    BY <1>2, <1>3, <2>1, <2>2 DEF History, Walked
<1>7. PassCovers(r)' /\ Covered(r)'
  BY <1>3 DEF PassCovers, Covered
<1> QED
  BY <1>6, <1>7 DEF Remembered

(* A pass that raises before it could walk counts as an attempt at this tree;    *)
(* one that raises later keeps what it walked.                                  *)
LEMMA PassRaisesRemembered ==
    ASSUME IInv, NEW r \in Repos, NEW s \in Slots, Remembered(r), PassRaises(r, s)
    PROVE  Remembered(r)'
<1>1. /\ pass \in [Repos -> [Slots -> PassRecord]]
      /\ attempted \in [Repos -> Versions]
  BY DEF IInv, TypeOK, PassRecord
<1>2. /\ tree[r] \in Nat /\ tree[r] # NoTree /\ attempted[r] \in Nat
      /\ recorded[r].saw \in Nat
      /\ \A u \in Slots : pass[r][u] \in PassRecord /\ pass[r][u].saw \in Nat
  BY VersionTypes DEF IInv
<1>3. Ending(pass[r][s]) \in PassRecord /\ Ending(pass[r][s]).phase = "ending"
      /\ Ending(pass[r][s]).saw = pass[r][s].saw
  BY <1>2 DEF Ending, PassRecord, Phases
<1>4. SetPass(r, s, Ending(pass[r][s]))
  BY DEF PassRaises
<1>5. CASE pass[r][s].phase = "asking"
  <2>1. UNCHANGED <<tree, unnoticed, window, pending, attempted, check>>
        /\ recorded' = recorded
    BY <1>5 DEF PassRaises, scheduler, timing
  <2> QED
    BY <1>3, <1>4, <1>5, <2>1, WalkedPassRemembered
<1>6. CASE pass[r][s].phase = "starting"
  <2>1. tree' = tree /\ recorded' = recorded /\ attempted'[r] = tree[r]
    BY <1>1, <1>6 DEF PassRaises
  <2>2. \A u \in Slots : pass'[r][u].saw = pass[r][u].saw
    BY <1>1, <1>3, <1>4 DEF SetPass
  <2>3. \A v \in Nat : Walked(r, v) => (v # NoTree => v <= tree[r])
    BY <1>2 DEF Remembered, History, Walked
  <2>4. \A u \in Slots : pass[r][u].saw # NoTree => pass[r][u].saw <= tree[r]
    BY <1>2, <2>3 DEF Remembered, History
  <2>5. recorded[r].saw # NoTree => recorded[r].saw <= tree[r]
    BY <1>2, <2>3 DEF Remembered, History
  <2>6. History(r)'
    BY <1>2, <2>1, <2>2, <2>4, <2>5 DEF History, Walked
  <2>7. PassCovers(r)' /\ Covered(r)'
    BY <2>1 DEF PassCovers, Covered
  <2> QED
    BY <2>6, <2>7 DEF Remembered
<1> QED
  BY <1>5, <1>6 DEF PassRaises

(* The fingerprint is read from a later tree, what the pass saw stays. *)
LEMMA FingerprintRemembered ==
    ASSUME IInv, NEW r \in Repos, NEW s \in Slots, Remembered(r), Fingerprint(r, s)
    PROVE  Remembered(r)'
<1>1. PICK asked \in {TRUE} \cup {~ServerFails} :
          SetPass(r, s, [phase |-> "storing",
                         saw   |-> IF asked THEN pass[r][s].saw ELSE NoTree,
                         print |-> tree[r]])
  BY DEF Fingerprint
<1> DEFINE seen == IF asked THEN pass[r][s].saw ELSE NoTree
           new  == [phase |-> "storing", saw |-> seen, print |-> tree[r]]
<1>2. pass[r][s] \in PassRecord /\ tree[r] \in Versions
  BY VersionTypes, Sentinels DEF IInv, TypeOK
<1>3. seen \in Versions /\ seen \in {pass[r][s].saw, NoTree}
  BY <1>2, Sentinels DEF PassRecord
<1>4. new \in PassRecord /\ new.phase \in {"asking", "storing", "ending"}
      /\ new.saw \in {pass[r][s].saw, NoTree}
  <2> HIDE DEF seen
  <2> QED
    BY <1>2, <1>3 DEF PassRecord, Phases
<1>5. SetPass(r, s, new)
  BY <1>1
<1>6. /\ pass[r][s].phase \in {"asking", "storing"}
      /\ UNCHANGED <<tree, unnoticed, window, pending, attempted, check>>
      /\ recorded' = recorded
  BY DEF Fingerprint, scheduler, timing, results
<1> HIDE DEF new
<1> QED
  BY <1>4, <1>5, <1>6, WalkedPassRemembered

(* The fingerprint may be that of a later tree than the pass saw; the pass has    *)
(* walked the tree as it is, or a further request stands against rest.           *)
LEMMA StoreRemembered ==
    ASSUME IInv, NEW r \in Repos, NEW s \in Slots, Remembered(r), StoreFingerprint(r, s)
    PROVE  Remembered(r)'
<1>1. /\ pass[r][s] \in PassRecord
      /\ recorded \in [Repos -> [print : Versions, saw : Versions]]
  BY VersionTypes DEF IInv, TypeOK
<1>2. Ending(pass[r][s]) \in PassRecord /\ Ending(pass[r][s]).phase = "ending"
      /\ Ending(pass[r][s]).saw = pass[r][s].saw
  BY <1>1 DEF Ending, PassRecord, Phases
<1>3. recorded'[r] = recorded[r] \/ recorded'[r].saw = pass[r][s].saw
  BY <1>1 DEF StoreFingerprint
<1>4. /\ pass[r][s].phase \in {"asking", "storing"}
      /\ SetPass(r, s, Ending(pass[r][s]))
      /\ UNCHANGED <<tree, unnoticed, window, pending, attempted, check>>
  BY DEF StoreFingerprint, scheduler, timing
<1> QED
  BY <1>2, <1>3, <1>4, WalkedPassRemembered

(* A pass ends with nothing pending only if it covers the tree. *)
LEMMA EndPassRemembered ==
    ASSUME IInv, NEW r \in Repos, NEW s \in Slots, Remembered(r), EndPass(r, s)
    PROVE  Remembered(r)'
<1> DEFINE ended == [pass[r] EXCEPT ![s] = NoPass]
<1>1. pass \in [Repos -> [Slots -> PassRecord]]
  BY DEF IInv, TypeOK, PassRecord
<1>2. \A u \in Slots : ended[u].phase = "none"
  BY <1>1 DEF EndPass, IInv, Alone, Active, Slots, NoPass
<1>3. \A u \in Slots : ended[u] = pass[r][u] \/ ended[u] = NoPass
  BY <1>1
<1>4. ended \in [Slots -> PassRecord]
  BY <1>1, Sentinels
<1>5. tree' = tree /\ attempted' = attempted /\ recorded' = recorded
      /\ check' = check /\ unnoticed' = unnoticed
  BY DEF EndPass, results
<1>6. pass[r][s].phase = "ending" /\ pass[r][s].phase # "starting"
  BY DEF EndPass
<1>7. \A u \in Slots : Walked(r, pass[r][u].saw)
  BY DEF Remembered, History
<1>8. NoPass.saw = NoTree /\ NewPass.saw = NoTree /\ NewPass.phase = "starting"
  BY DEF NoPass, NewPass
<1> HIDE DEF ended
<1>9. CASE pass' = [pass EXCEPT ![r] = ended] /\ UNCHANGED <<pending, timing>>
  <2>1. pass'[r] = ended
    BY <1>1, <1>9
  <2>2. PassCovers(r)'
    BY <1>2, <2>1 DEF PassCovers
  <2>3. History(r)'
    BY <1>3, <1>5, <1>7, <1>8, <2>1 DEF Remembered, History, Walked
  <2>4. Covered(r)'
    <3> SUFFICES ASSUME AtRest(r)' PROVE attempted[r] = tree[r]
      BY <1>5 DEF Covered
    <3>1. Settled(r)
      BY <1>5, <1>9 DEF AtRest, Settled, timing
    <3> QED
      BY <1>6, <3>1 DEF Remembered, PassCovers
  <2> QED
    BY <2>2, <2>3, <2>4 DEF Remembered
<1>10. CASE pass' = [pass EXCEPT ![r] = Started(ended)]
  <2>1. pass'[r] = Started(ended)
    BY <1>1, <1>10
  <2>2. Started(ended) = [ended EXCEPT ![1] = NewPass]
    BY <1>2 DEF Started, FreeSlot, Slots
  <2>3. pass'[r][1] = NewPass /\ pass'[r][2] = ended[2]
    BY <1>4, <2>1, <2>2 DEF Slots
  <2>4. PassCovers(r)' /\ Covered(r)'
    BY <1>2, <1>8, <2>3 DEF PassCovers, Covered, AtRest, Slots
  <2>5. History(r)'
    BY <1>3, <1>5, <1>7, <1>8, <2>3 DEF Remembered, History, Walked, Slots
  <2> QED
    BY <2>4, <2>5 DEF Remembered
<1> QED
  BY <1>9, <1>10 DEF EndPass, ended

(* No trigger when the fingerprint is the one that was read: the tree has been    *)
(* walked as it is, or is behind a fingerprint that overstates its pass.        *)
LEMMA CheckRemembered ==
    ASSUME IInv, NEW r \in Repos, Remembered(r), Checked(r), CheckStep(r) \/ ReadFails(r)
    PROVE  Remembered(r)'
<1>1. CASE TriggerChecked(r)
  BY <1>1, TriggerRemembered DEF TriggerChecked, results
<1>2. CASE StartCheck(r) \/ ReadStored(r) \/ ReadFails(r) \/ Compare(r)
  <2>1. UNCHANGED <<tree, unnoticed, window, pending, pass, attempted, recorded>>
    BY <1>2 DEF StartCheck, ReadStored, ReadFails, Compare, scheduler, timing, results
  <2>2. PassCovers(r)' /\ History(r)'
    BY <2>1 DEF Remembered, PassCovers, Settled, History, Walked
  <2>3. check'[r].step = "done"
            => check[r].step = "compare" /\ check[r].stored = tree[r]
    BY <1>2 DEF StartCheck, ReadStored, ReadFails, Compare, SetCheck, IInv, TypeOK
  <2>4. Covered(r)'
    BY <2>1, <2>3 DEF Checked, Covered, AtRest, Overstated
  <2> QED
    BY <2>2, <2>4 DEF Remembered
<1> QED
  BY <1>1, <1>2 DEF CheckStep

(* An edit is unnoticed at first. *)
LEMMA EditRemembered ==
    ASSUME IInv, NEW r \in Repos, Remembered(r), Edit(r)
    PROVE  Remembered(r)'
<1>1. tree[r] \in Nat /\ attempted[r] \in Nat
  BY VersionTypes DEF IInv
<1>2. tree'[r] = tree[r] + 1 /\ attempted' = attempted /\ recorded' = recorded
      /\ pass' = pass /\ r \in unnoticed'
  BY DEF Edit, results, IInv, TypeOK
<1>3. History(r)'
  BY <1>1, <1>2 DEF Remembered, History, Walked
<1>4. PassCovers(r)' /\ Covered(r)'
  BY <1>2 DEF PassCovers, Settled, Covered, AtRest
<1> QED
  BY <1>3, <1>4 DEF Remembered

(* A restart forgets the passes and the requests, and with them which            *)
(* repositories were asked about.                                               *)
LEMMA RestartRemembered ==
    ASSUME IInv, NEW r \in Repos, Remembered(r), Restart
    PROVE  Remembered(r)'
<1>1. /\ tree' = tree /\ attempted' = attempted /\ recorded' = recorded
      /\ check' = [q \in Repos |-> NoCheck]
      /\ \A s \in Slots : pass'[r][s] = NoPass
  BY DEF Restart, results
<1>2. NoPass.phase = "none" /\ NoPass.saw = NoTree /\ NoCheck.step # "done"
  BY DEF NoPass, NoCheck
<1>3. PassCovers(r)' /\ Covered(r)'
  BY <1>1, <1>2 DEF PassCovers, Covered, AtRest
<1>4. History(r)'
  BY <1>1, <1>2 DEF Remembered, History, Walked
<1> QED
  BY <1>3, <1>4 DEF Remembered

(* The timers only run down: no window opens or closes. *)
LEMMA TickUntouched == ASSUME IInv, NEW r \in Repos, Tick PROVE Untouched(r)
<1>1. window'[r] = IF window[r] = NoWindow THEN NoWindow
                   ELSE [quiet |-> CountDown(window[r].quiet),
                         max   |-> CountDown(window[r].max)]
  BY DEF Tick
<1>2. window[r] # NoWindow => CountDown(window[r].quiet) # Quiet + 1
  <2> SUFFICES ASSUME window[r] # NoWindow PROVE CountDown(window[r].quiet) # Quiet + 1
    OBVIOUS
  <2>1. window[r].quiet \in 0..Quiet
    BY DEF IInv, TypeOK
  <2> QED
    BY <2>1, ConstantsAssumption DEF CountDown, ConstantsAssumption
<1>3. window'[r] = NoWindow <=> window[r] = NoWindow
  BY <1>1, <1>2 DEF NoWindow
<1>4. UNCHANGED <<tree, unnoticed, pending, pass, attempted, recorded, check>>
  BY DEF Tick, results
<1> QED
  BY <1>3, <1>4 DEF Untouched

(* No step forgets an edit. *)
LEMMA StepEditInv == IInv /\ EditInv /\ CheckInv /\ [Next]_vars => EditInv'
<1> SUFFICES ASSUME IInv, EditInv, CheckInv, [Next]_vars, NEW q \in Repos
             PROVE  Remembered(q)'
  BY DEF EditInv
<1>q. Remembered(q) /\ Checked(q)
  BY DEF EditInv, CheckInv
<1>t. /\ tree \in [Repos -> 0..MaxEdits]
      /\ window \in [Repos -> Windows]
      /\ pass \in [Repos -> [Slots -> PassRecord]]
      /\ attempted \in [Repos -> Versions]
      /\ recorded \in [Repos -> [print : Versions, saw : Versions]]
  BY DEF IInv, TypeOK, Windows, PassRecord
<1>1. ASSUME NEW r \in Repos, TriggerNow(r) PROVE Remembered(q)'
  <2>1. FireOrMarkPending(r)
        /\ UNCHANGED <<tree, unnoticed, attempted, recorded, check>>
    BY <1>1 DEF TriggerNow, results
  <2>2. window' = window \/ ClearPendingTiming(r, Timers)
    BY <1>1 DEF TriggerNow, timing
  <2>3. CASE q = r
    BY <1>q, <2>1, <2>3, TriggerRemembered
  <2>4. CASE q # r
    BY <1>q, <2>1, <2>2, <2>4, TriggerElsewhere, ClearElsewhere, UntouchedRemembered
    DEF Untouched
  <2> QED
    BY <2>3, <2>4
<1>2. ASSUME NEW r \in Repos, OnWatcherEdit(r) PROVE Remembered(q)'
  <2>1. /\ unnoticed' = unnoticed \ {r}
        /\ UNCHANGED <<tree, attempted, recorded, check>>
    BY <1>2 DEF OnWatcherEdit, results
  <2>2. CASE ClearPendingTiming(r, Timers) /\ FireOrMarkPending(r)
    <3>1. CASE q = r
      BY <1>q, <2>1, <2>2, <3>1, TriggerRemembered
    <3>2. CASE q # r
      BY <1>q, <2>1, <2>2, <3>2, TriggerElsewhere, ClearElsewhere, UntouchedRemembered
      DEF Untouched
    <3> QED
      BY <3>1, <3>2
  <2>3. CASE /\ \E w \in Windows : w # NoWindow /\ window' = [window EXCEPT ![r] = w]
             /\ UNCHANGED <<pending, pass>>
    <3>1. window'[r] # NoWindow /\ (q # r => window'[q] = window[q])
      BY <1>t, <2>3
    <3>2. CASE q = r
      <4>1. PassCovers(q)' /\ Covered(q)'
        BY <3>1, <3>2 DEF PassCovers, Settled, Covered, AtRest
      <4>2. History(q)'
        BY <1>q, <2>1, <2>3 DEF Remembered, History, Walked
      <4> QED
        BY <4>1, <4>2 DEF Remembered
    <3>3. CASE q # r
      BY <1>q, <2>1, <2>3, <3>1, <3>3, UntouchedRemembered DEF Untouched
    <3> QED
      BY <3>2, <3>3
  <2>4. ASSUME window[r] # NoWindow
        PROVE  /\ [quiet |-> Quiet, max |-> window[r].max] \in Windows
               /\ [quiet |-> Quiet, max |-> window[r].max] # NoWindow
    <3>1. window[r] \in [quiet : 0..Quiet, max : 0..MaxWait]
      BY <1>t, <2>4 DEF Windows
    <3> QED
      BY <3>1, ConstantsAssumption DEF Windows, NoWindow, ConstantsAssumption
  <2> QED
    BY <1>2, <2>2, <2>3, <2>4, Sentinels DEF OnWatcherEdit
<1>3. ASSUME NEW r \in Repos, NEW k \in Timers, OnElapsed(r, k) PROVE Remembered(q)'
  <2>1. /\ FireOrMarkPending(r) /\ ClearPendingTiming(r, Timers \ {k})
        /\ UNCHANGED <<tree, unnoticed, attempted, recorded, check>>
    BY <1>3 DEF OnElapsed, results
  <2>2. CASE q = r
    BY <1>q, <2>1, <2>2, TriggerRemembered
  <2>3. CASE q # r
    BY <1>q, <2>1, <2>3, TriggerElsewhere, ClearElsewhere, UntouchedRemembered
    DEF Untouched
  <2> QED
    BY <2>2, <2>3
<1>4. ASSUME NEW r \in Repos, NEW k \in Timers, OnElapsedStale(r, k) PROVE Remembered(q)'
  BY <1>q, <1>4, UntouchedRemembered DEF OnElapsedStale, Untouched, results
<1>5. ASSUME NEW r \in Repos, NEW s \in Slots, PassStep(r, s) PROVE Remembered(q)'
  <2>1. CASE q = r
    BY <1>q, <1>5, <2>1, WalkRemembered, PassRaisesRemembered, FingerprintRemembered,
       StoreRemembered, EndPassRemembered DEF PassStep
  <2>2. CASE q # r
    <3>1. CASE Walk(r, s)
      BY <1>q, <1>t, <2>2, <3>1, UntouchedRemembered
      DEF Walk, SetPass, Untouched, scheduler, timing
    <3>2. CASE PassRaises(r, s)
      BY <1>q, <1>t, <2>2, <3>2, UntouchedRemembered
      DEF PassRaises, SetPass, Untouched, scheduler, timing
    <3>3. CASE Fingerprint(r, s)
      BY <1>q, <1>t, <2>2, <3>3, UntouchedRemembered
      DEF Fingerprint, SetPass, Untouched, scheduler, timing, results
    <3>4. CASE StoreFingerprint(r, s)
      BY <1>q, <1>t, <2>2, <3>4, UntouchedRemembered
      DEF StoreFingerprint, SetPass, Untouched, scheduler, timing
    <3>5. CASE EndPass(r, s)
      <4>1. window'[q] = window[q] /\ (q \in pending' <=> q \in pending)
            /\ pass'[q] = pass[q]
        BY <1>t, <2>2, <3>5, ClearElsewhere DEF EndPass, timing
      <4> QED
        BY <1>q, <3>5, <4>1, UntouchedRemembered DEF EndPass, Untouched, results
    <3> QED
      BY <1>5, <3>1, <3>2, <3>3, <3>4, <3>5 DEF PassStep
  <2> QED
    BY <2>1, <2>2
<1>6. ASSUME NEW r \in Repos, CheckStep(r) \/ ReadFails(r) PROVE Remembered(q)'
  <2>1. CASE q = r
    BY <1>q, <1>6, <2>1, CheckRemembered
  <2>2. CASE q # r
    <3>1. /\ UNCHANGED <<tree, unnoticed, attempted, recorded>>
          /\ check'[q] = check[q]
      BY <1>6, <2>2
      DEF CheckStep, StartCheck, ReadStored, ReadFails, Compare, TriggerChecked, SetCheck,
          results, IInv, TypeOK
    <3>2. window'[q] = window[q] /\ (q \in pending' <=> q \in pending)
          /\ pass'[q] = pass[q]
      BY <1>6, <2>2, TriggerElsewhere, ClearElsewhere
      DEF CheckStep, StartCheck, ReadStored, ReadFails, Compare, TriggerChecked,
          scheduler, timing
    <3> QED
      BY <1>q, <2>2, <3>1, <3>2, UntouchedRemembered DEF Untouched
  <2> QED
    BY <2>1, <2>2
<1>7. ASSUME NEW r \in Repos, Edit(r) PROVE Remembered(q)'
  <2>1. CASE q = r
    BY <1>q, <1>7, <2>1, EditRemembered
  <2>2. CASE q # r
    BY <1>q, <1>t, <1>7, <2>2, UntouchedRemembered
    DEF Edit, Untouched, scheduler, timing, results
  <2> QED
    BY <2>1, <2>2
<1>8. CASE Tick
  BY <1>q, <1>8, TickUntouched, UntouchedRemembered
<1>9. CASE Restart
  BY <1>q, <1>9, RestartRemembered
<1>10. CASE UNCHANGED vars
  BY <1>q, <1>10, UntouchedRemembered
  DEF vars, scheduler, timing, results, Untouched
<1> QED
  BY <1>1, <1>2, <1>3, <1>4, <1>5, <1>6, <1>7, <1>8, <1>9, <1>10 DEF Next

(* A repository of which nothing is read, walked or stored, and whose passes and *)
(* check at most end or begin.                                                  *)
Idle(r) ==
    /\ tree'[r] = tree[r] /\ attempted'[r] = attempted[r] /\ recorded'[r] = recorded[r]
    /\ check'[r] = check[r] \/ check'[r].step # "compare"
    /\ \A s \in Slots :
          \/ pass'[r][s] = pass[r][s]
          \/ /\ pass'[r][s].print \in {pass[r][s].print, NoTree}
             /\ pass'[r][s].phase \notin {"asking", "storing"}

LEMMA IdleChecked ==
    ASSUME NEW r \in Repos, Printed(r), Checked(r), Idle(r)
    PROVE  Printed(r)' /\ Checked(r)'
<1>1. Printed(r)'
  BY DEF Idle, Printed
<1>2. Checked(r)'
  BY DEF Idle, Checked, Overstated
<1> QED
  BY <1>1, <1>2

(* A trigger starts at most a pass that has neither walked nor printed.          *)
LEMMA FireIdle ==
    ASSUME IInv, NEW r \in Repos, NEW q \in Repos, FireOrMarkPending(r),
           tree' = tree, attempted' = attempted, recorded' = recorded,
           check'[q] = check[q] \/ check'[q].step # "compare"
    PROVE  Idle(q)
<1>1. pass \in [Repos -> [Slots -> PassRecord]]
  BY DEF IInv, TypeOK, PassRecord
<1>2. NewPass.print = NoTree /\ NewPass.phase \notin {"asking", "storing"}
  BY DEF NewPass
<1>3. \A s \in Slots : Started(pass[r])[s] \in {pass[r][s], NewPass}
  BY <1>1 DEF Started
<1> QED
  BY <1>1, <1>2, <1>3 DEF FireOrMarkPending, Idle

(* What a pass does keeps every stored fingerprint one of the past, and one of    *)
(* the tree as it is by now behind what was attempted.                          *)
LEMMA PassStepChecked ==
    ASSUME IInv, NEW r \in Repos, NEW s \in Slots, NEW q \in Repos,
           Remembered(q), Printed(q), Checked(q), PassStep(r, s)
    PROVE  Printed(q)' /\ Checked(q)'
<1>t. /\ pass \in [Repos -> [Slots -> PassRecord]]
      /\ attempted \in [Repos -> Versions]
      /\ recorded \in [Repos -> [print : Versions, saw : Versions]]
      /\ tree[q] \in Nat /\ attempted[q] \in Nat /\ tree[q] # NoTree
      /\ recorded[q].print \in Nat
  BY VersionTypes DEF IInv, TypeOK, PassRecord
<1>p. \A u \in Slots : pass[q][u] \in PassRecord
  BY <1>t
<1>1. CASE Walk(r, s)
  <2>1. UNCHANGED <<tree, recorded, check>>
    BY <1>1 DEF Walk
  <2>2. CASE q = r
    <3>1. attempted'[q] = tree[q]
      BY <1>1, <1>t, <2>2 DEF Walk
    <3>2. \A u \in Slots : pass'[q][u].print \in {pass[q][u].print, NoTree}
      BY <1>1, <1>t, <2>2 DEF Walk, SetPass
    <3> QED
      BY <1>t, <2>1, <3>1, <3>2 DEF Printed, Checked
  <2>3. CASE q # r
    BY <1>1, <1>t, <2>1, <2>3, IdleChecked DEF Walk, SetPass, Idle
  <2> QED
    BY <2>2, <2>3
<1>2. CASE PassRaises(r, s)
  <2>1. UNCHANGED <<tree, recorded, check>>
    BY <1>2 DEF PassRaises
  <2>2. \A u \in Slots :
            \/ pass'[q][u] = pass[q][u]
            \/ pass'[q][u].print = pass[q][u].print /\ pass'[q][u].phase = "ending"
    BY <1>2, <1>t DEF PassRaises, SetPass, Ending
  <2>3. attempted'[q] \in {attempted[q], tree[q]}
    BY <1>2, <1>t DEF PassRaises
  <2>4. CASE attempted'[q] = attempted[q]
    BY <2>1, <2>2, <2>4, IdleChecked DEF Idle
  <2>5. CASE attempted'[q] = tree[q]
    BY <1>t, <2>1, <2>2, <2>5 DEF Printed, Checked
  <2> QED
    BY <2>3, <2>4, <2>5
<1>3. CASE Fingerprint(r, s)
  <2>1. UNCHANGED <<tree, attempted, recorded, check>>
    BY <1>3 DEF Fingerprint, results
  <2>2. \A u \in Slots :
            \/ pass'[q][u] = pass[q][u]
            \/ pass'[q][u].print = tree[q] /\ pass[q][u].phase = "asking"
    BY <1>3, <1>t DEF Fingerprint, SetPass
  <2>3. Printed(q)'
    BY <1>t, <2>1, <2>2 DEF Printed
  <2>4. Checked(q)'
    BY <2>1 DEF Checked, Overstated
  <2> QED
    BY <2>3, <2>4
<1>4. CASE StoreFingerprint(r, s)
  <2>1. UNCHANGED <<tree, attempted, check>> /\ pass[r][s].phase = "storing"
    BY <1>4 DEF StoreFingerprint
  <2>2. \A u \in Slots :
            \/ pass'[q][u] = pass[q][u]
            \/ pass'[q][u].print = pass[q][u].print /\ pass'[q][u].phase = "ending"
    BY <1>4, <1>t DEF StoreFingerprint, SetPass, Ending
  <2>3. CASE recorded'[q] = recorded[q]
    BY <2>1, <2>2, <2>3, IdleChecked DEF Idle
  <2>4. CASE q = r /\ recorded'[q].print = pass[q][s].print
    <3>1. pass'[q][s].phase = "ending"
      BY <1>4, <1>t, <2>4 DEF StoreFingerprint, SetPass, Ending
    <3>2. \A u \in Slots : pass'[q][u].phase \notin {"asking", "storing"}
      BY <2>1, <2>2, <2>4, <3>1 DEF IInv, Alone, Active, Slots
    <3>3. Printed(q)'
      BY <2>1, <2>2, <2>4, <3>2 DEF Printed
    <3>4. recorded[q].print = tree[q] => attempted[q] = tree[q]
      <4>1. attempted[q] # NoTree
            /\ (recorded[q].print # NoTree => recorded[q].print <= attempted[q])
        BY <2>1, <2>4 DEF Printed
      <4>2. attempted[q] <= tree[q]
        BY <4>1 DEF Remembered, History
      <4>3. recorded[q].print = tree[q] => tree[q] <= attempted[q]
        BY <1>t, <4>1
      <4>4. tree[q] \in Nat /\ attempted[q] \in Nat
        BY <1>t
      <4> QED
        BY <4>2, <4>3, <4>4
    <3>5. Checked(q)'
      BY <2>1, <3>4 DEF Checked
    <3> QED
      BY <3>3, <3>5
  <2> QED
    BY <1>4, <1>t, <2>3, <2>4 DEF StoreFingerprint
<1>5. CASE EndPass(r, s)
  <2> DEFINE ended == [pass[r] EXCEPT ![s] = NoPass]
  <2>1. UNCHANGED <<tree, attempted, recorded, check>>
    BY <1>5 DEF EndPass, results
  <2>2. \A p \in {NoPass, NewPass} : p.print = NoTree /\ p.phase \notin {"asking", "storing"}
    BY DEF NoPass, NewPass
  <2>3. \A u \in Slots : ended[u] \in {pass[r][u], NoPass}
    BY <1>t
  <2>4. ended \in [Slots -> PassRecord]
    BY <1>t, Sentinels
  <2>5. pass' = [pass EXCEPT ![r] = ended] \/ pass' = [pass EXCEPT ![r] = Started(ended)]
    BY <1>5 DEF EndPass
  <2> HIDE DEF ended
  <2>6. \A u \in Slots : Started(ended)[u] \in {ended[u], NewPass}
    BY <2>4 DEF Started
  <2>7. \A u \in Slots : pass'[q][u] \in {pass[q][u], NoPass, NewPass}
    BY <1>t, <2>3, <2>5, <2>6
  <2> QED
    BY <2>1, <2>2, <2>7, IdleChecked DEF Idle
<1> QED
  BY <1>1, <1>2, <1>3, <1>4, <1>5 DEF PassStep

(* Every step keeps what the checks rest on. *)
LEMMA StepCheckInv == IInv /\ EditInv /\ CheckInv /\ [Next]_vars => CheckInv'
<1> SUFFICES ASSUME IInv, EditInv, CheckInv, [Next]_vars, NEW q \in Repos
             PROVE  Printed(q)' /\ Checked(q)'
  BY DEF CheckInv
<1>q. Remembered(q) /\ Printed(q) /\ Checked(q)
  BY DEF EditInv, CheckInv
<1>t. tree[q] \in Nat /\ attempted[q] \in Nat /\ recorded[q].print \in Nat
      /\ tree[q] <= MaxEdits /\ tree[q] # NoTree
  BY VersionTypes DEF IInv
<1>1. ASSUME NEW r \in Repos, TriggerNow(r) PROVE Idle(q)
  BY <1>1, FireIdle DEF TriggerNow, results
<1>2. ASSUME NEW r \in Repos, OnWatcherEdit(r) PROVE Idle(q)
  <2>1. UNCHANGED <<tree, attempted, recorded, check>>
    BY <1>2 DEF OnWatcherEdit, results
  <2>2. FireOrMarkPending(r) \/ UNCHANGED pass
    BY <1>2 DEF OnWatcherEdit
  <2> QED
    BY <2>1, <2>2, FireIdle DEF Idle
<1>3. ASSUME NEW r \in Repos, NEW k \in Timers, OnElapsed(r, k) PROVE Idle(q)
  BY <1>3, FireIdle DEF OnElapsed, results
<1>4. ASSUME NEW r \in Repos, NEW k \in Timers, OnElapsedStale(r, k) PROVE Idle(q)
  BY <1>4 DEF OnElapsedStale, Idle, results
<1>5. ASSUME NEW r \in Repos, TriggerChecked(r) PROVE Idle(q)
  <2>1. check'[q] = check[q] \/ check'[q].step # "compare"
    BY <1>5 DEF TriggerChecked, SetCheck, IInv, TypeOK
  <2> QED
    BY <1>5, <2>1, FireIdle DEF TriggerChecked, results
<1>6. ASSUME NEW r \in Repos, StartCheck(r) \/ ReadFails(r) \/ Compare(r) PROVE Idle(q)
  <2>1. check'[q] = check[q] \/ check'[q].step # "compare"
    BY <1>6 DEF StartCheck, ReadFails, Compare, SetCheck, IInv, TypeOK
  <2> QED
    BY <1>6, <2>1 DEF StartCheck, ReadFails, Compare, Idle, results
<1>7. ASSUME NEW r \in Repos, ReadStored(r) PROVE Printed(q)' /\ Checked(q)'
  <2>1. UNCHANGED <<tree, attempted, recorded, pass>>
    BY <1>7 DEF ReadStored, results
  <2>2. CASE q # r
    BY <1>7, <1>q, <2>1, <2>2, IdleChecked DEF ReadStored, SetCheck, Idle, IInv, TypeOK
  <2>3. CASE q = r
    <3>1. check'[q].stored = recorded[q].print
      BY <1>7, <2>3 DEF ReadStored, SetCheck, IInv, TypeOK
    <3>2. recorded[q].saw = tree[q] => attempted[q] = tree[q]
      BY <1>q, <1>t DEF Remembered, History, Walked
    <3>3. recorded[q].print # NoTree => recorded[q].print <= tree[q]
      BY <1>q DEF Printed
    <3>4. Checked(q)'
      BY <2>1, <3>1, <3>2, <3>3 DEF Checked, Overstated
    <3>5. Printed(q)'
      BY <1>q, <2>1 DEF Printed
    <3> QED
      BY <3>4, <3>5
  <2> QED
    BY <2>2, <2>3
<1>8. ASSUME NEW r \in Repos, Edit(r) PROVE Printed(q)' /\ Checked(q)'
  <2>1. UNCHANGED <<attempted, recorded, check, pass>>
    BY <1>8 DEF Edit, results
  <2>2. tree'[q] \in {tree[q], tree[q] + 1} /\ tree'[q] \in Nat
    BY <1>8, <1>t DEF Edit, IInv, TypeOK
  <2>3. tree'[q] <= MaxEdits
    BY <1>8, <1>t, ConstantsAssumption DEF Edit, IInv, TypeOK, ConstantsAssumption
  <2>4. check[q].stored \in Nat /\ \A s \in Slots : pass[q][s].print \in Nat
    BY ConstantsAssumption
    DEF IInv, TypeOK, Versions, NoTree, Slots, ConstantsAssumption
  <2>5. Printed(q)'
    BY <1>q, <1>t, <2>1, <2>2, <2>4 DEF Printed
  <2>6. Checked(q)'
    BY <1>q, <1>t, <2>1, <2>2, <2>3, <2>4, ConstantsAssumption
    DEF Checked, Overstated, NoTree, ConstantsAssumption
  <2> QED
    BY <2>5, <2>6
<1>9. CASE Tick
  <2>1. Idle(q)
    BY <1>9 DEF Tick, Idle, results
  <2> QED
    BY <1>q, <2>1, IdleChecked
<1>10. CASE Restart
  <2>1. Idle(q)
    BY <1>10 DEF Restart, Idle, NoPass, NoCheck, results
  <2> QED
    BY <1>q, <2>1, IdleChecked
<1>11. CASE UNCHANGED vars
  <2>1. Idle(q)
    BY <1>11 DEF vars, Idle, results
  <2> QED
    BY <1>q, <2>1, IdleChecked
<1> QED
  BY <1>q, <1>1, <1>2, <1>3, <1>4, <1>5, <1>6, <1>7, <1>8, <1>9, <1>10, <1>11,
     IdleChecked, PassStepChecked DEF Next, CheckStep

(* When the scheduler rests, a pass has been started from the tree as it is,     *)
(* whatever triggers, timers, edits, ends of passes and restarts came between,   *)
(* and whatever a reconciliation check had read before them.                    *)
THEOREM NothingForgotten == Spec => []NoEditForgotten
<1>1. Init => EditInv
  BY DEF Init, EditInv, Remembered, PassCovers, History, Walked, Covered, AtRest, NoPass, NoCheck
<1>2. Init => CheckInv
  BY DEF Init, CheckInv, Printed, Checked, NoPass, NoCheck
<1>3. EditInv => NoEditForgotten
  BY DEF EditInv, Remembered, Covered, NoEditForgotten
<1> QED
  BY <1>1, <1>2, <1>3, StepEditInv, StepCheckInv, Invariance, PTL DEF Spec

-----------------------------------------------------------------------------
(* Windows close on time *)

(* No step closes the window of a repository under a pass it leaves alone,       *)
(* unless one of the window's own timers has elapsed.                           *)
LEMMA StepClosesOnTime ==
    ASSUME IInv, [Next]_vars, NEW q \in Repos,
           window[q] # NoWindow, window'[q] = NoWindow,
           NEW u \in Slots, Active(pass[q], u), pass'[q] = pass[q]
    PROVE  Expired(q) # {}
<1>t. /\ window \in [Repos -> Windows]
      /\ pass \in [Repos -> [Slots -> PassRecord]]
  BY DEF IInv, TypeOK, Windows, PassRecord
<1>q. q \in running
  BY DEF IInv, Alone, Slots
<1>0. window' # window
  OBVIOUS
<1>1. ASSUME NEW r \in Repos, NEW k \in Timers, OnElapsed(r, k) PROVE Expired(q) # {}
  BY <1>1, ClearElsewhere DEF OnElapsed
<1>2. ASSUME NEW r \in Repos, NEW kinds, r \notin running, ClearPendingTiming(r, kinds)
      PROVE  FALSE
  BY <1>2, <1>q, ClearElsewhere
<1>3. ASSUME NEW r \in Repos, OnWatcherEdit(r) PROVE Expired(q) # {}
  <2>1. ASSUME window[r] # NoWindow
        PROVE  [quiet |-> Quiet, max |-> window[r].max] # NoWindow
    BY ConstantsAssumption DEF NoWindow, ConstantsAssumption
  <2>2. window[q].max = 0 => "max" \in Expired(q)
    BY DEF Expired, Timers
  <2> QED
    BY <1>t, <1>3, <2>1, <2>2, Sentinels, ClearElsewhere DEF OnWatcherEdit
<1>4. ASSUME NEW r \in Repos, NEW s \in Slots, EndPass(r, s) PROVE FALSE
  <2>1. UNCHANGED timing \/ ClearPendingTiming(r, Timers)
    BY <1>4 DEF EndPass
  <2>2. r = q /\ window' # window
    BY <1>0, <2>1, ClearElsewhere DEF timing
  <2> DEFINE ended == [pass[r] EXCEPT ![s] = NoPass]
  <2>3. pass' = [pass EXCEPT ![r] = Started(ended)] /\ pass[r][s].phase = "ending"
    BY <1>4, <2>2 DEF EndPass, timing
  <2>4. ended[1].phase = "none" /\ ended[2].phase = "none" /\ ended \in [Slots -> PassRecord]
    BY <1>t, <2>3, Sentinels DEF IInv, Alone, Active, Slots, NoPass
  <2>5. Started(ended)[1].phase = "starting" /\ ~Active(Started(ended), 2)
    <3> HIDE DEF ended
    <3> QED
      BY <2>4, StartedInFreeSlot DEF Active
  <2>6. pass[r] = Started(ended)
    BY <1>t, <2>2, <2>3
  <2> QED
    BY <2>3, <2>5, <2>6 DEF Active, Slots
<1>5. CASE Tick
  BY <1>5, TickUntouched DEF Untouched
<1>6. CASE Restart
  BY <1>6 DEF Restart, Active, NoPass
<1>7. ASSUME NEW r \in Repos, TriggerNow(r) \/ CheckStep(r) \/ ReadFails(r) PROVE FALSE
  BY <1>0, <1>2, <1>7
  DEF TriggerNow, CheckStep, StartCheck, ReadStored, ReadFails, Compare, TriggerChecked,
      scheduler, timing
<1>8. ASSUME NEW r \in Repos, Edit(r) PROVE FALSE
  BY <1>0, <1>8 DEF Edit, scheduler, timing
<1>9. ASSUME NEW r \in Repos, NEW k \in Timers, OnElapsedStale(r, k) PROVE FALSE
  BY <1>0, <1>9 DEF OnElapsedStale
<1>10. ASSUME NEW r \in Repos, NEW s \in Slots, PassStep(r, s) PROVE FALSE
  BY <1>0, <1>4, <1>10
  DEF PassStep, Walk, PassRaises, Fingerprint, StoreFingerprint, scheduler, timing
<1>11. CASE UNCHANGED vars
  BY <1>0, <1>11 DEF vars, scheduler, timing
<1> QED
  BY <1>1, <1>3, <1>5, <1>6, <1>7, <1>8, <1>9, <1>10, <1>11 DEF Next

(* A cancelled timer's late callback never closes the window of the edits made   *)
(* while a pass runs: the token it was given has been replaced.                  *)
THEOREM WindowsCloseOnTime == Spec => WindowClosesOnTime
<1>1. IInv /\ [Next]_vars =>
        [\A r \in Repos :
          /\ window[r] # NoWindow /\ window'[r] = NoWindow
          /\ \E s \in Slots : pass[r][s].phase # "none" /\ pass'[r] = pass[r]
          => Expired(r) # {}]_vars
  BY StepClosesOnTime DEF Active
<1> QED
  BY <1>1, Invariance, PTL DEF Spec, WindowClosesOnTime

=============================================================================
