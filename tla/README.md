# A verification project for ACIE

ACIE keeps a code index of git worktrees for coding agents. A daemon, spawned on
demand, walks a worktree, indexes its Python files into one SQLite file per
worktree, follows edits with a file-system watcher and git or agent hooks,
enriches the index with a language server, and answers tool calls over a local
socket. The algorithms are sequential; what is hard is the daemon: request
threads, one writer thread per worktree, timers, callbacks that run on whichever
thread completes a Future, a process that may be stopped or killed at any time,
and files that change while they are read.

This directory holds TLA+ models of those parts, TLC configurations that check
them on small instances, and TLAPS proofs of the most important invariants for
instances of any size. `PROJECT.json` lists the runs, the mutants that show each
property to be breakable, the source lines of every definition, the hazards and
the findings.

Run a model with `tlc -workers 2 -config MCX.cfg MCX.tla`, and a proof module with
`tlapm XProofs.tla`.

## Inventory

| Component | State it keeps | Operations | What is hard | What makes it correct |
|---|---|---|---|---|
| Write queue, `daemon/write_queue.py` | `_workers`, creation locks, `_closed`; per writer a queue and `_in_flight` | `submit`, `close`, the writer loop | callbacks that submit from the writer thread while `close` puts `_STOP`; double-checked creation; a job that hangs | serial FIFO execution, every submit answered, nothing stranded |
| Bootstrap coordinator, `daemon/bootstrap.py` | `_ready`, `_in_progress`, two once-per-process sets; the index file, flag and head sha on disk | `repo_ready`, `register`, bootstrap, migration, reconciliation, seeding | checks outside the lock, continuations in callbacks, crashes | readiness only for a complete index, markers that survive a crash mean what they say |
| Watcher and staleness, `daemon/watcher.py`, `daemon/staleness.py`, `storage/file_state_store.py` | pending paths and their timer; mtime and hash per file | debounce, reindex job, tier-4 check | the file changes between stat, read and two commits | a recorded mtime vouches for indexed text; seen edits arrive |
| Enrichment scheduler, `daemon/enrichment_scheduler.py` | `_running`, `_pending_rerun`, two timers and tokens | triggers, watcher edits, timer callbacks, end of a pass | late callbacks of cancelled timers, triggers during a pass | one pass at a time, no request lost, no starvation |
| Daemon server and process, `daemon/server.py`, `daemon/discovery.py` | election and service sockets, shutdown flags; the discovery file | start, accept, dispatch, shutdown, forced exit | two processes, signals on the main thread, kills | one writing process, a discoverable daemon, a clean stop |
| Daemon assembly, `daemon/runtime.py` | none of its own | `register_repo`, `dispatch`, `ensure_fresh`, enrichment thread, `on_shutdown` | the order in which it calls the others | as for the parts |
| Enrichment pass, `daemon/lsp_enrichment.py`, `daemon/repo_fingerprint.py` | the relations it submits; the stored fingerprint | one pass | early returns that look like success; edits during the pass | a stored fingerprint is one a pass has enriched |
| Language server client, `daemon/lsp_client.py` | `_pending`, `_write_lock`, a reader thread | initialize, request, notification, reply, close | blocking writes under a lock the reader needs; late answers; two readers on one pipe | every pass ends and leaves nothing pending |
| Language server processes, `daemon/pyright_process.py` | `_entries`, creation locks, idle timers, `_closed` | ensure, touch, idle timeout, close | an idle timer against a touch; a spawn that outlasts `close` | one managed process, none kept for ever, none left after `close` |
| Index store, `storage/*`, `daemon/merge_policy.py`, `indexer.py` | symbols, relations, their histories, generation, head sha | upsert, tombstone, merge, reindex | two producers of relations with different confidence; answers that wait in a queue; edges between files; one transaction against several commits | no edge to a removed symbol, stronger facts survive, differences add up to a rebuild |
| Hook notifications, `daemon/notify_hook.py` | none | git and agent hooks | two hooks that read one head sha | every changed path is submitted |
| Clients, `daemon/client.py`, `cli.py`, `mcp_server.py` | none | discover, request, spawn with retries | a stale file, a process that is ending | at most one daemon results |
| Query tools, `tools/*` | a session's cursor, held by the client | searches, traversals, paging | writes between two reads of one answer; cycles, limits and page boundaries | nothing that was there all the time is missing unless the answer says so |
| Extraction, `adapters/python/*`, `ir/*` | none | symbols, relations and deferred items of one text | names that lead to other files, ambiguity | what the indexer may resolve is handed over |
| Ignore rules, identity, framing | none | pure functions | none that depends on order or time | inputs of the models |

Interactions: a request thread calls `register_repo` (bootstrap, then watcher),
then possibly `ensure_fresh`, then a tool. Bootstrap, watcher, hooks and
enrichment all write by submitting jobs to the worktree's write queue; bootstrap
continues in the done-callbacks of its jobs. Bootstrap, migration, reconciliation
and the watcher trigger the scheduler, which starts one thread per pass. Shutdown
closes the watchers, the language servers and the write queue, in that order.

## Modules

| Module | Models | Checked by | Proved in |
|---|---|---|---|
| `WriteQueue` | the write queue | `MCWriteQueue` | `WriteQueueProofs` |
| `SerialJobs` | what the write queue promises its callers | as a property of `MCWriteQueue` | within `WriteQueueProofs` |
| `Bootstrap` | readiness, bootstrap, migration | `MCBootstrap` | `BootstrapProofs` |
| `Freshness` | files, watcher, reindex jobs, indexing passes | `MCFreshness` | `FreshnessProofs` |
| `EnrichmentScheduler` | scheduler, pass outcome, reconciliation | `MCEnrichmentScheduler` | `EnrichmentSchedulerProofs` |
| `CoalescedPasses` | what the scheduler promises its trigger sources | as a property of `MCEnrichmentScheduler` | the safety half, within `EnrichmentSchedulerProofs` |
| `DaemonServer` | processes, election, discovery, requests, shutdown | `MCDaemonServer` | `DaemonServerProofs` |
| `PyrightRegistry` | the language server processes of a repository | within `MCLspSession` | within `LspSessionProofs` |
| `LspSession` | passes, their clients, readers and pipes; extends `PyrightRegistry` | `MCLspSession` | `LspSessionProofs` |
| `Extraction` | what one text says: symbols, relations, deferred items | within `MCIndexStore` | within `IndexStoreProofs` |
| `IndexStore` | the tables, index jobs, merge jobs and what an enrichment pass submits; extends `Extraction` | `MCIndexStore` | `IndexStoreProofs` |
| `Pages` | paging through a flat list while jobs write | `MCTools` | within `ToolProofs` |
| `GraphWalk` | `graph`, `impact_analysis`, `affected_tests` while jobs write | `MCTools` | within `ToolProofs` |
| `Architecture` | import edges and import cycles of `architecture` | `MCTools` | within `ToolProofs` |

A section of code under a lock is one action. A value read outside a lock, or
before a callback, is used in a later action. An operator commented "Mutant" is a
plausible bug in the definition that follows it; no specification uses it.

### WriteQueue

`job` is the stage of each submitted function, from the first check of `_closed`
to the resolution of its Future; `writer`, `queue`, `current` and `inFlight` are a
`_RepoWriter`; `published` is membership in `_workers` and `creator` the holder of
the creation lock. `SubmitOnThread` and `SubmitOnWriter` are the first check,
`StartWorker`/`OpenConnection`/`OpenFails`/`PublishWorker` are `_worker_for`,
`Enqueue` is the section under `enqueue_lock`, `Resolve` to `MarkResolved` is the
time in which `set_result` runs the callbacks. `Close` to `CloseReturns` is
`close`; whether it was given a timeout is `bounded`, and with one each wait may
end early. `Hang` is a job that never returns.

`Parent` says which callback submits a job. A callback that is attached after the
Future resolved runs on the attaching thread, so `SubmitOnThread` may also submit
a job that has a parent. Nobody calls `Future.cancel`, and the order in which
`close` visits its snapshot is arbitrary.

The second stage is a refinement: `ImplementsSerialJobs` maps the state to what a
caller can see and requires every behaviour to be one of `SerialJobs`, in which
acceptance, order, one job at a time, follow-ups during closing and the meaning of
"closed" are stated without threads, locks or a sentinel.

### Bootstrap

The disk variables survive `Restart`, which is possible in every state and so is
also a crash. `call` is where a request thread is in `repo_ready` and `register`:
`CheckReady`, `StatDb`, `Claim` and `Schedule` are the four critical sections,
between which other threads run. `phase`, `next` and `remaining` are the
continuation of a bootstrap (owned by the request thread that claimed it) or of
the migration. `onWriter` says that the continuation runs in a callback on the
writer thread, which keeps the writer from its next job and makes its submits
exempt from the refusal during shutdown. `RunIndex` indexes a file as a whole or
fails (`Fragile`), and resolves its cross-file edges if what they lead to is
indexed already. The history variable `lost` remembers files whose job failed or
was refused, so that the invariants can except exactly those. `openFails` is a time in
which the index file cannot be opened: `_worker_for` then raises in every submit, so
that each of them is refused and no writer is left (`Refused`, `NothingPut`), until
`OpenWorks`. The failed opening may leave the file behind.

Every request is taken to be a `register`; the question a tool call asks takes the
same first two steps. Failing walks, skipped head shas and late callbacks are
alternatives of their actions.

### Freshness

A reindex job is a small program (`Stat`, `Read`, `Index`, `Record`, or `Gone`,
`Clear`, `Forget`) of which each step is one look at the disk or one commit; edits
and a `Crash` fall between any two. A walk reads each file at a moment of its own,
and `SubmitPass` submits what it read, in any order, once for a migration and
twice for a bootstrap. `db` follows the worktree from no index (`"none"`) through
its bootstrap (`"filling"`) to `"ready"`, which a worktree with an index is from the
beginning; `Query` is the job of `ensure_fresh`, which `dispatch` calls only for a
ready worktree. `Fail` is a job that raises: `index_file` rolls back, and what an
earlier commit of the job wrote stays.

`StopWatcher` and `CloseQueue` are the two parts of `on_shutdown` that matter here:
the watchers are closed, which flushes what is pending, and then the write queue.
`flushing` holds the paths that the timer or `stop()` has taken under the lock and
not yet submitted; a submit after `CloseQueue` is refused.

Two history variables serve the properties. `lost` has the paths whose latest edit
had a job that failed or was refused. `wroteBy` says how a path's symbols came to
be: from a pass over a path without a row (`"snapshot"`), from a job that has recorded
them (`"recorded"`) or has still to (`"unrecorded"`), from a job that was cut short
between its commits (`"cut"`), or from a pass over another text than the recorded one
(`"overwrite"`). The last two are what `Damaged` means.

Every edit has an mtime of its own. Two edits within one tick of the file system's
clock are listed as a hazard.

### EnrichmentScheduler

`window` is the pair of countdowns of the quiet and the max-wait timer of a
repository, which the code creates and drops together with their tokens and the
time of the first pending edit. A countdown of 0 may call back at any later
moment. Cancelling such a timer may come too late: its callback then stays in
`strays` and must find its token replaced. The code's re-arming of a max-wait
timer that fired early is left out because timers never fire early. The pass is
`Walk`, `Fingerprint`, `StoreFingerprint` and `EndPass`, with the early return
without a language server and the exception at any point. A reconciliation check is
`StartCheck`, the read of the stored fingerprint by a job of the write queue
(`ReadStored`, or `ReadFails`, after which the next register starts another), the
comparison with the tree of that later moment (`Compare`) and the trigger. A working tree is a
version number, and a fingerprint is exact: equal fingerprints mean equal trees.

### DaemonServer

Processes share the election port, which the operating system releases with the
process, and the discovery file, which it does not. `start` follows `main` and
`start()`, `at` follows each request thread or signal. A signal handler runs on
the main thread, so that `MainBusy` stops `start` meanwhile. `MainReturns` covers
an accept loop that notices its closed socket; no fairness makes it do so, which
is the behaviour `_exit_process` exists for. `Launch` is free: any client may
spawn a process at any time.

### PyrightRegistry and LspSession

`PyrightRegistry` is a repository's share of the registry: `entry` is the child in
`_entries`, `armed` and `expired` its timer and its `idle_deadline`, `fired` a
callback of this or of an earlier, too late cancelled timer that waits for `_lock`.
`call`, `held` and `creator` follow each call of `ensure_process`: `Ensure` and
`EnsureLocked` are its two checks, between which and whose `Touch` other threads
run, and `Spawn` is apart from `Register` because the child is not under the lock
meanwhile. `doomed` holds the children on which some thread is in
`_terminate_process`; `Terminate` takes the two steps of a child that ends after
`terminate()`, or after the `kill()` when that was ignored. `SetClosed` and
`ClearEntries` are the two halves of `close`.

`LspSession` puts the passes around it. A pass is one call of `ensure_process` and
one `LspClient`; the scheduler's guarantee that passes of a repository do not
overlap is the guard of `StartPass`. `at` is the message a pass is sending, `step`
whether it waits for the write lock, for room in the pipe or for its Future.
`LockToSend` takes the lock and registers the Future, as `_send_request` does, and
`SendMessage` ends the write, which blocks while `stdin` is full. `Await` covers
the answer and the timeout, which is a free choice because answers may be
arbitrarily slow. `ReadFrame`, `ReadEof`, `HandleResponse`, `LockToReply` and
`Reply` are the reader thread, which replies to the server's own requests itself,
under the write lock. A reader whose pass has ended may still be blocked on the
`stdout` that the next pass's reader uses too: each frame then goes to either, or
is torn, after which no frame is understood (`garbled`).

`ProcessExit` is the `os._exit(0)` that follows `on_shutdown`: `close()` of the
registry waits until the child it found (`taken`) has ended, and for nothing else,
and the exit then ends every pass, reader and timer wherever it stands, since all
are daemon threads. `Lasting` is a step of theirs, taken while the process lasts,
and `Orphaned` one of a child afterwards, which finds its pipes without another
end and may take that for a reason to leave.

The child (`Serve`, `Leave`, `Exit`) is external: it answers in order, may ask after
`initialized`, may stop reading, crash at any time, and leaves when told to. What
passes write to the index, and the server's notifications, which the client
ignores, are left out. Two behaviours to know of: the next pass may be handed a
child that was just told to exit, and then fails its initialization; and an idle
timer runs through a pass, because only `ensure_process` touches the deadline, so
that a pass that outlasts it loses its server.

### Extraction and IndexStore

`Extraction` has no state: a text is a record of what the walks of the syntax tree
find (classes with bases and methods, functions, calls, imports, fixtures), and
the module turns it into symbols, rows and deferred items as
`extract_relations_with_deferred_edges` does. The walk of `self_base_methods`
through the bases of a class is a recursive function (`Expanded`).

In `IndexStore` a table is its live rows (`live`), the last row of each key in its
append-only history (`snap`) and the keys whose last history row is a tombstone
(`tomb`). `IndexFile` is `index_file` in the transaction of a write job:
`Reconciled` is the sequence of states its five groups of statements lead
through, the last of which commits; `IndexFails` stops after any of them and rolls
back. `prune` is `prune_inferred`. A file that is gone is indexed as `"husk"`, the
empty text, and its module symbol goes in `ClearHusk`, a commit of its own.

`merges` is the part of the write queue that a pass fills; the queue itself is
`WriteQueue`. `ApplyMerge` is the upsert of `apply_enrichment_write`, and
`RetireSibling` each of the deletions that follow, in commits of their own and in
any order. Index jobs run between merge jobs, not between those commits
(`WriterIsFree`). `MergeFails` is a merge job that raises before it has written
anything, or between its commits, when the rivals that are left stay. `pass` is a pass of `run_enrichment_pass`: `PassStarts` walks the
tree, in which one file may differ from what is indexed, and submits what
`_resolve_protocol_stub_calls` finds; `ListSites` is `_worklist`; `Ask`, `NoAnswer`
and `Mixin` take the sites in their order; `ConnectionLost` gives the others up.
What the server answers is the constant `Definition`, a set of symbols for each
call site of which the index may have any. A `Crash` loses the queue, the pass and
the commits of a running merge job that are still due. `indexed`, `settled` and
`late` are history variables, for the exceptions in the properties.

Rows of `imports` and `references` are left out of the texts. The target of the
first is the dotted path itself, never a symbol, so that they come and go with
their own file and no other job touches them.

A merge job that raises inside a transaction, between the statement on the live
table and the one on the history, is left out; see the last part of Disagreements.

### Pages

A call reads the generation (`Call`), selects the rows of each symbol its selector
stands for (`Select`), and filters, orders and cuts them (`Return`). The reads are
separate statements, so that `IndexJob`, which counts the generation, and
`UncountedWrite`, a merge job or `ClearHusk`, which do not, fall between any two.
The module is written after `find_references`, which shares `pagination.py` with
the other flat-list tools; those with one SELECT are the case of one target.

### GraphWalk and Architecture

`GraphWalk` is the loop that the three graph tools share: a level of symbols is
expanded in the order of their ids, one SELECT for each (`Expand`), commits fall
between, what is found beyond the limit is dropped, and a walk that stopped at its
depth looks behind its last level (`Look`). `request.edges` distinguishes `graph`,
which returns relations and must not lack any, from the other two.

`Architecture` reads the import edges once and then runs the iterative search for
components. Files and neighbours are taken in any order, since the code iterates
over sets of strings.

`MCTools` puts the three side by side: its initial state is a session of `Pages`, a
walk or a request to `architecture`, and the other two are at rest.

## Runs

| Run | Instance | Distinct states | Result |
|---|---|---|---|
| `write_queue` | 2 repositories; 4 jobs: two roots, a follow-up in the same and one in the other repository | 64 080 | holds |
| `bootstrap` | 2 request threads, migration, 2 files in the worst order, an index that cannot be opened for a while, 1 restart | 77 064 | holds |
| `freshness` | 1 file, 2 texts and every special content, 2 edits, queries of an empty queue, 1 crash | 3 986 776 | holds |
| `freshness_seen` | the same without queries | 358 365 | holds |
| `freshness_overwrite` | the same with queries of a queue below 2, without a crash | | `GuaranteedFresh` fails |
| `enrichment_scheduler` | 1 repository, quiet 1 and max wait 2 ticks, 2 edits, 1 restart | 297 390 | holds |
| `daemon_server` | 2 processes, 1 call, 1 stop, 1 signal, 1 kill | 114 478 | holds |
| `lsp_session` | 2 passes with 0 and 1 sites, 2 children, pipes of 1 frame, 1 exit | 359 452 | holds |
| `index_store` | 3 files with 5 texts, 4 index jobs, 1 pass, 1 crash | 252 381 | holds |
| `index_husk` | the same | | `RemovedTargetsInvalidated` fails |
| `tools` | 5 rows of 2 symbols, two with one key, pages of 2, 2 writes; or 4 symbols and any of 6 relations, limits 2 to 4, depths 1 to 3, 1 commit; or 3 files, 4 import names, 2 roots | 864 285 | holds |
| `pages_tied` | the first of these | | `NothingSkipped` fails |

Why the bounds are enough for the questions asked. Two root jobs are the least
that race for a writer; one follow-up in each repository covers both sides of the
reentrant exemption; a third repository would repeat the second. Two request
threads cover every pair of critical sections, and two files a first pass that
leaves an edge open. One file is enough for freshness because jobs of different
paths share nothing but the queue; two edits put one between every two steps of a
job and one after them. `MaxQueue` bounds the queue at which a query may still
arrive; queries that find it empty, any number of them, put a job before the
watcher's or behind a running one, and such a job is a reindex job like any other,
so that `freshness_seen` needs none. The scheduler keeps nothing that two
repositories share; a max wait that is longer than the quiet time lets an edit arrive when either,
both or none of the timers has run down. Two processes are the pair of an old and
a new daemon. In `lsp_session` two passes are a pass and the one that meets its
leftover reader or its dying child; a pipe of one frame is full after one write,
so that writer, reader and child block one another, and two children are a child
and its replacement (a third spawn fails). In `index_store` four index jobs bring
three files in and change or remove one; the two modules with one last name make a
call and a base ambiguous, the protocol has a stub with one or two implementations,
and a composed class makes a mixin site, so that a pass submits every kind of merge
job there is. One pass is enough because a second starts only when the queue is
empty, and differs from the first only in the rows it finds. In `tools` two writes
put one between two reads and one between two calls, and three pages are the least
with a page that has others on both sides. The six relations hold a
cycle, a diamond and a way back to the root, and every commit replaces any of
them; the arguments of the architecture search give every graph of three files,
two of which import each other by ambiguous names. The proofs remove the bounds where they exist.

Deadlock is checked in all runs but those of `DaemonServer`, where all processes
may be gone and all requests answered, and those of `IndexStore` and of the tools,
which end when the bounded jobs are done or the answer is given. In `WriteQueue`,
`Bootstrap`, `Freshness` and `LspSession` the legitimate end is a stuttering action (`Finished`, `Quiet`), so
that any other stop is reported.

### Fairness

Threads that can run do: the steps of a submit, the writer loop, `close`, a
continuation, a pass and a shutdown are weakly fair, as are timers that have run
down and, in `EnrichmentScheduler`, time itself, the watcher's report of an edit
and the requests about a repository after a restart. `ReadStored` is strongly fair
there, because its failure starts the check anew: a read that failed each time would
leave the stored fingerprint unread for ever. In `LspSession` they are
the passes, the reader threads, the idle timer and its callback, the second half
of `close` and the end of a child that is being terminated; nothing is assumed of a
child that is not, which may never read or answer. All of it holds only while the
process lasts (`Lasting`): nothing runs after `ProcessExit`, which itself may come at
any time after `close()` or never. Nothing makes a client
submit, register, edit, query, stop or kill, nothing ends a job that hangs, and
nothing wakes an accept loop whose socket was closed. `IndexStore`, `Pages` and the
walks have only safety properties and assume no fairness. Weak fairness suffices
everywhere else because no lock is held for ever except by a hanging job, which the
properties name.

### What the properties say

- `InFlightExact`, `UntimedCloseStrandsNothing`: the counter that replaced two
  failed repairs of the shutdown race is exact, and a `close` without a timeout
  strands nothing. `EverySubmitAnswered` and `CloseAlwaysReturns` are the
  liveness side, each with the exceptions the code accepts (a hanging job, an
  exhausted timeout).
- `OneBootstrapAtATime`, `MarkersNeverAhead`, `ReadyAfterTwoPasses`,
  `BootstrapEnds`: one bootstrap whatever races, flags that are not ahead of what
  is committed, readiness after two whole passes, and no worktree stuck in
  `INDEX_NOT_READY`.
- `RecordedIsIndexed`: the mtime shortcut is sound, in the middle of a reindex job
  too, except after the two events of `Damaged`. `SeenEditsReachIndex`: for each
  edit that the watcher saw there comes a state in which the index has that edit's
  text (for a removal: no symbol) and `file_state` records that edit's mtime, unless
  a newer edit follows, the process ends, this edit's job fails or is refused, or
  the path is `Damaged`. A job that ran for an earlier edit does not fulfil it.
- `OnePassAtATime`, `NoEditForgotten`, `EditsReachAPass`, `WindowClosesOnTime`:
  mutual exclusion of passes, and the three ways in which an edit could be lost
  or postponed for ever.
- `OneWritingDaemon`, `ServingIsDiscoverable`, `OneTriggerStopsCleanly`,
  `ShutdownEnds`: hand-over between processes. A drain that times out gives the
  first up, and a process stopped without holding the election port the second;
  both exceptions are in the formulas.
- `OneManagedChild`, `EntriesExpire`: no process escapes the registry, whichever of
  a lookup, a crash, a timer, a touch and `close` come between one another.
  `NothingLeftBehind`, `EveryPassEnds`, `ChildrenEndAfterClose`: however a
  conversation fails, it ends, the last two unless the process ends first. What the
  exit leaves behind is among the disagreements below. `EveryPassEnds` is the deepest of them: writes have
  no timeout, and pass, reader and child can wait for one another in a circle,
  which only the idle timer or the shutdown breaks. A touch that failed to start a
  new timer would leave the repository without enrichment for ever.
- `LikeRebuilt`: whatever sequence of index jobs, failures, merge jobs and crashes
  wrote the index, a file's symbols are those of its last text, and its extracted
  relations are those that indexing it again would give, while the candidates of
  its deferred items are what they were. `DanglingOnlyByLateMerge`: no relation
  points at a removed symbol, with two exceptions for the predicates that are
  modelled; `imports` rows name no symbol to begin with.
  `NeverLessCertain`: whatever waits in the queue, a merge never lowers the
  certainty of a row, nor takes the last answer of a site. `HistoryTellsLive`: the
  append-only histories and the live tables never disagree, as long as no merge job
  raises inside a transaction.
- `StayersDelivered`, `EarlierPagesPinned`, `DeliversOnward`: what a client may rely
  on when jobs write between two pages or within one: rows that stay are
  delivered, once, in order, and all pages but the last are of one generation.
- `CompleteUnlessTruncated`, `TruncatedMeansCut`: `truncated` is right in both
  directions although the index changes during the walk; `NearestKept`: in an
  index at rest a walk returns exactly what its depth allows, or as much of the
  nearest as fits.
- `CyclesAreComponents`: whatever the order, the search reports the strongly
  connected components with a cycle, each once and whole.

## Disagreements

Three runs check a statement of the code's own documents and find it violated.

1. **A pass overwrites a newer text** (`freshness_overwrite`). The passes index
   what the walk read without regard to `file_state`; the tier-4 check then
   trusts the recorded mtime, and a query sees the old text until the next edit. The
   worktree of the trace is ready from the beginning: the migration walks it, the file
   is edited, a query indexes and records the edit, the migration's pass indexes what
   the walk read, and the next query finds the mtime unchanged.
2. **A deleted module keeps its relations** (`index_husk`). The watcher removes the
   module symbol of a deleted file with `SymbolStore.delete` alone. A relation that
   an enrichment pass pointed at the module stays, although the docstring of
   `index_file` says that relations of removed symbols are tombstoned whatever
   their site.
3. **A page may skip a row** (`pages_tied`). The ordering key of `find_references`
   leaves out the target. When a position has several candidate symbols, two rows
   of one ambiguous call have one key, and if a page ends between them the second
   is skipped, without any write. ARCHITECTURE.md asks for keys without ties.

Others were met while modelling. Each of the first seven is a definition in its
module; put it under `INVARIANTS` in a copy of the module's configuration (with
the bounds it has, if nothing else is said) and TLC prints the behaviour.

- `NothingStranded` (`WriteQueue`): `close` ignores the result of
  `wait_until_quiescent`. A job that outlasts the timeout resolves later, its
  callback's submit is exempt from the refusal and lands behind `_STOP`, and its
  Future never resolves, although the docstring says that `_STOP` is put only once
  `_in_flight == 0` was observed.
- `NotReadyWhileIncomplete` (`Bootstrap`): a request looks at the sets before a
  bootstrap starts and at the disk after the bootstrap's writer created the file;
  it then adds the worktree to `_ready` with nothing indexed. The docstring of
  `repo_ready` describes this race and says that it is excluded.
- `FlushedBeforeClose` (`Freshness`, with the bounds of `freshness_seen`): a debounce
  timer that has fired takes the pending paths under the lock and submits them without
  it. `stop()` then finds nothing to flush and does not wait for the timer, and the
  queue may close before the timer submits: an edit that was observed is dropped, which
  the docstring of `flush_pending` wants to exclude.
- `NoChildOutlivesDaemon` (`LspSession`): a pass that is inside `Popen` while the
  registry closes has no entry that `close()` could terminate. It would terminate the
  child itself, but it is a daemon thread, and `os._exit(0)` may come first. The child
  is then left to notice that its pipes are gone, although the class owns its children
  "until idle or closed". The comment in `on_shutdown` knows of the thread that is
  neither joined nor cancelled, not of this child.
- `FlagMeansResolved` (`Bootstrap`): after a crash during a bootstrap the next
  daemon trusts the file, its migration makes one pass, and the flag says two.
  DAEMON.md says that an incomplete bootstrap is started again.
- `FingerprintMeansEnriched` (`EnrichmentScheduler`): the fingerprint is stored
  after passes that had no language server and describes the tree after the pass;
  a restart within the quiet period then skips the pass that was due.
- `SecondTriggerIsNoOp` (`DaemonServer`, with two stops): `shutdown()` itself is
  idempotent; its second caller goes on to reply and to exit while the first
  drains.
- When the history statement of an upsert or delete raises in a merge job
  (`relation_store.py:110-157, 218-236`), nobody rolls back, as `index_file` does for
  the same connection. After some errors SQLite ends the transaction itself; after the
  others it stays open, and the next commit makes the live row permanent without its
  history. ARCHITECTURE.md says that every observation is retained.
- Merge jobs and the clearing of a deleted module change rows without counting the
  generation, so that the last page of a session may be of a later state than the
  pages before it, and `total_count` may differ between pages; ARCHITECTURE.md says
  that neither happens. In `Pages`, `UncountedWrite` is such a write.
- A relation that only a pass could find, and that replaced the ambiguous rows of
  its site, goes with its target; the site is then without an answer until its file
  is indexed again.

## Proofs

`WriteQueueProofs` proves for any finite set of jobs and any repositories that
`TypeOK`, `InFlightExact`, `UntimedCloseStrandsNothing` and `OneWriterOneJob` are
invariants. The inductive invariant `IInv` adds who creates a writer
(`WorkerInv`), which job a writer holds (`CurrentInv`), what a position of a queue
stands for (`QueueInv`), that a submit on a writer thread happens inside a
callback (`CallbackInv`), and `StopInv`: once Stop was sent to a repository by an
untimed `close`, nothing is outstanding there. The last is why nothing can land
behind Stop, and it needs the exact count, which needs that a job is in a queue
once. The lemmas on `Append`, `Tail` and `Cardinality` are stated once.
`QueueServes` proves the whole refinement to `SerialJobs`, which assumes no
fairness: every step is one of the service or none. `ClosingInv` is what it needs
besides `IInv`: a queue holds at most one Stop, an accepted job has a published
writer, and once an untimed `close` has its snapshot only writers it has still to
join have accepted jobs. Accepting, taking and finishing a job then correspond
because leaving Stop out of a queue commutes with `Append` and `Tail`.

`BootstrapProofs` proves the four invariants of `Bootstrap` for any request threads,
files, walk orders, dependencies, failures and restarts. None is inductive alone: a
job that counts for a pass which is over would start its second pass again, so
`JobsCounted` says exactly how many jobs of each kind an owner has in the queue, by
its phase and its countdown (the lemmas on `Append`, `Tail` and `Cardinality` are
stated once), and `PhasesFit` keeps the migration off the phases of a bootstrap.
From them follow `Alone`, which is `OneBootstrapAtATime`; `PassesCover`, that what a
pass has gone by is indexed, lost or queued, so that a pass that ends leaves a
complete index; `MarkersCover`, that a marker, or a job in the queue that will set
one, comes after a complete index; and `PassesResolve`, that over a complete index
and without a loss indexing a file again resolves it, whoever asked for it. TLC found
no violation of any of these parts on the instance of `MCBootstrap`.

`EnrichmentSchedulerProofs` proves `TypeOK` and `OnePassAtATime` from the
invariant that one of a repository's two thread slots is free and that
`_pending_rerun` is contained in `_running`, for any delays and bounds; and that
every step of the scheduler is a step of `CoalescedPasses` or leaves it unchanged
(`ImplementsService`). `NoEditForgotten` speaks of a scheduler at rest and is not
inductive: `EditInv` adds that a pass which is past its walk, and behind which
nobody asked again, has walked the tree as it is (`PassCovers`), and that no
version claimed by a pass or by the index is later than the last one walked, nor
that one than the tree (`History`), by which a restart that skips a pass because the
fingerprints are equal is covered too. `CheckInv` says the same of the moments
between: what a check has read is no later version than the tree, and if it is the
tree, then a pass was attempted on it, or the stored fingerprint is the overstated
one that the property excepts. `WindowClosesOnTime` is proved step by step:
a late callback finds its token replaced.

`DaemonServerProofs` proves `OneWritingDaemon`, `ServingIsDiscoverable` and
`OneTriggerStopsCleanly` for any number of processes, calls, stops, signals and
kills. `HolderInv` is the reason for all three: a process that has bound the
election port and has not drained, or is in its shutdown, holds it, so that no
other can serve, publish itself or delete the file. It is inductive only with
`MainInv`, that a process which is stopped before it serves stays in its signal
handler, because `start()` would otherwise go on beside its own shutdown; with
`ShutdownInv`, that one thread carries a shutdown out and in its order; and with
`StopInv`, which follows the one trigger of a process through its shutdown.

`LspSessionProofs` proves `RegistryTypeOK`, `OneManagedChild` and
`EntriesExpire` of the registry for any number of calls and children. `RInv` adds
who is inside the creation lock (`LockInv`), that a call with an unregistered child
is inside it and that there is no entry meanwhile (`SpawnInv`, without which
`Register` could overwrite an entry and lose its child), and that a running child
is the entry, doomed or its spawner's (`NoneUnnoticed`). Every step of a session is
a step of the registry or leaves it alone (`SessionIsRegistry`), so that both
invariants hold in every session. `SessionTypeOK` and `NothingLeftBehind` follow
from `SInv`, for any passes, sites, children and size of the pipes: the write lock is
the pass's exactly while it writes a frame and the reader's exactly while it
replies (`LockView`), a reader exists only with a connection (`Connected`), and only
a pass that will come to its join has a request registered (`Accounted`). The last
is the cleanup in `_send_request` and in `close`: no way out of a conversation leads
past it.

`FreshnessProofs` proves `RecordedIsIndexed` for any finite set of paths (a walk
submits one job for each file it found) and any number of edits, failures and crashes
up to the bounds, and its `TypeOK` with it. `RowsAreOfDisk` says that no recorded mtime is later than the file's own
and that a row with the file's own mtime has its text; `SettledIsIndexed`, that unless
a job was cut short, a pass came between or a job is at work, the symbols are those
of the recorded text; `MidJob`, that symbols whose row is still due are the doing of
the job that runs; and `JobFollows` carries both through the reindex job: if the mtime it took is still the
file's own when it records it, what it read is what the file has, and what it records
is what it indexed. It also says that the row a running job has found is of an
earlier edit than its own, which is why the property holds in the middle of a job.

`IndexStoreProofs` proves, for any files, texts, answers of the server and numbers
of jobs, failing merge jobs, passes and crashes: `HistoryTellsLive`, from what `Put` and `Drop` do to one
table; `NeverLessCertain`, from the invariant that a row which a merge job has
still to retire is ambiguous and that its site keeps another row at least as
certain (`RivalsKeepAnswer`); and `DanglingOnlyByLateMerge`, from the invariant that
only a module is left of a deleted file (`HuskIsModule`) and from the lemmas that
every row of a text points at a symbol of the text or at one of the index, which
follow the definitions of `Extraction` row by row (`LocalTargets`,
`ResolvedTargets`). `TypeOK` says that every live row is in its history; the lemmas
on which it rests (`PutTable`, `DropTable`, `CommitRows`) say key by key what an index
job commits, and carry the next proof.

`DifferencesAddUp` proves `LikeRebuilt`, that writing differences gives what a rebuild
would. Its invariant `RebuiltInv` says of each file that its symbols are those of its
text and, while it is settled, that every extracted row is one of the text and that
every row of the text is kept (`Follows`): live and no less certain, or once a
candidate and retired since (`RowKept`, which is stronger than the property, because
a merge may improve a row before a rival of it is retired). It needs besides that an
inferred row is a pass's, so that an index job which keeps inferred rows keeps no
stale extracted one (`InferredIsEnriched`, and `Answers` of what is in the queue);
that a deleted file is settled (`HuskIsIndexed`), since clearing its module changes
the candidates of no item (`CandidatesAreNoModules`); and that the tables are finite,
for the order in which a pass submits. Equal candidates give equal rows by
`SameCandidatesSameRows`. It assumes that a text is finite and that no text has the
name of the mark for a file that is not indexed.

The first part of `ToolProofs` proves the three properties of `Pages` for any rows, keys, page size
and number of writes. Its invariant `Inv` says of a running session that everything
delivered is at or before the cursor, that every row of an own key that stayed and
is at or before the cursor has been delivered (`Progress`), and that the generations
of a call lie between the one it read and the present one (`Generations`).

Its second part proves `CompleteUnlessTruncated` and `TruncatedMeansCut` for any
relations, requests and commits: while a walk is not truncated, each symbol of the
answer is on the level, on the next one, or closed under the relations that stayed.
`NearestKept` compares the answer with `Within`, which is recursive in the distance.
That such a function exists is `WithinExists`: what walks of k relations from the
root reach satisfies its equation (`ReachRoot`, `ReachOn`). What would be inductions
over the distance (`WithinGrows`, `WithinStays`) are arguments from the least
distance that fails (`LeastNat`). `NearInv` then says, while no job has committed,
that a walk in the middle of a level has everything of this distance and nothing
beyond the next (`LevelInv`), that a truncated answer is already the nearest, and
that one which has ended otherwise is exactly what its depth allows.

Its third part proves `CyclesAreComponents` for any finite set of files, any imports
and any order of visits: the component search of `architecture` is Tarjan's, with an
explicit stack of iterators in place of the recursion. `SearchInv` keeps both stacks
in the order of the visits (`StackInv`); it says that no edge leads out of the closed
files (`EdgesInv`), that what is on the stack of the search leads to everything
opened after it and is led back to from there (`ReachInv`), and that a lowlink is the
number of an open file which the file leads to, while no edge of what a file of the
stack owns leads lower unless it is still to be looked at (`LowInv`). A file whose
iterator is exhausted and whose lowlink is its own number is therefore the lowest of
its component, and what is popped above it is closed and connected both ways
(`Whole`), which is the cycle of each of its files (`WholeIsRing`). That the files are
finite in number, which an index has, is `ModulesAssumption`; it gives the stack a
top that no later file is below. `Reached`, by which the property says what a cycle
is, is the least set with the neighbours of the file and of its own members.

### What is proved of progress

Liveness stays with TLC, but what it rests on in each state is a safety property and
is proved for all values of the constants: where something waits, what it waits for
can go on. As `ENABLED` is not available, the theorems write out what a thread needs
to go on. That these conditions equal `ENABLED` of the actions which the fairness
names was confirmed with TLC in every reachable state of the runs' instances; no run
repeats that.

- `NothingWaitsInACircle` (`WriteQueue`): locks, callbacks that submit again, and
  `close()`, which holds a lock that those callbacks need, never wait in a circle.
  Where no submit, writer or `close()` can go on, every submitted job has its answer
  unless a job of its repository hangs or a timed `close()` gave it up. `RestInv` adds
  that a queued job is in its queue and that a writer which `close()` has still to
  join will be, or has been, sent Stop.
- `PassesComeToAnEnd` (`Bootstrap`): where neither an owner of a pass nor the writer
  can go on, the queue is empty, no pass is under way and `_in_progress` is cleared.
  It follows from `JobsCounted`, since a countdown that waits for a job has it in the
  queue, and from `GoingInv`: a pass with nothing left to count has moved on, and an
  owner holds the writer thread only for a continuation that can take its next step.
- `NoCallIsStuck` (`PyrightRegistry`): a call of `ensure_process` waits at most for a
  child that is being terminated, or for one call that goes on or waits for such a
  child. `LockInv` says for this that the creation lock is held only by a call which
  is inside it.
- `OnlyTheChildBlocks` (`LspSession`): the pipes are bounded, so that a pass can block
  on a child's full stdin while the child blocks on its stdout. Where neither the pass
  nor its reader can go on, the child is running, does not read, and is doomed or an
  entry whose timer or `close()` will come for it. It needs that a child which still
  exists, even one that is on its way out, is never forgotten (`NoneUnnoticed`) and
  that a child has one spawner (`BornInv`).
- `ShutdownIsCarriedOut` (`DaemonServer`): a process that was told to stop and still
  exists has a thread that can take the next step of the shutdown, whatever became of
  its other triggers, of `start()` and of its accept loop.

What the liveness properties say besides, that each thread takes the steps it can and
that these come to an end, is what TLC checks under the fairness.

### Assumptions, and what is only model-checked

The only assumptions are the named ones on the constants, which the runs evaluate.
Every safety property of a passing run, state invariant or action property, is the
conclusion of a theorem. Model-checked only: the liveness properties and the fairness
half of `ImplementsCoalescedPasses`, since the prover has neither `ENABLED` nor
fairness. The library's induction theorems take an operator and cannot be
instantiated by the installed provers; where a proof needs an induction it argues
from a least number instead. The types of `WriteQueue`, `EnrichmentScheduler`,
`DaemonServer` and `Freshness` are proved and no longer part of a run.

## Not modelled

Framing and JSON, the dispatch table, logging, ignore rules, repository identity,
the walk of a syntax tree, pattern search, layer rules and rendering are pure
functions whose results are inputs here. The inside of watchdog, SQLite and git is
outside the repository; their failures are alternatives of the actions that call
them. The migrations of old database schemas run once in a constructor. Exhaustion
of threads (`Thread.start()` raising after a repository was put in `_running`) and
PID reuse (a left-over temporary discovery file) are not modelled.

Of extraction, the rows `imports` and `references`, repeated definitions of one
name, and fixtures of one class are left out of the texts; `Architecture` takes the
imports as they are. A merge job that raises inside a transaction is not modelled.
In `Freshness` no submit of a flush fails because the index cannot be opened, and an
Observer that outlasts `stop()` reports edits for ever. `LspSession` leaves out the
wait for submissions without a timeout at the end of a pass (`lsp_enrichment.py:72`). The seeding of a linked worktree by a copy of the primary
one's index (`bootstrap.py`) is not modelled: it is one copy before the first
request, whose changed paths are then indexed as in `Bootstrap`.

Races the code has and none of its documents speaks of: a file edited after the
walk read it and before the Observer runs is seen by neither (`runtime.py:198`);
two edits within one tick of the file system's clock share an mtime
(`watcher.py:114`); a signal that arrives inside the three locked statements of
`shutdown` waits for itself (`server.py:188`); two git hooks may read one stored
head sha (`notify_hook.py:84`); an offline scan writes beside a daemon, with
transactions that SQLite serialises (`scan.py:46`).

## Plan

Done, in this order: `WriteQueue`, `Bootstrap`, `Freshness`, `EnrichmentScheduler`,
`DaemonServer`, `PyrightRegistry` and `LspSession`, `IndexStore` on `Extraction`,
`Pages`, `GraphWalk` and `Architecture`, with the proofs named above.

Open: `WorktreeSeed`, the copy of the primary index while the primary's daemon
writes.
