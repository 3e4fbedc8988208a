# OpenLore in TLA+

A model of OpenLore (the repository under `src/`): TLA+ modules, TLC runs over
small instances, and theorems checked by TLAPS. Paths below are relative to the
repository (`src/core/...` is `src/src/core/...` in `PROJECT.json`, whose `map`
names the lines behind every definition).

OpenLore keeps architectural memory beside a code base: agents record decisions
and notes over MCP, detached processes consolidate them with an LLM, people
review them, a sync writes the approved ones into spec files, and a watcher and a
daemon keep a call-graph index fresh. Its difficulty lies in many small processes
- MCP servers, CLI invocations, detached children, git hooks, a daemon - that
share a handful of JSON files and one SQLite file with no server in between.

## Inventory

| component | state | operations | interacts by | hard behaviour |
|---|---|---|---|---|
| sequenced JSON stores (`core/decisions/atomic-store.ts`, `store.ts`, `memory-store.ts`) | the store file, `<path>.lock`, `<path>.corrupt-<n>`, temporary files | `casUpdate`, `load*Store`, `quarantineCorrupt` | files shared by every process | lock stealing after a crash, loads outside the lock, a failing write |
| decision lifecycle (`mcp-handlers/decisions.ts`, `cli/commands/decisions.ts`, `core/decisions/{lock,consolidator,verifier,syncer}.ts`) | `pending.json`, `.consolidate.lock`, spec and ADR files | record, consolidate, approve, reject, sync | the store, a spawned child per record | minutes of LLM work on a stale load, partial sync failure, a best-effort lock |
| anchored memories (`mcp-handlers/memory.ts`, `core/decisions/anchor*.ts`, `continuity-carry-forward.ts`) | the memory store, the anchors of the decisions | remember, recall, carry-forward | the two stores, the index, the source files | spans of an old index over new text, renames between analyses, two stores committed one after the other |
| watcher (`core/services/mcp-watcher.ts`) | pending paths and deletions, timers, a running flag | enqueue, flush, handleBatch, handleDeletions, stop | the edge store, `llm-context.json`, the daemon's callback | events during a flush, failing batches, shutdown |
| edge store (`core/services/edge-store.ts`) | nodes, edges, file hashes, stale marks, schema version | transactions, reset on a new schema | SQLite file shared by processes | `wasReset` is reported once |
| serve daemon and client (`cli/commands/serve.ts`, `core/services/serve-client.ts`) | `serve.json`, rebuild sets, timers | start, request, rebuild, teardown | descriptor file, HTTP | two starts at once, coalesced rebuilds, teardown order |
| read cache (`mcp-handlers/utils.ts`) | context per directory with its mtime | read, prime, wait for rebuild | files the watcher and `analyze` write | mtime read after the write it should label |
| epistemic lease and panic response (`mcp-handlers/epistemic-lease.ts`, `panic-response.ts`) | freshness, load, module window, panic level | tool calls, orient | in process | thresholds crossed together, resets |
| everything else | none between calls, or text | analysis, queries, generation, install | | see `PROJECT.json` for each and why it is not modelled |

What makes each correct, in a sentence: the stores lose no acknowledged write;
a decision moves through its life without being undone by a process that worked
on an older reading, and only approved ones reach the specs; a memory follows its own function or is
reported as orphaned; the index converges
to the working tree or says it has not; one daemon per root, found by its
descriptor; a cached context is never older than its label; the lease never
grows fresher without an orient.

## Plan

1. `SequencedStore`, `AtomicStore` and their proofs - **done**: everything else
   persists through them.
2. `DecisionLifecycle` and its proofs - **done** but for the items under "Not
   modelled": the component with the most concurrent writers.
3. `CallGraph`, `Watcher` - **done**: what a batch writes compared with what a
   full analysis would write, under edits, deletions, failures and `stop()`.
4. `ServeDaemon` - **done** but for the descriptor: schema reset, single-flight
   rebuild, the two writers of `llm-context.json` and the cache over it.
5. `EpistemicLease`, `PanicState` and their proofs - **done**.
6. `DecisionLifecycle` again: ADR numbering, the programmatic API's lock-free
   consolidation, the commit gate (`classifyGateState`).
7. `Memory` - **done** for symbol anchors: records, their freshness and the
   carry-forward of an analysis.
8. The descriptor file: two starts at once, a teardown that removes another
   daemon's `serve.json`.

Every invariant and every action property of the runs that pass is a theorem:
see "The proofs". The four liveness properties are model-checked only.

## The modules

### `SequencedStore`, `AtomicStore`, `MCAtomicStore`

`SequencedStore` is what the header of `atomic-store.ts` and the comment on
`casUpdate` promise: an update takes effect in one step that bumps `sequence` by
one, on top of everything before it; a returned call took effect, a thrown one
did not.

`AtomicStore` is the protocol, one step per interval between two awaits on the
file system. `lockOwner` and `lockAge` are the lockfile and its age, `store` the
file at the store's path, `quarantine` the `.corrupt-<n>` files, `pc`, `waited`
and `base` the local state of each call, `submitted`, `acked` and `failed` the
history of calls.

| action | code |
|---|---|
| `Submit`, `CreateLock`, `OpenFails`, `LockExists`, `LockVanished`, `SeeStale`, `Poll`, `TimeOut`, `Steal`, `StealFails` | the loop of `withCommitLock`: the exclusive open, then the stat and what it decides, then the unlink of a stale lock, which removes whatever is there by then, or fails and goes round again past the timeout check |
| `LoadWhole`, `LoadTorn` | `loadDecisionStore` and `loadMemoryStore`, by a writer inside the lock or by a reader outside it; a read fault goes the way of bytes that do not parse |
| `LinkAside`, `AlreadyAside`, `UnlinkPath`, `MoveFails` | `quarantineCorrupt`, link and unlink as two steps |
| `Rename`, `WriteFails` | `atomicWriteFile` of the mutated store |
| `SeeOwnToken`, `SeeOtherToken`, `Unlock` | the release in `finally`: the token is read in one step and the file unlinked in the next |
| `Crash`, `Tick` | a process dies; time passes |

A store's content is the set of updates it holds, which is all the properties
tell apart. The lock token is the writer's identity. A lock token that cannot be
written leaves the lockfile behind and throws, and a release whose unlink fails
leaves it behind and returns; for everybody else both are a crash, and `Crash` stands
for them. What the writer itself does after such a failure is not modelled.

### `DecisionLifecycle`, `MCDecisionLifecycle`

One `updateDecisionStore` is one step here, which is what `AtomicStore` is about.
`store` maps every decision id to its status; `specs` is what the spec files
record (one set: appends are idempotent by id); `lock` and `lockless` are the
consolidation lock and the processes that went on without it; `loaded`,
`subject`, `specCopy`, `written`, `errors` are what processes keep in memory
between a load and a commit; `approvals` is a history.

| action | code |
|---|---|
| `Record`, `RecordUnspawned` | `handleRecordDecision`: upsert, then the spawn of a consolidation, unless the server dies in between |
| `AcquireDecisionsLock`, `SeeStaleLock`, `StealLock`, `GoLockless`, `Release` | `lock.ts`, with its unconditional release and its best-effort timeout |
| `LoadInLock`, `Persist`, `GiveUp`, `Kill` | the `--consolidate` branch of the CLI: the load in the lock, the commit, no result, the process killed |
| `OpenReview`, `CommitReview` | approve and reject, of the handlers, the CLI and the terminal review alike |
| `BeginSync`, `ReadSpec`, `WriteSpec`, `SyncFails`, `SkipHomeless`, `CommitSync` | `handleSyncDecisions` and `syncApprovedDecisions` |

The LLM is free: which ids a consolidation keeps, reuses, mints or supersedes,
and which the verifier lists as verified, as phantom or not at all, is any choice
the code lets through. It lets through superseded ids nobody showed the LLM
(`consolidator.ts:159`); `Hearsay` is the set of ids it may come up with. A sync that dies is a sync that takes no further step.

### `CallGraph`, `Watcher`, `MCWatcher`

A file's text is what the resolution of calls looks at: the functions it defines,
the names it calls, its imports, its re-exports by name and with a star.
`CallGraph` resolves a bare call as `call-graph.ts` does - an import, followed
through barrels to the module that defines the name; the same file; the lowest
of the files that define it, by name alone; external - in a build over any subset
of the files, and gives the graph of a full analysis (`FullEdges`). `MaxHops` is
`REEXPORT_MAX_DEPTH`: how many re-exports in a row are followed, and how far a batch
looks for barrels. Only the languages whose exports are parsed re-export.

`Watcher` is `mcp-watcher.ts` over the rows of `edge-store.ts`. A node row and
its hash are the text they were computed from. `job` has the two lanes that may
work on a batch: the flush of the timers, and the drain of `stop()`.

| action | code |
|---|---|
| `Edit` | a change of the tree, and the notification chokidar owes |
| `Enqueue`, `EnqueueDeletion` | `enqueue`, `enqueueDeletion` and `armFlush` |
| `FlushNothing`, `Flush`, `Finish` | `flush`: the re-entrancy guard, the batch it takes, the `finally` that arms the debounce again |
| `DeleteGraph`, `DeleteGraphFails`, `DeleteGraphThrows`, `DeleteSignatures`, `DeleteWithoutContext`, `DeleteContextThrows` | `handleDeletions`: one transaction on the graph, then the context, each able to fail; a store that does not open throws past the `try` and takes the batch's changes along |
| `ReadFiles`, `ReadFails`, `SkipUnchanged`, `Indexed`, `PatchSignatures`, `PatchFails` | `handleBatch`: the read of the whole batch, the hash comparison of each file, and at the end the context |
| `ReadRows`, `BuildSubset`, `TakeConsumers`, `Reindex`, `ReindexFails` | one file of a batch, a step per stretch between two awaits: the rows and callers as they are, the first `buildGraphSubset`, the consumers the budget has room for and the second build, and the swap in one transaction |
| `Stop`, `DrainTakes` | `stop`: what is queued is drained, unless a flush is running |

`plan` is what a lane keeps across the awaits of a file's re-index: the rows it
resolves against, the files it found affected, those it builds and the texts it read.
Two lanes can be at this at once: `stop()` closes the watchers after its drain, and
while it drains `running` is false. Then a swap may come of rows the other lane has
changed since.

`lost`, `parsed`, `orphaned` and `overtaken` are histories: what a failure dropped,
the texts each file's edges were resolved from - its own and those of the files its
build read (`Parse`) - the callers of a deleted file, and the files a re-index
resolved, or failed to notice, on rows the other lane had changed. The read and the
rewrite of `llm-context.json` in one batch are one step here (`PatchSignatures`); what is
said of signatures is said of the watching phase, where one lane runs, and the other
writer of that file is `ServeDaemon`'s matter.

### `ServeDaemon`

The tree, the context and the graph are versions: how many edits they have seen.
An mtime that somebody remembers is a flag, whether it is still the file's. The
watcher is here only what the daemon sees of it: a batch touches the graph,
loads and rewrites the context, primes the cache and calls back.

| action | code |
|---|---|
| `StartupCheck`, `Ask`, `Trigger`, `Rebuilt`, `ReanalyzeFires`, `Flushed` | `serve.ts`: the schema check after `listen`, the check and the heal of `handleRequest`, `triggerRebuild` with its `finally`, `scheduleReanalyze`, `onBatchFlushed` |
| `Scan`, `TruncateContext`, `FillContext`, `WriteGraph`, `AnalysisFails`, `WriteGraphFails` | the analysis it starts: `generateAndSave` writes the context, then the store; any of it may throw, the truncated context left behind |
| `IndexBatch`, `LoadContext`, `TruncatePersisted`, `FillPersisted`, `PersistFails`, `Prime` | `handleBatch`, `persistContext`, whose write may throw before or after it truncated the file, and `primeContextCache` |
| `Stat`, `Read`, `Open`, `Got` | `readCachedContext`, one step per await, and `waitForGraphRebuild` around it |
| `Kill`, `Restart` | the process ends, with what it was writing; a client starts another |

`Slots` has room for a second analysis, so that single flight is not built in.
A write that overlaps another may leave a file that does not parse (`Fill`).

### `EpistemicLease`

The tracker of one MCP session. `ToolCall` is `updateTracker` (`Deepen` once
stale; `Charge`, `LookAtHead` and `Expire` before) followed by `updatePanic`;
`Orient` is `resetTracker` with `resetPanicOnOrient`; `Commit` moves HEAD. A
density is a number of switches in the window, and all weights, thresholds and
intervals are constants, so the theorems hold for the values of the code and for
any others.

### `PanicState`

`panic-state.json` and its four kinds of calls: `McpUpdates` after a tool call,
`McpInjects` after a signal, `HookWarns` of a `panic-check` process,
`PollSignals` of gryph-watch, which keeps what it read and compares revisions.

| action | code |
|---|---|
| `CreateLock`, `SeesStale`, `RemovesStale`, `GivesUp`, `Release` | `withPanicStateLock`: the stat and the unlink of a stale lock are two steps; running out of attempts leaves the call undone |
| `ReadAgain`, `Write`, `WriteFails`, `Leaves` | `mutatePanicStateLocked`, `casWritePanicState`, `recordHookInterventionLocked` |
| `ReadUnlocked`, `WriteUnlocked`, `WriteFails` | the unlocked fallback of the MCP server's write |
| `Crash`, `LockAges`, `Expires` | a writer dies; a lock passes `LOCK_STALE_MS`; the file passes its age limit |

### `MCSession`

`ServeDaemon`, `EpistemicLease` and `PanicState` share no variable. One run
checks them side by side: `part` says which of the three moves, so the states
are the sum of three instances and not their product. `MCSession` restates the
daemon's fairness for the behaviours where it is the daemon that moves.

### `Memory`

A developer's functions keep their identity (`Functions`) through renames, moves
and rewrites; the program sees only their texts, each a pair of a name and a body.
`disk` has the functions of each file in order. `rows` is the index: a row has the
text it was parsed from and what stood before it, since the code keeps offsets;
`Span` is what the file has there now, the same text only if nothing before it
changed. `stores` are the notes and the decisions, each a set of records in the
order of `recordedAt`, which counts down (the order the stores' arrays have, which
only a carry asks for); `ask` is the record of one call between resolving its
anchor and its commit, `analysis` the run of `openlore analyze`.

| action | code |
|---|---|
| `Refactor` | a developer renames, rewrites, moves, deletes or adds a function |
| `IndexFile` | the watcher, or an analysis of the daemon, indexes a file: neither carries an anchor |
| `Ask`, `Record`, `RecordFails` | `handleRemember` with its supersession and update in place, `handleRecordDecision` with `upsertDecisions` |
| `SnapshotOldNodes`, `Rebuild`, `Match`, `CommitNotes`, `CommitDecisions`, `AnalysisStops` | `runAnalysis` and `carryForwardContinuity`: the old nodes, the new index, `buildContinuity` and `computeContinuity`, the two store updates, each able to fail or to be the last |

`Freshness` and `InScope` are what `recall` answers. Every function has the same
parameters, so the stable id is its name. A record has one anchor, at a symbol.
The field `of` of a row and a record is the model's own knowledge of which
function is meant; no action decides by it.

### `MCWatcher`

`Watcher` and `Memory` share no variable (what the one does to the index is
`IndexFile` in the other), so one run has both side by side, like `MCSession`.

## The runs

| run | instance | shows |
|---|---|---|
| `AtomicStoreContention` | 3 writers, 2 updates each, 2 readers, no crash, failing opens and writes | `MutualExclusion`, `NoAckedWriteLost`, `ReadsMoveForward`, and the refinement `KeepsPromise` |
| `AtomicStoreCrash` | 2 writers, 2 updates each, 2 crashes, any initial file, failing opens, steals, reads, moves and writes | `MutualExclusion` among the living, `NoAckedWriteLost` |
| `AtomicStoreGivesWay` | 2 writers, 1 reader, 1 crash, holders slower than the stale age, any initial file, failing opens, steals, links and writes | what survives when exclusion does not: `FailedWriteNotKept`, and under `FairSpec` `EveryCallReturns` |
| `AtomicStoreTwoStealers` | 3 writers, 1 crash | **violated**: the second of two stealers unlinks the first one's lock (`atomic-store.ts:118`) |
| `AtomicStoreTornReader` | 1 writer, 1 reader, a torn store | **violated**: the reader's unlink removes the store the writer committed after the reader's link (`atomic-store.ts:199`) |
| `DecisionLockHolds` | 3 records with their consolidations, one minted id, one id superseded unseen, servers that may die before they spawn | `ConsolidationPreserves`: commits overwrite only what their process loaded, or reject what the LLM named unseen |
| `DecisionLockGivesWay` | the same without the minted id and the deaths, any id superseded unseen, the lock stolen from slow holders and outwaited | `EveryDraftConsolidated` under `FairSpec` |
| `DecisionSync` | 2 killable consolidations, a reviewer, a syncer, a decision without a spec file, LLM failures, servers that die before they spawn | `SpecsOnlyApproved`, `DraftsNeverVanish`, `SyncAgreesWithSpecs` |
| `DecisionReviewRace` | 1 consolidation, 1 reviewer | **violated**: an approval committed while the LLM works is overwritten (`cli/commands/decisions.ts:672`) |
| `DecisionSyncRace` | 1 consolidation, 1 reviewer, 1 syncer | **violated**: a sync with nothing to do undoes an approval (`syncer.ts:86`) |
| `WatcherIndex`, the watcher | 4 files: one defined and deletable, a rival definition, a caller that starts to import or defines a fallback for its import, a star barrel that may also define the name itself; budget 1; 4 edits, failures or stops | `QueueIsArmed`, `NothingForgotten`, `EdgesHaveNodes` across overlapping lanes, and `DivergesOnlyAsKnown`: a quiet index is a full analysis's, or flagged, or wrong in a listed way |
| `WatcherIndex`, the memories | 2 functions, 3 names, 2 bodies, 4 starting trees with up to 2 edits, an added function, 3 records, 2 analyses, not all at once, decisions in two of them | `CarriesItsOwn`: an anchor is carried to its own function or nowhere; `LostOnlyAsKnown`: a match misses no function that is still there but in a listed way, and two commits leave no matched record where it was; `RetiredStaysRetired` |
| `Session`, the daemon | 2 clients, 3 edits, failures or kills, either schema on disk | `OneRebuild`, `WipedIsRebuilt`, `NoWipedStore`, `HitIsARead`; with fairness `FlushesReachTheGraph`, `EveryCallIsAnswered` |
| `Session`, the lease | 6 calls, commits and orients; two modules and a heavy call; thresholds scaled to the length | `OnlyWorsens`, `DepthMatches`, `DecayKeepsTime`, `SpamIsBounded` |
| `Session`, the panic file | 2 hooks, the MCP server, gryph-watch; 3 operations, 1 fault | `CountIsExact`, `RevisionGrows`, `LockExcludes` |

The four violated properties are statements the repository makes; `findings` in
`PROJECT.json` quotes them. Each passing run stands next to the violated ones on
purpose: the difference between their instances is the condition under which the
statement is true, and where TLAPS proves it.

### Bounds, and why they are enough

`MaxUpdates` (2) lets a writer start over after its own commit, which is where a
second update could meet a lock or a base left by the first. `MaxCrashes` bounds
dead writers. Three writers are needed for one to hold while two wait, and for
the two-stealers race; two readers for their quarantines to meet. With crashes
the instance where exclusion holds has two writers: with three it is `AtomicStoreTwoStealers`.
`StaleAge` = 1 and `MaxWait` = 2 keep the order the code relies on
(`LOCK_STALE_MS` < `LOCK_MAX_WAIT_MS`); ages and waits saturate one beyond their
limit, where the code no longer distinguishes them. Three jobs let one hold, one
wait and one steal; two recorded ids and a minted one let a consolidation merge,
supersede and re-create. Symmetry is used on writers, readers and jobs, in safety
runs only.

`CHECK_DEADLOCK FALSE` everywhere: the calls are bounded and all may be over.
A torn file is only an initial state: after that every write is a rename, and
a hand that corrupts the file later is outside the program. `Stalls` (a live
holder outlasting the stale age) is `TRUE` in `AtomicStoreGivesWay` only: the
comment on "tiny critical sections" assumes it away, and the theorems about
exclusion state it as an assumption. That run has one update per writer, which
keeps its liveness check small: its hazards need one call of each. `Slow`, its counterpart for consolidations, is `TRUE` in
`DecisionLockGivesWay`: an LLM call may well take more than two minutes.
The fault `"link"` is only in `AtomicStoreGivesWay`: it loses bytes at once, with
a warning, as the code says it will; `"read"` and `"unlink"` are only where
nobody reads without the lock, for a reader that keeps failing to move a file
aside links it over and over. `Mortal` is `FALSE` in `DecisionLockGivesWay`: a draft
whose server died before the spawn waits for the next record, which nobody owes it.

`WatcherIndex`: a fourth event is needed for an edit, a deletion, a re-creation
and a failure between them; with budget 1 a change has more callers than it may
re-resolve, and a deletion of file 2 makes its callers fall back to file 1, which
is what names bound by name alone turn on. The files' texts are chosen so that
every tier of the resolution, the star barrel, the pruned consumers and the
orphans occur. The memories' four trees (`MCStarts`) are there for what each lets
happen: three records with a rename and an added function (a retired note and its
twin), two analyses (a second rename, a newcomer with the first name), a second file (a move, two nodes of one
function), a second function (a copy, a name that is taken). Without any one of
the cases of `Missed`, or the exceptions of `RetiredStaysRetired` and
`CarriesItsOwn`, TLC refutes the property in this instance; but `Mixed` in
`CarriesItsOwn`, for which two edits, an added function and two records are needed:
`Start(One, 2, 1, 2, 1)`, of 1,986,895 states, needs it and passes, and is left out
of the run for its size. The barrel defines the name itself only in trees where
files 1 and 2 do not and nothing has failed or stopped (`BarrelStays`), and a caller
has its fallback from the start and through two events (`FallbackStays`); a caller
that imports from the start does so where file 2 is yet to be written, and one that
comes to import where it is there; outside a drain one lane re-indexes at a time, and
what happens around it is ordered before or after (`OneLaneBuilds`); `stop()` comes
where one more event fits into its drain (`StopsEarly`); and in the trees of one file, where more records
and analyses follow each other, only notes are recorded (`NotesOnly`). That keeps the
run within minutes, and with all of it TLC still refutes each property of the watcher
without any one of its exceptions. `MaxHops` = 1 is the longest chain these texts
make; the theorems hold for 12. The run has 1,186,589 distinct states, 648,912 of them
the watcher's.

`Session` has 337,949. A client may meet an edit and another trouble; the second
asks only while there has been none, and two edits, or a third trouble, happen where
nobody asks (`Fewer`): a third is needed for a batch that fails after one that got
through, the case `FlushesReachTheGraph` excuses (`spoilt`).
That is enough for two rebuild triggers to meet, for an edit under a running
re-analysis, and for every exception of the daemon's properties to be needed. `Polls` = 2 lets a wait both poll again and time out. The lease's thresholds
keep their order (`DegradeLoad` < `StaleLoad` < the depths, the refractory period
longer than the decay, the rapid interval longer than both) but are small enough
that six calls reach every state and level; the theorems cover the real numbers.
Three operations on the panic file are one inside and two waiting, or a poll with
two writes between its read and its comparison. Revisions, ages and versions need
no bound of their own, as every step that raises one is counted.

### Fairness

`AtomicStore!Fairness`: a call that started keeps running until it returns or its
process dies (each writer's steps, each quarantine), and the clock ticks. Nobody
has to submit, crash or read. `Steal` has strong fairness: a waiter that finds a stale
lock it cannot unlink goes round without looking at its own timeout
(`atomic-store.ts:117-123`), so a lock that can never be deleted keeps it there for
ever. `EveryCallReturns` is claimed of a file system where the unlink fails some
times, not always; with weak fairness alone TLC shows the endless round. `DecisionLifecycle!Fairness`: a spawned
consolidation runs to its end, `GiveUp` excluded by `LLMFails = FALSE` and `Kill`
by `Killable = {}` in the liveness run - a draft whose every consolidation fails
stays a draft, by design. Weak fairness is enough there: nothing waits on a condition
that comes and goes, as a lock that is never taken for good is stolen or
outwaited.

`ServeDaemon!DaemonFairness`: the event loop runs what is ready and timers fire -
the startup check, the armed re-analysis, a started analysis, the watcher's
batch, a request that was accepted. Nobody has to edit, ask, kill, restart or
fail. An analysis that fails or is killed is not tried again, so
`FlushesReachTheGraph` speaks of the runs in which none was (`broken`). A batch whose
write of the context failed leaves a file no later batch can load, and so calls nobody
back; until an analysis writes it whole nothing is claimed either (`spoilt`).
`EveryCallIsAnswered` has no such exception: a wait ends by its deadline.

The watcher has no liveness property: with its instance TLC does not finish.
`QueueIsArmed` is the safety fact its liveness would rest on: a file in the queue
always has a timer or a running lane that will look at it.

## The proofs

`AtomicStoreProofs`:

- `TypeCorrect` - for any constants.
- `QuietMutualExclusion` - assuming `Quiet`: live holders finish before their
  lock is stale, and nobody crashes or there are two writers. `MutualExclusion` is
  not inductive: it says nothing of who owns the lockfile. `LockInv` adds that
  whoever holds owns the lockfile, that a live owner's lock is never stale, and that
  who is about to steal is alone alive: what it unlinks a step later can be
  nobody's. With a third writer it can.
- `FailuresLeaveNothing` - for any constants, crashes, stalls and faults included.
  `FailInv` looks not only at the files but at every store a process holds in
  memory (`Somewhere`): a failed update is in none of them, and a pending one is
  in none of them until its writer renames.
- `HealthyKeepsAckedWrites`, `HealthyReadsMoveForward`, `HealthyKeepsPromise`
  - assuming `Healthy` (`Quiet`, the store starts absent or whole, reads do not
  fail). `StoreInv` adds that nothing is ever set aside and that a writer about
  to write has the very file on disk as its base; `CommitInv` relates the pending
  update of each writer to what is kept, acknowledged and failed. The last is the
  refinement: `Rename` maps to `Commit`, the steps that end a call to `Return` or
  `Throw`, all others to stuttering.
- `UnreadKeepsAckedWrites` - assuming `Unread` (`Quiet`, no lock-free reader, and
  `link` does not fail; the store may start torn, and reads, unlinks and writes may
  fail). `SavedInv` says for each step of the quarantine what has been saved: before
  the unlink the bytes are in a quarantined file, before the rename they are there
  or in the base, so no step takes anything out of `Kept`.

The assumptions are what the two violated runs need to be false: a crash with two
waiters, a torn store with a lock-free reader.

`DecisionLifecycleProofs`:

- `TypeCorrect`, for any constants; it includes that "synced" is never on disk.
- `OnlyApprovedSynced` - for any number of jobs, reviewers and syncers, whatever
  the lock does. `ApprovedInv` follows an approval through the places it can be:
  the store, the copy a process loaded, the decision a syncer promoted, the
  spec file a syncer read.
- `LoneSyncAgreesWithSpecs`, `LoneSyncKeepsDrafts` - assuming `OneSyncer`. With
  two, one's write of a spec file drops the other's append. `SyncInv` says that
  what the syncer wrote is in the specs, that its copy of the spec file is
  current, and that nothing it loaded has left the store or gone back to draft
  since - which every other step respects (`StoreGrows`).
- `LockedConsolidationPreserves` - assuming `Undisturbed`: nobody outlasts,
  outwaits or dies with the lock, no review or sync commits (they do not take it:
  `DecisionReviewRace`), and no consolidation mints the id of a decision being
  recorded. A decision the LLM calls superseded without having been shown it is the
  exception the property names (`Unshown`). `LockedInv` says that the one who thinks owns the lock, and that the
  store differs from what it loaded by new drafts alone, which it cannot name.

`EpistemicLeaseProofs`, for any calls, gaps, weights, thresholds and intervals:
`LeaseTypeCorrect`, `WorsensCorrect`, `DepthCorrect`, `DecayCorrect`,
`SpamCorrect`. `DecayKeepsTime` says that the points taken off so far are the time
between the first and the last update of the score, divided once, whatever calls lay
between: a baseline reset at each call (the bug the code's comment tells of) takes off
too few, one that stays where it is too many. `LeaseIInv` adds to the types that the
depth is what the load came to, that the baseline is as far from the first call as
the points account for and less than a point behind the last (`BaselineOK`,
`PointsAreUnique`), and that what a series of rapid orients took off is fixed by its
length (`SeriesOK`): a normal orient, a rapid one, then nothing. The only
assumption with content is that the clock starts past every interval, as
wall-clock milliseconds do: 0 stands for "never" in the code.

`PanicStateProofs`, for any number of hooks, operations and faults:
`PanicTypeCorrect`, `LockCorrect`, `CountCorrect`, `RevisionCorrect`. Neither the
count nor the revision is inductive: what is written was computed from what was
read. `Built` says, for each place a writer may be at, that the state it holds
still has the count and the revision of the file, except a poll's, whose count may
be older and whose revision then is too; `HolderInside` that whoever is between
read and release owns the lock file, until a writer was intruded upon. That is
what the lock buys; `Unstolen` says when it holds: while nobody died or stalled,
no lock is stale and nobody is about to remove one.

`ServeDaemonProofs`, for any number of clients, requests, edits and polls:
`DaemonTyped`, `RebuildsAreOne`, `WipedGraphsAreRebuilt`, `NoWipedStoreIsCached`,
`HitsAreReads`, from one invariant, `DaemonInvariant`. None of the properties is
inductive. `OneSlot` ties the flag `rebuildRunning` to the slot that runs, which the
code never compares; `SchemaFirst` says who has looked at the schema before anybody
holds a store; `ReadsAreCurrent` that a request still having the mtime of the file
read what the file holds, although a writer may come between its stat, its read and
its open; `MislabelledIsRewritten` sharpens `HitIsARead` from "a rebuild runs" to "an
analysis has yet to write the file, or another will follow" - one that has written it
already is no help. What the properties excuse is `broken`: an analysis failed or was
killed.

`WatcherProofs`, for any files, texts, budgets, faults and events: `WatcherTyped`,
`QueuesAreArmed`, `NoEditIsForgotten`, `EdgesKeepTheirNodes`, `SingleFlightHolds`, from
`WatcherInvariant`.
`LanesHold` says what each lane may hold at each of its steps, and splits
`QueueIsArmed` in two, as the drain waits for changes but not for deletions.
`HashIsIndexed` says that a hash row tells the text of the node rows, if there are
any: without it a skipped file could be stale. `NothingSlips` follows a notification
through the queues and the hands of the flush: what is dropped is gone or has been
told of again, what is indexed is the text on disk or has been told of again, and
signatures lag behind rows only in a batch under way. The edges need lemmas on the
resolution (`ResolveIsKnown`, `BuildIsKnown`): whatever barrels it follows, an edge
leads to a file the build knows to define the name. The first exception of
`EdgesHaveNodes` is what the induction over `Reindex` leaves: a caller may be resolved
with a text of its callee that the callee's own rows do not have.

A re-index reads rows, awaits a build and only then swaps. `PlansHold` says of each lane
in between what it holds: callers and rows as the store has them, as long as the other
lane has not written. When it has, `Overtaken` tells at the swap, and the files
concerned are the second exception of `EdgesHaveNodes` and an excuse of
`EdgesStayBound`. `SingleFlightHolds` confines it: while the watcher watches, nothing
is overtaken, since then only one lane is at work; so `DivergesOnlyAsKnown`, which speaks
of that phase, needs no such excuse.

`EdgesStayBound` and `DivergenceIsKnown`, in the same module, are about what the edges
say. `DivergesOnlyAsKnown` speaks of a quiet index and is not inductive. `EdgesAreBound`
is: at every moment, the calls of a file that is neither flagged, orphaned nor overtaken
are bound (`Binds`) as its own build - the texts in `parsed`, no others - would bind them to the
rows of today. A batch keeps it because whoever it could leave wrong is re-resolved,
flagged or pruned, and what pruning leaves still binds (`StaysBound`); a deletion orphans
the callers. TLC found it to hold on the instance of `WatcherIndex` before it was proved.
At the end two builds are compared, the part of the tree a batch looked at and the whole
of it: a larger build never leads an import away from a function a smaller one found
(`BindsAsFar`), so all it adds are imports followed further, which is what `Outranked`
lists. `PlainCallersConverge` draws the conclusion for files without imports: they have
exactly the edges of a full analysis. The attempt to prove the earlier `Outranked` is how
its case `same_file` was found: see "What the properties allow".

`CallGraphProofs` has the lemmas about the resolution, for any limit on hops. Chains of
re-exports are recursive functions on `Hops`, and induction over them is done with sets:
the hops at which a claim fails have a least element (`WFMin` of `WellFoundedInduction`,
which takes no operator), and `ReachesAll` says there is none. `IterationExists` is the
same for the existence of the recursive functions, from which `ExposingUnfolds` and
`FollowingUnfolds` give their equations. `ExposesMore` and `FollowsFurther` compare the
chains of two builds.

`MemoryProofs`, for any functions, bodies, starting trees and budgets: `MemoryTyped`,
`RetiredNotesAreHistory`, `CarriesGoHome`, `CarriesLoseOnlyAsKnown`, from
`MemoryInvariant`. `IndexOK`: no two rows are one node. `IdsOK`: what a note's id is
made of is still in it until it is carried. `ClockOK`: a request under way is younger
than every record, so a record committed in the middle of an analysis is not taken
for one it matched. `HalfOK`: after the first commit no matched note is where it was.
`CarriesItsOwn` and the first half of `LostOnlyAsKnown` are properties of one step,
whose proof is a case analysis of `Match` (`MatchKeepsItsOwn`, `MatchFinds`): an exact
copy of the baseline is the function itself, a unique body is, and each of the six
cases of `Missed` is where one of these inferences stops.

Only model-checked:

- `EveryCallReturns`, `EveryDraftConsolidated`, `FlushesReachTheGraph` and
  `EveryCallIsAnswered`: liveness under fairness, out of the provers' reach.
## Not modelled

- `atomic-store.ts:216-229`: on file systems without hard links the quarantine
  is an existence check and a rename.
- `saveDecisionStore` and `saveMemoryStore`: nothing in the program calls them.
- The content of decisions, the several spec files one decision may go to, ADR
  numbering (`syncer.ts:223-273`), the commit gate, and the programmatic API,
  whose consolidation takes no lock and leaves loaded drafts alone.
- The watcher's other lanes (text lines, embeddings, the dependency graph, the
  HEAD watcher and its `analyze --force`), and class, method and inheritance
  resolution: only bare calls are resolved, every function is exported, and the cap
  of 2,000 barrels a batch collects is left out. Its events are never dropped by the
  operating system, and `awaitWriteFinish` is the free delay of a notification.
- The daemon's descriptor and its idle shutdown beyond `Kill`, the directories
  other than the served root, the order of `teardown` (a callback after its
  `clearTimeout` arms a timer the exit then ends), the HTTP checks.
- The read cache's other paths: a second directory, eviction.
- The lease's telemetry and texts; the panic file's score and triggers, which no
  other writer compares.
- Of the memories: file-level anchors and several anchors in one record,
  `possiblyMovedTo`, test functions, the downgrade of `fresh` in a stale region,
  `asOf` and `changedSince`, ranking, contradictions, certificates.
- Items 6 and 8 of the plan; the stateless rest, for the reasons given per component
  in `PROJECT.json`.

## What the properties allow

A property that excuses something names it. These are the places where the code
does less than its comments or a reader might expect:

- **Watcher.** A failing batch is logged and dropped (`lost`), and so is a file
  whose read fails once. The hash row of a deleted file survives: the file
  created again with the same content is taken for unchanged and stays without
  nodes (`Revived`). A deletion drops the edges of the callers without flagging
  them (`orphaned`). A caller re-resolved from disk in another file's batch keeps
  its old hash, so reverting it is skipped; a callee read as a barrel of that batch
  may be reverted too, and its edges then lead to a function no row has, until
  somebody else changes (`parsed`, in `EdgesHaveNodes` and `DivergesOnlyAsKnown`). A
  binding by name is kept
  where a full analysis follows an import, for pruned consumers and for the leaf
  of a star barrel; and a caller that has a function of its own, as a fallback for
  what it imports, keeps its call bound to it when the imported module comes to
  define the name: an edge within the file makes it no consumer, and it is not
  flagged (`Outranked`). While `stop()` drains, a timer may flush: a deletion or a
  re-index of a callee in one lane, between the rows the other lane has read and its
  swap, leaves edges to a function without a row, unflagged (`overtaken`). A store that
  does not open for a flush's deletions drops its changes as well. `stop()` under a running flush drains nothing,
  though `mcp-watcher.ts:319-320` speaks of draining.
- **Daemon.** The context is written before the store, so a wait for the rebuild
  may cache the context without a handle and time out, against
  `serve.ts:541-544`. A rebuild that was killed or failed leaves a wiped store
  nobody rebuilds (`broken`). A batch that meets a half-written context ends
  without its callback, and so does every batch after one whose write failed halfway,
  until something else asks for an analysis (`spoilt`). Priming labels the entry with whatever mtime the file has
  by then, another writer's too (`HitIsARead` lets that last until the re-analysis
  it asks for).
- **Decisions.** An id the LLM lists as superseded is rejected, whether it was shown that
  decision or not, and whatever its status has become (`Unshown`); a draft whose server
  died between the upsert and the spawn waits for somebody else's record.
- **Memories.** A carry keeps the baseline, so the next rename of the function
  matches nothing, unless a newcomer is an exact copy of the baseline, old name
  included: then the anchor is carried there and called fresh, although the
  function is in the index too, since an exact body is not held to what
  `continuity.ts:29-31` says ("only when the normalized (name-independent) body is
  unique among all new symbols") (`RenamedBefore`). A function that moved is found by its stable
  id and its anchor left where it was, so a later rename finds it in no snapshot;
  and a rename the watcher or the daemon indexed before `openlore analyze` is lost
  for good (`LeftBefore`). A new name that any old node had is not new
  (`TakenName`), two nodes with one body claim each other's place (`Contended`),
  and a second row with its body rules out a rename (`Cloned`). Of several records of a node the first
  one's baseline decides for all (`Mixed`); a record of the node that saw another
  text can then be carried to a function that is not its own. A record committed
  between the match and the commit is carried with the rest though nobody looked
  at it. A carried note keeps its id while what ids are made of changes: a retired
  one is recalled when a new note gets its id.
- **Lease.** `Deepen` sees a burst of switches as depth 3 at once; the load no
  longer counts once stale, against `epistemic-lease.ts:464-468`.
- **Panic file.** Two that both saw a stale lock both get in (`intruded`). A
  hook that lost the race with a reset writes a count of one at level zero,
  against `mcp.ts:2526`. The revision starts over when a session expires.

Definitions named `Mutant...` are no part of a specification: each is a plausible
bug in the definition it precedes, and some run's property refutes it.
