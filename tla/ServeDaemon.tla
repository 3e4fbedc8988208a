----------------------------- MODULE ServeDaemon ------------------------------
(***************************************************************************)
(* The serve daemon (src/cli/commands/serve.ts), the read cache of its     *)
(* handlers (src/core/services/mcp-handlers/utils.ts) and the full         *)
(* analysis it starts (src/core/analyzer/artifact-generator.ts).  They     *)
(* meet in two files: llm-context.json and the SQLite graph.               *)
(*                                                                         *)
(* The tree, the context and the graph are versions: how many edits they   *)
(* have seen.  An mtime somebody remembers is a flag: is it still that of  *)
(* the file?  A step is what runs between two awaits.  The watcher is here *)
(* only what the daemon sees of it; module Watcher has the rest.           *)
(* Deletions never reach onBatchFlushed, so an edit is not a deletion.     *)
(*                                                                         *)
(* A definition named Mutant... is no part of the specification.           *)
(***************************************************************************)
EXTENDS Integers, FiniteSets

CONSTANTS Requests,   (* tool calls, each made once                         *)
          Empty,      (* a graph with no rows                               *)
          Partial,    (* a graph with the rows of single files only         *)
          NoEntry,    (* nothing in the cache                               *)
          Polls,      (* how often waitForGraphRebuild looks                *)
          MaxTroubles (* bound: edits, failures and kills                   *)

ASSUME DaemonAssumption == /\ Polls \in Nat \ {0}
                           /\ MaxTroubles \in Nat
                           /\ Empty \notin Nat /\ Partial \notin Nat
                           /\ Empty # Partial

VARIABLES tree,           (* the source files                               *)
          context,        (* llm-context.json: its version, does it parse?  *)
                          (* history: did a failed batch leave it torn?     *)
          graph,          (* what the SQLite store holds                    *)
          schema,         (* "stale" or "current": the version on disk      *)
          daemon,         (* "starting", "up" or "down"                     *)
          cache,          (* the entry of _contextCache: has it the mtime   *)
                          (* of the file, its version, a handle?            *)
          schemaReset,    (* schemaResetByDir: "unknown", "yes" or "no"     *)
          request,
          rebuildRunning, rebuildPending,
          reanalyzeTimer, (* is the debounced re-analysis armed?            *)
          analyses,       (* the runs of openloreAnalyze                    *)
          batch,          (* the watcher's batch                            *)
          seen,           (* the last version a batch took                  *)
          flushed,        (* history: the last one to reach onBatchFlushed  *)
          troubles,       (* how many edits, failures and kills so far      *)
          broken          (* history: did an analysis fail or die?          *)

diskVars == <<context, graph, schema>>
handlerVars == <<cache, schemaReset, request>>
rebuildVars == <<rebuildRunning, rebuildPending, reanalyzeTimer, analyses>>
watchVars == <<batch, seen, flushed>>
daemonVars == <<tree, diskVars, daemon, handlerVars, rebuildVars, watchVars, troubles, broken>>

Slots == {1, 2}
Idle == [pc |-> "idle", version |-> 0, alone |-> FALSE]
Unasked == [pc |-> "unasked", waiting |-> FALSE, polls |-> 0, current |-> FALSE, version |-> 0]
Answered == [Unasked EXCEPT !.pc = "answered"]
Entry(hit, version, store) ==
  [hit |-> hit, version |-> IF hit THEN version ELSE 0, store |-> store]

Trouble == /\ troubles < MaxTroubles
           /\ troubles' = troubles + 1

DaemonInit ==
  /\ tree = 0
  /\ context = [version |-> 0, whole |-> TRUE, spoilt |-> FALSE]
  /\ graph = 0
  /\ schema \in {"stale", "current"}
  /\ daemon = "starting"
  /\ cache = NoEntry
  /\ schemaReset = "unknown"
  /\ request = [r \in Requests |-> Unasked]
  /\ rebuildRunning = FALSE /\ rebuildPending = FALSE /\ reanalyzeTimer = FALSE
  /\ analyses = [s \in Slots |-> Idle]
  /\ batch = Idle
  /\ seen = 0 /\ flushed = 0
  /\ troubles = 0
  /\ broken = FALSE
-----------------------------------------------------------------------------
(* Opening the store, writing the context, starting an analysis *)

(***************************************************************************)
(* EdgeStore.open: a stale schema is wiped, and reported to this opener    *)
(* only (wasReset).                                                        *)
(***************************************************************************)
OpenStore == /\ schema' = "current"
             /\ graph' = IF schema = "stale" THEN Empty ELSE graph

(***************************************************************************)
(* A write of the context changes its mtime.                               *)
(***************************************************************************)
Outdate == /\ cache' = IF cache = NoEntry THEN NoEntry ELSE Entry(FALSE, 0, cache.store)
           /\ request' = [r \in Requests |-> [request[r] EXCEPT !.current = FALSE]]

(***************************************************************************)
(* writeFile truncates the context and fills it later; two that overlap    *)
(* may leave a file that does not parse.                                   *)
(***************************************************************************)
Truncate == context' = [context EXCEPT !.whole = FALSE] /\ Outdate

Fill(version, alone) ==
  /\ \E whole \in IF alone THEN {TRUE} ELSE BOOLEAN :
       context' = [version |-> version, whole |-> whole, spoilt |-> context.spoilt /\ ~whole]
  /\ Outdate

(***************************************************************************)
(* triggerRebuild: one analysis at a time, a trigger under way is kept.    *)
(***************************************************************************)
StartAnalysis == analyses' = [analyses EXCEPT
                   ![CHOOSE s \in Slots : analyses[s].pc = "idle"] = [Idle EXCEPT !.pc = "scan"]]

MutantTrigger == /\ rebuildRunning' = TRUE
                 /\ \E s \in Slots : analyses[s].pc = "idle"
                 /\ StartAnalysis
                 /\ UNCHANGED rebuildPending

Trigger == \/ /\ rebuildRunning
              /\ rebuildPending' = TRUE
              /\ UNCHANGED <<rebuildRunning, analyses>>
           \/ /\ ~rebuildRunning
              /\ rebuildRunning' = TRUE
              /\ StartAnalysis
              /\ UNCHANGED rebuildPending

NoTrigger == UNCHANGED <<rebuildRunning, rebuildPending, analyses>>
-----------------------------------------------------------------------------
(* The daemon *)

(***************************************************************************)
(* The schema check after listen; it overwrites what an earlier request    *)
(* found.  Then the watcher starts, on the tree as it is.                  *)
(***************************************************************************)
MutantStartupCheck ==
  /\ daemon = "starting"
  /\ daemon' = "up"
  /\ OpenStore
  /\ schemaReset' = IF schema = "stale" THEN "yes" ELSE "no"
  /\ seen' = tree
  /\ NoTrigger
  /\ UNCHANGED <<tree, context, cache, request, reanalyzeTimer, batch, flushed, troubles, broken>>

StartupCheck ==
  /\ daemon = "starting"
  /\ daemon' = "up"
  /\ OpenStore
  /\ schemaReset' = IF schema = "stale" THEN "yes" ELSE "no"
  /\ seen' = tree
  /\ IF schema = "stale" THEN Trigger ELSE NoTrigger
  /\ UNCHANGED <<tree, context, cache, request, reanalyzeTimer, batch, flushed, troubles, broken>>

ReanalyzeFires ==
  /\ reanalyzeTimer
  /\ reanalyzeTimer' = FALSE
  /\ Trigger
  /\ UNCHANGED <<tree, diskVars, daemon, handlerVars, watchVars, troubles, broken>>

(***************************************************************************)
(* The process exits, after a signal or not: what it ran dies with it, a   *)
(* write of the graph between its clear and its last insert.               *)
(***************************************************************************)
Kill ==
  /\ daemon # "down"
  /\ Trouble
  /\ \/ UNCHANGED <<graph, schema>>
     \/ /\ \E s \in Slots : analyses[s].pc = "graph"
        /\ schema' = "current"
        /\ graph' \in {Empty, Partial}
  /\ daemon' = "down"
  /\ cache' = NoEntry
  /\ schemaReset' = "unknown"
  /\ request' = [r \in Requests |-> IF request[r].pc = "unasked" THEN Unasked ELSE Answered]
  /\ rebuildRunning' = FALSE /\ rebuildPending' = FALSE /\ reanalyzeTimer' = FALSE
  /\ analyses' = [s \in Slots |-> Idle]
  /\ batch' = Idle
  /\ flushed' = 0
  /\ broken' = (broken \/ rebuildRunning \/ reanalyzeTimer)
  /\ UNCHANGED <<tree, context, seen>>

Restart ==
  /\ daemon = "down"
  /\ daemon' = "starting"
  /\ UNCHANGED <<tree, diskVars, handlerVars, rebuildVars, watchVars, troubles, broken>>
-----------------------------------------------------------------------------
(* openloreAnalyze and generateAndSave: the context first, then the graph *)

Scan(s) ==
  /\ analyses[s].pc = "scan"
  /\ analyses' = [analyses EXCEPT ![s] = [Idle EXCEPT !.pc = "truncate", !.version = tree]]
  /\ UNCHANGED <<tree, diskVars, daemon, handlerVars, rebuildRunning, rebuildPending,
                 reanalyzeTimer, watchVars, troubles, broken>>

TruncateContext(s) ==
  /\ analyses[s].pc = "truncate"
  /\ Truncate
  /\ analyses' = [analyses EXCEPT ![s].pc = "fill", ![s].alone = TRUE]
  /\ batch' = [batch EXCEPT !.alone = FALSE]
  /\ UNCHANGED <<tree, graph, schema, daemon, schemaReset, rebuildRunning, rebuildPending,
                 reanalyzeTimer, seen, flushed, troubles, broken>>

FillContext(s) ==
  /\ analyses[s].pc = "fill"
  /\ Fill(analyses[s].version, analyses[s].alone)
  /\ analyses' = [analyses EXCEPT ![s].pc = "graph", ![s].alone = FALSE]
  /\ batch' = [batch EXCEPT !.alone = FALSE]
  /\ UNCHANGED <<tree, graph, schema, daemon, schemaReset, rebuildRunning, rebuildPending,
                 reanalyzeTimer, seen, flushed, troubles, broken>>

(***************************************************************************)
(* writeEdgesToSQLite clears the store and inserts every row.              *)
(***************************************************************************)
WriteGraph(s) ==
  /\ analyses[s].pc = "graph"
  /\ schema' = "current"
  /\ graph' = analyses[s].version
  /\ analyses' = [analyses EXCEPT ![s].pc = "end"]
  /\ UNCHANGED <<tree, context, daemon, handlerVars, rebuildRunning, rebuildPending,
                 reanalyzeTimer, watchVars, troubles, broken>>

(***************************************************************************)
(* It throws before or after the clear; that is swallowed as non-fatal.    *)
(***************************************************************************)
WriteGraphFails(s) ==
  /\ analyses[s].pc = "graph"
  /\ Trouble
  /\ \/ OpenStore
     \/ schema' = "current" /\ graph' = Empty
  /\ broken' = TRUE
  /\ analyses' = [analyses EXCEPT ![s].pc = "end"]
  /\ UNCHANGED <<tree, context, daemon, handlerVars, rebuildRunning, rebuildPending,
                 reanalyzeTimer, watchVars>>

(***************************************************************************)
(* The analysis throws before its writes or amid one: logged, not tried    *)
(* again.                                                                  *)
(***************************************************************************)
AnalysisFails(s) ==
  /\ analyses[s].pc \in {"scan", "truncate", "fill"}
  /\ Trouble
  /\ broken' = TRUE
  /\ analyses' = [analyses EXCEPT ![s].pc = "end"]
  /\ \/ UNCHANGED <<context, cache, request, batch>>
     \/ analyses[s].pc = "fill" /\ Truncate /\ batch' = [batch EXCEPT !.alone = FALSE]
  /\ UNCHANGED <<tree, graph, schema, daemon, schemaReset, rebuildRunning, rebuildPending,
                 reanalyzeTimer, seen, flushed>>

(***************************************************************************)
(* triggerRebuild's finally: a trigger kept meanwhile goes back through    *)
(* the debounce.                                                           *)
(***************************************************************************)
MutantRebuilt(s) ==
  /\ analyses[s].pc = "end"
  /\ analyses' = [analyses EXCEPT ![s] = Idle]
  /\ rebuildRunning' = FALSE /\ rebuildPending' = FALSE
  /\ UNCHANGED <<tree, diskVars, daemon, handlerVars, reanalyzeTimer, watchVars, troubles, broken>>

Rebuilt(s) ==
  /\ analyses[s].pc = "end"
  /\ analyses' = [analyses EXCEPT ![s] = Idle]
  /\ rebuildRunning' = FALSE /\ rebuildPending' = FALSE
  /\ reanalyzeTimer' = (reanalyzeTimer \/ rebuildPending)
  /\ UNCHANGED <<tree, diskVars, daemon, handlerVars, watchVars, troubles, broken>>

Analyze(s) == Scan(s) \/ TruncateContext(s) \/ FillContext(s) \/ WriteGraph(s) \/ Rebuilt(s)
-----------------------------------------------------------------------------
(* The watcher *)

Edit == /\ Trouble
        /\ tree' = tree + 1
        /\ UNCHANGED <<diskVars, daemon, handlerVars, rebuildVars, watchVars, broken>>

(***************************************************************************)
(* handleBatch re-indexes the changed files: alone in an empty store, they *)
(* make a partial graph.                                                   *)
(***************************************************************************)
IndexBatch ==
  /\ daemon = "up"
  /\ batch.pc = "idle"
  /\ seen < tree
  /\ seen' = tree
  /\ graph' = IF graph = Empty THEN Partial ELSE graph
  /\ batch' = [Idle EXCEPT !.pc = "load"]
  /\ UNCHANGED <<tree, context, schema, daemon, handlerVars, rebuildVars, flushed, troubles, broken>>

(***************************************************************************)
(* loadContext reads the disk, never the cache.  If the file does not      *)
(* parse the batch ends here, and its host is not called.                  *)
(***************************************************************************)
LoadContext ==
  /\ batch.pc = "load"
  /\ batch' = IF context.whole THEN [Idle EXCEPT !.pc = "truncate", !.version = context.version]
              ELSE Idle
  /\ UNCHANGED <<tree, diskVars, daemon, handlerVars, rebuildVars, seen, flushed, troubles, broken>>

(***************************************************************************)
(* persistContext: the patched context keeps the call graph it was loaded  *)
(* with.                                                                   *)
(***************************************************************************)
TruncatePersisted ==
  /\ batch.pc = "truncate"
  /\ Truncate
  /\ batch' = [batch EXCEPT !.pc = "fill", !.alone = TRUE]
  /\ analyses' = [s \in Slots |-> [analyses[s] EXCEPT !.alone = FALSE]]
  /\ UNCHANGED <<tree, graph, schema, daemon, schemaReset, rebuildRunning, rebuildPending,
                 reanalyzeTimer, seen, flushed, troubles, broken>>

FillPersisted ==
  /\ batch.pc = "fill"
  /\ Fill(batch.version, batch.alone)
  /\ batch' = [batch EXCEPT !.pc = "prime", !.alone = FALSE]
  /\ analyses' = [s \in Slots |-> [analyses[s] EXCEPT !.alone = FALSE]]
  /\ UNCHANGED <<tree, graph, schema, daemon, schemaReset, rebuildRunning, rebuildPending,
                 reanalyzeTimer, seen, flushed, troubles, broken>>

(***************************************************************************)
(* writeFile throws, at its start or after it truncated the file: the      *)
(* batch ends without its host, and no later one loads what does not parse.*)
(***************************************************************************)
Spoil == \/ /\ context' = [context EXCEPT !.spoilt = ~context.whole]
            /\ UNCHANGED <<cache, request, analyses>>
         \/ /\ context' = [context EXCEPT !.whole = FALSE, !.spoilt = TRUE]
            /\ Outdate
            /\ analyses' = [s \in Slots |-> [analyses[s] EXCEPT !.alone = FALSE]]

PersistFails ==
  /\ Trouble
  /\ \/ batch.pc = "truncate" /\ UNCHANGED <<context, cache, request, analyses>>
     \/ batch.pc = "fill" /\ Spoil
  /\ batch' = Idle
  /\ UNCHANGED <<tree, graph, schema, daemon, schemaReset, rebuildRunning, rebuildPending,
                 reanalyzeTimer, seen, flushed, broken>>

(***************************************************************************)
(* primeContextCache: the entry takes the mtime the file has now, whoever  *)
(* wrote it, and the handle of the entry before.                           *)
(***************************************************************************)
Prime ==
  /\ batch.pc = "prime"
  /\ cache' = Entry(TRUE, batch.version, IF cache = NoEntry THEN FALSE ELSE cache.store)
  /\ batch' = [Idle EXCEPT !.pc = "end"]
  /\ UNCHANGED <<tree, diskVars, daemon, schemaReset, request, rebuildVars, seen, flushed, troubles,
                 broken>>

(***************************************************************************)
(* onBatchFlushed: scheduleReanalyze.                                      *)
(***************************************************************************)
Flushed ==
  /\ batch.pc = "end"
  /\ batch' = Idle
  /\ flushed' = seen
  /\ reanalyzeTimer' = TRUE
  /\ UNCHANGED <<tree, diskVars, daemon, handlerVars, rebuildRunning, rebuildPending, analyses, seen,
                 troubles, broken>>

Batch == \/ IndexBatch \/ LoadContext \/ TruncatePersisted \/ FillPersisted
         \/ Prime \/ Flushed
-----------------------------------------------------------------------------
(* Tool calls: handleRequest, waitForGraphRebuild, readCachedContext *)

(***************************************************************************)
(* A request before the startup check looks for a reset itself.  After a   *)
(* reset it starts a rebuild and waits for it.                             *)
(***************************************************************************)
Ask(r) ==
  LET reset == schemaReset = "yes" \/ (schemaReset = "unknown" /\ schema = "stale") IN
  /\ daemon # "down"
  /\ request[r].pc = "unasked"
  /\ IF schemaReset = "unknown" THEN OpenStore ELSE UNCHANGED <<graph, schema>>
  /\ schemaReset' = IF reset THEN "yes" ELSE "no"
  /\ IF reset THEN Trigger ELSE NoTrigger
  /\ request' = [request EXCEPT ![r] = [Unasked EXCEPT !.pc = "stat", !.waiting = reset,
                                                       !.polls = IF reset THEN Polls ELSE 0]]
  /\ UNCHANGED <<tree, context, daemon, cache, reanalyzeTimer, watchVars, troubles, broken>>

(***************************************************************************)
(* waitForGraphRebuild: the deadline, in polls left.                       *)
(***************************************************************************)
MutantTimesOut(r) == FALSE
TimesOut(r) == request[r].polls = 1

(***************************************************************************)
(* What the caller of readCachedContext does with the handle it got, if    *)
(* any: the wait is over, polls again or times out; the tool answers.      *)
(***************************************************************************)
MutantGot(r, store) ==
  IF ~request[r].waiting
  THEN /\ request' = [request EXCEPT ![r] = Answered]
       /\ UNCHANGED schemaReset
  ELSE IF store
  THEN /\ request' = [request EXCEPT ![r] = [Unasked EXCEPT !.pc = "stat"]]
       /\ schemaReset' = "no"
  ELSE /\ request' = [request EXCEPT ![r].pc = "stat", ![r].version = 0]
       /\ UNCHANGED schemaReset

Got(r, store) ==
  IF ~request[r].waiting
  THEN /\ request' = [request EXCEPT ![r] = Answered]
       /\ UNCHANGED schemaReset
  ELSE IF store \/ TimesOut(r)
  THEN /\ request' = [request EXCEPT ![r] = [Unasked EXCEPT !.pc = "stat"]]
       /\ schemaReset' = IF store THEN "no" ELSE "yes"
  ELSE /\ request' = [request EXCEPT ![r].pc = "stat", ![r].version = 0, ![r].polls = @ - 1]
       /\ UNCHANGED schemaReset

Stat(r) ==
  /\ request[r].pc = "stat"
  /\ IF cache # NoEntry /\ cache.hit
     THEN Got(r, cache.store)
     ELSE /\ request' = [request EXCEPT ![r].pc = "read", ![r].current = TRUE]
          /\ UNCHANGED schemaReset
  /\ UNCHANGED <<tree, diskVars, daemon, cache, rebuildVars, watchVars, troubles, broken>>

Read(r) ==
  /\ request[r].pc = "read"
  /\ IF context.whole
     THEN /\ request' = [request EXCEPT ![r].pc = "open", ![r].version = context.version]
          /\ UNCHANGED schemaReset
     ELSE Got(r, FALSE)
  /\ UNCHANGED <<tree, diskVars, daemon, cache, rebuildVars, watchVars, troubles, broken>>

(***************************************************************************)
(* The entry has the mtime from before the read.  A store that was wiped   *)
(* under a context with functions is not attached.                         *)
(***************************************************************************)
MutantLabel(r) ==
  LET store == graph # Empty IN
  /\ request[r].pc = "open"
  /\ cache' = Entry(TRUE, request[r].version, store)
  /\ Got(r, store)
  /\ UNCHANGED <<tree, diskVars, daemon, rebuildVars, watchVars, troubles, broken>>

MutantOpen(r) ==
  /\ request[r].pc = "open"
  /\ cache' = Entry(request[r].current, request[r].version, TRUE)
  /\ Got(r, TRUE)
  /\ UNCHANGED <<tree, diskVars, daemon, rebuildVars, watchVars, troubles, broken>>

Open(r) ==
  LET store == graph # Empty IN
  /\ request[r].pc = "open"
  /\ cache' = Entry(request[r].current, request[r].version, store)
  /\ Got(r, store)
  /\ UNCHANGED <<tree, diskVars, daemon, rebuildVars, watchVars, troubles, broken>>

Serve(r) == Stat(r) \/ Read(r) \/ Open(r)
-----------------------------------------------------------------------------
DaemonStep == \/ StartupCheck \/ ReanalyzeFires
              \/ \E s \in Slots : Analyze(s)
              \/ Batch
              \/ \E r \in Requests : Serve(r)

DaemonNext == \/ DaemonStep
              \/ \E s \in Slots : WriteGraphFails(s) \/ AnalysisFails(s)
              \/ PersistFails
              \/ Edit \/ Kill \/ Restart
              \/ \E r \in Requests : Ask(r)

(***************************************************************************)
(* The event loop runs what is ready, and timers fire; nothing has to be   *)
(* edited, asked, killed, restarted or to fail.                            *)
(***************************************************************************)
DaemonFairness == /\ WF_daemonVars(StartupCheck)
                  /\ WF_daemonVars(ReanalyzeFires)
                  /\ \A s \in Slots : WF_daemonVars(Analyze(s))
                  /\ WF_daemonVars(Batch)
                  /\ \A r \in Requests : WF_daemonVars(Serve(r))

DaemonSpec == DaemonInit /\ [][DaemonNext]_daemonVars /\ DaemonFairness
-----------------------------------------------------------------------------
(* Properties *)

(***************************************************************************)
(* The types.                                                              *)
(***************************************************************************)
Labelled == [hit : BOOLEAN, version : Nat, store : BOOLEAN]
Asked == [pc : {"unasked", "stat", "read", "open", "answered"},
          waiting : BOOLEAN, polls : 0..Polls, current : BOOLEAN, version : Nat]
Contexts == [version : Nat, whole : BOOLEAN, spoilt : BOOLEAN]
Runs == [pc : {"idle", "scan", "truncate", "fill", "graph", "end"}, version : Nat,
         alone : BOOLEAN]
Batches == [pc : {"idle", "load", "truncate", "fill", "prime", "end"}, version : Nat,
            alone : BOOLEAN]

DaemonTypeOK ==
  /\ tree \in Nat /\ seen \in Nat /\ flushed \in Nat
  /\ context \in Contexts
  /\ graph \in Nat \cup {Empty, Partial}
  /\ schema \in {"stale", "current"}
  /\ daemon \in {"starting", "up", "down"}
  /\ cache \in Labelled \cup {NoEntry}
  /\ schemaReset \in {"unknown", "yes", "no"}
  /\ request \in [Requests -> Asked]
  /\ rebuildRunning \in BOOLEAN /\ rebuildPending \in BOOLEAN /\ reanalyzeTimer \in BOOLEAN
  /\ analyses \in [Slots -> Runs]
  /\ batch \in Batches
  /\ troubles \in 0..MaxTroubles
  /\ broken \in BOOLEAN

(***************************************************************************)
(* "At most one `analyze --force` ever runs per directory at a time": two  *)
(* would clear and fill the same store (triggerRebuild).                   *)
(***************************************************************************)
Analyzing == {s \in Slots : analyses[s].pc # "idle"}
OneRebuild == Cardinality(Analyzing) <= 1 /\ (rebuildRunning <=> Analyzing # {})

(***************************************************************************)
(* A graph that a schema bump wiped, or that a batch filled with single    *)
(* files since, is being rebuilt: the reset is reported only once, and     *)
(* whoever learns of it starts the rebuild.  An analysis that failed or    *)
(* was killed is not tried again.                                          *)
(***************************************************************************)
OnItsWay(s) == analyses[s].pc \in {"scan", "truncate", "fill", "graph"}
WipedIsRebuilt ==
  graph \in {Empty, Partial} =>
    broken \/ \E s \in Slots : OnItsWay(s)

(***************************************************************************)
(* No entry of the cache has the handle of a wiped store, unless a rebuild *)
(* failed under it (the schema-bump guard of readCachedContext).           *)
(***************************************************************************)
NoWipedStore == cache # NoEntry /\ cache.store /\ graph = Empty => broken

(***************************************************************************)
(* A hit is as good as a read: an entry with the mtime of the file has the *)
(* version of the file.  The watcher breaks it when another writer got     *)
(* between its write and its stat; the re-analysis it then asks for writes *)
(* the file again.                                                         *)
(***************************************************************************)
Mislabelled == cache # NoEntry /\ cache.hit /\ cache.version # context.version
HitIsARead == Mislabelled => \/ batch.pc = "end" \/ reanalyzeTimer \/ rebuildRunning
                             \/ broken

(***************************************************************************)
(* What the watcher flushed reaches the graph and the context: an edit     *)
(* while an analysis runs gets another one.  A context that a later batch  *)
(* failed to write stays torn until an analysis writes it again.           *)
(***************************************************************************)
CaughtUp == \/ broken \/ flushed = 0 \/ context.spoilt
            \/ /\ graph \in Nat /\ graph >= flushed
               /\ context.version = graph
               /\ context.whole
FlushesReachTheGraph == []<>CaughtUp

(***************************************************************************)
(* Every call is answered, rebuilt or not.                                 *)
(***************************************************************************)
EveryCallIsAnswered ==
  \A r \in Requests : (request[r].pc = "stat") ~> (request[r].pc = "answered")
=============================================================================
