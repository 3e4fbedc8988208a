------------------------------- MODULE Watcher --------------------------------
(***************************************************************************)
(* The file watcher (src/core/services/mcp-watcher.ts) and the store it    *)
(* keeps (edge-store.ts): events of the file system are coalesced into     *)
(* batches, a batch re-indexes each changed file together with the files   *)
(* that call it, as far as the closure budget goes, and flags the rest as  *)
(* stale; deletions are removed from every lane; stop() drains.            *)
(*                                                                         *)
(* A lane is one run of handleDeletions and handleBatch: the flush the     *)
(* timers start, or the drain of stop().  A step is what a lane does       *)
(* between two awaits another actor can notice.  Timers are armed or not;  *)
(* the store is what an analysis wrote before the watcher started.         *)
(*                                                                         *)
(* A definition named Mutant... is no part of the specification.           *)
(***************************************************************************)
EXTENDS CallGraph

CONSTANTS Texts,          (* what each file may contain                     *)
          Deletable,      (* the files that may be deleted                  *)
          Absent,         (* no such file, no row, no hash                  *)
          ClosureBudget,  (* how many other files a change re-resolves      *)
          WatcherFaults,  (* what may fail: "read", "store", "context"      *)
          MaxEvents,      (* bound: edits of the tree, failures and stops   *)
          MayStop         (* may the host call stop()?                      *)

ASSUME TextsAssumption == /\ \A f \in Files : Texts[f] \subseteq Text
                          /\ \A f \in Files : Absent \notin Texts[f]
                          /\ Deletable \subseteq Files
ASSUME WatcherBoundsAssumption == /\ ClosureBudget \in Nat
                                  /\ MaxEvents \in Nat
                                  /\ MayStop \in BOOLEAN
                                  /\ WatcherFaults \subseteq {"read", "store", "context"}

Lanes == {"flush", "drain"}

VARIABLES tree,        (* the file system: the text of each file, or Absent *)
          events,      (* files with an undelivered notification            *)
          pending,     (* changed files waiting for the next flush          *)
          pendingDeletions,
          debounce,    (* is the debounce timer armed?                      *)
          ceiling,     (* is the maximum-batch timer armed?                 *)
          phase,       (* "watching", "stopping" or "stopped"               *)
          job,         (* the batch each lane works on                      *)
          plan,        (* the re-index each lane is in the middle of        *)
          indexed,     (* the text a file's node rows were parsed from      *)
          edges,       (* the rows of the edges table                       *)
          hash,        (* the text whose hash a file's row holds            *)
          stale,       (* the explicitly stale region                       *)
          signatures,  (* the text a file's signatures were taken from      *)
          happened,    (* how many of them                                  *)
          lost,        (* history: files dropped by a failure               *)
          parsed,      (* history: the texts a file's edges come from, its  *)
                       (* own and other files'; Absent: the rows            *)
          orphaned,    (* history: callers of a file deleted since they     *)
                       (* were resolved                                     *)
          overtaken    (* history: files re-resolved, or missed, by a       *)
                       (* re-index whose rows the other lane had changed    *)

treeVars  == <<tree, events>>
queueVars == <<pending, pendingDeletions, debounce, ceiling>>
storeVars == <<indexed, edges, hash, stale>>
resolution == <<plan, parsed, orphaned, overtaken>>
watcherVars == <<treeVars, queueVars, phase, job, storeVars, signatures,
                 happened, lost, resolution>>

(***************************************************************************)
(* Building: where a lane has read rows it will use after an await.        *)
(***************************************************************************)
Building == {"build", "bind", "rebuild", "swap"}
LanePCs == {"idle", "deleteGraph", "deleteContext", "take", "read", "index", "context"}
             \cup Building
AnyText == {Absent} \cup UNION {Texts[f] : f \in Files}

Job == [pc : LanePCs, drop : SUBSET Files, take : SUBSET Files,
        content : [Files -> AnyText], todo : SUBSET Files, changed : SUBSET Files]
NoJob == [pc |-> "idle", drop |-> {}, take |-> {},
          content |-> [f \in Files |-> Absent], todo |-> {}, changed |-> {}]

Unparsed == [f \in Files |-> Absent]

(***************************************************************************)
(* One file's re-index between its awaits: the rows it resolves against,   *)
(* the files it found affected, those it parses again, and their texts.    *)
(***************************************************************************)
Plan == [file : Files \cup {NoFile}, known : [Files -> SUBSET Names],
         affected : SUBSET Files, build : SUBSET Files, texts : [Files -> AnyText]]
NoPlan == [file |-> NoFile, known |-> [f \in Files |-> {}],
           affected |-> {}, build |-> {}, texts |-> Unparsed]

Present == {f \in Files : tree[f] # Absent}
Sources == [f \in Present |-> tree[f]]
Nodes == [f \in Files |-> IF indexed[f] = Absent THEN {} ELSE indexed[f].defs]

running == job["flush"].pc # "idle"

WatcherInit ==
  /\ tree \in {t \in [Files -> AnyText] :
                 \A f \in Files : t[f] \in Texts[f] \cup (IF f \in Deletable THEN {Absent} ELSE {})}
  /\ events = {}
  /\ pending = {} /\ pendingDeletions = {}
  /\ debounce = FALSE /\ ceiling = FALSE
  /\ phase = "watching"
  /\ job = [l \in Lanes |-> NoJob]
  /\ indexed = tree
  /\ edges = FullEdges(Sources)
  /\ hash = [f \in Files |-> Absent]
  /\ stale = {}
  /\ signatures = tree
  /\ happened = 0
  /\ lost = {}
  /\ plan = [l \in Lanes |-> NoPlan]
  /\ parsed = [f \in Files |-> tree] /\ orphaned = {} /\ overtaken = {}
-----------------------------------------------------------------------------
(* The tree and its notifications *)

Edit(f) == /\ happened < MaxEvents
           /\ \E text \in Texts[f] \cup (IF f \in Deletable THEN {Absent} ELSE {}) :
                /\ text # tree[f]
                /\ tree' = [tree EXCEPT ![f] = text]
           /\ events' = IF phase = "stopped" THEN events ELSE events \cup {f}
           /\ happened' = happened + 1
           /\ UNCHANGED <<queueVars, phase, job, storeVars, signatures, lost, resolution>>

(***************************************************************************)
(* enqueue and armFlush.  A re-creation supersedes a pending deletion.     *)
(***************************************************************************)
Enqueue(f) == /\ f \in events \cap Present
              /\ events' = events \ {f}
              /\ pending' = pending \cup {f}
              /\ pendingDeletions' = pendingDeletions \ {f}
              /\ debounce' = TRUE /\ ceiling' = TRUE
              /\ UNCHANGED <<tree, phase, job, storeVars, signatures, happened, lost, resolution>>

(***************************************************************************)
(* enqueueDeletion.  A deletion supersedes a pending change.               *)
(***************************************************************************)
EnqueueDeletion(f) == /\ f \in events \ Present
                      /\ events' = events \ {f}
                      /\ pendingDeletions' = pendingDeletions \cup {f}
                      /\ pending' = pending \ {f}
                      /\ debounce' = TRUE /\ ceiling' = TRUE
                      /\ UNCHANGED <<tree, phase, job, storeVars, signatures, happened,
                                     lost, resolution>>
-----------------------------------------------------------------------------
(* flush: the single flight *)

Timer == debounce \/ ceiling

MutantFlushNothing == /\ Timer
                      /\ running \/ pending \cup pendingDeletions = {}
                      /\ debounce' = FALSE /\ ceiling' = FALSE
                      /\ pending' = {} /\ pendingDeletions' = {}
                      /\ UNCHANGED <<treeVars, phase, job, storeVars, signatures, happened, lost,
                                     resolution>>

FlushNothing == /\ Timer
                /\ running \/ pending \cup pendingDeletions = {}
                /\ debounce' = FALSE /\ ceiling' = FALSE
                /\ UNCHANGED <<treeVars, pending, pendingDeletions, phase, job, storeVars,
                               signatures, happened, lost, resolution>>

(***************************************************************************)
(* Deletions go first, then the changes.                                   *)
(***************************************************************************)
Flush == /\ Timer
         /\ ~running
         /\ pending \cup pendingDeletions # {}
         /\ debounce' = FALSE /\ ceiling' = FALSE
         /\ job' = [job EXCEPT !["flush"] =
                      [NoJob EXCEPT !.drop = pendingDeletions, !.take = pending,
                                    !.pc = IF pendingDeletions # {} THEN "deleteGraph" ELSE "read"]]
         /\ pending' = {} /\ pendingDeletions' = {}
         /\ UNCHANGED <<treeVars, phase, storeVars, signatures, happened, lost, resolution>>

(***************************************************************************)
(* The end of a lane.  flush's finally starts the debounce again for what  *)
(* came in meanwhile; stop() closes the watchers.                          *)
(***************************************************************************)
MutantFinish(l) == /\ job' = [job EXCEPT ![l] = NoJob]
                   /\ IF l = "flush" THEN UNCHANGED <<events, debounce, phase>>
                      ELSE phase' = "stopped" /\ events' = {} /\ UNCHANGED debounce

MutantReset(l) == /\ job' = [job EXCEPT ![l].pc = "idle"]
                  /\ IF l = "flush"
                     THEN /\ debounce' = (debounce \/ pending \cup pendingDeletions # {})
                          /\ UNCHANGED <<events, phase>>
                     ELSE phase' = "stopped" /\ events' = {} /\ UNCHANGED debounce

Finish(l) == /\ job' = [job EXCEPT ![l] = NoJob]
             /\ IF l = "flush"
                THEN /\ debounce' = (debounce \/ pending \cup pendingDeletions # {})
                     /\ UNCHANGED <<events, phase>>
                ELSE phase' = "stopped" /\ events' = {} /\ UNCHANGED debounce

Step(l, pc) == /\ job' = [job EXCEPT ![l].pc = pc]
               /\ UNCHANGED <<events, debounce, phase>>

(***************************************************************************)
(* A failure of kind k, and the files whose update it drops.               *)
(***************************************************************************)
Fault(k, dropped) == /\ k \in WatcherFaults
                     /\ happened < MaxEvents
                     /\ happened' = happened + 1
                     /\ lost' = lost \cup dropped
-----------------------------------------------------------------------------
(* handleDeletions *)

Callers(f) == {e.from : e \in {d \in edges : d.to = f}} \ {f}

(***************************************************************************)
(* One transaction: the edges in and out of the files, their nodes and     *)
(* their stale marks.  Their hashes stay.                                  *)
(***************************************************************************)
MutantDeleteGraph(l) ==
  LET drop == job[l].drop IN
  /\ job[l].pc = "deleteGraph"
  /\ edges' = {e \in edges : e.from \notin drop}
  /\ indexed' = [f \in Files |-> IF f \in drop THEN Absent ELSE indexed[f]]
  /\ stale' = stale \ drop
  /\ Step(l, "deleteContext")
  /\ UNCHANGED <<tree, pending, pendingDeletions, ceiling, hash, signatures, happened, lost,
                 resolution>>

DeleteGraph(l) ==
  LET drop == job[l].drop IN
  /\ job[l].pc = "deleteGraph"
  /\ edges' = {e \in edges : e.from \notin drop /\ e.to \notin drop}
  /\ indexed' = [f \in Files |-> IF f \in drop THEN Absent ELSE indexed[f]]
  /\ stale' = stale \ drop
  /\ parsed' = [f \in Files |-> IF f \in drop THEN Unparsed ELSE parsed[f]]
  /\ orphaned' = (orphaned \cup UNION {Callers(f) : f \in drop}) \ drop
  /\ overtaken' = overtaken \ drop
  /\ Step(l, "deleteContext")
  /\ UNCHANGED <<tree, pending, pendingDeletions, ceiling, hash, signatures, happened, lost, plan>>

(***************************************************************************)
(* The transaction throws; handleDeletions logs it and goes on.            *)
(***************************************************************************)
DeleteGraphFails(l) ==
  /\ job[l].pc = "deleteGraph"
  /\ Fault("store", job[l].drop)
  /\ Step(l, "deleteContext")
  /\ UNCHANGED <<tree, pending, pendingDeletions, ceiling, storeVars, signatures, resolution>>

(***************************************************************************)
(* The store does not open, which nothing catches here: in a flush that    *)
(* drops the batch's changes as well, stop() catches it and goes on.       *)
(***************************************************************************)
DeleteGraphThrows(l) ==
  /\ job[l].pc = "deleteGraph"
  /\ Fault("store", job[l].drop \cup job[l].take)
  /\ IF l = "flush" THEN Finish(l) ELSE Step(l, "take")
  /\ UNCHANGED <<tree, pending, pendingDeletions, ceiling, storeVars, signatures, resolution>>

DeleteSignatures(l) ==
  /\ job[l].pc = "deleteContext"
  /\ signatures' = [f \in Files |-> IF f \in job[l].drop THEN Absent ELSE signatures[f]]
  /\ Step(l, "take")
  /\ UNCHANGED <<tree, pending, pendingDeletions, ceiling, storeVars, happened, lost, resolution>>

(***************************************************************************)
(* llm-context.json does not parse: its lane is skipped.                   *)
(***************************************************************************)
DeleteWithoutContext(l) ==
  /\ job[l].pc = "deleteContext"
  /\ Fault("context", job[l].drop)
  /\ Step(l, "take")
  /\ UNCHANGED <<tree, pending, pendingDeletions, ceiling, storeVars, signatures, resolution>>

(***************************************************************************)
(* Its rewrite throws: in a flush that drops the batch's changes as well,  *)
(* stop() catches it and goes on with them.                                *)
(***************************************************************************)
DeleteContextThrows(l) ==
  /\ job[l].pc = "deleteContext"
  /\ Fault("context", job[l].drop \cup job[l].take)
  /\ IF l = "flush" THEN Finish(l) ELSE Step(l, "take")
  /\ UNCHANGED <<tree, pending, pendingDeletions, ceiling, storeVars, signatures, resolution>>
-----------------------------------------------------------------------------
(* handleBatch *)

(***************************************************************************)
(* A flush took its changes at its start; stop() takes what is pending     *)
(* when the deletions are done.                                            *)
(***************************************************************************)
FlushTakes == /\ job["flush"].pc = "take"
              /\ IF job["flush"].take = {} THEN Finish("flush") ELSE Step("flush", "read")
              /\ UNCHANGED <<tree, pending, pendingDeletions, ceiling, storeVars,
                             signatures, happened, lost, resolution>>

DrainTakes == /\ job["drain"].pc = "take"
              /\ IF pending = {} THEN Finish("drain")
                 ELSE /\ job' = [job EXCEPT !["drain"].pc = "read", !["drain"].take = pending]
                      /\ UNCHANGED <<events, debounce, phase>>
              /\ pending' = {}
              /\ UNCHANGED <<tree, pendingDeletions, ceiling, storeVars,
                             signatures, happened, lost, resolution>>

(***************************************************************************)
(* Reading the batch's files.  What cannot be read is passed over, a file  *)
(* deleted since its event or one whose read failed.                       *)
(***************************************************************************)
ReadInto(l, found) ==
  IF found = {} THEN Finish(l)
  ELSE /\ job' = [job EXCEPT ![l].pc = "index", ![l].todo = found,
                             ![l].content = [f \in Files |->
                                               IF f \in found THEN tree[f] ELSE Absent]]
       /\ UNCHANGED <<events, debounce, phase>>

ReadFiles(l) ==
  /\ job[l].pc = "read"
  /\ ReadInto(l, job[l].take \cap Present)
  /\ UNCHANGED <<tree, pending, pendingDeletions, ceiling, storeVars, signatures,
                 happened, lost, resolution>>

ReadFails(l) ==
  /\ job[l].pc = "read"
  /\ \E f \in job[l].take \cap Present :
       /\ Fault("read", {f})
       /\ ReadInto(l, (job[l].take \cap Present) \ {f})
  /\ UNCHANGED <<tree, pending, pendingDeletions, ceiling, storeVars, signatures, resolution>>

(***************************************************************************)
(* The content hash drops a save that changed nothing.                     *)
(***************************************************************************)
SkipUnchanged(l, f) ==
  /\ job[l].pc = "index"
  /\ f \in job[l].todo
  /\ hash[f] = job[l].content[f]
  /\ job' = [job EXCEPT ![l].todo = @ \ {f}]
  /\ UNCHANGED <<treeVars, queueVars, phase, storeVars, signatures, happened, lost, resolution>>

(***************************************************************************)
(* slice(0, budget) of rows that come in no particular order.              *)
(***************************************************************************)
Slices(S, budget) == {T \in SUBSET S : \/ T = S /\ Cardinality(S) <= budget
                                       \/ Cardinality(T) = budget /\ Cardinality(S) > budget}

(***************************************************************************)
(* The files that are no callers of f and that a name added to f may       *)
(* rebind: those that call it as external, and those bound by name alone   *)
(* to a file that sorts after f.                                           *)
(***************************************************************************)
MutantConsumers(f, added) ==
  {e.from : e \in {d \in edges : d.name \in added /\ d.tier = "external"}} \ {f}

Consumers(f, added) ==
  {e.from : e \in {d \in edges : /\ d.name \in added
                                 /\ \/ d.tier = "external"
                                    \/ d.tier = "name_only" /\ f < d.to}} \ {f}

(***************************************************************************)
(* The first of a file's synchronous stretches: the names its rows have,   *)
(* the rows of everyone to resolve against, and the callers the budget     *)
(* allows.                                                                 *)
(***************************************************************************)
ReadRows(l, f) ==
  /\ job[l].pc = "index"
  /\ f \in job[l].todo
  /\ hash[f] # job[l].content[f]
  /\ \E direct \in Slices(Callers(f), ClosureBudget) :
       plan' = [plan EXCEPT ![l] = [file |-> f, known |-> Nodes, affected |-> Callers(f),
                                    build |-> {f} \cup direct, texts |-> Unparsed]]
  /\ job' = [job EXCEPT ![l].pc = "build"]
  /\ UNCHANGED <<treeVars, queueVars, phase, storeVars, signatures, happened, lost,
                 parsed, orphaned, overtaken>>

(***************************************************************************)
(* buildGraphSubset: f with the content the batch read, the other files    *)
(* and the barrels as they are on disk now, without those it cannot read.  *)
(***************************************************************************)
Disk(f, content) == [g \in Present \cup {f} |-> IF g = f THEN content ELSE tree[g]]
Parse(build, disk) == [g \in build \cup Barrels(build, disk) |-> disk[g]]
AsRead(sources) == [g \in Files |-> IF g \in DOMAIN sources THEN sources[g] ELSE Absent]
Parsed(texts) == [g \in {h \in Files : texts[h] # Absent} |-> texts[g]]

BuildSubset(l) ==
  LET f == plan[l].file
      disk == Disk(f, job[l].content[f])
  IN
  /\ job[l].pc \in {"build", "rebuild"}
  /\ plan' = [plan EXCEPT ![l].texts = AsRead(Parse(plan[l].build \cap DOMAIN disk, disk))]
  /\ job' = [job EXCEPT ![l].pc = IF @ = "build" THEN "bind" ELSE "swap"]
  /\ UNCHANGED <<treeVars, queueVars, phase, storeVars, signatures, happened, lost,
                 parsed, orphaned, overtaken>>

(***************************************************************************)
(* After the first build: who may rebind to a name it added, compared with *)
(* the rows read before it, and what the budget has left for them.         *)
(***************************************************************************)
NewConsumers(l) ==
  LET f == plan[l].file IN Consumers(f, job[l].content[f].defs \ plan[l].known[f])
Taken(l) == Slices(NewConsumers(l) \ plan[l].build,
                   ClosureBudget - Cardinality(plan[l].build \ {plan[l].file}))

(***************************************************************************)
(* Some are taken in: everything is built a second time.                   *)
(***************************************************************************)
TakeConsumers(l) ==
  /\ job[l].pc = "bind"
  /\ \E extra \in Taken(l) \ {{}} :
       plan' = [plan EXCEPT ![l].build = @ \cup extra, ![l].texts = Unparsed,
                            ![l].affected = @ \cup NewConsumers(l)]
  /\ job' = [job EXCEPT ![l].pc = "rebuild"]
  /\ UNCHANGED <<treeVars, queueVars, phase, storeVars, signatures, happened, lost,
                 parsed, orphaned, overtaken>>

(***************************************************************************)
(* One transaction: what was built replaces the edges of those it could    *)
(* read, the other affected files are flagged.                             *)
(***************************************************************************)
MutantSwap(f, p, fresh, affected) ==
  /\ edges' = {e \in edges : e.from \notin fresh /\ e.to # f}
                \cup BuildEdges(fresh, Parsed(p.texts), p.known)
  /\ parsed' = [g \in Files |-> IF g \in fresh THEN p.texts ELSE parsed[g]]
  /\ stale' = stale \ fresh

Swap(f, p, fresh, affected) ==
  /\ edges' = {e \in edges : e.from \notin fresh /\ e.to # f}
                \cup BuildEdges(fresh, Parsed(p.texts), p.known)
  /\ parsed' = [g \in Files |-> IF g \in fresh THEN p.texts ELSE parsed[g]]
  /\ stale' = (stale \ fresh) \cup (affected \ fresh)

(***************************************************************************)
(* The files the new rows of f make wrong, as the store is at the swap.    *)
(* A re-index is overtaken when the other lane has given the store rows it *)
(* did not resolve against, or f a caller or consumer it did not see.      *)
(***************************************************************************)
AffectedNow(f, content) == Callers(f) \cup Consumers(f, content.defs \ Nodes[f])

Overtaken(f, content, p, fresh, affected) ==
  overtaken' = IF p.known = Nodes /\ AffectedNow(f, content) \subseteq affected
               THEN overtaken \ fresh
               ELSE overtaken \cup fresh \cup AffectedNow(f, content)

(***************************************************************************)
(* The last stretch: after a second build, or at once when the first one   *)
(* takes nobody in.                                                        *)
(***************************************************************************)
Reindex(l) ==
  LET p == plan[l]
      f == p.file
      content == job[l].content[f]
      fresh == {g \in p.build : p.texts[g] # Absent}
      affected == p.affected \cup (IF job[l].pc = "bind" THEN NewConsumers(l) ELSE {})
  IN
  /\ \/ job[l].pc = "bind" /\ {} \in Taken(l)
     \/ job[l].pc = "swap"
  /\ Swap(f, p, fresh, affected)
  /\ Overtaken(f, content, p, fresh, affected)
  /\ orphaned' = orphaned \ fresh
  /\ indexed' = [indexed EXCEPT ![f] = content]
  /\ hash' = [hash EXCEPT ![f] = content]
  /\ job' = [job EXCEPT ![l].pc = "index", ![l].todo = @ \ {f}, ![l].changed = @ \cup {f}]
  /\ plan' = [plan EXCEPT ![l] = NoPlan]
  /\ UNCHANGED <<treeVars, queueVars, phase, signatures, happened, lost>>

(***************************************************************************)
(* The store throws, or a build: the batch is logged and gone, with the    *)
(* signatures of the files it had already indexed.                         *)
(***************************************************************************)
ReindexFails(l) ==
  /\ job[l].pc \in {"index"} \cup Building
  /\ Fault("store", job[l].todo \cup job[l].changed)
  /\ Finish(l)
  /\ plan' = [plan EXCEPT ![l] = NoPlan]
  /\ UNCHANGED <<tree, pending, pendingDeletions, ceiling, storeVars, signatures,
                 parsed, orphaned, overtaken>>

Indexed(l) ==
  /\ job[l].pc = "index"
  /\ job[l].todo = {}
  /\ IF job[l].changed = {} THEN Finish(l) ELSE Step(l, "context")
  /\ UNCHANGED <<tree, pending, pendingDeletions, ceiling, storeVars, signatures,
                 happened, lost, resolution>>

PatchSignatures(l) ==
  /\ job[l].pc = "context"
  /\ signatures' = [f \in Files |-> IF f \in job[l].changed THEN job[l].content[f]
                                    ELSE signatures[f]]
  /\ lost' = lost \ job[l].changed
  /\ Finish(l)
  /\ UNCHANGED <<tree, pending, pendingDeletions, ceiling, storeVars, happened, resolution>>

(***************************************************************************)
(* The context is missing or does not parse, or its rewrite throws.        *)
(***************************************************************************)
PatchFails(l) ==
  /\ job[l].pc = "context"
  /\ Fault("context", job[l].changed)
  /\ Finish(l)
  /\ UNCHANGED <<tree, pending, pendingDeletions, ceiling, storeVars, signatures, resolution>>
-----------------------------------------------------------------------------
(* stop *)

(***************************************************************************)
(* Nothing is drained under a running flush.                               *)
(***************************************************************************)
Stop == /\ MayStop
        /\ phase = "watching"
        /\ happened < MaxEvents
        /\ happened' = happened + 1
        /\ debounce' = FALSE /\ ceiling' = FALSE
        /\ IF running
           THEN /\ phase' = "stopped" /\ events' = {}
                /\ UNCHANGED <<job, pendingDeletions>>
           ELSE /\ phase' = "stopping"
                /\ job' = [job EXCEPT !["drain"] =
                             [NoJob EXCEPT !.drop = pendingDeletions,
                                           !.pc = IF pendingDeletions = {} THEN "take"
                                                  ELSE "deleteGraph"]]
                /\ pendingDeletions' = {}
                /\ UNCHANGED events
        /\ UNCHANGED <<tree, pending, storeVars, signatures, lost, resolution>>
-----------------------------------------------------------------------------
Deletions(l) == \/ DeleteGraph(l) \/ DeleteGraphFails(l) \/ DeleteGraphThrows(l)
                \/ DeleteSignatures(l) \/ DeleteWithoutContext(l) \/ DeleteContextThrows(l)

Batch(l) == \/ ReadFiles(l) \/ ReadFails(l)
            \/ \E f \in Files : SkipUnchanged(l, f) \/ ReadRows(l, f)
            \/ BuildSubset(l) \/ TakeConsumers(l) \/ Reindex(l)
            \/ ReindexFails(l) \/ Indexed(l)
            \/ PatchSignatures(l) \/ PatchFails(l)

LaneStep == \/ FlushTakes \/ DrainTakes
            \/ \E l \in Lanes : Deletions(l) \/ Batch(l)

WatcherNext == \/ \E f \in Files : Edit(f) \/ Enqueue(f) \/ EnqueueDeletion(f)
               \/ FlushNothing \/ Flush
               \/ LaneStep
               \/ Stop

WatcherSpec == WatcherInit /\ [][WatcherNext]_watcherVars
-----------------------------------------------------------------------------
(* Properties *)

(***************************************************************************)
(* The types, and the shape of a lane: an idle one holds nothing, and what *)
(* it indexes is part of what it took (flush, handleBatch).                *)
(***************************************************************************)
JobOK(j) == /\ j.todo \cup j.changed \subseteq j.take
            /\ j.todo \cap j.changed = {}
            /\ j.pc = "idle" => j = NoJob

WatcherTypeOK == /\ tree \in [Files -> AnyText]
                 /\ events \subseteq Files
                 /\ pending \subseteq Files /\ pendingDeletions \subseteq Files
                 /\ debounce \in BOOLEAN /\ ceiling \in BOOLEAN
                 /\ phase \in {"watching", "stopping", "stopped"}
                 /\ job \in [Lanes -> Job]
                 /\ \A l \in Lanes : JobOK(job[l])
                 /\ plan \in [Lanes -> Plan]
                 /\ indexed \in [Files -> AnyText]
                 /\ edges \subseteq Edge
                 /\ hash \in [Files -> AnyText]
                 /\ stale \subseteq Files
                 /\ signatures \in [Files -> AnyText]
                 /\ happened \in 0..MaxEvents
                 /\ lost \subseteq Files /\ orphaned \subseteq Files /\ overtaken \subseteq Files
                 /\ parsed \in [Files -> [Files -> AnyText]]

(***************************************************************************)
(* No queued file waits for nothing: a timer will fire, or the running     *)
(* lane will look at the queue again (armFlush, flush's finally, stop).    *)
(***************************************************************************)
QueueIsArmed ==
  pending \cup pendingDeletions # {} =>
    Timer \/ running \/ job["drain"].pc \in {"deleteGraph", "deleteContext", "take"}

(***************************************************************************)
(* What is on its way to the index.                                        *)
(***************************************************************************)
InWork(j) == j.drop \cup j.take
Underway == events \cup pending \cup pendingDeletions \cup UNION {InWork(job[l]) : l \in Lanes}

(***************************************************************************)
(* A file deleted and created again with the content it had: its hash row  *)
(* outlives its nodes (handleDeletions), so it is taken for unchanged.     *)
(***************************************************************************)
Revived(f) == f \in Present /\ indexed[f] = Absent /\ hash[f] = tree[f]

(***************************************************************************)
(* An edit the index or the signatures do not show yet is on its way,      *)
(* was dropped by a failure, or brought back a deleted file: the           *)
(* coalescing, the hash skip and the single flight lose nothing else.      *)
(***************************************************************************)
NothingForgotten ==
  phase = "watching" =>
    \A f \in Files : \/ indexed[f] = tree[f] /\ signatures[f] = tree[f]
                     \/ f \in Underway \cup lost
                     \/ Revived(f)

(***************************************************************************)
(* An edge points to a function the store has a row for, deleted files and *)
(* stopped watchers included: a swap deletes the edges into the nodes it   *)
(* replaces (deleteEdgesForFile).  Two exceptions: a caller resolved with  *)
(* a text of that file its own rows do not have, not yet, or never, when   *)
(* the text is undone and the hash row says unchanged; and one resolved by *)
(* a re-index another lane overtook, which takes stop()'s drain and a      *)
(* timer's flush at once (the single flight does not cover the drain).     *)
(***************************************************************************)
EdgesHaveNodes ==
  \A e \in edges : e.to \in Files /\ e.name \notin Nodes[e.to] =>
    \/ parsed[e.from][e.to] \notin {Absent, indexed[e.to]}
    \/ e.from \in overtaken

(***************************************************************************)
(* Everything is indexed and nothing is on its way.                        *)
(***************************************************************************)
Quiet == /\ Underway = {}
         /\ phase = "watching"
         /\ \A f \in Files : indexed[f] = tree[f]

EdgesOf(c) == {e \in edges : e.from = c}

(***************************************************************************)
(* "Converge with `analyze --force`, or mark the remainder explicitly      *)
(* stale": once everything is indexed, the edges of a file that is not     *)
(* flagged are those of a full analysis.  What an unflagged file may still *)
(* silently differ in, and nothing else: the edges into a file deleted     *)
(* since; all edges, when they were resolved with a text, of the file or   *)
(* of another it read, that is gone (a barrel changed, or the text was     *)
(* undone and the hash row says unchanged); an import a full analysis      *)
(* follows where the watcher keeps the caller's own function (who defines  *)
(* a fallback for what it imports is no consumer), or a binding by name    *)
(* that sorts no later (the pruned consumers, the leaf of a star barrel).  *)
(***************************************************************************)
Outranked(e, full) == /\ full.tier = "import"
                      /\ \/ e.tier = "same_file"
                         \/ e.tier = "name_only" /\ e.to <= full.to

DivergesOnlyAsKnown ==
  Quiet => \A c \in {f \in Present \ (stale \cup orphaned) :
                     \A g \in Files : parsed[f][g] \in {Absent, tree[g]}} :
             /\ {e.name : e \in EdgesOf(c)} = tree[c].calls
             /\ \A e \in EdgesOf(c) :
                  LET full == CHOOSE d \in FullEdges(Sources) : d.from = c /\ d.name = e.name
                  IN  e = full \/ Outranked(e, full)
=============================================================================
