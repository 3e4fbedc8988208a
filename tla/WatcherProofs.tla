---------------------------- MODULE WatcherProofs -----------------------------
(***************************************************************************)
(* Theorems about Watcher, for every value of its constants.  The queues   *)
(* come first, then the rows and the edges into them, then what the edges  *)
(* of a file say compared with a full analysis.                            *)
(***************************************************************************)
EXTENDS Watcher, CallGraphProofs

(***************************************************************************)
(* The inductive invariant: a conjunction of named parts.  First, of the   *)
(* lanes: one holds files to index only while it indexes, with the texts   *)
(* it read; the drain belongs to stop().                                   *)
(***************************************************************************)
BatchIsRead(j) == /\ j.pc \in {"idle", "deleteGraph", "deleteContext", "take", "read"} =>
                       j.todo \cup j.changed = {}
                  /\ j.pc = "context" => j.todo = {}
                  /\ \A f \in j.todo \cup j.changed : j.content[f] # Absent
DrainRests == phase = "watching" => job["drain"] = NoJob

(***************************************************************************)
(* QueueIsArmed: deletions are waited for by a timer or a flush, changes   *)
(* by the drain as well until it has taken them.                           *)
(***************************************************************************)
Draining == {"deleteGraph", "deleteContext", "take"}
DeletionsAreArmed == pendingDeletions # {} => Timer \/ running
ChangesAreArmed == pending # {} => Timer \/ running \/ job["drain"].pc \in Draining

LanesHold == /\ job \in [Lanes -> Job]
             /\ \A l \in Lanes : JobOK(job[l]) /\ BatchIsRead(job[l])
             /\ DrainRests /\ DeletionsAreArmed /\ ChangesAreArmed

(***************************************************************************)
(* A hash row tells the text of the node rows, if there are any.           *)
(***************************************************************************)
HashIsIndexed == \A f \in Files : hash[f] # Absent => indexed[f] \in {hash[f], Absent}

(***************************************************************************)
(* NothingForgotten, while the watcher runs.  A file is told while a       *)
(* notification of its last edit waits somewhere; settled when it is told, *)
(* lost, revived or shown as it is.                                        *)
(***************************************************************************)
Told(f) == f \in events \cup pending \cup pendingDeletions
Shown(f) == indexed[f] = tree[f] /\ signatures[f] = tree[f]
Settled(f) == Told(f) \/ f \in lost \/ Revived(f) \/ Shown(f)

(* What the flush has in hand. *)
Dropping(f) == job["flush"].pc \in {"deleteGraph", "deleteContext"} /\ f \in job["flush"].drop
Taking(f) == /\ job["flush"].pc \in {"deleteGraph", "deleteContext", "take", "read"}
             /\ f \in job["flush"].take
Indexing(f) == f \in job["flush"].todo \cup job["flush"].changed

(* A queued deletion is of a file that is gone, a queued change of one that
   is there, or a newer notification is on its way. *)
QueuesAreTrue(f) == /\ f \in pendingDeletions => tree[f] = Absent \/ f \in events
                    /\ f \in pending => tree[f] # Absent \/ f \in events

(* The same of what the flush has in hand. *)
HandIsTrue(f) ==
  /\ Dropping(f) => Told(f) \/ tree[f] = Absent
  /\ Dropping(f) /\ job["flush"].pc = "deleteContext" => f \in lost \/ indexed[f] = Absent
  /\ Taking(f) => Told(f) \/ tree[f] # Absent
  /\ Indexing(f) => Told(f) \/ job["flush"].content[f] = tree[f]
  /\ f \in job["flush"].changed => job["flush"].content[f] = indexed[f]

(* The signatures lag behind the rows only on the way. *)
SignaturesFollow(f) ==
  \/ signatures[f] = indexed[f]
  \/ f \in lost
  \/ f \in job["flush"].changed
  \/ job["flush"].pc = "deleteContext" /\ f \in job["flush"].drop

NothingSlips ==
  phase = "watching" =>
    \A f \in Files : /\ QueuesAreTrue(f) /\ HandIsTrue(f) /\ SignaturesFollow(f)
                     /\ Settled(f) \/ Dropping(f) \/ Taking(f) \/ Indexing(f)

WatcherIInv == WatcherTypeOK /\ LanesHold /\ HashIsIndexed /\ NothingSlips /\ EdgesHaveNodes

(***************************************************************************)
(* The rest of it, of a re-index between its awaits: it has parsed the     *)
(* changed file with the text of the batch, and while the watcher runs,    *)
(* one lane and no more, nobody changes what it has read: its rows are the *)
(* store's, and it knows every caller and, once bound, every consumer.     *)
(***************************************************************************)
PlanIsOwn(l) ==
  LET f == plan[l].file IN
  job[l].pc \in Building =>
    /\ f \in job[l].todo /\ f \in plan[l].build
    /\ job[l].pc \in {"bind", "swap"} => plan[l].texts[f] = job[l].content[f]

PlanIsCurrent(l) ==
  job[l].pc \in Building =>
    /\ plan[l].known = Nodes
    /\ Callers(plan[l].file) \subseteq plan[l].affected
    /\ job[l].pc \in {"rebuild", "swap"} => NewConsumers(l) \subseteq plan[l].affected

PlansHold == /\ \A l \in Lanes : PlanIsOwn(l)
             /\ phase = "watching" => overtaken = {} /\ PlanIsCurrent("flush")
-----------------------------------------------------------------------------
(* One field of a lane, the others as they were *)

LEMMA JobPc ==
  ASSUME NEW j \in Job, NEW x \in LanePCs
  PROVE  /\ [j EXCEPT !.pc = x] \in Job
         /\ [j EXCEPT !.pc = x].pc = x
         /\ [j EXCEPT !.pc = x].drop = j.drop
         /\ [j EXCEPT !.pc = x].take = j.take
         /\ [j EXCEPT !.pc = x].content = j.content
         /\ [j EXCEPT !.pc = x].todo = j.todo
         /\ [j EXCEPT !.pc = x].changed = j.changed
BY DEF Job

LEMMA JobDrop ==
  ASSUME NEW j \in Job, NEW x \in SUBSET Files
  PROVE  /\ [j EXCEPT !.drop = x] \in Job
         /\ [j EXCEPT !.drop = x].pc = j.pc
         /\ [j EXCEPT !.drop = x].drop = x
         /\ [j EXCEPT !.drop = x].take = j.take
         /\ [j EXCEPT !.drop = x].content = j.content
         /\ [j EXCEPT !.drop = x].todo = j.todo
         /\ [j EXCEPT !.drop = x].changed = j.changed
BY DEF Job

LEMMA JobTake ==
  ASSUME NEW j \in Job, NEW x \in SUBSET Files
  PROVE  /\ [j EXCEPT !.take = x] \in Job
         /\ [j EXCEPT !.take = x].pc = j.pc
         /\ [j EXCEPT !.take = x].drop = j.drop
         /\ [j EXCEPT !.take = x].take = x
         /\ [j EXCEPT !.take = x].content = j.content
         /\ [j EXCEPT !.take = x].todo = j.todo
         /\ [j EXCEPT !.take = x].changed = j.changed
BY DEF Job

LEMMA JobContent ==
  ASSUME NEW j \in Job, NEW x \in [Files -> AnyText]
  PROVE  /\ [j EXCEPT !.content = x] \in Job
         /\ [j EXCEPT !.content = x].pc = j.pc
         /\ [j EXCEPT !.content = x].drop = j.drop
         /\ [j EXCEPT !.content = x].take = j.take
         /\ [j EXCEPT !.content = x].content = x
         /\ [j EXCEPT !.content = x].todo = j.todo
         /\ [j EXCEPT !.content = x].changed = j.changed
BY DEF Job

LEMMA JobTodo ==
  ASSUME NEW j \in Job, NEW x \in SUBSET Files
  PROVE  /\ [j EXCEPT !.todo = x] \in Job
         /\ [j EXCEPT !.todo = x].pc = j.pc
         /\ [j EXCEPT !.todo = x].drop = j.drop
         /\ [j EXCEPT !.todo = x].take = j.take
         /\ [j EXCEPT !.todo = x].content = j.content
         /\ [j EXCEPT !.todo = x].todo = x
         /\ [j EXCEPT !.todo = x].changed = j.changed
BY DEF Job

LEMMA JobChanged ==
  ASSUME NEW j \in Job, NEW x \in SUBSET Files
  PROVE  /\ [j EXCEPT !.changed = x] \in Job
         /\ [j EXCEPT !.changed = x].pc = j.pc
         /\ [j EXCEPT !.changed = x].drop = j.drop
         /\ [j EXCEPT !.changed = x].take = j.take
         /\ [j EXCEPT !.changed = x].content = j.content
         /\ [j EXCEPT !.changed = x].todo = j.todo
         /\ [j EXCEPT !.changed = x].changed = x
BY DEF Job

LEMMA NoJobIsJob ==
  /\ NoJob \in Job
  /\ NoJob.pc = "idle" /\ NoJob.drop = {} /\ NoJob.take = {}
  /\ NoJob.todo = {} /\ NoJob.changed = {}
<1>1. Absent \in AnyText
  BY DEF AnyText
<1>2. [f \in Files |-> Absent] \in [Files -> AnyText]
  BY <1>1
<1> QED BY <1>2 DEF NoJob, Job, LanePCs

LEMMA JobFields ==
  ASSUME NEW j \in Job
  PROVE  /\ j.pc \in LanePCs /\ j.drop \in SUBSET Files /\ j.take \in SUBSET Files
         /\ j.content \in [Files -> AnyText]
         /\ j.todo \in SUBSET Files /\ j.changed \in SUBSET Files
BY DEF Job
-----------------------------------------------------------------------------
(* What a lane does to the parts that are about lanes *)

LEMMA JobsTyped ==
  ASSUME job \in [Lanes -> Job], NEW l \in Lanes, NEW j \in Job, job' = [job EXCEPT ![l] = j]
  PROVE  /\ job' \in [Lanes -> Job] /\ job'[l] = j
         /\ \A m \in Lanes : m # l => job'[m] = job[m]
OBVIOUS

(***************************************************************************)
(* A lane goes on with its batch.                                          *)
(***************************************************************************)
LEMMA LaneMoves ==
  ASSUME LanesHold, NEW l \in Lanes, NEW j \in Job, job' = [job EXCEPT ![l] = j],
         job[l].pc # "idle", j.pc # "idle", JobOK(j), BatchIsRead(j),
         l = "drain" /\ job[l].pc \in Draining => j.pc \in Draining,
         UNCHANGED <<pending, pendingDeletions, debounce, ceiling, phase>>
  PROVE  LanesHold'
<1>1. /\ job' \in [Lanes -> Job] /\ job'[l] = j
      /\ \A m \in Lanes : m # l => job'[m] = job[m]
  BY JobsTyped DEF LanesHold
<1>2. \A m \in Lanes : JobOK(job'[m]) /\ BatchIsRead(job'[m])
  BY <1>1 DEF LanesHold
<1>3. l = "drain" => phase # "watching"
  BY NoJobIsJob DEF LanesHold, DrainRests
<1>4. DrainRests'
  BY <1>1, <1>3 DEF LanesHold, DrainRests, Lanes
<1>5. running => running'
  BY <1>1 DEF running, Lanes
<1>6. DeletionsAreArmed'
  BY <1>5 DEF LanesHold, DeletionsAreArmed, Timer
<1>7. job["drain"].pc \in Draining => job'["drain"].pc \in Draining
  BY <1>1 DEF Lanes
<1>8. ChangesAreArmed'
  BY <1>5, <1>7 DEF LanesHold, ChangesAreArmed, Timer
<1> QED BY <1>1, <1>2, <1>4, <1>6, <1>8 DEF LanesHold, JobOK, BatchIsRead

(***************************************************************************)
(* The end of a lane; the drain does not end before it took the changes.   *)
(***************************************************************************)
LEMMA LaneEnds ==
  ASSUME WatcherTypeOK, LanesHold, NEW l \in Lanes, Finish(l),
         job[l].pc # "idle", l = "drain" => job[l].pc \notin Draining,
         UNCHANGED <<pending, pendingDeletions, ceiling>>
  PROVE  LanesHold'
<1>1. /\ job' \in [Lanes -> Job] /\ job'[l] = NoJob
      /\ \A m \in Lanes : m # l => job'[m] = job[m]
  BY JobsTyped, NoJobIsJob DEF LanesHold, Finish
<1>2. JobOK(NoJob) /\ BatchIsRead(NoJob)
  BY NoJobIsJob DEF JobOK, BatchIsRead
<1>3. \A m \in Lanes : JobOK(job'[m]) /\ BatchIsRead(job'[m])
  BY <1>1, <1>2 DEF LanesHold
<1>4. CASE l = "flush"
  <2>1. phase' = phase /\ job'["drain"] = job["drain"] /\ job'["flush"] = NoJob
    BY <1>1, <1>4 DEF Finish, Lanes
  <2>2. pending' \cup pendingDeletions' # {} => Timer'
    BY <1>4 DEF Finish, Timer
  <2>3. DrainRests' /\ DeletionsAreArmed' /\ ChangesAreArmed'
    BY <2>1, <2>2 DEF LanesHold, DrainRests, DeletionsAreArmed, ChangesAreArmed
  <2> QED BY <1>1, <1>3, <2>3 DEF LanesHold, JobOK, BatchIsRead
<1>5. CASE l = "drain"
  <2>1. /\ phase' = "stopped" /\ job'["flush"] = job["flush"] /\ UNCHANGED <<debounce, ceiling>>
    BY <1>1, <1>5 DEF Finish, Lanes
  <2>2. DrainRests'
    BY <2>1 DEF DrainRests
  <2>3. DeletionsAreArmed' /\ ChangesAreArmed'
    BY <1>5, <2>1 DEF LanesHold, DeletionsAreArmed, ChangesAreArmed, Timer, running
  <2> QED BY <1>1, <1>3, <2>2, <2>3 DEF LanesHold, JobOK, BatchIsRead
<1> QED BY <1>4, <1>5 DEF Lanes

LEMMA EndIsTyped ==
  ASSUME WatcherTypeOK, NEW l \in Lanes, Finish(l)
  PROVE  /\ events' \in SUBSET Files /\ debounce' \in BOOLEAN
         /\ phase' \in {"watching", "stopping", "stopped"}
<1>1. CASE l = "flush"
  BY <1>1 DEF Finish, WatcherTypeOK
<1>2. CASE l = "drain"
  BY <1>2 DEF Finish, WatcherTypeOK
<1> QED BY <1>1, <1>2 DEF Lanes

(***************************************************************************)
(* A step between two awaits.                                              *)
(***************************************************************************)
LEMMA StepMoves ==
  ASSUME LanesHold, NEW l \in Lanes, NEW x \in LanePCs, Step(l, x)
  PROVE  /\ job' = [job EXCEPT ![l] = job'[l]] /\ job'[l] \in Job
         /\ \A m \in Lanes : m # l => job'[m] = job[m]
         /\ job'[l].pc = x
         /\ job'[l].drop = job[l].drop /\ job'[l].take = job[l].take
         /\ job'[l].content = job[l].content
         /\ job'[l].todo = job[l].todo /\ job'[l].changed = job[l].changed
<1> DEFINE j == [job[l] EXCEPT !.pc = x]
<1>1. job \in [Lanes -> Job] /\ job[l] \in Job
  BY DEF LanesHold
<1>2. job' = [job EXCEPT ![l] = j]
  BY DEF Step
<1>3. /\ j \in Job /\ j.pc = x
      /\ j.drop = job[l].drop /\ j.take = job[l].take /\ j.content = job[l].content
      /\ j.todo = job[l].todo /\ j.changed = job[l].changed
  BY <1>1, JobPc
<1> HIDE DEF j
<1>4. job'[l] = j /\ \A m \in Lanes : m # l => job'[m] = job[m]
  BY <1>1, <1>2, <1>3, JobsTyped
<1> QED BY <1>2, <1>3, <1>4

LEMMA StepHolds ==
  ASSUME LanesHold, NEW l \in Lanes, NEW x \in LanePCs, Step(l, x),
         job[l].pc # "idle", x # "idle",
         x \in {"idle", "deleteGraph", "deleteContext", "take", "read"} =>
           job[l].todo \cup job[l].changed = {},
         x = "context" => job[l].todo = {},
         l = "drain" /\ job[l].pc \in Draining => x \in Draining,
         UNCHANGED <<pending, pendingDeletions, ceiling>>
  PROVE  LanesHold'
<1>1. /\ job' = [job EXCEPT ![l] = job'[l]] /\ job'[l] \in Job
      /\ job'[l].pc = x
      /\ job'[l].drop = job[l].drop /\ job'[l].take = job[l].take
      /\ job'[l].content = job[l].content
      /\ job'[l].todo = job[l].todo /\ job'[l].changed = job[l].changed
  BY StepMoves
<1>2. JobOK(job'[l]) /\ BatchIsRead(job'[l])
  BY <1>1 DEF LanesHold, JobOK, BatchIsRead
<1>3. UNCHANGED <<debounce, phase>>
  BY DEF Step
<1> QED BY <1>1, <1>2, <1>3, LaneMoves
-----------------------------------------------------------------------------
(* The actions *)

LEMMA EditKeeps ==
  ASSUME WatcherIInv, NEW f \in Files, Edit(f)
  PROVE  WatcherIInv'
<1>1. PICK text \in Texts[f] \cup {Absent} : tree' = [tree EXCEPT ![f] = text]
  BY DEF Edit
<1>2. /\ events' = (IF phase = "stopped" THEN events ELSE events \cup {f})
      /\ happened < MaxEvents /\ happened' = happened + 1
      /\ UNCHANGED <<pending, pendingDeletions, debounce, ceiling, phase, job, indexed, edges, hash,
                     stale, signatures, lost, plan, parsed, orphaned, overtaken>>
  BY DEF Edit, queueVars, storeVars, resolution
<1>3. text \in AnyText
  BY <1>1 DEF AnyText
<1>4. WatcherTypeOK'
  BY <1>1, <1>2, <1>3, WatcherBoundsAssumption
     DEF WatcherIInv, WatcherTypeOK, WatcherBoundsAssumption, JobOK
<1>5. LanesHold'
  BY <1>2 DEF WatcherIInv, LanesHold, JobOK, BatchIsRead, DrainRests, DeletionsAreArmed,
              ChangesAreArmed, Timer, running
<1>6. HashIsIndexed' /\ EdgesHaveNodes'
  BY <1>2 DEF WatcherIInv, HashIsIndexed, EdgesHaveNodes, Nodes
<1>7. NothingSlips'
  <2> SUFFICES ASSUME phase' = "watching", NEW g \in Files
               PROVE  /\ QueuesAreTrue(g)' /\ HandIsTrue(g)' /\ SignaturesFollow(g)'
                      /\ Settled(g)' \/ Dropping(g)' \/ Taking(g)' \/ Indexing(g)'
    BY DEF NothingSlips
  <2>1. /\ QueuesAreTrue(g) /\ HandIsTrue(g) /\ SignaturesFollow(g)
        /\ Settled(g) \/ Dropping(g) \/ Taking(g) \/ Indexing(g)
    BY <1>2 DEF WatcherIInv, NothingSlips
  <2>2. events' = events \cup {f}
    BY <1>2
  <2>3. tree \in [Files -> AnyText]
    BY DEF WatcherIInv, WatcherTypeOK
  <2>4. g = f \/ tree'[g] = tree[g]
    BY <1>1, <2>3
  <2>5. Dropping(g)' = Dropping(g) /\ Taking(g)' = Taking(g) /\ Indexing(g)' = Indexing(g)
    BY <1>2 DEF Dropping, Taking, Indexing
  <2>6. SignaturesFollow(g)'
    BY <1>2, <2>1 DEF SignaturesFollow
  <2>7. CASE g = f
    <3>1. Told(g)' /\ g \in events'
      BY <2>2, <2>7 DEF Told
    <3> QED BY <1>2, <2>1, <2>5, <2>6, <3>1 DEF QueuesAreTrue, HandIsTrue, Settled
  <2>8. CASE tree'[g] = tree[g]
    <3>1. (Told(g) => Told(g)') /\ (g \in events => g \in events')
      BY <1>2, <2>2 DEF Told
    <3>2. Settled(g) => Settled(g)'
      BY <1>2, <2>8, <3>1 DEF Settled, Revived, Present, Shown
    <3> QED BY <1>2, <2>1, <2>5, <2>6, <2>8, <3>1, <3>2 DEF QueuesAreTrue, HandIsTrue
  <2> QED BY <2>4, <2>7, <2>8
<1> QED BY <1>4, <1>5, <1>6, <1>7 DEF WatcherIInv

(***************************************************************************)
(* Both queueing actions: a notification goes into a queue.                *)
(***************************************************************************)
LEMMA QueueingKeeps ==
  ASSUME WatcherIInv, NEW f \in Files,
         Enqueue(f) \/ EnqueueDeletion(f)
  PROVE  WatcherIInv'
<1>1. /\ f \in events /\ events' = events \ {f}
      /\ \/ /\ tree[f] # Absent
            /\ pending' = pending \cup {f} /\ pendingDeletions' = pendingDeletions \ {f}
         \/ /\ tree[f] = Absent
            /\ pending' = pending \ {f} /\ pendingDeletions' = pendingDeletions \cup {f}
      /\ debounce' = TRUE /\ ceiling' = TRUE
      /\ UNCHANGED <<tree, phase, job, indexed, edges, hash, stale, signatures, happened, lost,
                     plan, parsed, orphaned, overtaken>>
  BY DEF Enqueue, EnqueueDeletion, Present, storeVars, resolution
<1>2. WatcherTypeOK'
  BY <1>1 DEF WatcherIInv, WatcherTypeOK, JobOK
<1>3. LanesHold'
  BY <1>1 DEF WatcherIInv, LanesHold, JobOK, BatchIsRead, DrainRests, DeletionsAreArmed,
              ChangesAreArmed, Timer, running
<1>4. HashIsIndexed' /\ EdgesHaveNodes'
  BY <1>1 DEF WatcherIInv, HashIsIndexed, EdgesHaveNodes, Nodes
<1>5. NothingSlips'
  <2> SUFFICES ASSUME phase' = "watching", NEW g \in Files
               PROVE  /\ QueuesAreTrue(g)' /\ HandIsTrue(g)' /\ SignaturesFollow(g)'
                      /\ Settled(g)' \/ Dropping(g)' \/ Taking(g)' \/ Indexing(g)'
    BY DEF NothingSlips
  <2>1. /\ QueuesAreTrue(g) /\ HandIsTrue(g) /\ SignaturesFollow(g)
        /\ Settled(g) \/ Dropping(g) \/ Taking(g) \/ Indexing(g)
    BY <1>1 DEF WatcherIInv, NothingSlips
  <2>2. Told(g) => Told(g)'
    BY <1>1 DEF Told
  <2>3. QueuesAreTrue(g)'
    BY <1>1, <2>1 DEF QueuesAreTrue
  <2>4. HandIsTrue(g)' /\ SignaturesFollow(g)'
    BY <1>1, <2>1, <2>2 DEF HandIsTrue, SignaturesFollow, Dropping, Taking, Indexing
  <2>5. Settled(g) => Settled(g)'
    BY <1>1, <2>2 DEF Settled, Revived, Present, Shown
  <2>6. Settled(g)' \/ Dropping(g)' \/ Taking(g)' \/ Indexing(g)'
    BY <1>1, <2>1, <2>5 DEF Dropping, Taking, Indexing
  <2> QED BY <2>3, <2>4, <2>6
<1> QED BY <1>2, <1>3, <1>4, <1>5 DEF WatcherIInv

LEMMA FlushNothingKeeps ==
  ASSUME WatcherIInv, FlushNothing
  PROVE  WatcherIInv'
<1>1. /\ running \/ pending \cup pendingDeletions = {}
      /\ debounce' = FALSE /\ ceiling' = FALSE
      /\ UNCHANGED <<tree, events, pending, pendingDeletions, phase, job, indexed, edges, hash,
                     stale, signatures, happened, lost, plan, parsed, orphaned, overtaken>>
  BY DEF FlushNothing, treeVars, storeVars, resolution
<1>2. WatcherTypeOK'
  BY <1>1 DEF WatcherIInv, WatcherTypeOK, JobOK
<1>3. LanesHold'
  BY <1>1 DEF WatcherIInv, LanesHold, JobOK, BatchIsRead, DrainRests, DeletionsAreArmed,
              ChangesAreArmed, Timer, running
<1>4. HashIsIndexed' /\ EdgesHaveNodes'
  BY <1>1 DEF WatcherIInv, HashIsIndexed, EdgesHaveNodes, Nodes
<1>5. NothingSlips'
  BY <1>1 DEF WatcherIInv, NothingSlips, QueuesAreTrue, HandIsTrue, SignaturesFollow, Settled,
              Dropping, Taking, Indexing, Told, Revived, Present, Shown
<1> QED BY <1>2, <1>3, <1>4, <1>5 DEF WatcherIInv

LEMMA FlushKeeps ==
  ASSUME WatcherIInv, Flush
  PROVE  WatcherIInv'
<1> DEFINE x == IF pendingDeletions # {} THEN "deleteGraph" ELSE "read"
           one == [NoJob EXCEPT !.drop = pendingDeletions]
           two == [one EXCEPT !.take = pending]
           new == [two EXCEPT !.pc = x]
<1>1. /\ ~running
      /\ job' = [job EXCEPT !["flush"] = new]
      /\ pending' = {} /\ pendingDeletions' = {}
      /\ debounce' = FALSE /\ ceiling' = FALSE
      /\ UNCHANGED <<tree, events, phase, indexed, edges, hash, stale, signatures, happened, lost,
                     plan, parsed, orphaned, overtaken>>
  BY DEF Flush, treeVars, storeVars, resolution
<1>2. pending \in SUBSET Files /\ pendingDeletions \in SUBSET Files /\ job \in [Lanes -> Job]
  BY DEF WatcherIInv, WatcherTypeOK
<1>3. x \in {"deleteGraph", "read"} /\ x \in LanePCs
  BY DEF LanePCs
<1>4. /\ one \in Job /\ one.take = {} /\ one.drop = pendingDeletions
      /\ one.todo = {} /\ one.changed = {}
  BY <1>2, NoJobIsJob, JobDrop
<1> HIDE DEF one
<1>5. /\ two \in Job /\ two.take = pending /\ two.drop = pendingDeletions
      /\ two.todo = {} /\ two.changed = {}
  BY <1>2, <1>4, JobTake
<1> HIDE DEF two, x
<1>6. /\ new \in Job /\ new.pc = x /\ new.take = pending /\ new.drop = pendingDeletions
      /\ new.todo = {} /\ new.changed = {}
  BY <1>3, <1>5, JobPc
<1> HIDE DEF new
<1>7. /\ job' \in [Lanes -> Job] /\ job'["flush"] = new /\ job'["drain"] = job["drain"]
  BY <1>1, <1>2, <1>6, JobsTyped DEF Lanes
<1>8. \A l \in Lanes : JobOK(job'[l]) /\ BatchIsRead(job'[l])
  BY <1>3, <1>6, <1>7 DEF WatcherIInv, LanesHold, JobOK, BatchIsRead, Lanes
<1>9. LanesHold'
  <2>1. DrainRests'
    BY <1>1, <1>7 DEF WatcherIInv, LanesHold, DrainRests
  <2>2. DeletionsAreArmed' /\ ChangesAreArmed'
    BY <1>1 DEF DeletionsAreArmed, ChangesAreArmed
  <2> QED BY <1>7, <1>8, <2>1, <2>2 DEF LanesHold, JobOK, BatchIsRead
<1>10. WatcherTypeOK'
  BY <1>1, <1>7, <1>8 DEF WatcherIInv, WatcherTypeOK, JobOK
<1>11. HashIsIndexed' /\ EdgesHaveNodes'
  BY <1>1 DEF WatcherIInv, HashIsIndexed, EdgesHaveNodes, Nodes
<1>12. NothingSlips'
  <2> SUFFICES ASSUME phase' = "watching", NEW g \in Files
               PROVE  /\ QueuesAreTrue(g)' /\ HandIsTrue(g)' /\ SignaturesFollow(g)'
                      /\ Settled(g)' \/ Dropping(g)' \/ Taking(g)' \/ Indexing(g)'
    BY DEF NothingSlips
  <2>1. job["flush"] = NoJob
    BY <1>1 DEF WatcherIInv, LanesHold, running, JobOK, Lanes
  <2>2. ~Dropping(g) /\ ~Taking(g) /\ ~Indexing(g) /\ g \notin job["flush"].changed
        /\ job["flush"].pc # "deleteContext"
    BY <2>1, NoJobIsJob DEF Dropping, Taking, Indexing
  <2>3. QueuesAreTrue(g) /\ SignaturesFollow(g) /\ Settled(g)
    BY <1>1, <2>2 DEF WatcherIInv, NothingSlips
  <2>4. QueuesAreTrue(g)'
    BY <1>1 DEF QueuesAreTrue
  <2>5. SignaturesFollow(g)'
    BY <1>1, <2>2, <2>3 DEF SignaturesFollow
  <2>6. HandIsTrue(g)'
    BY <1>1, <1>3, <1>6, <1>7, <2>3 DEF HandIsTrue, QueuesAreTrue, Dropping, Taking, Indexing, Told
  <2>7. g \in pendingDeletions => Dropping(g)'
    BY <1>6, <1>7 DEF Dropping, x
  <2>8. g \in pending => Taking(g)'
    BY <1>3, <1>6, <1>7 DEF Taking
  <2>9. Settled(g)' \/ Dropping(g)' \/ Taking(g)'
    BY <1>1, <2>3, <2>7, <2>8 DEF Settled, Told, Revived, Present, Shown
  <2> QED BY <2>4, <2>5, <2>6, <2>9
<1> QED BY <1>9, <1>10, <1>11, <1>12 DEF WatcherIInv

LEMMA StopKeeps ==
  ASSUME WatcherIInv, Stop
  PROVE  WatcherIInv'
<1>1. /\ phase = "watching" /\ happened < MaxEvents /\ happened' = happened + 1
      /\ debounce' = FALSE /\ ceiling' = FALSE
      /\ UNCHANGED <<tree, pending, indexed, edges, hash, stale, signatures, lost, plan, parsed,
                     orphaned, overtaken>>
  BY DEF Stop, storeVars, resolution
<1>2. HashIsIndexed' /\ EdgesHaveNodes'
  BY <1>1 DEF WatcherIInv, HashIsIndexed, EdgesHaveNodes, Nodes
<1>3. happened' \in 0..MaxEvents
  BY <1>1, WatcherBoundsAssumption DEF WatcherIInv, WatcherTypeOK, WatcherBoundsAssumption
<1>4. CASE running
  <2>1. phase' = "stopped" /\ events' = {} /\ UNCHANGED <<job, pendingDeletions>>
    BY <1>4 DEF Stop
  <2>2. WatcherTypeOK'
    BY <1>1, <1>3, <2>1 DEF WatcherIInv, WatcherTypeOK, JobOK
  <2>3. LanesHold'
    BY <1>1, <1>4, <2>1 DEF WatcherIInv, LanesHold, JobOK, BatchIsRead, DrainRests,
                            DeletionsAreArmed, ChangesAreArmed, Timer, running
  <2>4. NothingSlips'
    BY <2>1 DEF NothingSlips
  <2> QED BY <1>2, <2>2, <2>3, <2>4 DEF WatcherIInv
<1>5. CASE ~running
  <2> DEFINE x == IF pendingDeletions = {} THEN "take" ELSE "deleteGraph"
             one == [NoJob EXCEPT !.drop = pendingDeletions]
             new == [one EXCEPT !.pc = x]
  <2>1. /\ phase' = "stopping" /\ job' = [job EXCEPT !["drain"] = new]
        /\ pendingDeletions' = {} /\ UNCHANGED events
    BY <1>5 DEF Stop
  <2>2. pendingDeletions \in SUBSET Files /\ job \in [Lanes -> Job]
    BY DEF WatcherIInv, WatcherTypeOK
  <2>3. x \in {"take", "deleteGraph"} /\ x \in LanePCs
    BY DEF LanePCs
  <2>4. /\ one \in Job /\ one.take = {} /\ one.drop = pendingDeletions
        /\ one.todo = {} /\ one.changed = {}
    BY <2>2, NoJobIsJob, JobDrop
  <2> HIDE DEF one, x
  <2>5. /\ new \in Job /\ new.pc = x /\ new.take = {} /\ new.drop = pendingDeletions
        /\ new.todo = {} /\ new.changed = {}
    BY <2>3, <2>4, JobPc
  <2> HIDE DEF new
  <2>6. job' \in [Lanes -> Job] /\ job'["drain"] = new /\ job'["flush"] = job["flush"]
    BY <2>1, <2>2, <2>5, JobsTyped DEF Lanes
  <2>7. \A l \in Lanes : JobOK(job'[l]) /\ BatchIsRead(job'[l])
    BY <2>3, <2>5, <2>6 DEF WatcherIInv, LanesHold, JobOK, BatchIsRead, Lanes
  <2>8. LanesHold'
    <3>1. DrainRests' /\ DeletionsAreArmed'
      BY <2>1 DEF DrainRests, DeletionsAreArmed
    <3>2. ChangesAreArmed'
      BY <2>3, <2>5, <2>6 DEF ChangesAreArmed, Draining
    <3> QED BY <2>6, <2>7, <3>1, <3>2 DEF LanesHold, JobOK, BatchIsRead
  <2>9. WatcherTypeOK'
    BY <1>1, <1>3, <2>1, <2>6, <2>7 DEF WatcherIInv, WatcherTypeOK, JobOK
  <2>10. NothingSlips'
    BY <2>1 DEF NothingSlips
  <2> QED BY <1>2, <2>8, <2>9, <2>10 DEF WatcherIInv
<1> QED BY <1>4, <1>5
(***************************************************************************)
(* A step of the drain is none of a watching watcher.                      *)
(***************************************************************************)
LEMMA DrainWorks ==
  ASSUME WatcherIInv, NEW l \in Lanes, job[l].pc # "idle",
         phase' = phase \/ phase' = "stopped", phase' = "watching"
  PROVE  l = "flush" /\ phase = "watching"
BY NoJobIsJob DEF WatcherIInv, LanesHold, DrainRests, Lanes

LEMMA FaultTyped ==
  ASSUME WatcherTypeOK, NEW k, NEW dropped \in SUBSET Files, Fault(k, dropped)
  PROVE  lost' = lost \cup dropped /\ lost' \in SUBSET Files /\ happened' \in 0..MaxEvents
BY WatcherBoundsAssumption DEF Fault, WatcherTypeOK, WatcherBoundsAssumption

LEMMA UnparsedIsTyped == Unparsed \in [Files -> AnyText]
BY DEF Unparsed, AnyText

LEMMA NoPlanIsPlan == NoPlan \in Plan
BY UnparsedIsTyped DEF NoPlan, Plan

LEMMA LaneFields ==
  ASSUME WatcherIInv, NEW l \in Lanes
  PROVE  /\ job \in [Lanes -> Job] /\ job[l] \in Job
         /\ job[l].drop \in SUBSET Files /\ job[l].take \in SUBSET Files
         /\ job[l].content \in [Files -> AnyText]
         /\ job[l].todo \in SUBSET Files /\ job[l].changed \in SUBSET Files
         /\ job[l].todo \cup job[l].changed \subseteq job[l].take
         /\ job[l].todo \cap job[l].changed = {}
         /\ job[l].pc \in {"idle", "deleteGraph", "deleteContext", "take", "read"} =>
              job[l].todo \cup job[l].changed = {}
         /\ job[l].pc = "context" => job[l].todo = {}
         /\ \A f \in job[l].todo \cup job[l].changed : job[l].content[f] # Absent
<1>1. job \in [Lanes -> Job] /\ job[l] \in Job /\ JobOK(job[l]) /\ BatchIsRead(job[l])
  BY DEF WatcherIInv, LanesHold
<1>2. /\ job[l].drop \in SUBSET Files /\ job[l].take \in SUBSET Files
      /\ job[l].content \in [Files -> AnyText]
      /\ job[l].todo \in SUBSET Files /\ job[l].changed \in SUBSET Files
  BY <1>1, JobFields
<1> QED BY <1>1, <1>2 DEF JobOK, BatchIsRead

LEMMA DeleteGraphKeeps ==
  ASSUME WatcherIInv, NEW l \in Lanes, DeleteGraph(l)
  PROVE  WatcherIInv'
<1> DEFINE drop == job[l].drop
<1>1. /\ job[l].pc = "deleteGraph" /\ job[l].pc # "idle" /\ phase' = phase
      /\ Step(l, "deleteContext")
      /\ edges' = {e \in edges : e.from \notin drop /\ e.to \notin drop}
      /\ indexed' = [f \in Files |-> IF f \in drop THEN Absent ELSE indexed[f]]
      /\ stale' = stale \ drop
      /\ parsed' = [f \in Files |-> IF f \in drop THEN Unparsed ELSE parsed[f]]
      /\ orphaned' = (orphaned \cup UNION {Callers(f) : f \in drop}) \ drop
      /\ overtaken' = overtaken \ drop
      /\ UNCHANGED <<tree, events, pending, pendingDeletions, debounce, ceiling, hash, signatures,
                     happened, lost, plan>>
  BY DEF DeleteGraph, Step
<1>2. /\ drop \in SUBSET Files /\ job[l].todo \cup job[l].changed = {} /\ "deleteContext" \in LanePCs
  BY <1>1, LaneFields DEF LanePCs
<1>3. LanesHold'
  BY <1>1, <1>2, StepHolds DEF WatcherIInv, Draining
<1>4. /\ \A m \in Lanes : m # l => job'[m] = job[m]
      /\ job'[l].pc = "deleteContext" /\ job'[l].drop = drop /\ job'[l].take = job[l].take
      /\ job'[l].content = job[l].content
      /\ job'[l].todo = job[l].todo /\ job'[l].changed = job[l].changed
  BY <1>1, <1>2, StepMoves DEF WatcherIInv
<1>5. WatcherTypeOK'
  <2>1. indexed' \in [Files -> AnyText]
    BY <1>1 DEF WatcherIInv, WatcherTypeOK, AnyText
  <2>2. parsed' \in [Files -> [Files -> AnyText]]
    BY <1>1, UnparsedIsTyped DEF WatcherIInv, WatcherTypeOK
  <2>3. \A f \in Files : Callers(f) \subseteq Files
    BY DEF Callers, WatcherIInv, WatcherTypeOK, Edge
  <2>4. orphaned' \in SUBSET Files /\ stale' \in SUBSET Files /\ edges' \in SUBSET Edge
    BY <1>1, <1>2, <2>3 DEF WatcherIInv, WatcherTypeOK
  <2> QED BY <1>1, <1>3, <2>1, <2>2, <2>4 DEF WatcherIInv, WatcherTypeOK, LanesHold, JobOK
<1>6. HashIsIndexed'
  BY <1>1 DEF WatcherIInv, HashIsIndexed
<1>7. EdgesHaveNodes'
  <2> SUFFICES ASSUME NEW e \in edges', e.to \in Files, e.name \notin Nodes'[e.to]
               PROVE  \/ parsed'[e.from][e.to] \notin {Absent, indexed'[e.to]}
                      \/ e.from \in overtaken'
    BY DEF EdgesHaveNodes
  <2>1. e \in edges /\ e.from \notin drop /\ e.to \notin drop /\ e.from \in Files
    BY <1>1 DEF WatcherIInv, WatcherTypeOK, Edge
  <2>2. parsed'[e.from] = parsed[e.from] /\ indexed'[e.to] = indexed[e.to]
    BY <1>1, <2>1
  <2>3. Nodes'[e.to] = Nodes[e.to]
    BY <2>2 DEF Nodes
  <2> QED BY <1>1, <2>1, <2>2, <2>3 DEF WatcherIInv, EdgesHaveNodes
<1>8. NothingSlips'
  <2> SUFFICES ASSUME phase' = "watching", NEW g \in Files
               PROVE  /\ QueuesAreTrue(g)' /\ HandIsTrue(g)' /\ SignaturesFollow(g)'
                      /\ Settled(g)' \/ Dropping(g)' \/ Taking(g)' \/ Indexing(g)'
    BY DEF NothingSlips
  <2>1. l = "flush" /\ phase = "watching"
    BY <1>1, DrainWorks
  <2>2. /\ QueuesAreTrue(g) /\ HandIsTrue(g) /\ SignaturesFollow(g)
        /\ Settled(g) \/ Dropping(g) \/ Taking(g) \/ Indexing(g)
    BY <2>1 DEF WatcherIInv, NothingSlips
  <2>3. Dropping(g)' = Dropping(g) /\ Taking(g)' = Taking(g) /\ ~Indexing(g) /\ ~Indexing(g)'
    BY <1>1, <1>2, <1>4, <2>1 DEF Dropping, Taking, Indexing
  <2>4. Told(g)' = Told(g) /\ QueuesAreTrue(g)'
    BY <1>1, <2>2 DEF Told, QueuesAreTrue
  <2>5. CASE g \in drop
    <3>1. Dropping(g) /\ indexed'[g] = Absent
      BY <1>1, <2>1, <2>5 DEF Dropping
    <3>2. SignaturesFollow(g)'
      BY <1>4, <2>1, <2>5 DEF SignaturesFollow
    <3>3. HandIsTrue(g)'
      BY <1>1, <1>4, <2>1, <2>2, <2>3, <2>4, <3>1 DEF HandIsTrue, Indexing
    <3> QED BY <2>3, <2>4, <3>1, <3>2, <3>3
  <2>6. CASE g \notin drop
    <3>1. indexed'[g] = indexed[g] /\ ~Dropping(g)
      BY <1>1, <2>1, <2>6 DEF Dropping
    <3>2. Settled(g)' = Settled(g)
      BY <1>1, <2>4, <3>1 DEF Settled, Revived, Present, Shown
    <3>3. SignaturesFollow(g)'
      BY <1>1, <1>4, <2>1, <2>2, <2>6, <3>1 DEF SignaturesFollow
    <3>4. HandIsTrue(g)'
      BY <1>1, <1>4, <2>1, <2>2, <2>3, <2>4, <3>1 DEF HandIsTrue, Indexing
    <3> QED BY <2>2, <2>3, <2>4, <3>1, <3>2, <3>3, <3>4
  <2> QED BY <2>5, <2>6
<1> QED BY <1>3, <1>5, <1>6, <1>7, <1>8 DEF WatcherIInv

LEMMA DeleteGraphFailsKeeps ==
  ASSUME WatcherIInv, NEW l \in Lanes, DeleteGraphFails(l)
  PROVE  WatcherIInv'
<1> DEFINE drop == job[l].drop
<1>1. /\ job[l].pc = "deleteGraph" /\ job[l].pc # "idle" /\ phase' = phase
      /\ Step(l, "deleteContext") /\ Fault("store", drop)
      /\ UNCHANGED <<tree, events, pending, pendingDeletions, debounce, ceiling, indexed, edges,
                     hash, stale, signatures, plan, parsed, orphaned, overtaken>>
  BY DEF DeleteGraphFails, Step, storeVars, resolution
<1>2. /\ drop \in SUBSET Files /\ job[l].todo \cup job[l].changed = {} /\ "deleteContext" \in LanePCs
  BY <1>1, LaneFields DEF LanePCs
<1>3. lost' = lost \cup drop /\ lost' \in SUBSET Files /\ happened' \in 0..MaxEvents
  BY <1>1, <1>2, FaultTyped DEF WatcherIInv
<1>4. LanesHold'
  BY <1>1, <1>2, StepHolds DEF WatcherIInv, Draining
<1>5. /\ job'[l].pc = "deleteContext" /\ job'[l].drop = drop /\ job'[l].take = job[l].take
      /\ job'[l].content = job[l].content
      /\ job'[l].todo = job[l].todo /\ job'[l].changed = job[l].changed
  BY <1>1, <1>2, StepMoves DEF WatcherIInv
<1>6. WatcherTypeOK'
  BY <1>1, <1>3, <1>4 DEF WatcherIInv, WatcherTypeOK, LanesHold, JobOK
<1>7. HashIsIndexed' /\ EdgesHaveNodes'
  BY <1>1 DEF WatcherIInv, HashIsIndexed, EdgesHaveNodes, Nodes
<1>8. NothingSlips'
  <2> SUFFICES ASSUME phase' = "watching", NEW g \in Files
               PROVE  /\ QueuesAreTrue(g)' /\ HandIsTrue(g)' /\ SignaturesFollow(g)'
                      /\ Settled(g)' \/ Dropping(g)' \/ Taking(g)' \/ Indexing(g)'
    BY DEF NothingSlips
  <2>1. l = "flush" /\ phase = "watching"
    BY <1>1, DrainWorks
  <2>2. /\ QueuesAreTrue(g) /\ HandIsTrue(g) /\ SignaturesFollow(g)
        /\ Settled(g) \/ Dropping(g) \/ Taking(g) \/ Indexing(g)
    BY <2>1 DEF WatcherIInv, NothingSlips
  <2>3. Dropping(g)' = Dropping(g) /\ Taking(g)' = Taking(g) /\ ~Indexing(g) /\ ~Indexing(g)'
    BY <1>1, <1>2, <1>5, <2>1 DEF Dropping, Taking, Indexing
  <2>4. Told(g)' = Told(g) /\ QueuesAreTrue(g)'
    BY <1>1, <2>2 DEF Told, QueuesAreTrue
  <2>5. Settled(g) => Settled(g)'
    BY <1>1, <1>3, <2>4 DEF Settled, Revived, Present, Shown
  <2>6. SignaturesFollow(g)'
    BY <1>1, <1>3, <1>5, <2>1, <2>2 DEF SignaturesFollow
  <2>7. Dropping(g) => g \in lost'
    BY <1>3, <2>1 DEF Dropping
  <2>8. HandIsTrue(g)'
    BY <1>1, <1>5, <2>1, <2>2, <2>3, <2>4, <2>7 DEF HandIsTrue, Indexing
  <2> QED BY <2>2, <2>3, <2>4, <2>5, <2>6, <2>8
<1> QED BY <1>4, <1>6, <1>7, <1>8 DEF WatcherIInv

LEMMA DeleteSignaturesKeeps ==
  ASSUME WatcherIInv, NEW l \in Lanes, DeleteSignatures(l)
  PROVE  WatcherIInv'
<1> DEFINE drop == job[l].drop
<1>1. /\ job[l].pc = "deleteContext" /\ job[l].pc # "idle" /\ phase' = phase
      /\ Step(l, "take")
      /\ signatures' = [f \in Files |-> IF f \in drop THEN Absent ELSE signatures[f]]
      /\ UNCHANGED <<tree, events, pending, pendingDeletions, debounce, ceiling, indexed, edges,
                     hash, stale, happened, lost, plan, parsed, orphaned, overtaken>>
  BY DEF DeleteSignatures, Step, storeVars, resolution
<1>2. /\ drop \in SUBSET Files /\ job[l].todo \cup job[l].changed = {} /\ "take" \in LanePCs
  BY <1>1, LaneFields DEF LanePCs
<1>3. LanesHold'
  BY <1>1, <1>2, StepHolds DEF WatcherIInv, Draining
<1>4. /\ job'[l].pc = "take" /\ job'[l].drop = drop /\ job'[l].take = job[l].take
      /\ job'[l].content = job[l].content
      /\ job'[l].todo = job[l].todo /\ job'[l].changed = job[l].changed
  BY <1>1, <1>2, StepMoves DEF WatcherIInv
<1>5. WatcherTypeOK'
  <2>1. signatures' \in [Files -> AnyText]
    BY <1>1 DEF WatcherIInv, WatcherTypeOK, AnyText
  <2> QED BY <1>1, <1>3, <2>1 DEF WatcherIInv, WatcherTypeOK, LanesHold, JobOK
<1>6. HashIsIndexed' /\ EdgesHaveNodes'
  BY <1>1 DEF WatcherIInv, HashIsIndexed, EdgesHaveNodes, Nodes
<1>7. NothingSlips'
  <2> SUFFICES ASSUME phase' = "watching", NEW g \in Files
               PROVE  /\ QueuesAreTrue(g)' /\ HandIsTrue(g)' /\ SignaturesFollow(g)'
                      /\ Settled(g)' \/ Dropping(g)' \/ Taking(g)' \/ Indexing(g)'
    BY DEF NothingSlips
  <2>1. l = "flush" /\ phase = "watching"
    BY <1>1, DrainWorks
  <2>2. /\ QueuesAreTrue(g) /\ HandIsTrue(g) /\ SignaturesFollow(g)
        /\ Settled(g) \/ Dropping(g) \/ Taking(g) \/ Indexing(g)
    BY <2>1 DEF WatcherIInv, NothingSlips
  <2>3. ~Dropping(g)' /\ Taking(g)' = Taking(g) /\ ~Indexing(g) /\ ~Indexing(g)'
    BY <1>1, <1>2, <1>4, <2>1 DEF Dropping, Taking, Indexing
  <2>4. Told(g)' = Told(g) /\ QueuesAreTrue(g)'
    BY <1>1, <2>2 DEF Told, QueuesAreTrue
  <2>5. HandIsTrue(g)'
    BY <1>1, <1>2, <1>4, <2>1, <2>2, <2>3, <2>4 DEF HandIsTrue, Indexing
  <2>6. CASE g \in drop
    <3>1. Dropping(g) /\ signatures'[g] = Absent
      BY <1>1, <2>1, <2>6 DEF Dropping
    <3>2. (Told(g) \/ tree[g] = Absent) /\ (g \in lost \/ indexed[g] = Absent)
      BY <1>1, <2>1, <2>2, <3>1 DEF HandIsTrue
    <3> QED BY <1>1, <2>3, <2>4, <2>5, <3>1, <3>2 DEF SignaturesFollow, Settled, Shown
  <2>7. CASE g \notin drop
    <3>1. signatures'[g] = signatures[g] /\ ~Dropping(g)
      BY <1>1, <2>1, <2>7 DEF Dropping
    <3>2. Settled(g)' = Settled(g)
      BY <1>1, <2>4, <3>1 DEF Settled, Revived, Present, Shown
    <3>3. SignaturesFollow(g)'
      BY <1>1, <1>4, <2>1, <2>2, <2>7, <3>1 DEF SignaturesFollow
    <3> QED BY <2>2, <2>3, <2>4, <2>5, <3>1, <3>2, <3>3
  <2> QED BY <2>6, <2>7
<1> QED BY <1>3, <1>5, <1>6, <1>7 DEF WatcherIInv

LEMMA DeleteWithoutContextKeeps ==
  ASSUME WatcherIInv, NEW l \in Lanes, DeleteWithoutContext(l)
  PROVE  WatcherIInv'
<1> DEFINE drop == job[l].drop
<1>1. /\ job[l].pc = "deleteContext" /\ job[l].pc # "idle" /\ phase' = phase
      /\ Step(l, "take") /\ Fault("context", drop)
      /\ UNCHANGED <<tree, events, pending, pendingDeletions, debounce, ceiling, indexed, edges,
                     hash, stale, signatures, plan, parsed, orphaned, overtaken>>
  BY DEF DeleteWithoutContext, Step, storeVars, resolution
<1>2. /\ drop \in SUBSET Files /\ job[l].todo \cup job[l].changed = {} /\ "take" \in LanePCs
  BY <1>1, LaneFields DEF LanePCs
<1>3. lost' = lost \cup drop /\ lost' \in SUBSET Files /\ happened' \in 0..MaxEvents
  BY <1>1, <1>2, FaultTyped DEF WatcherIInv
<1>4. LanesHold'
  BY <1>1, <1>2, StepHolds DEF WatcherIInv, Draining
<1>5. /\ job'[l].pc = "take" /\ job'[l].drop = drop /\ job'[l].take = job[l].take
      /\ job'[l].content = job[l].content
      /\ job'[l].todo = job[l].todo /\ job'[l].changed = job[l].changed
  BY <1>1, <1>2, StepMoves DEF WatcherIInv
<1>6. WatcherTypeOK'
  BY <1>1, <1>3, <1>4 DEF WatcherIInv, WatcherTypeOK, LanesHold, JobOK
<1>7. HashIsIndexed' /\ EdgesHaveNodes'
  BY <1>1 DEF WatcherIInv, HashIsIndexed, EdgesHaveNodes, Nodes
<1>8. NothingSlips'
  <2> SUFFICES ASSUME phase' = "watching", NEW g \in Files
               PROVE  /\ QueuesAreTrue(g)' /\ HandIsTrue(g)' /\ SignaturesFollow(g)'
                      /\ Settled(g)' \/ Dropping(g)' \/ Taking(g)' \/ Indexing(g)'
    BY DEF NothingSlips
  <2>1. l = "flush" /\ phase = "watching"
    BY <1>1, DrainWorks
  <2>2. /\ QueuesAreTrue(g) /\ HandIsTrue(g) /\ SignaturesFollow(g)
        /\ Settled(g) \/ Dropping(g) \/ Taking(g) \/ Indexing(g)
    BY <2>1 DEF WatcherIInv, NothingSlips
  <2>3. ~Dropping(g)' /\ Taking(g)' = Taking(g) /\ ~Indexing(g) /\ ~Indexing(g)'
    BY <1>1, <1>2, <1>5, <2>1 DEF Dropping, Taking, Indexing
  <2>4. Told(g)' = Told(g) /\ QueuesAreTrue(g)'
    BY <1>1, <2>2 DEF Told, QueuesAreTrue
  <2>5. Dropping(g) => g \in lost'
    BY <1>3, <2>1 DEF Dropping
  <2>6. Settled(g) \/ Dropping(g) => Settled(g)'
    BY <1>1, <1>3, <2>4, <2>5 DEF Settled, Revived, Present, Shown
  <2>7. SignaturesFollow(g)'
    BY <1>1, <1>3, <1>5, <2>1, <2>2 DEF SignaturesFollow
  <2>8. HandIsTrue(g)'
    BY <1>1, <1>2, <1>5, <2>1, <2>2, <2>3, <2>4 DEF HandIsTrue, Indexing
  <2> QED BY <2>2, <2>3, <2>4, <2>6, <2>7, <2>8
<1> QED BY <1>4, <1>6, <1>7, <1>8 DEF WatcherIInv
(***************************************************************************)
(* A lane ends and leaves the store and the signatures alone.  What it had *)
(* in hand is lost, or another notification waits.                         *)
(***************************************************************************)
LEMMA EndKeeps ==
  ASSUME WatcherIInv, NEW l \in Lanes, job[l].pc # "idle", Finish(l),
         l = "drain" => job[l].pc \notin Draining,
         lost \subseteq lost', lost' \in SUBSET Files, happened' \in 0..MaxEvents,
         plan' \in [Lanes -> Plan],
         phase = "watching" /\ l = "flush" =>
           \A g \in Files : /\ Dropping(g) \/ Indexing(g) => g \in lost'
                            /\ Taking(g) => g \in lost' \/ Told(g),
         UNCHANGED <<tree, pending, pendingDeletions, ceiling, indexed, edges, hash, stale,
                     signatures, parsed, orphaned, overtaken>>
  PROVE  WatcherIInv'
<1>1. LanesHold'
  BY LaneEnds DEF WatcherIInv
<1>2. WatcherTypeOK'
  BY <1>1, EndIsTyped DEF WatcherIInv, WatcherTypeOK, LanesHold, JobOK
<1>3. HashIsIndexed' /\ EdgesHaveNodes'
  BY DEF WatcherIInv, HashIsIndexed, EdgesHaveNodes, Nodes
<1>4. NothingSlips'
  <2> SUFFICES ASSUME phase' = "watching", NEW g \in Files
               PROVE  /\ QueuesAreTrue(g)' /\ HandIsTrue(g)' /\ SignaturesFollow(g)'
                      /\ Settled(g)' \/ Dropping(g)' \/ Taking(g)' \/ Indexing(g)'
    BY DEF NothingSlips
  <2>1. phase' = phase \/ phase' = "stopped"
    BY DEF Finish, Lanes
  <2>2. l = "flush" /\ phase = "watching"
    BY <2>1, DrainWorks
  <2>3. /\ QueuesAreTrue(g) /\ HandIsTrue(g) /\ SignaturesFollow(g)
        /\ Settled(g) \/ Dropping(g) \/ Taking(g) \/ Indexing(g)
    BY <2>2 DEF WatcherIInv, NothingSlips
  <2>4. events' = events /\ job'["flush"] = NoJob
    BY <2>2 DEF Finish, WatcherIInv, LanesHold, Lanes
  <2>5. Told(g)' = Told(g) /\ QueuesAreTrue(g)'
    BY <2>3, <2>4 DEF Told, QueuesAreTrue
  <2>6. Settled(g)'
    BY <2>2, <2>3, <2>5 DEF Settled, Revived, Present, Shown
  <2>7. SignaturesFollow(g)'
    BY <2>2, <2>3 DEF SignaturesFollow, Dropping, Indexing
  <2>8. HandIsTrue(g)'
    BY <2>4, NoJobIsJob DEF HandIsTrue, Dropping, Taking, Indexing
  <2> QED BY <2>5, <2>6, <2>7, <2>8
<1> QED BY <1>1, <1>2, <1>3, <1>4 DEF WatcherIInv

LEMMA DeleteContextThrowsKeeps ==
  ASSUME WatcherIInv, NEW l \in Lanes, DeleteContextThrows(l)
  PROVE  WatcherIInv'
<1> DEFINE gone == job[l].drop \cup job[l].take
<1>1. /\ job[l].pc = "deleteContext" /\ Fault("context", gone)
      /\ UNCHANGED <<tree, pending, pendingDeletions, ceiling, indexed, edges, hash, stale,
                     signatures, plan, parsed, orphaned, overtaken>>
  BY DEF DeleteContextThrows, storeVars, resolution
<1>2. /\ gone \in SUBSET Files /\ job[l].todo \cup job[l].changed = {} /\ "take" \in LanePCs
  BY <1>1, LaneFields DEF LanePCs
<1>3. /\ lost' = lost \cup gone /\ lost' \in SUBSET Files /\ happened' \in 0..MaxEvents
      /\ plan' \in [Lanes -> Plan]
  BY <1>1, <1>2, FaultTyped DEF WatcherIInv, WatcherTypeOK
<1>4. CASE l = "flush"
  <2>1. Finish(l)
    BY <1>4 DEF DeleteContextThrows
  <2>2. \A g \in Files : /\ Dropping(g) \/ Indexing(g) => g \in lost'
                         /\ Taking(g) => g \in lost' \/ Told(g)
    BY <1>2, <1>3, <1>4 DEF Dropping, Taking, Indexing
  <2> HIDE DEF gone
  <2> QED BY <1>1, <1>3, <1>4, <2>1, <2>2, EndKeeps
<1>5. CASE l = "drain"
  <2>1. Step(l, "take") /\ UNCHANGED <<events, debounce, phase>>
    BY <1>5 DEF DeleteContextThrows, Step
  <2>2. LanesHold'
    BY <1>1, <1>2, <2>1, StepHolds DEF WatcherIInv, Draining
  <2>3. WatcherTypeOK'
    BY <1>1, <1>3, <2>1, <2>2 DEF WatcherIInv, WatcherTypeOK, LanesHold, JobOK
  <2>4. HashIsIndexed' /\ EdgesHaveNodes'
    BY <1>1 DEF WatcherIInv, HashIsIndexed, EdgesHaveNodes, Nodes
  <2>5. NothingSlips'
    BY <1>1, <1>5, <2>1, DrainWorks DEF NothingSlips
  <2> QED BY <2>2, <2>3, <2>4, <2>5 DEF WatcherIInv
<1> QED BY <1>4, <1>5 DEF Lanes

LEMMA DeleteGraphThrowsKeeps ==
  ASSUME WatcherIInv, NEW l \in Lanes, DeleteGraphThrows(l)
  PROVE  WatcherIInv'
<1> DEFINE gone == job[l].drop \cup job[l].take
<1>1. /\ job[l].pc = "deleteGraph" /\ Fault("store", gone)
      /\ UNCHANGED <<tree, pending, pendingDeletions, ceiling, indexed, edges, hash, stale,
                     signatures, plan, parsed, orphaned, overtaken>>
  BY DEF DeleteGraphThrows, storeVars, resolution
<1>2. /\ gone \in SUBSET Files /\ job[l].todo \cup job[l].changed = {} /\ "take" \in LanePCs
  BY <1>1, LaneFields DEF LanePCs
<1>3. /\ lost' = lost \cup gone /\ lost' \in SUBSET Files /\ happened' \in 0..MaxEvents
      /\ plan' \in [Lanes -> Plan]
  BY <1>1, <1>2, FaultTyped DEF WatcherIInv, WatcherTypeOK
<1>4. CASE l = "flush"
  <2>1. Finish(l)
    BY <1>4 DEF DeleteGraphThrows
  <2>2. \A g \in Files : /\ Dropping(g) \/ Indexing(g) => g \in lost'
                         /\ Taking(g) => g \in lost' \/ Told(g)
    BY <1>2, <1>3, <1>4 DEF Dropping, Taking, Indexing
  <2> HIDE DEF gone
  <2> QED BY <1>1, <1>3, <1>4, <2>1, <2>2, EndKeeps
<1>5. CASE l = "drain"
  <2>1. Step(l, "take") /\ UNCHANGED <<events, debounce, phase>>
    BY <1>5 DEF DeleteGraphThrows, Step
  <2>2. LanesHold'
    BY <1>1, <1>2, <2>1, StepHolds DEF WatcherIInv, Draining
  <2>3. WatcherTypeOK'
    BY <1>1, <1>3, <2>1, <2>2 DEF WatcherIInv, WatcherTypeOK, LanesHold, JobOK
  <2>4. HashIsIndexed' /\ EdgesHaveNodes'
    BY <1>1 DEF WatcherIInv, HashIsIndexed, EdgesHaveNodes, Nodes
  <2>5. NothingSlips'
    BY <1>1, <1>5, <2>1, DrainWorks DEF NothingSlips
  <2> QED BY <2>2, <2>3, <2>4, <2>5 DEF WatcherIInv
<1> QED BY <1>4, <1>5 DEF Lanes

LEMMA FlushTakesKeeps ==
  ASSUME WatcherIInv, FlushTakes
  PROVE  WatcherIInv'
<1> DEFINE l == "flush"
<1>1. /\ l \in Lanes /\ job[l].pc = "take"
      /\ UNCHANGED <<tree, pending, pendingDeletions, ceiling, indexed, edges, hash, stale,
                     signatures, happened, lost, plan, parsed, orphaned, overtaken>>
  BY DEF FlushTakes, storeVars, resolution, Lanes
<1>2. /\ job[l].todo \cup job[l].changed = {} /\ "read" \in LanePCs
  BY <1>1, LaneFields DEF LanePCs
<1>3. CASE job[l].take = {}
  <2>1. Finish(l)
    BY <1>3 DEF FlushTakes
  <2>2. \A g \in Files : ~Dropping(g) /\ ~Indexing(g) /\ ~Taking(g)
    BY <1>1, <1>2, <1>3 DEF Dropping, Taking, Indexing
  <2>3. lost' \in SUBSET Files /\ happened' \in 0..MaxEvents /\ plan' \in [Lanes -> Plan]
    BY <1>1 DEF WatcherIInv, WatcherTypeOK
  <2> QED BY <1>1, <2>1, <2>2, <2>3, EndKeeps
<1>4. CASE job[l].take # {}
  <2>1. Step(l, "read") /\ UNCHANGED <<events, debounce, phase>>
    BY <1>4 DEF FlushTakes, Step
  <2>2. LanesHold'
    BY <1>1, <1>2, <2>1, StepHolds DEF WatcherIInv
  <2>3. /\ job'[l].pc = "read" /\ job'[l].take = job[l].take
        /\ job'[l].todo = job[l].todo /\ job'[l].changed = job[l].changed
    BY <1>1, <1>2, <2>1, StepMoves DEF WatcherIInv
  <2>4. WatcherTypeOK'
    BY <1>1, <2>1, <2>2 DEF WatcherIInv, WatcherTypeOK, LanesHold, JobOK
  <2>5. HashIsIndexed' /\ EdgesHaveNodes'
    BY <1>1 DEF WatcherIInv, HashIsIndexed, EdgesHaveNodes, Nodes
  <2>6. NothingSlips'
    <3> SUFFICES ASSUME phase' = "watching", NEW g \in Files
                 PROVE  /\ QueuesAreTrue(g)' /\ HandIsTrue(g)' /\ SignaturesFollow(g)'
                        /\ Settled(g)' \/ Dropping(g)' \/ Taking(g)' \/ Indexing(g)'
      BY DEF NothingSlips
    <3>1. /\ QueuesAreTrue(g) /\ HandIsTrue(g) /\ SignaturesFollow(g)
          /\ Settled(g) \/ Dropping(g) \/ Taking(g) \/ Indexing(g)
      BY <2>1 DEF WatcherIInv, NothingSlips
    <3>2. /\ ~Dropping(g) /\ ~Dropping(g)' /\ Taking(g)' = Taking(g)
          /\ ~Indexing(g) /\ ~Indexing(g)'
      BY <1>1, <1>2, <2>3 DEF Dropping, Taking, Indexing
    <3>3. Told(g)' = Told(g) /\ QueuesAreTrue(g)' /\ Settled(g)' = Settled(g)
      BY <1>1, <2>1, <3>1 DEF Told, QueuesAreTrue, Settled, Revived, Present, Shown
    <3>4. HandIsTrue(g)' /\ SignaturesFollow(g)'
      BY <1>1, <1>2, <2>3, <3>1, <3>2, <3>3 DEF HandIsTrue, SignaturesFollow
    <3> QED BY <3>1, <3>2, <3>3, <3>4
  <2> QED BY <2>2, <2>4, <2>5, <2>6 DEF WatcherIInv
<1> QED BY <1>3, <1>4

LEMMA DrainTakesKeeps ==
  ASSUME WatcherIInv, DrainTakes
  PROVE  WatcherIInv'
<1> DEFINE l == "drain"
<1>1. /\ l \in Lanes /\ job[l].pc = "take" /\ job[l].pc # "idle" /\ pending' = {}
      /\ UNCHANGED <<tree, pendingDeletions, ceiling, indexed, edges, hash, stale, signatures,
                     happened, lost, plan, parsed, orphaned, overtaken>>
  BY DEF DrainTakes, storeVars, resolution, Lanes
<1>2. /\ job \in [Lanes -> Job] /\ job[l] \in Job
      /\ job[l].todo = {} /\ job[l].changed = {} /\ "read" \in LanePCs
      /\ pending \in SUBSET Files
  BY <1>1, LaneFields DEF LanePCs, WatcherIInv, WatcherTypeOK
<1>3. HashIsIndexed' /\ EdgesHaveNodes'
  BY <1>1 DEF WatcherIInv, HashIsIndexed, EdgesHaveNodes, Nodes
<1>4. CASE pending = {}
  <2>1. Finish(l) /\ phase' = "stopped" /\ UNCHANGED <<debounce, pending>>
    BY <1>1, <1>4 DEF DrainTakes, Finish
  <2>2. /\ job' \in [Lanes -> Job] /\ job'[l] = NoJob /\ job'["flush"] = job["flush"]
    BY <1>1, <1>2, <2>1, JobsTyped, NoJobIsJob DEF Finish, Lanes
  <2>3. JobOK(NoJob) /\ BatchIsRead(NoJob)
    BY NoJobIsJob DEF JobOK, BatchIsRead
  <2>4. \A m \in Lanes : JobOK(job'[m]) /\ BatchIsRead(job'[m])
    BY <2>2, <2>3 DEF WatcherIInv, LanesHold, Lanes
  <2>5. DrainRests' /\ DeletionsAreArmed' /\ ChangesAreArmed'
    BY <1>1, <2>1, <2>2 DEF WatcherIInv, LanesHold, DrainRests, DeletionsAreArmed,
                            ChangesAreArmed, Timer, running
  <2>6. LanesHold'
    BY <2>2, <2>4, <2>5 DEF LanesHold, JobOK, BatchIsRead
  <2>7. WatcherTypeOK'
    BY <1>1, <2>1, <2>6, EndIsTyped DEF WatcherIInv, WatcherTypeOK, LanesHold, JobOK
  <2>8. NothingSlips'
    BY <2>1 DEF NothingSlips
  <2> QED BY <1>3, <2>6, <2>7, <2>8 DEF WatcherIInv
<1>5. CASE pending # {}
  <2> DEFINE one == [job[l] EXCEPT !.pc = "read"]
             new == [one EXCEPT !.take = pending]
  <2>1. job' = [job EXCEPT ![l] = new] /\ UNCHANGED <<events, debounce, phase>>
    BY <1>5 DEF DrainTakes
  <2>2. one \in Job /\ one.pc = "read" /\ one.todo = {} /\ one.changed = {}
    BY <1>2, JobPc
  <2> HIDE DEF one
  <2>3. new \in Job /\ new.pc = "read" /\ new.todo = {} /\ new.changed = {}
    BY <1>2, <2>2, JobTake
  <2> HIDE DEF new
  <2>4. job' \in [Lanes -> Job] /\ job'[l] = new /\ job'["flush"] = job["flush"]
    BY <1>1, <1>2, <2>1, <2>3, JobsTyped DEF Lanes
  <2>5. \A m \in Lanes : JobOK(job'[m]) /\ BatchIsRead(job'[m])
    BY <2>3, <2>4 DEF WatcherIInv, LanesHold, JobOK, BatchIsRead, Lanes
  <2>6. phase # "watching"
    BY <1>1, NoJobIsJob DEF WatcherIInv, LanesHold, DrainRests
  <2>7. DrainRests' /\ DeletionsAreArmed' /\ ChangesAreArmed'
    BY <1>1, <2>1, <2>4, <2>6 DEF WatcherIInv, LanesHold, DrainRests, DeletionsAreArmed,
                                  ChangesAreArmed, Timer, running
  <2>8. LanesHold'
    BY <2>4, <2>5, <2>7 DEF LanesHold, JobOK, BatchIsRead
  <2>9. WatcherTypeOK'
    BY <1>1, <2>1, <2>8 DEF WatcherIInv, WatcherTypeOK, LanesHold, JobOK
  <2>10. NothingSlips'
    BY <2>1, <2>6 DEF NothingSlips
  <2> QED BY <1>3, <2>8, <2>9, <2>10 DEF WatcherIInv
<1> QED BY <1>4, <1>5
(***************************************************************************)
(* Both ways to read a batch: the files found are indexed next, the others *)
(* are gone or lost.                                                       *)
(***************************************************************************)
LEMMA ReadKeeps ==
  ASSUME WatcherIInv, NEW l \in Lanes, job[l].pc = "read",
         NEW found \in SUBSET (job[l].take \cap Present), ReadInto(l, found),
         lost \subseteq lost', lost' \in SUBSET Files, happened' \in 0..MaxEvents,
         (job[l].take \cap Present) \ found \subseteq lost',
         UNCHANGED <<tree, pending, pendingDeletions, ceiling, indexed, edges, hash, stale,
                     signatures, plan, parsed, orphaned, overtaken>>
  PROVE  WatcherIInv'
<1>1. /\ job \in [Lanes -> Job] /\ job[l] \in Job /\ job[l].take \in SUBSET Files
      /\ job[l].todo = {} /\ job[l].changed = {}
  BY LaneFields
<1>2. \A g \in Files : l = "flush" => ~Dropping(g) /\ ~Indexing(g)
  BY <1>1 DEF Dropping, Indexing
<1>3. CASE found = {}
  <2>1. Finish(l)
    BY <1>3 DEF ReadInto
  <2>2. \A g \in Files : phase = "watching" /\ l = "flush" /\ Taking(g) => g \in lost' \/ Told(g)
    BY <1>3 DEF WatcherIInv, NothingSlips, HandIsTrue, Taking, Present
  <2>3. plan' \in [Lanes -> Plan]
    BY DEF WatcherIInv, WatcherTypeOK
  <2> QED BY <1>2, <2>1, <2>2, <2>3, EndKeeps DEF Draining
<1>4. CASE found # {}
  <2> DEFINE texts == [f \in Files |-> IF f \in found THEN tree[f] ELSE Absent]
             one == [job[l] EXCEPT !.pc = "index"]
             two == [one EXCEPT !.todo = found]
             new == [two EXCEPT !.content = texts]
  <2>1. job' = [job EXCEPT ![l] = new] /\ UNCHANGED <<events, debounce, phase>>
    BY <1>4 DEF ReadInto
  <2>2. found \in SUBSET Files /\ "index" \in LanePCs
    BY <1>1 DEF LanePCs
  <2>3. texts \in [Files -> AnyText]
    BY DEF WatcherIInv, WatcherTypeOK, AnyText
  <2>4. \A g \in found : texts[g] = tree[g] /\ texts[g] # Absent
    BY <2>2 DEF Present
  <2> HIDE DEF texts
  <2>5. one \in Job /\ one.pc = "index" /\ one.take = job[l].take /\ one.changed = {}
    BY <1>1, <2>2, JobPc
  <2> HIDE DEF one
  <2>6. /\ two \in Job /\ two.pc = "index" /\ two.take = job[l].take
        /\ two.todo = found /\ two.changed = {}
    BY <2>2, <2>5, JobTodo
  <2> HIDE DEF two
  <2>7. /\ new \in Job /\ new.pc = "index" /\ new.take = job[l].take /\ new.content = texts
        /\ new.todo = found /\ new.changed = {}
    BY <2>3, <2>6, JobContent
  <2> HIDE DEF new
  <2>8. JobOK(new) /\ BatchIsRead(new)
    BY <2>4, <2>7 DEF JobOK, BatchIsRead
  <2>9. LanesHold'
    BY <2>1, <2>7, <2>8, LaneMoves DEF WatcherIInv, Draining
  <2>10. job'[l] = new
    BY <1>1, <2>1, <2>7, JobsTyped
  <2>11. WatcherTypeOK'
    BY <2>1, <2>9 DEF WatcherIInv, WatcherTypeOK, LanesHold, JobOK
  <2>12. HashIsIndexed' /\ EdgesHaveNodes'
    BY DEF WatcherIInv, HashIsIndexed, EdgesHaveNodes, Nodes
  <2>13. NothingSlips'
    <3> SUFFICES ASSUME phase' = "watching", NEW g \in Files
                 PROVE  /\ QueuesAreTrue(g)' /\ HandIsTrue(g)' /\ SignaturesFollow(g)'
                        /\ Settled(g)' \/ Dropping(g)' \/ Taking(g)' \/ Indexing(g)'
      BY DEF NothingSlips
    <3>1. l = "flush" /\ phase = "watching"
      BY <2>1, DrainWorks
    <3>2. /\ QueuesAreTrue(g) /\ HandIsTrue(g) /\ SignaturesFollow(g)
          /\ Settled(g) \/ Dropping(g) \/ Taking(g) \/ Indexing(g)
      BY <3>1 DEF WatcherIInv, NothingSlips
    <3>3. ~Dropping(g)' /\ ~Taking(g)' /\ (Indexing(g)' <=> g \in found)
      BY <2>7, <2>10, <3>1 DEF Dropping, Taking, Indexing
    <3>4. Told(g)' = Told(g) /\ QueuesAreTrue(g)'
      BY <2>1, <3>2 DEF Told, QueuesAreTrue
    <3>5. Settled(g) => Settled(g)'
      BY <3>4 DEF Settled, Revived, Present, Shown
    <3>6. SignaturesFollow(g)'
      BY <1>1, <3>1, <3>2 DEF SignaturesFollow
    <3>7. HandIsTrue(g)'
      BY <2>4, <2>7, <2>10, <3>1, <3>3 DEF HandIsTrue
    <3>8. Taking(g) => g \in found \/ Settled(g)'
      BY <3>1, <3>2, <3>4 DEF Taking, HandIsTrue, Settled, Present
    <3> QED BY <1>2, <3>1, <3>2, <3>3, <3>4, <3>5, <3>6, <3>7, <3>8
  <2> QED BY <2>9, <2>11, <2>12, <2>13 DEF WatcherIInv
<1> QED BY <1>3, <1>4

LEMMA ReadFilesKeeps ==
  ASSUME WatcherIInv, NEW l \in Lanes, ReadFiles(l)
  PROVE  WatcherIInv'
<1>1. /\ job[l].pc = "read" /\ ReadInto(l, job[l].take \cap Present)
      /\ UNCHANGED <<tree, pending, pendingDeletions, ceiling, indexed, edges, hash, stale,
                     signatures, happened, lost, plan, parsed, orphaned, overtaken>>
  BY DEF ReadFiles, storeVars, resolution
<1>2. lost' \in SUBSET Files /\ happened' \in 0..MaxEvents
  BY <1>1 DEF WatcherIInv, WatcherTypeOK
<1> QED BY <1>1, <1>2, ReadKeeps

LEMMA ReadFailsKeeps ==
  ASSUME WatcherIInv, NEW l \in Lanes, ReadFails(l)
  PROVE  WatcherIInv'
<1>1. PICK f \in job[l].take \cap Present :
        Fault("read", {f}) /\ ReadInto(l, (job[l].take \cap Present) \ {f})
  BY DEF ReadFails
<1>2. /\ job[l].pc = "read"
      /\ UNCHANGED <<tree, pending, pendingDeletions, ceiling, indexed, edges, hash, stale,
                     signatures, plan, parsed, orphaned, overtaken>>
  BY DEF ReadFails, storeVars, resolution
<1>3. {f} \in SUBSET Files
  BY DEF Present
<1>4. lost' = lost \cup {f} /\ lost' \in SUBSET Files /\ happened' \in 0..MaxEvents
  BY <1>1, <1>3, FaultTyped DEF WatcherIInv
<1> QED BY <1>1, <1>2, <1>4, ReadKeeps

LEMMA SkipUnchangedKeeps ==
  ASSUME WatcherIInv, NEW l \in Lanes, NEW f \in Files, SkipUnchanged(l, f)
  PROVE  WatcherIInv'
<1> DEFINE rest == job[l].todo \ {f}
           new == [job[l] EXCEPT !.todo = rest]
<1>1. /\ job[l].pc = "index" /\ job[l].pc # "idle" /\ f \in job[l].todo
      /\ hash[f] = job[l].content[f]
      /\ job' = [job EXCEPT ![l] = new]
      /\ UNCHANGED <<tree, events, pending, pendingDeletions, debounce, ceiling, phase, indexed,
                     edges, hash, stale, signatures, happened, lost, plan, parsed, orphaned,
                     overtaken>>
  BY DEF SkipUnchanged, treeVars, queueVars, storeVars, resolution
<1>2. /\ job \in [Lanes -> Job] /\ job[l] \in Job /\ rest \in SUBSET Files
      /\ job[l].todo \cap job[l].changed = {} /\ job[l].content[f] # Absent
  BY <1>1, LaneFields
<1>3. /\ new \in Job /\ new.pc = "index" /\ new.drop = job[l].drop /\ new.take = job[l].take
      /\ new.content = job[l].content /\ new.todo = rest /\ new.changed = job[l].changed
  BY <1>1, <1>2, JobTodo
<1> HIDE DEF new
<1>4. JobOK(new) /\ BatchIsRead(new)
  BY <1>1, <1>3 DEF WatcherIInv, LanesHold, JobOK, BatchIsRead
<1>5. LanesHold'
  BY <1>1, <1>3, <1>4, LaneMoves DEF WatcherIInv, Draining
<1>6. job'[l] = new
  BY <1>1, <1>2, <1>3, JobsTyped
<1>7. WatcherTypeOK'
  BY <1>1, <1>5 DEF WatcherIInv, WatcherTypeOK, LanesHold, JobOK
<1>8. HashIsIndexed' /\ EdgesHaveNodes'
  BY <1>1 DEF WatcherIInv, HashIsIndexed, EdgesHaveNodes, Nodes
<1>9. NothingSlips'
  <2> SUFFICES ASSUME phase' = "watching", NEW g \in Files
               PROVE  /\ QueuesAreTrue(g)' /\ HandIsTrue(g)' /\ SignaturesFollow(g)'
                      /\ Settled(g)' \/ Dropping(g)' \/ Taking(g)' \/ Indexing(g)'
    BY DEF NothingSlips
  <2>1. l = "flush" /\ phase = "watching"
    BY <1>1, DrainWorks
  <2>2. /\ QueuesAreTrue(g) /\ HandIsTrue(g) /\ SignaturesFollow(g)
        /\ Settled(g) \/ Dropping(g) \/ Taking(g) \/ Indexing(g)
    BY <2>1 DEF WatcherIInv, NothingSlips
  <2>3. /\ ~Dropping(g) /\ ~Taking(g) /\ ~Dropping(g)' /\ ~Taking(g)'
        /\ Indexing(g)' <=> (Indexing(g) /\ g # f)
    BY <1>1, <1>2, <1>3, <1>6, <2>1 DEF Dropping, Taking, Indexing
  <2>4. Told(g)' = Told(g) /\ QueuesAreTrue(g)' /\ Settled(g)' = Settled(g)
    BY <1>1, <2>2 DEF Told, QueuesAreTrue, Settled, Revived, Present, Shown
  <2>5. SignaturesFollow(g)'
    BY <1>1, <1>3, <1>6, <2>1, <2>2 DEF SignaturesFollow
  <2>6. HandIsTrue(g)'
    BY <1>1, <1>3, <1>6, <2>1, <2>2, <2>3, <2>4 DEF HandIsTrue
  <2>7. CASE g = f
    <3>1. Indexing(g) /\ g \notin job["flush"].changed
      BY <1>1, <1>2, <2>1, <2>7 DEF Indexing
    <3>2. Told(g) \/ (hash[g] = tree[g] /\ tree[g] # Absent)
      BY <1>1, <1>2, <2>1, <2>2, <2>7, <3>1 DEF HandIsTrue
    <3>3. hash[g] # Absent => indexed[g] \in {hash[g], Absent}
      BY DEF WatcherIInv, HashIsIndexed
    <3>4. signatures[g] = indexed[g] \/ g \in lost
      BY <1>1, <2>1, <2>2, <3>1 DEF SignaturesFollow
    <3>5. Settled(g)
      BY <3>2, <3>3, <3>4 DEF Settled, Revived, Present, Shown
    <3> QED BY <2>4, <2>5, <2>6, <3>5
  <2>8. CASE g # f
    BY <2>2, <2>3, <2>4, <2>5, <2>6, <2>8
  <2> QED BY <2>7, <2>8
<1> QED BY <1>5, <1>7, <1>8, <1>9 DEF WatcherIInv

LEMMA ReindexFailsKeeps ==
  ASSUME WatcherIInv, NEW l \in Lanes, ReindexFails(l)
  PROVE  WatcherIInv'
<1> DEFINE gone == job[l].todo \cup job[l].changed
<1>1. /\ job[l].pc \in {"index"} \cup Building /\ Fault("store", gone) /\ Finish(l)
      /\ plan' = [plan EXCEPT ![l] = NoPlan]
      /\ UNCHANGED <<tree, pending, pendingDeletions, ceiling, indexed, edges, hash, stale,
                     signatures, parsed, orphaned, overtaken>>
  BY DEF ReindexFails, storeVars
<1>2. gone \in SUBSET Files /\ job[l].pc \notin Draining /\ job[l].pc \notin {"idle", "read"}
  BY <1>1, LaneFields DEF Building, Draining
<1>3. lost' = lost \cup gone /\ lost' \in SUBSET Files /\ happened' \in 0..MaxEvents
  BY <1>1, <1>2, FaultTyped DEF WatcherIInv
<1>4. l = "flush" => \A g \in Files : /\ Dropping(g) \/ Indexing(g) => g \in lost'
                                      /\ ~Taking(g)
  BY <1>2, <1>3 DEF Dropping, Taking, Indexing, Draining
<1>5. plan' \in [Lanes -> Plan]
  BY <1>1, NoPlanIsPlan DEF WatcherIInv, WatcherTypeOK
<1> HIDE DEF gone
<1> QED BY <1>1, <1>2, <1>3, <1>4, <1>5, EndKeeps

LEMMA PatchFailsKeeps ==
  ASSUME WatcherIInv, NEW l \in Lanes, PatchFails(l)
  PROVE  WatcherIInv'
<1> DEFINE gone == job[l].changed
<1>1. /\ job[l].pc = "context" /\ Fault("context", gone) /\ Finish(l)
      /\ UNCHANGED <<tree, pending, pendingDeletions, ceiling, indexed, edges, hash, stale,
                     signatures, plan, parsed, orphaned, overtaken>>
  BY DEF PatchFails, storeVars, resolution
<1>2. gone \in SUBSET Files /\ job[l].todo = {}
  BY <1>1, LaneFields
<1>3. /\ lost' = lost \cup gone /\ lost' \in SUBSET Files /\ happened' \in 0..MaxEvents
      /\ plan' \in [Lanes -> Plan]
  BY <1>1, <1>2, FaultTyped DEF WatcherIInv, WatcherTypeOK
<1>4. l = "flush" => \A g \in Files : /\ Dropping(g) \/ Indexing(g) => g \in lost'
                                      /\ ~Taking(g)
  BY <1>1, <1>2, <1>3 DEF Dropping, Taking, Indexing
<1> HIDE DEF gone
<1> QED BY <1>1, <1>3, <1>4, EndKeeps DEF Draining

LEMMA IndexedKeeps ==
  ASSUME WatcherIInv, NEW l \in Lanes, Indexed(l)
  PROVE  WatcherIInv'
<1>1. /\ job[l].pc = "index" /\ job[l].pc # "idle" /\ job[l].todo = {}
      /\ UNCHANGED <<tree, pending, pendingDeletions, ceiling, indexed, edges, hash, stale,
                     signatures, happened, lost, plan, parsed, orphaned, overtaken>>
  BY DEF Indexed, storeVars, resolution
<1>2. lost' \in SUBSET Files /\ happened' \in 0..MaxEvents /\ plan' \in [Lanes -> Plan]
  BY <1>1 DEF WatcherIInv, WatcherTypeOK
<1>3. CASE job[l].changed = {}
  <2>1. Finish(l)
    BY <1>3 DEF Indexed
  <2>2. l = "flush" => \A g \in Files : ~Dropping(g) /\ ~Indexing(g) /\ ~Taking(g)
    BY <1>1, <1>3 DEF Dropping, Taking, Indexing
  <2> QED BY <1>1, <1>2, <2>1, <2>2, EndKeeps DEF Draining
<1>4. CASE job[l].changed # {}
  <2>1. Step(l, "context") /\ UNCHANGED <<events, debounce, phase>> /\ "context" \in LanePCs
    BY <1>4 DEF Indexed, Step, LanePCs
  <2>2. LanesHold'
    BY <1>1, <2>1, StepHolds DEF WatcherIInv, Draining
  <2>3. /\ job'[l].pc = "context" /\ job'[l].drop = job[l].drop /\ job'[l].take = job[l].take
        /\ job'[l].content = job[l].content
        /\ job'[l].todo = job[l].todo /\ job'[l].changed = job[l].changed
    BY <1>1, <2>1, StepMoves DEF WatcherIInv
  <2>4. WatcherTypeOK'
    BY <1>1, <1>2, <2>1, <2>2 DEF WatcherIInv, WatcherTypeOK, LanesHold, JobOK
  <2>5. HashIsIndexed' /\ EdgesHaveNodes'
    BY <1>1 DEF WatcherIInv, HashIsIndexed, EdgesHaveNodes, Nodes
  <2>6. NothingSlips'
    <3> SUFFICES ASSUME phase' = "watching", NEW g \in Files
                 PROVE  /\ QueuesAreTrue(g)' /\ HandIsTrue(g)' /\ SignaturesFollow(g)'
                        /\ Settled(g)' \/ Dropping(g)' \/ Taking(g)' \/ Indexing(g)'
      BY DEF NothingSlips
    <3>1. l = "flush" /\ phase = "watching"
      BY <1>1, <2>1, DrainWorks
    <3>2. /\ QueuesAreTrue(g) /\ HandIsTrue(g) /\ SignaturesFollow(g)
          /\ Settled(g) \/ Dropping(g) \/ Taking(g) \/ Indexing(g)
      BY <3>1 DEF WatcherIInv, NothingSlips
    <3>3. /\ ~Dropping(g) /\ ~Dropping(g)' /\ ~Taking(g) /\ ~Taking(g)'
          /\ Indexing(g)' = Indexing(g)
      BY <1>1, <2>3, <3>1 DEF Dropping, Taking, Indexing
    <3>4. Told(g)' = Told(g) /\ QueuesAreTrue(g)' /\ Settled(g)' = Settled(g)
      BY <1>1, <2>1, <3>2 DEF Told, QueuesAreTrue, Settled, Revived, Present, Shown
    <3>5. HandIsTrue(g)' /\ SignaturesFollow(g)'
      BY <1>1, <2>3, <3>1, <3>2, <3>3, <3>4 DEF HandIsTrue, SignaturesFollow
    <3> QED BY <3>2, <3>3, <3>4, <3>5
  <2> QED BY <2>2, <2>4, <2>5, <2>6 DEF WatcherIInv
<1> QED BY <1>3, <1>4

LEMMA PatchSignaturesKeeps ==
  ASSUME WatcherIInv, NEW l \in Lanes, PatchSignatures(l)
  PROVE  WatcherIInv'
<1> DEFINE changed == job[l].changed
<1>1. /\ job[l].pc = "context" /\ job[l].pc # "idle" /\ Finish(l)
      /\ signatures' = [f \in Files |-> IF f \in changed THEN job[l].content[f] ELSE signatures[f]]
      /\ lost' = lost \ changed
      /\ UNCHANGED <<tree, pending, pendingDeletions, ceiling, indexed, edges, hash, stale,
                     happened, plan, parsed, orphaned, overtaken>>
  BY DEF PatchSignatures, storeVars, resolution
<1>2. /\ changed \in SUBSET Files /\ job[l].content \in [Files -> AnyText] /\ job[l].todo = {}
  BY <1>1, LaneFields
<1>3. LanesHold'
  BY <1>1, LaneEnds DEF WatcherIInv, Draining
<1>4. WatcherTypeOK'
  <2>1. signatures' \in [Files -> AnyText]
    BY <1>1, <1>2 DEF WatcherIInv, WatcherTypeOK
  <2> QED BY <1>1, <1>3, <2>1, EndIsTyped DEF WatcherIInv, WatcherTypeOK, LanesHold, JobOK
<1>5. HashIsIndexed' /\ EdgesHaveNodes'
  BY <1>1 DEF WatcherIInv, HashIsIndexed, EdgesHaveNodes, Nodes
<1>6. NothingSlips'
  <2> SUFFICES ASSUME phase' = "watching", NEW g \in Files
               PROVE  /\ QueuesAreTrue(g)' /\ HandIsTrue(g)' /\ SignaturesFollow(g)'
                      /\ Settled(g)' \/ Dropping(g)' \/ Taking(g)' \/ Indexing(g)'
    BY DEF NothingSlips
  <2>1. phase' = phase \/ phase' = "stopped"
    BY <1>1 DEF Finish, Lanes
  <2>2. l = "flush" /\ phase = "watching"
    BY <1>1, <2>1, DrainWorks
  <2>3. /\ QueuesAreTrue(g) /\ HandIsTrue(g) /\ SignaturesFollow(g)
        /\ Settled(g) \/ Dropping(g) \/ Taking(g) \/ Indexing(g)
    BY <2>2 DEF WatcherIInv, NothingSlips
  <2>4. events' = events /\ job'["flush"] = NoJob
    BY <1>1, <2>2 DEF Finish, WatcherIInv, LanesHold, Lanes
  <2>5. Told(g)' = Told(g) /\ QueuesAreTrue(g)'
    BY <1>1, <2>3, <2>4 DEF Told, QueuesAreTrue
  <2>6. HandIsTrue(g)'
    BY <2>4, NoJobIsJob DEF HandIsTrue, Dropping, Taking, Indexing
  <2>7. ~Dropping(g) /\ ~Taking(g) /\ (Indexing(g) <=> g \in changed)
    BY <1>1, <1>2, <2>2 DEF Dropping, Taking, Indexing
  <2>8. CASE g \in changed
    <3>1. signatures'[g] = job["flush"].content[g]
      BY <1>1, <2>2, <2>8
    <3>2. /\ Told(g) \/ job["flush"].content[g] = tree[g]
          /\ job["flush"].content[g] = indexed[g]
      BY <2>2, <2>3, <2>7, <2>8 DEF HandIsTrue
    <3>3. Settled(g)' /\ SignaturesFollow(g)'
      BY <1>1, <2>5, <3>1, <3>2 DEF Settled, Shown, SignaturesFollow
    <3> QED BY <2>5, <2>6, <3>3
  <2>9. CASE g \notin changed
    <3>1. signatures'[g] = signatures[g] /\ (g \in lost => g \in lost')
      BY <1>1, <2>9
    <3>2. Settled(g)'
      BY <1>1, <2>3, <2>5, <2>7, <2>9, <3>1 DEF Settled, Revived, Present, Shown
    <3>3. SignaturesFollow(g)'
      BY <1>1, <2>2, <2>3, <2>9, <3>1 DEF SignaturesFollow
    <3> QED BY <2>5, <2>6, <3>2, <3>3
  <2> QED BY <2>8, <2>9
<1> QED BY <1>3, <1>4, <1>5, <1>6 DEF WatcherIInv
-----------------------------------------------------------------------------
(* The stretches of a re-index *)

LEMMA TextsAreTexts ==
  ASSUME NEW t \in AnyText, t # Absent
  PROVE  t \in Text
BY TextsAssumption DEF TextsAssumption, AnyText

LEMMA RowsAreNames ==
  ASSUME WatcherTypeOK
  PROVE  /\ Nodes \in [Files -> SUBSET Names]
         /\ \A f \in Files : Callers(f) \in SUBSET Files
         /\ \A f \in Files : \A added : Consumers(f, added) \in SUBSET Files
<1>1. \A f \in Files : indexed[f] # Absent => indexed[f].defs \in SUBSET Names
  BY TextsAreTexts DEF WatcherTypeOK, Text
<1> QED BY <1>1 DEF Nodes, Callers, Consumers, WatcherTypeOK, Edge

LEMMA PlanFields ==
  ASSUME NEW p \in Plan
  PROVE  /\ p.file \in Files \cup {NoFile} /\ p.known \in [Files -> SUBSET Names]
         /\ p.affected \in SUBSET Files /\ p.build \in SUBSET Files
         /\ p.texts \in [Files -> AnyText]
BY DEF Plan

LEMMA PlanTexts ==
  ASSUME NEW p \in Plan, NEW x \in [Files -> AnyText]
  PROVE  /\ [p EXCEPT !.texts = x] \in Plan
         /\ [p EXCEPT !.texts = x].file = p.file
         /\ [p EXCEPT !.texts = x].known = p.known
         /\ [p EXCEPT !.texts = x].affected = p.affected
         /\ [p EXCEPT !.texts = x].build = p.build
         /\ [p EXCEPT !.texts = x].texts = x
BY DEF Plan

LEMMA PlanBuild ==
  ASSUME NEW p \in Plan, NEW x \in SUBSET Files
  PROVE  /\ [p EXCEPT !.build = x] \in Plan
         /\ [p EXCEPT !.build = x].file = p.file
         /\ [p EXCEPT !.build = x].known = p.known
         /\ [p EXCEPT !.build = x].affected = p.affected
         /\ [p EXCEPT !.build = x].build = x
         /\ [p EXCEPT !.build = x].texts = p.texts
BY DEF Plan

LEMMA PlanAffected ==
  ASSUME NEW p \in Plan, NEW x \in SUBSET Files
  PROVE  /\ [p EXCEPT !.affected = x] \in Plan
         /\ [p EXCEPT !.affected = x].file = p.file
         /\ [p EXCEPT !.affected = x].known = p.known
         /\ [p EXCEPT !.affected = x].affected = x
         /\ [p EXCEPT !.affected = x].build = p.build
         /\ [p EXCEPT !.affected = x].texts = p.texts
BY DEF Plan

LEMMA PlansTyped ==
  ASSUME plan \in [Lanes -> Plan], NEW l \in Lanes, NEW p \in Plan, plan' = [plan EXCEPT ![l] = p]
  PROVE  /\ plan' \in [Lanes -> Plan] /\ plan'[l] = p
         /\ \A m \in Lanes : m # l => plan'[m] = plan[m]
OBVIOUS

(***************************************************************************)
(* What a build reads: files of the tree, the changed one with the text of *)
(* the batch.                                                              *)
(***************************************************************************)
LEMMA ParseReads ==
  ASSUME WatcherTypeOK, NEW f \in Files, NEW content \in AnyText, NEW build \in SUBSET Files,
         NEW disk, disk = Disk(f, content)
  PROVE  /\ AsRead(Parse(build \cap DOMAIN disk, disk)) \in [Files -> AnyText]
         /\ f \in build => AsRead(Parse(build \cap DOMAIN disk, disk))[f] = content
<1> DEFINE read == (build \cap DOMAIN disk) \cup Barrels(build \cap DOMAIN disk, disk)
           sources == Parse(build \cap DOMAIN disk, disk)
<1>1. /\ DOMAIN disk = Present \cup {f}
      /\ \A g \in Present \cup {f} : disk[g] = IF g = f THEN content ELSE tree[g]
  BY DEF Disk
<1>2. Present \subseteq Files /\ \A g \in Present : tree[g] \in AnyText
  BY DEF Present, WatcherTypeOK
<1>3. Barrels(build \cap DOMAIN disk, disk) \subseteq DOMAIN disk
  BY DEF Barrels
<1>4. sources = [g \in read |-> disk[g]]
  BY DEF Parse
<1>5. read \subseteq Present \cup {f} /\ (f \in build => f \in read)
  BY <1>1, <1>3
<1> HIDE DEF read
<1>6. DOMAIN sources = read /\ \A g \in read : sources[g] = disk[g]
  BY <1>4
<1>7. \A g \in read : sources[g] \in AnyText
  BY <1>1, <1>2, <1>5, <1>6
<1> HIDE DEF sources
<1>8. Absent \in AnyText
  BY DEF AnyText
<1>9. AsRead(sources) \in [Files -> AnyText]
  BY <1>6, <1>7, <1>8 DEF AsRead
<1>10. f \in build => AsRead(sources)[f] = content
  BY <1>1, <1>5, <1>6 DEF AsRead
<1> QED BY <1>9, <1>10 DEF sources

LEMMA ParsedReads ==
  ASSUME NEW texts \in [Files -> AnyText], NEW sources, sources = Parsed(texts)
  PROVE  /\ DOMAIN sources = {g \in Files : texts[g] # Absent}
         /\ \A g \in DOMAIN sources : sources[g] = texts[g]
         /\ AreSources(sources)
<1>1. /\ DOMAIN sources = {g \in Files : texts[g] # Absent}
      /\ \A g \in DOMAIN sources : sources[g] = texts[g]
  BY DEF Parsed
<1>2. \A g \in DOMAIN sources : sources[g] \in Text
  BY <1>1, TextsAreTexts
<1> QED BY <1>1, <1>2 DEF AreSources

(***************************************************************************)
(* Up to the swap nothing of the store changes.                            *)
(***************************************************************************)
LEMMA BuildingKeeps ==
  ASSUME WatcherIInv, NEW l \in Lanes, NEW x \in Building, job[l].pc \in {"index"} \cup Building,
         job' = [job EXCEPT ![l].pc = x], plan' \in [Lanes -> Plan],
         UNCHANGED <<tree, events, pending, pendingDeletions, debounce, ceiling, phase, indexed,
                     edges, hash, stale, signatures, happened, lost, parsed, orphaned, overtaken>>
  PROVE  WatcherIInv'
<1>1. /\ Step(l, x) /\ x \in LanePCs
      /\ \A y \in {"idle", "deleteGraph", "deleteContext", "take", "read", "context"} :
           x # y /\ job[l].pc # y
  BY DEF Step, LanePCs, Building
<1>2. LanesHold'
  BY <1>1, StepHolds DEF WatcherIInv, Draining
<1>3. /\ job'[l].pc = x /\ job'[l].drop = job[l].drop /\ job'[l].take = job[l].take
      /\ job'[l].content = job[l].content
      /\ job'[l].todo = job[l].todo /\ job'[l].changed = job[l].changed
  BY <1>1, StepMoves DEF WatcherIInv
<1>4. WatcherTypeOK'
  BY <1>2 DEF WatcherIInv, WatcherTypeOK, LanesHold, JobOK
<1>5. HashIsIndexed' /\ EdgesHaveNodes'
  BY DEF WatcherIInv, HashIsIndexed, EdgesHaveNodes, Nodes
<1>6. NothingSlips'
  <2> SUFFICES ASSUME phase' = "watching", NEW g \in Files
               PROVE  /\ QueuesAreTrue(g)' /\ HandIsTrue(g)' /\ SignaturesFollow(g)'
                      /\ Settled(g)' \/ Dropping(g)' \/ Taking(g)' \/ Indexing(g)'
    BY DEF NothingSlips
  <2>1. l = "flush" /\ phase = "watching"
    BY <1>1, DrainWorks
  <2>2. /\ QueuesAreTrue(g) /\ HandIsTrue(g) /\ SignaturesFollow(g)
        /\ Settled(g) \/ Dropping(g) \/ Taking(g) \/ Indexing(g)
    BY <2>1 DEF WatcherIInv, NothingSlips
  <2>3. /\ ~Dropping(g) /\ ~Dropping(g)' /\ ~Taking(g) /\ ~Taking(g)'
        /\ Indexing(g)' = Indexing(g)
    BY <1>1, <1>3, <2>1 DEF Dropping, Taking, Indexing
  <2>4. Told(g)' = Told(g) /\ QueuesAreTrue(g)' /\ Settled(g)' = Settled(g)
    BY <2>2 DEF Told, QueuesAreTrue, Settled, Revived, Present, Shown
  <2>5. HandIsTrue(g)' /\ SignaturesFollow(g)'
    BY <1>1, <1>3, <2>1, <2>2, <2>3, <2>4 DEF HandIsTrue, SignaturesFollow
  <2> QED BY <2>2, <2>3, <2>4, <2>5
<1> QED BY <1>2, <1>4, <1>5, <1>6 DEF WatcherIInv

(***************************************************************************)
(* The three stretches: what each leaves in the plan.                      *)
(***************************************************************************)
LEMMA ReadRowsReads ==
  ASSUME WatcherIInv, NEW l \in Lanes, NEW f \in Files, ReadRows(l, f)
  PROVE  /\ job[l].pc = "index" /\ f \in job[l].todo /\ job' = [job EXCEPT ![l].pc = "build"]
         /\ plan' \in [Lanes -> Plan] /\ \A m \in Lanes : m # l => plan'[m] = plan[m]
         /\ plan'[l].file = f /\ plan'[l].known = Nodes /\ plan'[l].affected = Callers(f)
         /\ f \in plan'[l].build
<1>1. PICK direct \in Slices(Callers(f), ClosureBudget) :
        plan' = [plan EXCEPT ![l] = [file |-> f, known |-> Nodes, affected |-> Callers(f),
                                     build |-> {f} \cup direct, texts |-> Unparsed]]
  BY DEF ReadRows
<1> DEFINE new == [file |-> f, known |-> Nodes, affected |-> Callers(f),
                   build |-> {f} \cup direct, texts |-> Unparsed]
<1>2. {f} \cup direct \in SUBSET Files /\ Callers(f) \in SUBSET Files
      /\ Nodes \in [Files -> SUBSET Names]
  BY RowsAreNames DEF Slices, WatcherIInv
<1>3. new \in Plan
  BY <1>2, UnparsedIsTyped DEF Plan
<1>4. /\ new.file = f /\ new.known = Nodes /\ new.affected = Callers(f)
      /\ f \in new.build
  OBVIOUS
<1> HIDE DEF new
<1>5. /\ plan' \in [Lanes -> Plan] /\ plan'[l] = new
      /\ \A m \in Lanes : m # l => plan'[m] = plan[m]
  BY <1>1, <1>3, PlansTyped DEF new, WatcherIInv, WatcherTypeOK
<1> QED BY <1>4, <1>5 DEF ReadRows

LEMMA BuildSubsetReads ==
  ASSUME WatcherIInv, PlansHold, NEW l \in Lanes, BuildSubset(l)
  PROVE  /\ job[l].pc \in {"build", "rebuild"}
         /\ job' = [job EXCEPT ![l].pc = IF job[l].pc = "build" THEN "bind" ELSE "swap"]
         /\ plan' \in [Lanes -> Plan] /\ \A m \in Lanes : m # l => plan'[m] = plan[m]
         /\ plan'[l].file = plan[l].file /\ plan'[l].known = plan[l].known
         /\ plan'[l].affected = plan[l].affected /\ plan'[l].build = plan[l].build
         /\ plan'[l].texts[plan[l].file] = job[l].content[plan[l].file]
<1> DEFINE f == plan[l].file
           content == job[l].content[f]
           disk == Disk(f, content)
           texts == AsRead(Parse(plan[l].build \cap DOMAIN disk, disk))
           new == [plan[l] EXCEPT !.texts = texts]
<1>1. job[l].pc \in {"build", "rebuild"}
      /\ job' = [job EXCEPT ![l].pc = IF job[l].pc = "build" THEN "bind" ELSE "swap"]
  BY DEF BuildSubset, WatcherIInv, WatcherTypeOK
<1>2. plan' = [plan EXCEPT ![l] = new]
  BY DEF BuildSubset
<1>3. plan[l] \in Plan /\ plan[l].build \in SUBSET Files
  BY PlanFields DEF WatcherIInv, WatcherTypeOK
<1>4. f \in job[l].todo /\ f \in plan[l].build
  BY <1>1 DEF PlansHold, PlanIsOwn, Building
<1>5. f \in Files /\ content \in AnyText
  BY <1>4, LaneFields
<1> HIDE DEF f, content
<1>6. texts \in [Files -> AnyText] /\ texts[f] = content
  BY <1>3, <1>4, <1>5, ParseReads DEF WatcherIInv
<1> HIDE DEF disk, texts
<1>7. /\ new \in Plan /\ new.file = plan[l].file /\ new.known = plan[l].known
      /\ new.affected = plan[l].affected /\ new.build = plan[l].build /\ new.texts = texts
  BY <1>3, <1>6, PlanTexts
<1> HIDE DEF new
<1>8. /\ plan' \in [Lanes -> Plan] /\ plan'[l] = new
      /\ \A m \in Lanes : m # l => plan'[m] = plan[m]
  BY <1>2, <1>7, PlansTyped DEF WatcherIInv, WatcherTypeOK
<1> QED BY <1>1, <1>6, <1>7, <1>8 DEF f, content

LEMMA TakeConsumersTakes ==
  ASSUME WatcherIInv, NEW l \in Lanes, TakeConsumers(l)
  PROVE  /\ job[l].pc = "bind" /\ job' = [job EXCEPT ![l].pc = "rebuild"]
         /\ plan' \in [Lanes -> Plan] /\ \A m \in Lanes : m # l => plan'[m] = plan[m]
         /\ plan'[l].file = plan[l].file /\ plan'[l].known = plan[l].known
         /\ plan'[l].affected = plan[l].affected \cup NewConsumers(l)
         /\ plan[l].build \subseteq plan'[l].build
<1>1. PICK extra \in Taken(l) \ {{}} :
        plan' = [plan EXCEPT ![l].build = @ \cup extra, ![l].texts = Unparsed,
                             ![l].affected = @ \cup NewConsumers(l)]
  BY DEF TakeConsumers
<1> DEFINE one == [plan[l] EXCEPT !.build = plan[l].build \cup extra]
           two == [one EXCEPT !.texts = Unparsed]
           new == [two EXCEPT !.affected = plan[l].affected \cup NewConsumers(l)]
<1>2. /\ plan \in [Lanes -> Plan] /\ plan[l] \in Plan
      /\ plan[l].build \in SUBSET Files /\ plan[l].affected \in SUBSET Files
  BY PlanFields DEF WatcherIInv, WatcherTypeOK
<1>3. NewConsumers(l) \in SUBSET Files /\ extra \in SUBSET Files
  <2>1. NewConsumers(l) \in SUBSET Files
    BY DEF NewConsumers, Consumers, WatcherIInv, WatcherTypeOK, Edge
  <2> QED BY <2>1 DEF Taken, Slices
<1>4. plan' = [plan EXCEPT ![l] = new]
  BY <1>1, <1>2 DEF Plan
<1>5. /\ one \in Plan /\ one.file = plan[l].file /\ one.known = plan[l].known
      /\ one.build = plan[l].build \cup extra
  BY <1>2, <1>3, PlanBuild
<1> HIDE DEF one
<1>6. /\ two \in Plan /\ two.file = plan[l].file /\ two.known = plan[l].known
      /\ two.build = plan[l].build \cup extra
  BY <1>5, UnparsedIsTyped, PlanTexts
<1> HIDE DEF two
<1>7. /\ new \in Plan /\ new.file = plan[l].file /\ new.known = plan[l].known
      /\ new.build = plan[l].build \cup extra
      /\ new.affected = plan[l].affected \cup NewConsumers(l)
  BY <1>2, <1>3, <1>6, PlanAffected
<1> HIDE DEF new
<1>8. /\ plan' \in [Lanes -> Plan] /\ plan'[l] = new
      /\ \A m \in Lanes : m # l => plan'[m] = plan[m]
  BY <1>2, <1>4, <1>7, PlansTyped
<1> QED BY <1>7, <1>8 DEF TakeConsumers

LEMMA StretchKeeps ==
  ASSUME WatcherIInv, PlansHold, NEW l \in Lanes,
         (\E f \in Files : ReadRows(l, f)) \/ BuildSubset(l) \/ TakeConsumers(l)
  PROVE  WatcherIInv'
<1>1. CASE \E f \in Files : ReadRows(l, f)
  <2>1. /\ job[l].pc = "index" /\ job' = [job EXCEPT ![l].pc = "build"]
        /\ plan' \in [Lanes -> Plan] /\ "build" \in Building
    BY <1>1, ReadRowsReads DEF Building
  <2> QED BY <1>1, <2>1, BuildingKeeps DEF ReadRows, treeVars, queueVars, storeVars
<1>2. CASE BuildSubset(l)
  <2> DEFINE x == IF job[l].pc = "build" THEN "bind" ELSE "swap"
  <2>1. /\ job[l].pc \in Building /\ job' = [job EXCEPT ![l].pc = x]
        /\ plan' \in [Lanes -> Plan] /\ x \in Building
    BY <1>2, BuildSubsetReads DEF Building
  <2> HIDE DEF x
  <2> QED BY <1>2, <2>1, BuildingKeeps DEF BuildSubset, treeVars, queueVars, storeVars
<1>3. CASE TakeConsumers(l)
  <2>1. /\ job[l].pc \in Building /\ job' = [job EXCEPT ![l].pc = "rebuild"]
        /\ plan' \in [Lanes -> Plan] /\ "rebuild" \in Building
    BY <1>3, TakeConsumersTakes DEF Building
  <2> QED BY <1>3, <2>1, BuildingKeeps DEF TakeConsumers, treeVars, queueVars, storeVars
<1> QED BY <1>1, <1>2, <1>3

(***************************************************************************)
(* The swap, as a statement about the plan it was given.                   *)
(***************************************************************************)
Fresh(p) == {g \in p.build : p.texts[g] # Absent}

Swaps(l, p, f, content, fresh, sources) ==
  /\ job[l].pc \in {"bind", "swap"}
  /\ f \in job[l].todo /\ f \in Files /\ content \in AnyText /\ content # Absent
  /\ p \in Plan /\ f \in fresh /\ fresh \in SUBSET Files /\ fresh \subseteq DOMAIN sources
  /\ DOMAIN sources = {g \in Files : p.texts[g] # Absent} /\ sources[f] = content
  /\ \A g \in DOMAIN sources : sources[g] = p.texts[g]
  /\ AreSources(sources)
  /\ edges' = {e \in edges : e.from \notin fresh /\ e.to # f}
                \cup BuildEdges(fresh, sources, p.known)
  /\ parsed' = [g \in Files |-> IF g \in fresh THEN p.texts ELSE parsed[g]]
  /\ orphaned' = orphaned \ fresh
  /\ indexed' = [indexed EXCEPT ![f] = content] /\ hash' = [hash EXCEPT ![f] = content]
  /\ \E affected \in SUBSET Files :
       /\ affected = p.affected \cup (IF job[l].pc = "bind" THEN NewConsumers(l) ELSE {})
       /\ stale' = (stale \ fresh) \cup (affected \ fresh)
       /\ Overtaken(f, content, p, fresh, affected)

LEMMA ReindexSwaps ==
  ASSUME WatcherIInv, PlansHold, NEW l \in Lanes, Reindex(l),
         NEW p, p = plan[l], NEW f, f = p.file, NEW content, content = job[l].content[f],
         NEW fresh, fresh = Fresh(p), NEW sources, sources = Parsed(p.texts)
  PROVE  Swaps(l, p, f, content, fresh, sources)
<1> DEFINE affected == p.affected \cup (IF job[l].pc = "bind" THEN NewConsumers(l) ELSE {})
<1>1. /\ job[l].pc \in {"bind", "swap"}
      /\ Swap(f, p, fresh, affected) /\ Overtaken(f, content, p, fresh, affected)
      /\ orphaned' = orphaned \ fresh
      /\ indexed' = [indexed EXCEPT ![f] = content] /\ hash' = [hash EXCEPT ![f] = content]
  BY DEF Reindex, Fresh
<1>2. /\ p \in Plan /\ p.build \in SUBSET Files /\ p.affected \in SUBSET Files
      /\ p.texts \in [Files -> AnyText]
  BY PlanFields DEF WatcherIInv, WatcherTypeOK
<1>3. f \in job[l].todo /\ f \in p.build /\ p.texts[f] = content
  BY <1>1 DEF PlansHold, PlanIsOwn, Building
<1>4. f \in Files /\ content \in AnyText /\ content # Absent
  BY <1>3, LaneFields
<1>5. f \in fresh /\ fresh \in SUBSET Files
  BY <1>2, <1>3, <1>4 DEF Fresh
<1>6. /\ DOMAIN sources = {g \in Files : p.texts[g] # Absent}
      /\ \A g \in DOMAIN sources : sources[g] = p.texts[g]
      /\ AreSources(sources)
  BY <1>2, ParsedReads
<1>7. fresh \subseteq DOMAIN sources /\ sources[f] = content
  BY <1>2, <1>3, <1>4, <1>6 DEF Fresh
<1>8. affected \in SUBSET Files
  BY <1>2 DEF NewConsumers, Consumers, WatcherIInv, WatcherTypeOK, Edge
<1> HIDE DEF affected
<1>9. /\ edges' = {e \in edges : e.from \notin fresh /\ e.to # f}
                    \cup BuildEdges(fresh, sources, p.known)
      /\ parsed' = [g \in Files |-> IF g \in fresh THEN p.texts ELSE parsed[g]]
      /\ stale' = (stale \ fresh) \cup (affected \ fresh)
  BY <1>1 DEF Swap
<1>10. \E a \in SUBSET Files :
         /\ a = p.affected \cup (IF job[l].pc = "bind" THEN NewConsumers(l) ELSE {})
         /\ stale' = (stale \ fresh) \cup (a \ fresh)
         /\ Overtaken(f, content, p, fresh, a)
  BY <1>1, <1>8, <1>9 DEF affected
<1> QED BY <1>1, <1>2, <1>3, <1>4, <1>5, <1>6, <1>7, <1>9, <1>10 DEF Swaps

LEMMA ReindexKeeps ==
  ASSUME WatcherIInv, PlansHold, NEW l \in Lanes, Reindex(l)
  PROVE  WatcherIInv'
<1>0. PICK p, f, content, fresh, sources :
        /\ p = plan[l] /\ f = p.file /\ content = job[l].content[f]
        /\ fresh = Fresh(p) /\ sources = Parsed(p.texts)
  OBVIOUS
<1>s. Swaps(l, p, f, content, fresh, sources)
  BY <1>0, ReindexSwaps
<1> DEFINE rest == job[l].todo \ {f}
           done == job[l].changed \cup {f}
           one == [job[l] EXCEPT !.pc = "index"]
           two == [one EXCEPT !.todo = rest]
           new == [two EXCEPT !.changed = done]
<1>1. /\ job[l].pc \in {"bind", "swap"}
      /\ f \in job[l].todo /\ f \in Files /\ content \in AnyText /\ content # Absent
      /\ p \in Plan /\ f \in fresh /\ fresh \in SUBSET Files /\ fresh \subseteq DOMAIN sources
      /\ DOMAIN sources = {g \in Files : p.texts[g] # Absent} /\ sources[f] = content
      /\ \A g \in DOMAIN sources : sources[g] = p.texts[g]
      /\ edges' = {e \in edges : e.from \notin fresh /\ e.to # f}
                    \cup BuildEdges(fresh, sources, p.known)
      /\ parsed' = [g \in Files |-> IF g \in fresh THEN p.texts ELSE parsed[g]]
      /\ orphaned' = orphaned \ fresh
      /\ indexed' = [indexed EXCEPT ![f] = content] /\ hash' = [hash EXCEPT ![f] = content]
  BY <1>s DEF Swaps
<1>2. PICK affected \in SUBSET Files :
        /\ stale' = (stale \ fresh) \cup (affected \ fresh)
        /\ Overtaken(f, content, p, fresh, affected)
  BY <1>s DEF Swaps
<1>3. /\ job \in [Lanes -> Job] /\ job[l] \in Job /\ rest \in SUBSET Files /\ done \in SUBSET Files
      /\ job[l].todo \cap job[l].changed = {} /\ "index" \in LanePCs
  BY <1>1, LaneFields DEF LanePCs
<1>4. /\ job' = [job EXCEPT ![l] = new] /\ plan' = [plan EXCEPT ![l] = NoPlan]
      /\ UNCHANGED <<tree, events, pending, pendingDeletions, debounce, ceiling, phase,
                     signatures, happened, lost>>
  BY <1>0, <1>3 DEF Reindex, treeVars, queueVars, Job
<1>5. p.texts \in [Files -> AnyText]
  BY <1>1, PlanFields
<1>6. /\ one \in Job /\ one.pc = "index" /\ one.drop = job[l].drop /\ one.take = job[l].take
      /\ one.content = job[l].content /\ one.todo = job[l].todo /\ one.changed = job[l].changed
  BY <1>3, JobPc
<1> HIDE DEF one
<1>7. /\ two \in Job /\ two.pc = "index" /\ two.drop = job[l].drop /\ two.take = job[l].take
      /\ two.content = job[l].content /\ two.todo = rest /\ two.changed = job[l].changed
  BY <1>3, <1>6, JobTodo
<1> HIDE DEF two
<1>8. /\ new \in Job /\ new.pc = "index" /\ new.drop = job[l].drop /\ new.take = job[l].take
      /\ new.content = job[l].content /\ new.todo = rest /\ new.changed = done
  BY <1>3, <1>7, JobChanged
<1> HIDE DEF new
<1>9. JobOK(new) /\ BatchIsRead(new)
  BY <1>1, <1>8 DEF WatcherIInv, LanesHold, JobOK, BatchIsRead
<1>10. LanesHold'
  BY <1>1, <1>4, <1>8, <1>9, LaneMoves DEF WatcherIInv, Draining
<1>11. job'[l] = new
  BY <1>3, <1>4, <1>8, JobsTyped
<1>12. \A e \in BuildEdges(fresh, sources, p.known) :
         /\ e \in Edge /\ e.from \in fresh
         /\ e.to \in Files => e.name \in IF e.to \in DOMAIN sources THEN sources[e.to].defs
                                         ELSE p.known[e.to]
  BY <1>1, BuildIsKnown
<1>13. indexed \in [Files -> AnyText] /\ hash \in [Files -> AnyText] /\ edges \subseteq Edge
  BY DEF WatcherIInv, WatcherTypeOK
<1>14. AffectedNow(f, content) \in SUBSET Files
  BY <1>1, RowsAreNames DEF AffectedNow, WatcherIInv
<1>15. WatcherTypeOK'
  <2>1. indexed' \in [Files -> AnyText] /\ hash' \in [Files -> AnyText]
    BY <1>1, <1>13
  <2>2. edges' \subseteq Edge
    BY <1>1, <1>12, <1>13
  <2>3. parsed' \in [Files -> [Files -> AnyText]]
    BY <1>1, <1>5 DEF WatcherIInv, WatcherTypeOK
  <2>4. stale' \subseteq Files /\ orphaned' \subseteq Files
    BY <1>1, <1>2 DEF WatcherIInv, WatcherTypeOK
  <2>5. overtaken' \subseteq Files
    BY <1>1, <1>2, <1>14 DEF Overtaken, WatcherIInv, WatcherTypeOK
  <2>6. plan' \in [Lanes -> Plan]
    BY <1>4, NoPlanIsPlan DEF WatcherIInv, WatcherTypeOK
  <2> QED BY <1>4, <1>10, <2>1, <2>2, <2>3, <2>4, <2>5, <2>6
          DEF WatcherIInv, WatcherTypeOK, LanesHold, JobOK
<1>16. HashIsIndexed'
  BY <1>1, <1>13 DEF WatcherIInv, HashIsIndexed
<1>17. EdgesHaveNodes'
  <2> SUFFICES ASSUME NEW e \in edges', e.to \in Files, e.name \notin Nodes'[e.to],
                      e.from \notin overtaken'
               PROVE  parsed'[e.from][e.to] \notin {Absent, indexed'[e.to]}
    BY DEF EdgesHaveNodes
  <2>1. e.from \in Files /\ Nodes'[e.to] = IF indexed'[e.to] = Absent THEN {} ELSE indexed'[e.to].defs
    BY <1>15 DEF WatcherTypeOK, Edge, Nodes
  <2>2. e.to # f => indexed'[e.to] = indexed[e.to] /\ Nodes'[e.to] = Nodes[e.to]
    BY <1>1, <1>13, <2>1 DEF Nodes
  <2>3. CASE e \in edges /\ e.from \notin fresh /\ e.to # f
    <3>1. parsed'[e.from] = parsed[e.from] /\ e.from \notin overtaken
      BY <1>1, <1>2, <2>1, <2>3 DEF Overtaken
    <3> QED BY <2>2, <2>3, <3>1 DEF WatcherIInv, EdgesHaveNodes
  <2>4. CASE e \in BuildEdges(fresh, sources, p.known)
    <3>1. e.from \in fresh /\ parsed'[e.from] = p.texts
      BY <1>1, <1>12, <2>1, <2>4
    <3>2. p.known = Nodes
      BY <1>2, <3>1 DEF Overtaken
    <3>3. e.to \in DOMAIN sources
      BY <1>1, <1>12, <2>2, <2>4, <3>2
    <3>4. e.name \in sources[e.to].defs /\ parsed'[e.from][e.to] = sources[e.to]
      BY <1>1, <1>12, <2>4, <3>1, <3>3
    <3>5. sources[e.to] # Absent
      BY <1>1, <3>3
    <3>6. sources[e.to] # indexed'[e.to]
      BY <2>1, <3>4, <3>5
    <3> QED BY <3>4, <3>5, <3>6
  <2> QED BY <1>1, <2>3, <2>4
<1>18. NothingSlips'
  <2> SUFFICES ASSUME phase' = "watching", NEW g \in Files
               PROVE  /\ QueuesAreTrue(g)' /\ HandIsTrue(g)' /\ SignaturesFollow(g)'
                      /\ Settled(g)' \/ Dropping(g)' \/ Taking(g)' \/ Indexing(g)'
    BY DEF NothingSlips
  <2>1. l = "flush" /\ phase = "watching"
    BY <1>1, <1>4, DrainWorks
  <2>2. /\ QueuesAreTrue(g) /\ HandIsTrue(g) /\ SignaturesFollow(g)
        /\ Settled(g) \/ Dropping(g) \/ Taking(g) \/ Indexing(g)
    BY <2>1 DEF WatcherIInv, NothingSlips
  <2>3. /\ ~Dropping(g) /\ ~Taking(g) /\ ~Dropping(g)' /\ ~Taking(g)'
        /\ Indexing(g)' = Indexing(g)
    BY <1>1, <1>8, <1>11, <2>1 DEF Dropping, Taking, Indexing
  <2>4. Told(g)' = Told(g) /\ QueuesAreTrue(g)'
    BY <1>4, <2>2 DEF Told, QueuesAreTrue
  <2>5. CASE g = f
    <3>1. /\ Indexing(g) /\ g \in job'["flush"].changed
          /\ job'["flush"].content[g] = content /\ indexed'[g] = content
          /\ job["flush"].content[g] = content
      BY <1>0, <1>1, <1>8, <1>11, <1>13, <2>1, <2>5 DEF Indexing
    <3>2. SignaturesFollow(g)'
      BY <3>1 DEF SignaturesFollow
    <3>3. HandIsTrue(g)'
      BY <1>4, <2>2, <2>3, <2>4, <3>1 DEF HandIsTrue
    <3> QED BY <2>3, <2>4, <3>1, <3>2, <3>3
  <2>6. CASE g # f
    <3>1. /\ indexed'[g] = indexed[g] /\ hash'[g] = hash[g]
          /\ job'["flush"].content = job["flush"].content
          /\ g \in job'["flush"].changed <=> g \in job["flush"].changed
      BY <1>1, <1>8, <1>11, <1>13, <2>1, <2>6
    <3>2. Settled(g)' = Settled(g)
      BY <1>4, <2>4, <3>1 DEF Settled, Revived, Present, Shown
    <3>3. SignaturesFollow(g)'
      BY <1>1, <1>4, <2>1, <2>2, <3>1 DEF SignaturesFollow
    <3>4. HandIsTrue(g)'
      BY <1>4, <2>2, <2>3, <2>4, <3>1 DEF HandIsTrue
    <3> QED BY <2>2, <2>3, <2>4, <3>2, <3>3, <3>4
  <2> QED BY <2>5, <2>6
<1> QED BY <1>10, <1>15, <1>16, <1>17, <1>18 DEF WatcherIInv
-----------------------------------------------------------------------------
(* The invariant *)

LEMMA WatcherStarts ==
  ASSUME WatcherInit
  PROVE  WatcherIInv
<1>1. /\ tree \in [Files -> AnyText] /\ indexed = tree /\ signatures = tree
      /\ parsed = [f \in Files |-> tree] /\ hash = [f \in Files |-> Absent]
      /\ events = {} /\ pending = {} /\ pendingDeletions = {} /\ stale = {} /\ lost = {}
      /\ orphaned = {} /\ overtaken = {} /\ plan = [l \in Lanes |-> NoPlan]
      /\ debounce = FALSE /\ ceiling = FALSE
      /\ phase = "watching" /\ happened = 0 /\ job = [l \in Lanes |-> NoJob]
      /\ edges = FullEdges(Sources)
  BY DEF WatcherInit
<1>2. \A l \in Lanes : job[l] = NoJob
  BY <1>1
<1>3. JobOK(NoJob) /\ BatchIsRead(NoJob)
  BY NoJobIsJob DEF JobOK, BatchIsRead
<1>4. LanesHold
  <2>1. job \in [Lanes -> Job] /\ job["drain"] = NoJob
    BY <1>1, <1>2, NoJobIsJob DEF Lanes
  <2> QED BY <1>1, <1>2, <1>3, <2>1 DEF LanesHold, DrainRests, DeletionsAreArmed, ChangesAreArmed
<1>5. DOMAIN Sources = Present /\ Present \in SUBSET Files /\ \A f \in Present : Sources[f] = tree[f]
  BY DEF Sources, Present
<1>6. \A e \in edges : /\ e \in Edge
                       /\ e.to \in Files => e.to \in Present /\ e.name \in tree[e.to].defs
  <2> DEFINE seed == [f \in Files |-> {}]
  <2>1. edges = BuildEdges(Present, Sources, seed)
    BY <1>1, <1>5 DEF FullEdges
  <2>2. \A f \in Files : seed[f] = {}
    OBVIOUS
  <2> HIDE DEF seed
  <2> SUFFICES ASSUME NEW e \in edges
               PROVE  /\ e \in Edge
                      /\ e.to \in Files => e.to \in Present /\ e.name \in tree[e.to].defs
    OBVIOUS
  <2>3. /\ e \in Edge
        /\ e.to \in Files => e.name \in IF e.to \in DOMAIN Sources THEN Sources[e.to].defs
                                        ELSE seed[e.to]
    BY <1>5, <2>1, BuildIsKnown
  <2> QED BY <1>5, <2>2, <2>3
<1>7. EdgesHaveNodes
  BY <1>1, <1>6 DEF EdgesHaveNodes, Nodes, Present
<1>8. WatcherTypeOK
  <2>1. hash \in [Files -> AnyText] /\ parsed \in [Files -> [Files -> AnyText]]
    BY <1>1 DEF AnyText
  <2>2. happened \in 0..MaxEvents
    BY <1>1, WatcherBoundsAssumption DEF WatcherBoundsAssumption
  <2>3. plan \in [Lanes -> Plan]
    BY <1>1, NoPlanIsPlan
  <2> QED BY <1>1, <1>4, <1>6, <2>1, <2>2, <2>3 DEF WatcherTypeOK, LanesHold
<1>9. HashIsIndexed
  BY <1>1 DEF HashIsIndexed
<1>10. NothingSlips
  <2>1. job["flush"] = NoJob
    BY <1>2 DEF Lanes
  <2> QED BY <1>1, <2>1, NoJobIsJob
          DEF NothingSlips, QueuesAreTrue, HandIsTrue, SignaturesFollow, Dropping, Taking, Indexing,
              Settled, Shown
<1> QED BY <1>4, <1>7, <1>8, <1>9, <1>10 DEF WatcherIInv

LEMMA WatcherStands ==
  ASSUME WatcherIInv, UNCHANGED watcherVars
  PROVE  WatcherIInv'
<1>1. UNCHANGED <<tree, events, pending, pendingDeletions, debounce, ceiling, phase, job, indexed,
                  edges, hash, stale, signatures, happened, lost, plan, parsed, orphaned,
                  overtaken>>
  BY DEF watcherVars, treeVars, queueVars, storeVars, resolution
<1>2. WatcherTypeOK'
  BY <1>1 DEF WatcherIInv, WatcherTypeOK, JobOK
<1>3. LanesHold'
  BY <1>1 DEF WatcherIInv, LanesHold, JobOK, BatchIsRead, DrainRests, DeletionsAreArmed,
              ChangesAreArmed, Timer, running
<1>4. HashIsIndexed' /\ EdgesHaveNodes'
  BY <1>1 DEF WatcherIInv, HashIsIndexed, EdgesHaveNodes, Nodes
<1>5. NothingSlips'
  BY <1>1 DEF WatcherIInv, NothingSlips, QueuesAreTrue, HandIsTrue, SignaturesFollow, Settled,
              Dropping, Taking, Indexing, Told, Revived, Present, Shown
<1> QED BY <1>2, <1>3, <1>4, <1>5 DEF WatcherIInv

LEMMA WatcherKeeps ==
  ASSUME WatcherIInv, PlansHold, [WatcherNext]_watcherVars
  PROVE  WatcherIInv'
<1>1. ASSUME NEW f \in Files, Edit(f) \/ Enqueue(f) \/ EnqueueDeletion(f)
      PROVE  WatcherIInv'
  BY <1>1, EditKeeps, QueueingKeeps
<1>2. ASSUME FlushNothing \/ Flush \/ FlushTakes \/ DrainTakes \/ Stop
      PROVE  WatcherIInv'
  BY <1>2, FlushNothingKeeps, FlushKeeps, FlushTakesKeeps, DrainTakesKeeps, StopKeeps
<1>3. ASSUME NEW l \in Lanes, Deletions(l)
      PROVE  WatcherIInv'
  BY <1>3, DeleteGraphKeeps, DeleteGraphFailsKeeps, DeleteGraphThrowsKeeps, DeleteSignaturesKeeps,
     DeleteWithoutContextKeeps, DeleteContextThrowsKeeps DEF Deletions
<1>4. ASSUME NEW l \in Lanes, Batch(l)
      PROVE  WatcherIInv'
  BY <1>4, ReadFilesKeeps, ReadFailsKeeps, SkipUnchangedKeeps, StretchKeeps, ReindexKeeps,
     ReindexFailsKeeps, IndexedKeeps, PatchSignaturesKeeps, PatchFailsKeeps DEF Batch
<1> QED BY <1>1, <1>2, <1>3, <1>4, WatcherStands DEF WatcherNext, LaneStep

(***************************************************************************)
(* A lane that is not, or no longer, in the middle of a re-index.          *)
(***************************************************************************)
LEMMA PlansStand ==
  ASSUME PlansHold, NEW l \in Lanes, job'[l].pc \notin Building,
         \A m \in Lanes : m # l => job'[m] = job[m] /\ plan'[m] = plan[m],
         phase' = "watching" => l = "flush" /\ overtaken' = {}
  PROVE  PlansHold'
BY DEF PlansHold, PlanIsOwn, PlanIsCurrent

(***************************************************************************)
(* Nothing a re-index has read changes.                                    *)
(***************************************************************************)
LEMMA PlansRest ==
  ASSUME PlansHold, UNCHANGED <<job, plan, indexed, edges, overtaken>>,
         phase' = "watching" => phase = "watching"
  PROVE  PlansHold'
BY DEF PlansHold, PlanIsOwn, PlanIsCurrent, Nodes, Callers, NewConsumers, Consumers

(***************************************************************************)
(* A lane's step, as far as plans go: its lane's number, its place, and    *)
(* what it leaves alone.                                                   *)
(***************************************************************************)
LEMMA StepIsPlain ==
  ASSUME WatcherIInv, NEW l \in Lanes, job[l].pc # "idle",
         \/ Finish(l)
         \/ \E x \in LanePCs \ Building : Step(l, x)
  PROVE  /\ job'[l].pc \notin Building /\ \A m \in Lanes : m # l => job'[m] = job[m]
         /\ phase' = "watching" => l = "flush" /\ phase = "watching"
<1>1. phase' = phase \/ phase' = "stopped"
  BY DEF Finish, Step, Lanes
<1>2. phase' = "watching" => l = "flush" /\ phase = "watching"
  BY <1>1, DrainWorks
<1>3. CASE Finish(l)
  <2>1. job'[l] = NoJob /\ \A m \in Lanes : m # l => job'[m] = job[m]
    BY <1>3, JobsTyped, NoJobIsJob DEF Finish, WatcherIInv, LanesHold
  <2> QED BY <1>2, <2>1, NoJobIsJob DEF Building
<1>4. CASE \E x \in LanePCs \ Building : Step(l, x)
  BY <1>2, <1>4, StepMoves DEF WatcherIInv
<1> QED BY <1>3, <1>4

LEMMA PlansKeepPlain ==
  ASSUME WatcherIInv, PlansHold, NEW l \in Lanes, job[l].pc # "idle",
         \/ Finish(l)
         \/ \E x \in LanePCs \ Building : Step(l, x),
         UNCHANGED <<plan, overtaken>>
  PROVE  PlansHold'
<1>1. overtaken = {} \/ phase # "watching"
  BY DEF PlansHold
<1> QED BY <1>1, StepIsPlain, PlansStand

LEMMA DeletionsKeepPlans ==
  ASSUME WatcherIInv, PlansHold, NEW l \in Lanes, Deletions(l)
  PROVE  PlansHold'
<1>1. /\ {"deleteContext", "take"} \subseteq LanePCs \ Building
      /\ job[l].pc # "idle"
  BY DEF LanePCs, Building, Deletions, DeleteGraph, DeleteGraphFails, DeleteGraphThrows,
         DeleteSignatures, DeleteWithoutContext, DeleteContextThrows
<1>2. CASE DeleteGraph(l)
  <2>1. Step(l, "deleteContext") /\ overtaken' = overtaken \ job[l].drop /\ UNCHANGED plan
    BY <1>2 DEF DeleteGraph
  <2>2. /\ job'[l].pc \notin Building /\ \A m \in Lanes : m # l => job'[m] = job[m]
        /\ phase' = "watching" => l = "flush" /\ phase = "watching"
    BY <1>1, <2>1, StepIsPlain
  <2>3. phase = "watching" => overtaken = {}
    BY DEF PlansHold
  <2> QED BY <2>1, <2>2, <2>3, PlansStand
<1>3. CASE DeleteGraphFails(l) \/ DeleteGraphThrows(l)
  <2>1. Finish(l) \/ \E x \in LanePCs \ Building : Step(l, x)
    BY <1>1, <1>3 DEF DeleteGraphFails, DeleteGraphThrows
  <2> QED BY <1>1, <1>3, <2>1, PlansKeepPlain DEF DeleteGraphFails, DeleteGraphThrows, resolution
<1>4. CASE DeleteSignatures(l) \/ DeleteWithoutContext(l) \/ DeleteContextThrows(l)
  <2>1. Finish(l) \/ \E x \in LanePCs \ Building : Step(l, x)
    BY <1>1, <1>4 DEF DeleteSignatures, DeleteWithoutContext, DeleteContextThrows
  <2> QED BY <1>1, <1>4, <2>1, PlansKeepPlain
          DEF DeleteSignatures, DeleteWithoutContext, DeleteContextThrows, resolution
<1> QED BY <1>2, <1>3, <1>4 DEF Deletions

LEMMA ReadsKeepPlans ==
  ASSUME WatcherIInv, PlansHold, NEW l \in Lanes, job[l].pc = "read",
         NEW found \in SUBSET Files, ReadInto(l, found), UNCHANGED <<plan, overtaken>>
  PROVE  PlansHold'
<1>1. CASE found = {}
  BY <1>1, PlansKeepPlain DEF ReadInto
<1>2. CASE found # {}
  <2> DEFINE texts == [f \in Files |-> IF f \in found THEN tree[f] ELSE Absent]
             one == [job[l] EXCEPT !.pc = "index"]
             two == [one EXCEPT !.todo = found]
             new == [two EXCEPT !.content = texts]
  <2>1. job' = [job EXCEPT ![l] = new] /\ UNCHANGED phase
    BY <1>2 DEF ReadInto
  <2>2. job \in [Lanes -> Job] /\ job[l] \in Job /\ "index" \in LanePCs
    BY LaneFields DEF LanePCs
  <2>3. texts \in [Files -> AnyText]
    BY DEF WatcherIInv, WatcherTypeOK, AnyText
  <2> HIDE DEF texts
  <2>4. one \in Job /\ one.pc = "index"
    BY <2>2, JobPc
  <2> HIDE DEF one
  <2>5. two \in Job /\ two.pc = "index"
    BY <2>4, JobTodo
  <2> HIDE DEF two
  <2>6. new \in Job /\ new.pc = "index"
    BY <2>3, <2>5, JobContent
  <2> HIDE DEF new
  <2>7. job'[l].pc \notin Building /\ \A m \in Lanes : m # l => job'[m] = job[m]
    BY <2>1, <2>2, <2>6, JobsTyped DEF Building
  <2>8. phase' = "watching" => l = "flush" /\ overtaken' = {}
    BY <2>1, DrainWorks DEF PlansHold
  <2> QED BY <2>7, <2>8, PlansStand
<1> QED BY <1>1, <1>2

LEMMA StretchKeepsPlans ==
  ASSUME WatcherIInv, PlansHold, NEW l \in Lanes,
         (\E f \in Files : ReadRows(l, f)) \/ BuildSubset(l) \/ TakeConsumers(l)
  PROVE  PlansHold'
<1>1. /\ UNCHANGED <<phase, edges, indexed, overtaken>>
      /\ job[l].pc # "idle"
  BY DEF ReadRows, BuildSubset, TakeConsumers, storeVars
<1>2. /\ Nodes' = Nodes /\ \A f \in Files : Callers(f)' = Callers(f)
      /\ \A f, added : Consumers(f, added)' = Consumers(f, added)
  BY <1>1 DEF Nodes, Callers, Consumers
<1>3. phase' = "watching" => l = "flush" /\ overtaken' = {} /\ PlanIsCurrent("flush")
  BY <1>1, DrainWorks DEF PlansHold
<1>4. job \in [Lanes -> Job] /\ job[l] \in Job /\ PlanIsOwn(l)
  BY LaneFields DEF PlansHold
<1> SUFFICES /\ PlanIsOwn(l)' /\ \A m \in Lanes : m # l => PlanIsOwn(m)'
             /\ phase' = "watching" => PlanIsCurrent(l)'
  BY <1>3 DEF PlansHold
<1>5. ASSUME NEW x \in Building, job' = [job EXCEPT ![l].pc = x]
      PROVE  /\ job'[l].pc = x /\ job'[l].content = job[l].content /\ job'[l].todo = job[l].todo
             /\ \A m \in Lanes : m # l => job'[m] = job[m]
  <2> DEFINE new == [job[l] EXCEPT !.pc = x]
  <2>1. /\ new \in Job /\ new.pc = x /\ new.content = job[l].content /\ new.todo = job[l].todo
    BY <1>4, JobPc DEF LanePCs
  <2>2. job' = [job EXCEPT ![l] = new]
    BY <1>5
  <2> HIDE DEF new
  <2> QED BY <1>4, <2>1, <2>2, JobsTyped
<1>6. CASE \E f \in Files : ReadRows(l, f)
  <2>1. PICK f \in Files : ReadRows(l, f)
    BY <1>6
  <2>2. /\ f \in job[l].todo /\ job' = [job EXCEPT ![l].pc = "build"]
        /\ \A m \in Lanes : m # l => plan'[m] = plan[m]
        /\ plan'[l].file = f /\ plan'[l].known = Nodes /\ plan'[l].affected = Callers(f)
        /\ f \in plan'[l].build /\ "build" \in Building
    BY <2>1, ReadRowsReads DEF Building
  <2>3. /\ job'[l].pc = "build" /\ job'[l].todo = job[l].todo
        /\ \A m \in Lanes : m # l => job'[m] = job[m]
    BY <1>5, <2>2
  <2> QED BY <1>2, <2>2, <2>3 DEF PlansHold, PlanIsOwn, PlanIsCurrent
<1>7. CASE BuildSubset(l)
  <2> DEFINE x == IF job[l].pc = "build" THEN "bind" ELSE "swap"
  <2>1. /\ job[l].pc \in {"build", "rebuild"} /\ job' = [job EXCEPT ![l].pc = x]
        /\ \A m \in Lanes : m # l => plan'[m] = plan[m]
        /\ plan'[l].file = plan[l].file /\ plan'[l].known = plan[l].known
        /\ plan'[l].affected = plan[l].affected /\ plan'[l].build = plan[l].build
        /\ plan'[l].texts[plan[l].file] = job[l].content[plan[l].file]
        /\ x \in Building /\ job[l].pc \in Building
    BY <1>7, BuildSubsetReads DEF Building
  <2>2. /\ x = "swap" => job[l].pc = "rebuild"
        /\ x # "rebuild"
    BY <2>1
  <2> HIDE DEF x
  <2>3. /\ job'[l].pc = x /\ job'[l].content = job[l].content /\ job'[l].todo = job[l].todo
        /\ \A m \in Lanes : m # l => job'[m] = job[m]
    BY <1>5, <2>1
  <2>4. PlanIsOwn(l)' /\ \A m \in Lanes : m # l => PlanIsOwn(m)'
    BY <1>4, <2>1, <2>3 DEF PlansHold, PlanIsOwn
  <2>5. plan[l].file \in Files
    BY <1>4, <2>1, LaneFields DEF PlanIsOwn
  <2>6. NewConsumers(l)' = NewConsumers(l)
    BY <1>2, <2>1, <2>3 DEF NewConsumers
  <2>7. phase' = "watching" => PlanIsCurrent(l)'
    BY <1>2, <1>3, <2>1, <2>2, <2>3, <2>5, <2>6 DEF PlanIsCurrent
  <2> QED BY <2>4, <2>7
<1>8. CASE TakeConsumers(l)
  <2>1. /\ job[l].pc = "bind" /\ job' = [job EXCEPT ![l].pc = "rebuild"]
        /\ \A m \in Lanes : m # l => plan'[m] = plan[m]
        /\ plan'[l].file = plan[l].file /\ plan'[l].known = plan[l].known
        /\ plan'[l].affected = plan[l].affected \cup NewConsumers(l)
        /\ plan[l].build \subseteq plan'[l].build
        /\ "rebuild" \in Building /\ job[l].pc \in Building
    BY <1>8, TakeConsumersTakes DEF Building
  <2>2. /\ job'[l].pc = "rebuild" /\ job'[l].content = job[l].content
        /\ job'[l].todo = job[l].todo /\ \A m \in Lanes : m # l => job'[m] = job[m]
    BY <1>5, <2>1
  <2>3. PlanIsOwn(l)' /\ \A m \in Lanes : m # l => PlanIsOwn(m)'
    BY <1>4, <2>1, <2>2 DEF PlansHold, PlanIsOwn
  <2>4. plan[l].file \in Files
    BY <1>4, <2>1, LaneFields DEF PlanIsOwn
  <2>5. NewConsumers(l)' = NewConsumers(l)
    BY <1>2, <2>1, <2>2 DEF NewConsumers
  <2>6. phase' = "watching" => PlanIsCurrent(l)'
    BY <1>2, <1>3, <2>1, <2>2, <2>4, <2>5 DEF PlanIsCurrent
  <2> QED BY <2>3, <2>6
<1> QED BY <1>6, <1>7, <1>8

(***************************************************************************)
(* While the watcher runs no re-index is overtaken.                        *)
(***************************************************************************)
LEMMA ReindexKeepsPlans ==
  ASSUME WatcherIInv, PlansHold, NEW l \in Lanes, Reindex(l)
  PROVE  PlansHold'
<1>0. PICK p, f, content, fresh, sources :
        /\ p = plan[l] /\ f = p.file /\ content = job[l].content[f]
        /\ fresh = Fresh(p) /\ sources = Parsed(p.texts)
  OBVIOUS
<1>s. Swaps(l, p, f, content, fresh, sources)
  BY <1>0, ReindexSwaps
<1>1. /\ job[l].pc \in {"bind", "swap"} /\ job[l].pc \in Building /\ job[l].pc # "idle"
      /\ f \in Files
  BY <1>s DEF Swaps, Building
<1>2. PICK affected \in SUBSET Files :
        /\ affected = p.affected \cup (IF job[l].pc = "bind" THEN NewConsumers(l) ELSE {})
        /\ Overtaken(f, content, p, fresh, affected)
  BY <1>s DEF Swaps
<1>3. /\ job' = [job EXCEPT ![l].pc = "index", ![l].todo = @ \ {f}, ![l].changed = @ \cup {f}]
      /\ plan' = [plan EXCEPT ![l] = NoPlan] /\ UNCHANGED phase
  BY <1>0 DEF Reindex
<1>4. job \in [Lanes -> Job] /\ job[l] \in Job /\ plan \in [Lanes -> Plan]
  BY LaneFields DEF WatcherIInv, WatcherTypeOK
<1>5. /\ job'[l].pc = "index" /\ \A m \in Lanes : m # l => job'[m] = job[m]
      /\ \A m \in Lanes : m # l => plan'[m] = plan[m]
  BY <1>3, <1>4 DEF Job
<1>6. ASSUME phase' = "watching"
      PROVE  l = "flush" /\ overtaken' = {}
  <2>1. l = "flush" /\ overtaken = {} /\ PlanIsCurrent(l)
    BY <1>1, <1>3, <1>6, DrainWorks DEF PlansHold
  <2>2. p.known = Nodes /\ Callers(f) \subseteq affected /\ NewConsumers(l) \subseteq affected
    BY <1>0, <1>1, <1>2, <2>1 DEF PlanIsCurrent
  <2>3. NewConsumers(l) = Consumers(f, content.defs \ Nodes[f])
    BY <1>0, <2>2 DEF NewConsumers
  <2>4. AffectedNow(f, content) \subseteq affected
    BY <2>2, <2>3 DEF AffectedNow
  <2>5. overtaken' = overtaken \ fresh
    BY <1>2, <2>2, <2>4 DEF Overtaken
  <2> QED BY <2>1, <2>5
<1> QED BY <1>5, <1>6, PlansStand DEF Building

LEMMA BatchKeepsPlans ==
  ASSUME WatcherIInv, PlansHold, NEW l \in Lanes, Batch(l)
  PROVE  PlansHold'
<1>1. CASE ReadFiles(l)
  <2>1. job[l].take \cap Present \in SUBSET Files
    BY DEF Present
  <2> QED BY <1>1, <2>1, ReadsKeepPlans DEF ReadFiles, resolution
<1>2. CASE ReadFails(l)
  <2>1. PICK f \in job[l].take \cap Present : ReadInto(l, (job[l].take \cap Present) \ {f})
    BY <1>2 DEF ReadFails
  <2>2. (job[l].take \cap Present) \ {f} \in SUBSET Files
    BY DEF Present
  <2> QED BY <1>2, <2>1, <2>2, ReadsKeepPlans DEF ReadFails, resolution
<1>3. CASE \E f \in Files : SkipUnchanged(l, f)
  <2>1. PICK f \in Files : SkipUnchanged(l, f)
    BY <1>3
  <2>2. /\ job[l].pc = "index" /\ job[l].pc # "idle" /\ job' = [job EXCEPT ![l].todo = @ \ {f}]
        /\ UNCHANGED <<phase, plan, overtaken>>
    BY <2>1 DEF SkipUnchanged, resolution
  <2>3. job \in [Lanes -> Job] /\ job[l] \in Job
    BY LaneFields
  <2>4. job'[l].pc = "index" /\ \A m \in Lanes : m # l => job'[m] = job[m]
    BY <2>2, <2>3 DEF Job
  <2>5. phase' = "watching" => l = "flush" /\ overtaken' = {}
    BY <2>2, DrainWorks DEF PlansHold
  <2> QED BY <2>2, <2>4, <2>5, PlansStand DEF Building
<1>4. CASE (\E f \in Files : ReadRows(l, f)) \/ BuildSubset(l) \/ TakeConsumers(l)
  BY <1>4, StretchKeepsPlans
<1>5. CASE Reindex(l)
  BY <1>5, ReindexKeepsPlans
<1>6. CASE ReindexFails(l)
  <2>1. /\ job[l].pc # "idle" /\ Finish(l) /\ plan' = [plan EXCEPT ![l] = NoPlan]
        /\ UNCHANGED overtaken
    BY <1>6 DEF ReindexFails, Building
  <2>2. \A m \in Lanes : m # l => plan'[m] = plan[m]
    BY <2>1 DEF WatcherIInv, WatcherTypeOK
  <2>3. /\ job'[l].pc \notin Building /\ \A m \in Lanes : m # l => job'[m] = job[m]
        /\ phase' = "watching" => l = "flush" /\ phase = "watching"
    BY <2>1, StepIsPlain
  <2>4. phase = "watching" => overtaken = {}
    BY DEF PlansHold
  <2> QED BY <2>1, <2>2, <2>3, <2>4, PlansStand
<1>7. CASE Indexed(l) \/ PatchSignatures(l) \/ PatchFails(l)
  <2>1. job[l].pc # "idle" /\ "context" \in LanePCs \ Building
    BY <1>7 DEF Indexed, PatchSignatures, PatchFails, LanePCs, Building
  <2>2. Finish(l) \/ \E x \in LanePCs \ Building : Step(l, x)
    BY <1>7, <2>1 DEF Indexed, PatchSignatures, PatchFails
  <2> QED BY <1>7, <2>1, <2>2, PlansKeepPlain DEF Indexed, PatchSignatures, PatchFails, resolution
<1> QED BY <1>1, <1>2, <1>3, <1>4, <1>5, <1>6, <1>7 DEF Batch

LEMMA PlansKeep ==
  ASSUME WatcherIInv, PlansHold, [WatcherNext]_watcherVars
  PROVE  PlansHold'
<1>1. ASSUME NEW f \in Files, Edit(f) \/ Enqueue(f) \/ EnqueueDeletion(f)
      PROVE  PlansHold'
  BY <1>1, PlansRest DEF Edit, Enqueue, EnqueueDeletion, storeVars, resolution
<1>2. CASE FlushNothing \/ UNCHANGED watcherVars
  BY <1>2, PlansRest DEF FlushNothing, watcherVars, storeVars, resolution
<1>3. CASE Flush
  <2>1. /\ {"deleteGraph", "read"} \cap Building = {} /\ "flush" \in Lanes
        /\ UNCHANGED <<phase, plan, overtaken>>
    BY <1>3 DEF Flush, Building, Lanes, resolution
  <2>2. /\ job'["flush"].pc \in {"deleteGraph", "read"}
        /\ \A m \in Lanes : m # "flush" => job'[m] = job[m]
    BY <1>3 DEF Flush, NoJob, WatcherIInv, WatcherTypeOK, Lanes
  <2> QED BY <2>1, <2>2, PlansStand DEF PlansHold
<1>4. CASE Stop
  <2>1. phase' # "watching" /\ UNCHANGED <<plan, indexed, edges, overtaken>>
    BY <1>4 DEF Stop, storeVars, resolution
  <2>2. CASE running
    BY <1>4, <2>1, <2>2, PlansRest DEF Stop
  <2>3. CASE ~running
    <3> DEFINE x == IF pendingDeletions = {} THEN "take" ELSE "deleteGraph"
               one == [NoJob EXCEPT !.drop = pendingDeletions]
               new == [one EXCEPT !.pc = x]
    <3>1. job' = [job EXCEPT !["drain"] = new]
      BY <1>4, <2>3 DEF Stop
    <3>2. one \in Job
      BY NoJobIsJob, JobDrop DEF WatcherIInv, WatcherTypeOK
    <3>3. x \in LanePCs \ Building
      BY DEF LanePCs, Building
    <3> HIDE DEF one, x
    <3>4. new \in Job /\ new.pc = x
      BY <3>2, <3>3, JobPc
    <3> HIDE DEF new
    <3>5. /\ "drain" \in Lanes /\ job'["drain"].pc = x
          /\ \A m \in Lanes : m # "drain" => job'[m] = job[m]
      BY <3>1, <3>4, JobsTyped DEF Lanes, WatcherIInv, WatcherTypeOK
    <3> QED BY <2>1, <3>3, <3>5, PlansStand
  <2> QED BY <2>2, <2>3
<1>5. CASE FlushTakes
  <2>1. /\ "flush" \in Lanes /\ job["flush"].pc # "idle" /\ "read" \in LanePCs \ Building
    BY <1>5 DEF FlushTakes, Lanes, LanePCs, Building
  <2>2. Finish("flush") \/ \E x \in LanePCs \ Building : Step("flush", x)
    BY <1>5, <2>1 DEF FlushTakes
  <2> QED BY <1>5, <2>1, <2>2, PlansKeepPlain DEF FlushTakes, resolution
<1>6. CASE DrainTakes
  <2>1. /\ "drain" \in Lanes /\ job["drain"].pc # "idle" /\ UNCHANGED <<plan, overtaken>>
    BY <1>6 DEF DrainTakes, Lanes, resolution
  <2>2. CASE pending = {}
    BY <1>6, <2>1, <2>2, PlansKeepPlain DEF DrainTakes
  <2>3. CASE pending # {}
    <3>1. /\ job' = [job EXCEPT !["drain"].pc = "read", !["drain"].take = pending]
          /\ UNCHANGED phase
      BY <1>6, <2>3 DEF DrainTakes
    <3>2. job \in [Lanes -> Job] /\ job["drain"] \in Job
      BY <2>1, LaneFields
    <3>3. job'["drain"].pc = "read" /\ \A m \in Lanes : m # "drain" => job'[m] = job[m]
      BY <2>1, <3>1, <3>2 DEF Job
    <3>4. phase' # "watching"
      BY <2>1, <3>1, DrainWorks
    <3> QED BY <2>1, <3>3, <3>4, PlansStand DEF Building
  <2> QED BY <2>2, <2>3
<1>7. ASSUME NEW l \in Lanes, Deletions(l) \/ Batch(l)
      PROVE  PlansHold'
  BY <1>7, DeletionsKeepPlans, BatchKeepsPlans
<1> QED BY <1>1, <1>2, <1>3, <1>4, <1>5, <1>6, <1>7 DEF WatcherNext, LaneStep

LEMMA PlansStart ==
  ASSUME WatcherInit
  PROVE  PlansHold
<1>1. \A l \in Lanes : job[l].pc = "idle"
  BY NoJobIsJob DEF WatcherInit
<1>2. overtaken = {} /\ "flush" \in Lanes
  BY DEF WatcherInit, Lanes
<1> QED BY <1>1, <1>2 DEF PlansHold, PlanIsOwn, PlanIsCurrent, Building

(***************************************************************************)
(* Every step of the watcher - event, timer, flush, drain, each stretch of *)
(* a re-index, failure, stop - keeps the invariant that the properties     *)
(* below are read off.                                                     *)
(***************************************************************************)
THEOREM WatcherInvariant == WatcherSpec => [](WatcherIInv /\ PlansHold)
<1>1. WatcherInit => WatcherIInv /\ PlansHold
  BY WatcherStarts, PlansStart
<1>2. WatcherIInv /\ PlansHold /\ [WatcherNext]_watcherVars => (WatcherIInv /\ PlansHold)'
  BY WatcherKeeps, PlansKeep
<1> QED BY <1>1, <1>2, PTL DEF WatcherSpec

(***************************************************************************)
(* Every variable, and both lanes, keep their types and shapes.            *)
(***************************************************************************)
THEOREM WatcherTyped == WatcherSpec => []WatcherTypeOK
<1>1. WatcherIInv => WatcherTypeOK
  BY DEF WatcherIInv
<1> QED BY <1>1, WatcherInvariant, PTL

(***************************************************************************)
(* No queued file waits for nothing, whatever overlaps: the flush that     *)
(* returns early under another, stop() under one, the drain (armFlush,     *)
(* flush's finally, stop).                                                 *)
(***************************************************************************)
THEOREM QueuesAreArmed == WatcherSpec => []QueueIsArmed
<1>1. WatcherIInv => QueueIsArmed
  BY DEF WatcherIInv, LanesHold, DeletionsAreArmed, ChangesAreArmed, QueueIsArmed, Draining
<1> QED BY <1>1, WatcherInvariant, PTL

(***************************************************************************)
(* No edit of a watched file is forgotten silently: coalescing, the single *)
(* flight and the hash skip lose none (enqueue, flush, handleBatch).       *)
(***************************************************************************)
THEOREM NoEditIsForgotten == WatcherSpec => []NothingForgotten
<1>1. WatcherIInv => NothingForgotten
  <2> SUFFICES ASSUME WatcherIInv, phase = "watching", NEW f \in Files
               PROVE  \/ indexed[f] = tree[f] /\ signatures[f] = tree[f]
                      \/ f \in Underway \cup lost
                      \/ Revived(f)
    BY DEF NothingForgotten
  <2>1. Settled(f) \/ Dropping(f) \/ Taking(f) \/ Indexing(f)
    BY DEF WatcherIInv, NothingSlips
  <2>2. "flush" \in Lanes
    BY DEF Lanes
  <2>3. Indexing(f) => f \in job["flush"].take
    BY <2>2, LaneFields DEF Indexing
  <2>4. f \in job["flush"].drop \cup job["flush"].take => f \in Underway
    BY <2>2 DEF Underway, InWork
  <2> QED BY <2>1, <2>3, <2>4 DEF Settled, Told, Shown, Dropping, Taking, Underway
<1> QED BY <1>1, WatcherInvariant, PTL

(***************************************************************************)
(* However little of a change's closure the budget lets a batch resolve,   *)
(* and whatever other lane changes the store between its awaits, an edge   *)
(* into the tree has a row to point to, but for a caller resolved with a   *)
(* text the rows of its callee do not show, and one whose re-index was     *)
(* overtaken (deleteEdgesForFile, reindexChangedFile).                     *)
(***************************************************************************)
THEOREM EdgesKeepTheirNodes == WatcherSpec => []EdgesHaveNodes
<1>1. WatcherIInv => EdgesHaveNodes
  BY DEF WatcherIInv
<1> QED BY <1>1, WatcherInvariant, PTL

(***************************************************************************)
(* No re-index is overtaken while the watcher runs: the single flight      *)
(* keeps the rows it read those of the store until its swap, and what it   *)
(* found affected is all its swap affects (flush, reindexChangedFile).     *)
(***************************************************************************)
OvertakenByDrains == phase = "watching" => overtaken = {}

(***************************************************************************)
(* So the second exception of EdgesHaveNodes takes stop(), whose drain     *)
(* runs beside the flush of a timer.                                       *)
(***************************************************************************)
THEOREM SingleFlightHolds == WatcherSpec => []OvertakenByDrains
<1>1. PlansHold => OvertakenByDrains
  BY DEF PlansHold, OvertakenByDrains
<1> QED BY <1>1, WatcherInvariant, PTL
-----------------------------------------------------------------------------
(* What the edges of a file say *)

(***************************************************************************)
(* What a file was resolved with: the texts its build parsed, and the rows *)
(* of the other files, which change under it.                              *)
(***************************************************************************)
SourcesOf(c) == [g \in {g \in Files : parsed[c][g] # Absent} |-> parsed[c][g]]
KnownTo(c) == [g \in Files |-> IF parsed[c][g] # Absent THEN parsed[c][g].defs ELSE Nodes[g]]

(***************************************************************************)
(* The strengthening of DivergesOnlyAsKnown: the calls of a file that is   *)
(* not flagged, orphaned or overtaken are bound as its build would bind    *)
(* them to the rows of today, at every moment, whatever is under way.      *)
(***************************************************************************)
Bound(c) == /\ {e.name : e \in EdgesOf(c)} = parsed[c][c].calls
            /\ \A e \in EdgesOf(c) : Binds(e, SourcesOf(c), KnownTo(c))

EdgesAreBound ==
  \A c \in Files : /\ indexed[c] # Absent => parsed[c][c] # Absent
                   /\ c \notin stale \cup orphaned \cup overtaken /\ parsed[c][c] # Absent => Bound(c)

LEMMA SourcesOfAreSources ==
  ASSUME WatcherTypeOK, NEW c \in Files
  PROVE  AreSources(SourcesOf(c))
<1>1. \A g \in Files : parsed[c][g] \in AnyText
  BY DEF WatcherTypeOK
<1>2. \A g \in Files : parsed[c][g] # Absent => parsed[c][g] \in Text
  BY <1>1, TextsAreTexts
<1> QED BY <1>2 DEF SourcesOf, AreSources

LEMMA BoundAtStart ==
  ASSUME WatcherInit
  PROVE  EdgesAreBound
<1>1. /\ indexed = tree /\ parsed = [f \in Files |-> tree] /\ edges = FullEdges(Sources)
      /\ tree \in [Files -> AnyText] /\ WatcherTypeOK
  BY WatcherStarts DEF WatcherInit, WatcherIInv
<1> SUFFICES ASSUME NEW c \in Files, tree[c] # Absent PROVE Bound(c)
  BY <1>1 DEF EdgesAreBound
<1>2. parsed[c] = tree
  BY <1>1
<1>3. SourcesOf(c) = Sources
  BY <1>2 DEF SourcesOf, Sources, Present
<1>4. AreSources(Sources)
  BY <1>1, <1>3, SourcesOfAreSources
<1>5. DOMAIN Sources = Present /\ c \in Present /\ Present \in SUBSET Files
  BY DEF Sources, Present
<1>6. Sources[c] = tree[c]
  BY <1>5 DEF Sources
<1> DEFINE seed == [g \in Files |-> {}]
<1>7. KnownTo(c) = KnownBy(Sources, seed)
  BY <1>1, <1>2, <1>5 DEF KnownTo, KnownBy, Nodes, Sources, Present
<1>8. EdgesOf(c) = From(c, BuildEdges(Present, Sources, seed))
  <2>1. edges = BuildEdges(Present, Sources, seed)
    BY <1>1, <1>5 DEF FullEdges
  <2> QED BY <2>1 DEF EdgesOf, From
<1> HIDE DEF seed
<1>9. BoundAs(EdgesOf(c), c, Sources, KnownTo(c))
  BY <1>4, <1>5, <1>7, <1>8, BuildBinds, Zenon
<1> QED BY <1>2, <1>3, <1>6, <1>9 DEF Bound, BoundAs

(***************************************************************************)
(* The rows go: who pointed at them is orphaned.                           *)
(***************************************************************************)
LEMMA DeleteGraphKeepsBound ==
  ASSUME WatcherIInv, EdgesAreBound, NEW l \in Lanes, DeleteGraph(l)
  PROVE  EdgesAreBound'
<1> DEFINE drop == job[l].drop
<1>1. /\ edges' = {e \in edges : e.from \notin drop /\ e.to \notin drop}
      /\ indexed' = [f \in Files |-> IF f \in drop THEN Absent ELSE indexed[f]]
      /\ stale' = stale \ drop
      /\ parsed' = [f \in Files |-> IF f \in drop THEN Unparsed ELSE parsed[f]]
      /\ orphaned' = (orphaned \cup UNION {Callers(f) : f \in drop}) \ drop
      /\ overtaken' = overtaken \ drop
  BY DEF DeleteGraph
<1> HIDE DEF drop
<1> SUFFICES ASSUME NEW c \in Files
             PROVE  /\ indexed'[c] # Absent => parsed'[c][c] # Absent
                    /\ c \notin stale' \cup orphaned' \cup overtaken' /\ parsed'[c][c] # Absent =>
                         Bound(c)'
  BY DEF EdgesAreBound
<1>2. CASE c \in drop
  <2>1. parsed'[c][c] = Absent /\ indexed'[c] = Absent
    BY <1>1, <1>2 DEF Unparsed
  <2> QED BY <2>1
<1>3. CASE c \notin drop
  <2>1. parsed'[c] = parsed[c] /\ indexed'[c] = indexed[c]
    BY <1>1, <1>3
  <2>2. ASSUME c \notin stale' \cup orphaned' \cup overtaken', parsed'[c][c] # Absent
        PROVE  Bound(c)'
    <3>1. c \notin stale \cup orphaned \cup overtaken /\ \A f \in drop : c \notin Callers(f)
      BY <1>1, <1>3, <2>2
    <3>2. Bound(c)
      BY <2>1, <2>2, <3>1 DEF EdgesAreBound
    <3>3. \A e \in EdgesOf(c) : e \in edges /\ e \in Edge /\ e.from = c
      BY DEF EdgesOf, WatcherIInv, WatcherTypeOK
    <3>4. \A e \in EdgesOf(c) : e.to \notin drop
      BY <1>3, <3>1, <3>3 DEF Callers
    <3>5. EdgesOf(c)' = EdgesOf(c)
      BY <1>1, <1>3, <3>4 DEF EdgesOf
    <3>6. SourcesOf(c)' = SourcesOf(c)
      BY <2>1 DEF SourcesOf
    <3>7. \A g \in Files : /\ KnownTo(c)'[g] \subseteq KnownTo(c)[g]
                           /\ g \notin drop => KnownTo(c)'[g] = KnownTo(c)[g]
      BY <1>1, <2>1 DEF KnownTo, Nodes
    <3>8. ASSUME NEW e \in EdgesOf(c) PROVE Binds(e, SourcesOf(c), KnownTo(c)')
      <4>1. e \in Edge /\ Binds(e, SourcesOf(c), KnownTo(c)) /\ e.to \notin drop
        BY <3>2, <3>3, <3>4 DEF Bound
      <4>2. e.to \in Files => e.name \in KnownTo(c)[e.to]
        BY <4>1, BoundIsKnown
      <4> QED BY <3>7, <4>1, <4>2, StaysBound
    <3> QED BY <2>1, <3>2, <3>5, <3>6, <3>8 DEF Bound
  <2> QED BY <2>1, <2>2 DEF EdgesAreBound
<1> QED BY <1>2, <1>3

(***************************************************************************)
(* A swap: what it re-resolves is bound by its build; who neither calls    *)
(* the file nor consumes a name it gains is bound as before.               *)
(***************************************************************************)
LEMMA ReindexKeepsBound ==
  ASSUME WatcherIInv, PlansHold, EdgesAreBound, NEW l \in Lanes, Reindex(l)
  PROVE  EdgesAreBound'
<1>0. PICK p, f, content, fresh, sources :
        /\ p = plan[l] /\ f = p.file /\ content = job[l].content[f]
        /\ fresh = Fresh(p) /\ sources = Parsed(p.texts)
  OBVIOUS
<1>s. Swaps(l, p, f, content, fresh, sources)
  BY <1>0, ReindexSwaps
<1> DEFINE build == BuildEdges(fresh, sources, p.known)
           added == content.defs \ Nodes[f]
<1>1. /\ f \in Files /\ content \in AnyText /\ content # Absent
      /\ p \in Plan /\ f \in fresh /\ fresh \in SUBSET Files /\ fresh \subseteq DOMAIN sources
      /\ DOMAIN sources = {g \in Files : p.texts[g] # Absent} /\ sources[f] = content
      /\ \A g \in DOMAIN sources : sources[g] = p.texts[g]
      /\ AreSources(sources)
  BY <1>s DEF Swaps
<1>2. /\ edges' = {e \in edges : e.from \notin fresh /\ e.to # f} \cup build
      /\ parsed' = [g \in Files |-> IF g \in fresh THEN p.texts ELSE parsed[g]]
      /\ orphaned' = orphaned \ fresh
      /\ indexed' = [indexed EXCEPT ![f] = content]
  BY <1>s DEF Swaps
<1>3. PICK affected \in SUBSET Files :
        /\ stale' = (stale \ fresh) \cup (affected \ fresh)
        /\ Overtaken(f, content, p, fresh, affected)
  BY <1>s DEF Swaps
<1> HIDE DEF build
<1>4. \A c \in Files : c \notin fresh /\ c \notin stale' \cup overtaken' =>
        c \notin stale \cup overtaken /\ c \notin Callers(f) /\ c \notin Consumers(f, added)
  BY <1>3 DEF Overtaken, AffectedNow
<1>5. \A c \in Files : c \in fresh /\ c \notin overtaken' => p.known = Nodes
  BY <1>3 DEF Overtaken
<1>8. indexed \in [Files -> AnyText] /\ edges \subseteq Edge
  BY DEF WatcherIInv, WatcherTypeOK
<1>9. \A e \in build : e.from \in fresh
  BY <1>1, BuildIsKnown DEF build
<1>10. \A g \in Files : g # f => indexed'[g] = indexed[g] /\ Nodes'[g] = Nodes[g]
  BY <1>2, <1>8 DEF Nodes
<1> SUFFICES ASSUME NEW c \in Files
             PROVE  /\ indexed'[c] # Absent => parsed'[c][c] # Absent
                    /\ c \notin stale' \cup orphaned' \cup overtaken' /\ parsed'[c][c] # Absent =>
                         Bound(c)'
  BY DEF EdgesAreBound
<1>11. CASE c \in fresh
  <2>1. parsed'[c] = p.texts /\ parsed'[c][c] = sources[c] /\ parsed'[c][c] # Absent
    BY <1>1, <1>2, <1>11
  <2>2. ASSUME c \notin overtaken' PROVE Bound(c)'
    <3>1. EdgesOf(c)' = From(c, build)
      BY <1>2, <1>9, <1>11 DEF EdgesOf, From
    <3>2. SourcesOf(c)' = sources
      BY <1>0, <2>1 DEF SourcesOf, Parsed
    <3>3. KnownTo(c)' = KnownBy(sources, p.known)
      <4>1. \A g \in Files : g \notin DOMAIN sources => Nodes'[g] = p.known[g]
        BY <1>1, <1>5, <1>10, <1>11, <2>2
      <4> QED BY <1>1, <2>1, <4>1 DEF KnownTo, KnownBy
    <3>4. BoundAs(From(c, build), c, sources, KnownBy(sources, p.known))
      BY <1>1, <1>11, BuildBinds, Zenon DEF build
    <3> QED BY <2>1, <3>1, <3>2, <3>3, <3>4 DEF Bound, BoundAs
  <2> QED BY <2>1, <2>2
<1>12. CASE c \notin fresh
  <2>1. c # f /\ parsed'[c] = parsed[c] /\ indexed'[c] = indexed[c]
    BY <1>1, <1>2, <1>10, <1>12
  <2>2. ASSUME c \notin stale' \cup orphaned' \cup overtaken', parsed'[c][c] # Absent
        PROVE  Bound(c)'
    <3>1. /\ c \notin stale \cup orphaned \cup overtaken
          /\ c \notin Callers(f) /\ c \notin Consumers(f, added)
      BY <1>2, <1>4, <1>12, <2>2
    <3>2. Bound(c)
      BY <2>1, <2>2, <3>1 DEF EdgesAreBound
    <3>3. \A e \in EdgesOf(c) : /\ e \in edges /\ e \in Edge /\ e.from = c
                                /\ e.to # f
      BY <1>8, <2>1, <3>1 DEF EdgesOf, Callers
    <3>4. \A e \in EdgesOf(c) : e.name \in added =>
            e.tier # "external" /\ ~(e.tier = "name_only" /\ f < e.to)
      BY <2>1, <3>1, <3>3 DEF Consumers
    <3>5. EdgesOf(c)' = EdgesOf(c)
      BY <1>2, <1>9, <1>12, <3>3 DEF EdgesOf
    <3>6. SourcesOf(c)' = SourcesOf(c)
      BY <2>1 DEF SourcesOf
    <3>7. \A g \in Files : g # f => KnownTo(c)'[g] = KnownTo(c)[g]
      BY <1>10, <2>1 DEF KnownTo
    <3>8. KnownTo(c)'[f] \subseteq KnownTo(c)[f] \cup added
      BY <1>1, <1>2, <1>8, <2>1 DEF KnownTo, Nodes, added
    <3>9. ASSUME NEW e \in EdgesOf(c) PROVE Binds(e, SourcesOf(c), KnownTo(c)')
      <4>1. e \in Edge /\ Binds(e, SourcesOf(c), KnownTo(c)) /\ e.to # f /\ e.from = c
        BY <3>2, <3>3 DEF Bound
      <4>2. e.to \in Files => e.name \in KnownTo(c)'[e.to]
        BY <3>7, <4>1, BoundIsKnown
      <4>3. ASSUME NEW g \in Files, e.name \in KnownTo(c)'[g], e.name \notin KnownTo(c)[g]
            PROVE  /\ e.tier # "external"
                   /\ e.tier = "name_only" => g # e.from /\ e.to <= g
        <5>1. g = f /\ e.name \in added
          BY <3>7, <3>8, <4>3
        <5>2. e.tier # "external" /\ ~(e.tier = "name_only" /\ f < e.to)
          BY <3>4, <5>1
        <5>3. e.tier = "name_only" => e.to \in Nat /\ f \in Nat
          BY <1>1, <4>1, FilesAssumption DEF FilesAssumption, Binds, Candidates
        <5> QED BY <2>1, <4>1, <5>1, <5>2, <5>3
      <4> QED BY <4>1, <4>2, <4>3, StaysBound
    <3> QED BY <2>1, <3>2, <3>5, <3>6, <3>9 DEF Bound
  <2> QED BY <2>1, <2>2 DEF EdgesAreBound
<1> QED BY <1>11, <1>12

LEMMA BoundStands ==
  ASSUME EdgesAreBound, UNCHANGED <<indexed, edges, parsed, stale, orphaned, overtaken>>
  PROVE  EdgesAreBound'
BY DEF EdgesAreBound, Bound, EdgesOf, SourcesOf, KnownTo, Nodes

LEMMA WatcherKeepsBound ==
  ASSUME WatcherIInv, PlansHold, EdgesAreBound, [WatcherNext]_watcherVars
  PROVE  EdgesAreBound'
<1>1. ASSUME NEW f \in Files, Edit(f) \/ Enqueue(f) \/ EnqueueDeletion(f)
      PROVE  EdgesAreBound'
  BY <1>1, BoundStands DEF Edit, Enqueue, EnqueueDeletion, storeVars, resolution
<1>2. ASSUME FlushNothing \/ Flush \/ FlushTakes \/ DrainTakes \/ Stop
      PROVE  EdgesAreBound'
  BY <1>2, BoundStands DEF FlushNothing, Flush, FlushTakes, DrainTakes, Stop, storeVars, resolution
<1>3. ASSUME NEW l \in Lanes, Deletions(l)
      PROVE  EdgesAreBound'
  <2>1. CASE DeleteGraph(l)
    BY <2>1, DeleteGraphKeepsBound
  <2>2. CASE \/ DeleteGraphFails(l) \/ DeleteGraphThrows(l) \/ DeleteSignatures(l)
             \/ DeleteWithoutContext(l) \/ DeleteContextThrows(l)
    BY <2>2, BoundStands DEF DeleteGraphFails, DeleteGraphThrows, DeleteSignatures,
                             DeleteWithoutContext, DeleteContextThrows, storeVars, resolution
  <2> QED BY <1>3, <2>1, <2>2 DEF Deletions
<1>4. ASSUME NEW l \in Lanes, Batch(l)
      PROVE  EdgesAreBound'
  <2>1. CASE Reindex(l)
    BY <2>1, ReindexKeepsBound
  <2>2. ASSUME NEW f \in Files, SkipUnchanged(l, f) \/ ReadRows(l, f) PROVE EdgesAreBound'
    BY <2>2, BoundStands DEF SkipUnchanged, ReadRows, storeVars, resolution
  <2>3. CASE BuildSubset(l) \/ TakeConsumers(l) \/ ReindexFails(l)
    BY <2>3, BoundStands DEF BuildSubset, TakeConsumers, ReindexFails, storeVars
  <2>4. CASE \/ ReadFiles(l) \/ ReadFails(l) \/ Indexed(l)
             \/ PatchSignatures(l) \/ PatchFails(l)
    BY <2>4, BoundStands DEF ReadFiles, ReadFails, Indexed, PatchSignatures, PatchFails,
                             storeVars, resolution
  <2> QED BY <1>4, <2>1, <2>2, <2>3, <2>4 DEF Batch
<1>5. CASE UNCHANGED watcherVars
  BY <1>5, BoundStands DEF watcherVars, storeVars, resolution
<1> QED BY <1>1, <1>2, <1>3, <1>4, <1>5 DEF WatcherNext, LaneStep

(***************************************************************************)
(* At any moment, mid-batch, after failures and with two lanes at work,    *)
(* the edges of a file not flagged, orphaned or overtaken are one for each *)
(* call of the text they come from, each bound as the texts it was         *)
(* resolved with and the present rows of the others say: the consumers     *)
(* re-resolved or flagged with a changed file are all whose calls a new    *)
(* name can take (reindexChangedFile, handleDeletions).                    *)
(***************************************************************************)
THEOREM EdgesStayBound == WatcherSpec => []EdgesAreBound
<1>1. WatcherInit => EdgesAreBound
  BY BoundAtStart
<1>2. WatcherIInv /\ PlansHold /\ EdgesAreBound /\ [WatcherNext]_watcherVars => EdgesAreBound'
  BY WatcherKeepsBound
<1> QED BY <1>1, <1>2, WatcherInvariant, PTL DEF WatcherSpec

(***************************************************************************)
(* When everything is indexed, the texts a file's build parsed are texts   *)
(* of the tree, and its edges compare with those of a full analysis.       *)
(***************************************************************************)
LEMMA QuietEdgesCompare ==
  ASSUME WatcherIInv, PlansHold, EdgesAreBound, Quiet,
         NEW c \in Present, c \notin stale \cup orphaned,
         \A g \in Files : parsed[c][g] \in {Absent, tree[g]}
  PROVE  /\ {e.name : e \in EdgesOf(c)} = tree[c].calls
         /\ {d.name : d \in From(c, FullEdges(Sources))} = tree[c].calls
         /\ \A e \in EdgesOf(c) : \E d \in From(c, FullEdges(Sources)) :
              /\ d.name = e.name
              /\ \A x \in From(c, FullEdges(Sources)) : x.name = e.name => x = d
              /\ e = d \/ Outranked(e, d)
              /\ d.tier = "import" => tree[c].imports[e.name] # NoFile
<1> DEFINE seed == [g \in Files |-> {}]
           known == KnownBy(Sources, seed)
           near == SourcesOf(c)
           all == From(c, FullEdges(Sources))
<1>1. /\ c \in Files /\ tree[c] # Absent /\ Present \in SUBSET Files /\ DOMAIN Sources = Present
      /\ \A g \in Present : Sources[g] = tree[g] /\ tree[g] \in AnyText /\ tree[g] # Absent
  BY DEF Present, Sources, WatcherIInv, WatcherTypeOK
<1>2. overtaken = {} /\ \A g \in Files : indexed[g] = tree[g]
  BY DEF Quiet, PlansHold
<1>3. parsed[c][c] = tree[c] /\ Bound(c)
  BY <1>1, <1>2 DEF EdgesAreBound
<1>4. AreSources(Sources) /\ AreSources(near)
  BY <1>1, TextsAreTexts, SourcesOfAreSources DEF AreSources, WatcherIInv
<1>5. c \in DOMAIN near /\ Extends(Sources, near)
  BY <1>1, <1>3 DEF SourcesOf, Extends, Present
<1>6. KnownTo(c) = known
  BY <1>1, <1>2 DEF KnownTo, KnownBy, Nodes, Present
<1>7. BoundAs(all, c, Sources, known)
  <2>1. FullEdges(Sources) = BuildEdges(Present, Sources, seed)
    BY <1>1 DEF FullEdges
  <2>2. Present \subseteq DOMAIN Sources
    BY <1>1
  <2> HIDE DEF seed
  <2>3. BoundAs(From(c, BuildEdges(Present, Sources, seed)), c, Sources, known)
    BY <1>1, <1>4, <2>2, BuildBinds, Zenon
  <2> QED BY <2>1, <2>3
<1>8. known = [g \in Files |-> IF g \in DOMAIN Sources THEN Sources[g].defs ELSE {}]
  BY DEF KnownBy
<1>9. \A e \in EdgesOf(c) : e \in Edge /\ e.from = c /\ Binds(e, near, known)
  BY <1>3, <1>6 DEF Bound, EdgesOf, WatcherIInv, WatcherTypeOK
<1>10. {e.name : e \in EdgesOf(c)} = tree[c].calls
  BY <1>3 DEF Bound
<1> HIDE DEF known, near, all, seed
<1>11. {d.name : d \in all} = tree[c].calls
  BY <1>1, <1>7 DEF BoundAs
<1>12. ASSUME NEW e \in EdgesOf(c)
       PROVE  \E d \in all : /\ d.name = e.name
                             /\ \A x \in all : x.name = e.name => x = d
                             /\ e = d \/ Outranked(e, d)
                             /\ d.tier = "import" => tree[c].imports[e.name] # NoFile
  <2> DEFINE d == Resolve(c, e.name, Sources, known)
  <2>1. e.name \in Sources[c].calls /\ e.name \in Names /\ c \in Files
    BY <1>1, <1>9, <1>10 DEF Edge
  <2>2. d \in all /\ d.from = c /\ d.name = e.name
    BY <1>7, <2>1, ResolveIsKnown DEF BoundAs
  <2>3. \A x \in all : x.name = e.name => x = d
    BY <1>7 DEF BoundAs
  <2>4. \/ e = d
        \/ /\ d.tier = "import"
           /\ \/ e.tier = "same_file"
              \/ e.tier = "name_only" /\ e.to <= d.to
    BY <1>4, <1>5, <1>8, <1>9, BindsAsFar
  <2>5. Binds(d, Sources, known)
    BY <2>1, ResolveBinds
  <2> HIDE DEF d
  <2>6. d.tier = "import" => Sources[c].imports[e.name] # NoFile
    BY <2>2, <2>5 DEF Binds
  <2>7. e = d \/ Outranked(e, d)
    BY <2>4 DEF Outranked
  <2> QED BY <1>1, <2>2, <2>3, <2>6, <2>7
<1> QED BY <1>10, <1>11, <1>12 DEF all

(***************************************************************************)
(* Once everything is indexed, an unflagged file has the edges of a full   *)
(* analysis but for what DivergesOnlyAsKnown lists: the whole tree leads   *)
(* no import elsewhere that a part of it leads to a function ("converge    *)
(* with `analyze --force`, or mark the remainder explicitly stale",        *)
(* mcp-watcher.ts).                                                        *)
(***************************************************************************)
THEOREM DivergenceIsKnown == WatcherSpec => []DivergesOnlyAsKnown
<1>1. WatcherIInv /\ PlansHold /\ EdgesAreBound => DivergesOnlyAsKnown
  <2> SUFFICES ASSUME WatcherIInv, PlansHold, EdgesAreBound, Quiet,
                      NEW c \in Present, c \notin stale \cup orphaned,
                      \A g \in Files : parsed[c][g] \in {Absent, tree[g]}
               PROVE  /\ {e.name : e \in EdgesOf(c)} = tree[c].calls
                      /\ \A e \in EdgesOf(c) :
                           LET full == CHOOSE d \in FullEdges(Sources) :
                                         d.from = c /\ d.name = e.name
                           IN  e = full \/ Outranked(e, full)
    BY DEF DivergesOnlyAsKnown
  <2>1. {e.name : e \in EdgesOf(c)} = tree[c].calls
    BY QuietEdgesCompare
  <2>2. ASSUME NEW e \in EdgesOf(c),
               NEW full, full = CHOOSE d \in FullEdges(Sources) : d.from = c /\ d.name = e.name
        PROVE  e = full \/ Outranked(e, full)
    <3>1. PICK d \in From(c, FullEdges(Sources)) :
            /\ d.name = e.name
            /\ \A x \in From(c, FullEdges(Sources)) : x.name = e.name => x = d
            /\ e = d \/ Outranked(e, d)
      BY QuietEdgesCompare
    <3>2. full = d
      BY <2>2, <3>1 DEF From
    <3> QED BY <3>1, <3>2
  <2> QED BY <2>1, <2>2
<1> QED BY <1>1, WatcherInvariant, EdgesStayBound, PTL

(***************************************************************************)
(* A file that imports no name it calls, is neither flagged nor orphaned   *)
(* and was resolved with the texts of today has exactly the edges a full   *)
(* analysis would write, once everything is indexed.                       *)
(***************************************************************************)
PlainCallsConverge ==
  Quiet => \A c \in {f \in Present \ (stale \cup orphaned) :
                     /\ \A g \in Files : parsed[f][g] \in {Absent, tree[g]}
                     /\ \A n \in tree[f].calls : tree[f].imports[n] = NoFile} :
             EdgesOf(c) = {d \in FullEdges(Sources) : d.from = c}

(***************************************************************************)
(* So what DivergesOnlyAsKnown still excuses are imports: a caller whose   *)
(* calls are not imported converges, edge for edge.                        *)
(***************************************************************************)
THEOREM PlainCallersConverge == WatcherSpec => []PlainCallsConverge
<1>1. WatcherIInv /\ PlansHold /\ EdgesAreBound => PlainCallsConverge
  <2> SUFFICES ASSUME WatcherIInv, PlansHold, EdgesAreBound, Quiet,
                      NEW c \in Present, c \notin stale \cup orphaned,
                      \A g \in Files : parsed[c][g] \in {Absent, tree[g]},
                      \A n \in tree[c].calls : tree[c].imports[n] = NoFile
               PROVE  EdgesOf(c) = From(c, FullEdges(Sources))
    BY DEF PlainCallsConverge, From
  <2>1. /\ {e.name : e \in EdgesOf(c)} = tree[c].calls
        /\ {d.name : d \in From(c, FullEdges(Sources))} = tree[c].calls
    BY QuietEdgesCompare
  <2>2. ASSUME NEW e \in EdgesOf(c)
        PROVE  /\ e \in From(c, FullEdges(Sources))
               /\ \A x \in From(c, FullEdges(Sources)) : x.name = e.name => x = e
    <3>1. PICK d \in From(c, FullEdges(Sources)) :
            /\ \A x \in From(c, FullEdges(Sources)) : x.name = e.name => x = d
            /\ e = d \/ Outranked(e, d)
            /\ d.tier = "import" => tree[c].imports[e.name] # NoFile
      BY QuietEdgesCompare
    <3>2. tree[c].imports[e.name] = NoFile
      BY <2>1
    <3>3. e = d
      BY <3>1, <3>2 DEF Outranked
    <3> QED BY <3>1, <3>3
  <2>3. ASSUME NEW d \in From(c, FullEdges(Sources)) PROVE d \in EdgesOf(c)
    <3>1. PICK e \in EdgesOf(c) : e.name = d.name
      BY <2>1
    <3> QED BY <2>2, <3>1
  <2> QED BY <2>2, <2>3
<1> QED BY <1>1, WatcherInvariant, EdgesStayBound, PTL
=============================================================================
