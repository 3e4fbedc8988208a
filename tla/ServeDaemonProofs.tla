-------------------------- MODULE ServeDaemonProofs ---------------------------
(* Theorems about ServeDaemon, for every value of its constants. *)
EXTENDS ServeDaemon, FiniteSetTheorems, TLAPS

(***************************************************************************)
(* The inductive invariant: a conjunction of named parts.                  *)
(***************************************************************************)
Running(s) == analyses[s].pc # "idle"
OneSlot == /\ \A s, t \in Slots : Running(s) /\ Running(t) => s = t
           /\ rebuildRunning <=> \E s \in Slots : Running(s)
           /\ rebuildPending => rebuildRunning

(***************************************************************************)
(* The schema is looked at before anyone uses the store: by the startup    *)
(* check or by the first request, and an analysis writes it.               *)
(***************************************************************************)
Active(r) == request[r].pc \in {"stat", "read", "open"}
SchemaFirst == /\ schemaReset # "unknown" => schema = "current"
               /\ \A r \in Requests : Active(r) => schemaReset # "unknown"
               /\ cache # NoEntry /\ cache.store => schema = "current"
               /\ \A s \in Slots : analyses[s].pc = "end" => schema = "current" \/ broken

(***************************************************************************)
(* A read that still has the mtime of the file read what the file holds;   *)
(* who waits has polls left.                                               *)
(***************************************************************************)
ReadsAreCurrent ==
  \A r \in Requests :
    /\ request[r].pc = "open" /\ request[r].current => request[r].version = context.version
    /\ request[r].waiting => request[r].polls >= 1

(***************************************************************************)
(* HitIsARead, with the analyses that have yet to write the file.          *)
(***************************************************************************)
Rewrites(s) == analyses[s].pc \in {"scan", "truncate", "fill"}
MislabelledIsRewritten ==
  Mislabelled => \/ batch.pc = "end" \/ reanalyzeTimer \/ rebuildPending \/ broken
                 \/ \E s \in Slots : Rewrites(s)

DaemonIInv == /\ DaemonTypeOK /\ OneSlot /\ SchemaFirst /\ ReadsAreCurrent
              /\ WipedIsRebuilt /\ NoWipedStore /\ MislabelledIsRewritten
-----------------------------------------------------------------------------
(* One field of a record set, the others as they were *)

LEMMA AskedPc ==
  ASSUME NEW a \in Asked, NEW x \in {"unasked", "stat", "read", "open", "answered"}
  PROVE  /\ [a EXCEPT !.pc = x] \in Asked
         /\ [a EXCEPT !.pc = x].pc = x
         /\ [a EXCEPT !.pc = x].waiting = a.waiting
         /\ [a EXCEPT !.pc = x].polls = a.polls
         /\ [a EXCEPT !.pc = x].current = a.current
         /\ [a EXCEPT !.pc = x].version = a.version
BY DEF Asked

LEMMA AskedWaiting ==
  ASSUME NEW a \in Asked, NEW x \in BOOLEAN
  PROVE  /\ [a EXCEPT !.waiting = x] \in Asked
         /\ [a EXCEPT !.waiting = x].pc = a.pc
         /\ [a EXCEPT !.waiting = x].waiting = x
         /\ [a EXCEPT !.waiting = x].polls = a.polls
         /\ [a EXCEPT !.waiting = x].current = a.current
         /\ [a EXCEPT !.waiting = x].version = a.version
BY DEF Asked

LEMMA AskedPolls ==
  ASSUME NEW a \in Asked, NEW x \in 0..Polls
  PROVE  /\ [a EXCEPT !.polls = x] \in Asked
         /\ [a EXCEPT !.polls = x].pc = a.pc
         /\ [a EXCEPT !.polls = x].waiting = a.waiting
         /\ [a EXCEPT !.polls = x].polls = x
         /\ [a EXCEPT !.polls = x].current = a.current
         /\ [a EXCEPT !.polls = x].version = a.version
BY DEF Asked

LEMMA AskedCurrent ==
  ASSUME NEW a \in Asked, NEW x \in BOOLEAN
  PROVE  /\ [a EXCEPT !.current = x] \in Asked
         /\ [a EXCEPT !.current = x].pc = a.pc
         /\ [a EXCEPT !.current = x].waiting = a.waiting
         /\ [a EXCEPT !.current = x].polls = a.polls
         /\ [a EXCEPT !.current = x].current = x
         /\ [a EXCEPT !.current = x].version = a.version
BY DEF Asked

LEMMA AskedVersion ==
  ASSUME NEW a \in Asked, NEW x \in Nat
  PROVE  /\ [a EXCEPT !.version = x] \in Asked
         /\ [a EXCEPT !.version = x].pc = a.pc
         /\ [a EXCEPT !.version = x].waiting = a.waiting
         /\ [a EXCEPT !.version = x].polls = a.polls
         /\ [a EXCEPT !.version = x].current = a.current
         /\ [a EXCEPT !.version = x].version = x
BY DEF Asked

LEMMA RunsPc ==
  ASSUME NEW a \in Runs, NEW x \in {"idle", "scan", "truncate", "fill", "graph", "end"}
  PROVE  /\ [a EXCEPT !.pc = x] \in Runs
         /\ [a EXCEPT !.pc = x].pc = x
         /\ [a EXCEPT !.pc = x].version = a.version
         /\ [a EXCEPT !.pc = x].alone = a.alone
BY DEF Runs

LEMMA RunsVersion ==
  ASSUME NEW a \in Runs, NEW x \in Nat
  PROVE  /\ [a EXCEPT !.version = x] \in Runs
         /\ [a EXCEPT !.version = x].pc = a.pc
         /\ [a EXCEPT !.version = x].version = x
         /\ [a EXCEPT !.version = x].alone = a.alone
BY DEF Runs

LEMMA RunsAlone ==
  ASSUME NEW a \in Runs, NEW x \in BOOLEAN
  PROVE  /\ [a EXCEPT !.alone = x] \in Runs
         /\ [a EXCEPT !.alone = x].pc = a.pc
         /\ [a EXCEPT !.alone = x].version = a.version
         /\ [a EXCEPT !.alone = x].alone = x
BY DEF Runs

LEMMA BatchesPc ==
  ASSUME NEW a \in Batches, NEW x \in {"idle", "load", "truncate", "fill", "prime", "end"}
  PROVE  /\ [a EXCEPT !.pc = x] \in Batches
         /\ [a EXCEPT !.pc = x].pc = x
         /\ [a EXCEPT !.pc = x].version = a.version
         /\ [a EXCEPT !.pc = x].alone = a.alone
BY DEF Batches

LEMMA BatchesVersion ==
  ASSUME NEW a \in Batches, NEW x \in Nat
  PROVE  /\ [a EXCEPT !.version = x] \in Batches
         /\ [a EXCEPT !.version = x].pc = a.pc
         /\ [a EXCEPT !.version = x].version = x
         /\ [a EXCEPT !.version = x].alone = a.alone
BY DEF Batches

LEMMA BatchesAlone ==
  ASSUME NEW a \in Batches, NEW x \in BOOLEAN
  PROVE  /\ [a EXCEPT !.alone = x] \in Batches
         /\ [a EXCEPT !.alone = x].pc = a.pc
         /\ [a EXCEPT !.alone = x].version = a.version
         /\ [a EXCEPT !.alone = x].alone = x
BY DEF Batches

LEMMA Unused ==
  /\ Unasked \in Asked /\ Unasked.pc = "unasked" /\ Unasked.waiting = FALSE
  /\ Unasked.current = FALSE
  /\ Idle \in Runs /\ Idle \in Batches /\ Idle.pc = "idle"
BY DaemonAssumption DEF DaemonAssumption, Unasked, Idle, Asked, Runs, Batches

LEMMA AnsweredIs ==
  /\ Answered \in Asked /\ Answered.pc = "answered" /\ Answered.waiting = FALSE
  /\ Answered.current = FALSE
BY Unused, AskedPc DEF Answered

LEMMA EntryIs ==
  ASSUME NEW hit \in BOOLEAN, NEW version \in Nat, NEW store \in BOOLEAN
  PROVE  /\ Entry(hit, version, store) \in Labelled
         /\ Entry(hit, version, store).hit = hit
         /\ Entry(hit, version, store).store = store
         /\ hit => Entry(hit, version, store).version = version
BY DEF Entry, Labelled
-----------------------------------------------------------------------------
(* What the helpers of the actions do *)

(***************************************************************************)
(* An analysis starts in a free slot, or the one that runs is followed by  *)
(* another.                                                                *)
(***************************************************************************)
LEMMA TriggerStarts ==
  ASSUME DaemonTypeOK, OneSlot, Trigger
  PROVE  /\ analyses' \in [Slots -> Runs]
         /\ rebuildRunning' = TRUE /\ rebuildPending' \in BOOLEAN
         /\ OneSlot'
         /\ \A s \in Slots : Running(s) => analyses'[s] = analyses[s]
         /\ \A s \in Slots : ~Running(s) => analyses'[s].pc \in {"idle", "scan"}
         /\ rebuildPending' \/ \E s \in Slots : analyses'[s].pc = "scan"
<1>1. CASE rebuildRunning /\ rebuildPending' = TRUE /\ UNCHANGED <<rebuildRunning, analyses>>
  BY <1>1 DEF DaemonTypeOK, OneSlot, Running
<1>2. CASE ~rebuildRunning /\ rebuildRunning' = TRUE /\ StartAnalysis /\ UNCHANGED rebuildPending
  <2> DEFINE free == CHOOSE s \in Slots : analyses[s].pc = "idle"
             new == [Idle EXCEPT !.pc = "scan"]
  <2>1. \A s \in Slots : analyses[s].pc = "idle"
    BY <1>2 DEF OneSlot, Running
  <2>2. free \in Slots
    BY <2>1 DEF Slots
  <2>3. analyses' = [analyses EXCEPT ![free] = new]
    BY <1>2 DEF StartAnalysis
  <2>4. new \in Runs /\ new.pc = "scan"
    BY Unused, RunsPc
  <2> HIDE DEF free, new
  <2>5. analyses'[free] = new /\ \A s \in Slots \ {free} : analyses'[s] = analyses[s]
    BY <2>2, <2>3 DEF DaemonTypeOK
  <2>6. analyses' \in [Slots -> Runs]
    BY <2>3, <2>4 DEF DaemonTypeOK
  <2> QED
    BY <1>2, <2>1, <2>2, <2>4, <2>5, <2>6 DEF DaemonTypeOK, OneSlot, Running
<1> QED
  BY <1>1, <1>2 DEF Trigger

(***************************************************************************)
(* After a trigger some analysis has yet to scan, or another will follow;  *)
(* if the schema was stale, one is on its way to the graph.                *)
(***************************************************************************)
LEMMA TriggerHelps ==
  ASSUME DaemonIInv, Trigger
  PROVE  /\ \A s \in Slots : analyses'[s].pc = "end" => analyses[s].pc = "end"
         /\ \A s \in Slots : OnItsWay(s) => OnItsWay(s)'
         /\ \A s \in Slots : Rewrites(s) => Rewrites(s)'
         /\ rebuildPending' \/ \E s \in Slots : Rewrites(s)'
         /\ schema = "stale" => broken \/ \E s \in Slots : OnItsWay(s)'
<1>1. /\ \A s \in Slots : Running(s) => analyses'[s] = analyses[s]
      /\ \A s \in Slots : ~Running(s) => analyses'[s].pc \in {"idle", "scan"}
      /\ rebuildPending' \/ \E s \in Slots : analyses'[s].pc = "scan"
  BY TriggerStarts DEF DaemonIInv
<1>2. \A s \in Slots : Running(s) <=> analyses[s].pc # "idle"
  BY DEF Running
<1>3. /\ \A s \in Slots : analyses'[s].pc = "end" => analyses[s].pc = "end"
      /\ \A s \in Slots : OnItsWay(s) => OnItsWay(s)'
      /\ \A s \in Slots : Rewrites(s) => Rewrites(s)'
      /\ rebuildPending' \/ \E s \in Slots : Rewrites(s)'
  BY <1>1, <1>2 DEF OnItsWay, Rewrites
<1>4. ASSUME schema = "stale", ~broken
      PROVE  \E s \in Slots : OnItsWay(s)'
  <2>1. \A s \in Slots : analyses[s].pc # "end" /\ analyses[s] \in Runs
    BY <1>4 DEF DaemonIInv, SchemaFirst, DaemonTypeOK
  <2>2. \A s \in Slots : Running(s) => OnItsWay(s)
    BY <2>1 DEF Running, OnItsWay, Runs
  <2>3. CASE rebuildRunning
    <3>1. PICK s \in Slots : Running(s)
      BY <2>3 DEF DaemonIInv, OneSlot
    <3> QED
      BY <1>3, <2>2, <3>1
  <2>4. CASE ~rebuildRunning
    <3>1. UNCHANGED rebuildPending /\ ~rebuildPending
      BY <2>4 DEF Trigger, DaemonIInv, OneSlot
    <3> QED
      BY <1>1, <3>1 DEF OnItsWay
  <2> QED
    BY <2>3, <2>4
<1> QED
  BY <1>3, <1>4

(***************************************************************************)
(* Whoever opens the store finds or makes it current, and only a stale one *)
(* is emptied.                                                             *)
(***************************************************************************)
LEMMA OpenStoreMakesCurrent ==
  ASSUME DaemonTypeOK, OpenStore
  PROVE  /\ schema' = "current"
         /\ graph' \in Nat \cup {Empty, Partial}
         /\ schema = "current" => graph' = graph
BY DEF DaemonTypeOK, OpenStore

(***************************************************************************)
(* After a write of the context nothing has the mtime of the file.         *)
(***************************************************************************)
LEMMA OutdateForgets ==
  ASSUME DaemonTypeOK, Outdate
  PROVE  /\ cache' \in Labelled \cup {NoEntry}
         /\ cache' # NoEntry => ~cache'.hit /\ cache # NoEntry /\ cache'.store = cache.store
         /\ request' \in [Requests -> Asked]
         /\ \A r \in Requests : /\ request'[r].pc = request[r].pc
                                /\ request'[r].waiting = request[r].waiting
                                /\ request'[r].polls = request[r].polls
                                /\ request'[r].current = FALSE
<1>1. cache = NoEntry => cache' = NoEntry
  BY DEF Outdate
<1>2. cache # NoEntry => cache' = [hit |-> FALSE, version |-> 0, store |-> cache.store]
  BY DEF Outdate, Entry
<1>3. cache # NoEntry => cache.store \in BOOLEAN
  BY DEF DaemonTypeOK, Labelled
<1>4. \A r \in Requests : request[r] \in Asked
  BY DEF DaemonTypeOK
<1>5. request' = [r \in Requests |-> [request[r] EXCEPT !.current = FALSE]]
  BY DEF Outdate
<1>6. \A r \in Requests : request'[r] = [request[r] EXCEPT !.current = FALSE]
  BY <1>5
<1>7. \A r \in Requests : request'[r] \in Asked
  BY <1>4, <1>6, AskedCurrent
<1>8. cache # NoEntry => [hit |-> FALSE, version |-> 0, store |-> cache.store] \in Labelled
  BY <1>3 DEF Labelled
<1>9. cache' # NoEntry => ~cache'.hit /\ cache # NoEntry /\ cache'.store = cache.store
  BY <1>1, <1>2
<1>10. request' \in [Requests -> Asked]
  BY <1>5, <1>7
<1>11. cache' \in Labelled \cup {NoEntry}
  BY <1>1, <1>2, <1>8
<1>12. \A r \in Requests : /\ request'[r].pc = request[r].pc
                           /\ request'[r].waiting = request[r].waiting
                           /\ request'[r].polls = request[r].polls
                           /\ request'[r].current = FALSE
  <2> TAKE r \in Requests
  <2>1. request[r] \in Asked /\ request'[r] = [request[r] EXCEPT !.current = FALSE]
    BY <1>4, <1>6
  <2> QED
    BY <2>1, AskedCurrent
<1> QED
  BY <1>9, <1>10, <1>11, <1>12

(***************************************************************************)
(* What fills the context file makes a context.                            *)
(***************************************************************************)
LEMMA FilledIsContext ==
  ASSUME DaemonTypeOK, NEW version \in Nat, NEW alone, Fill(version, alone)
  PROVE  context' \in Contexts
<1>1. PICK whole \in BOOLEAN :
        context' = [version |-> version, whole |-> whole, spoilt |-> context.spoilt /\ ~whole]
  BY DEF Fill
<1>2. (context.spoilt /\ ~whole) \in BOOLEAN
  OBVIOUS
<1> QED
  BY <1>1, <1>2 DEF Contexts

(***************************************************************************)
(* Who got the context is answered or looks again, with polls left.        *)
(***************************************************************************)
LEMMA GotAnswers ==
  ASSUME DaemonTypeOK, ReadsAreCurrent, SchemaFirst, NEW r \in Requests, Active(r),
         NEW store \in BOOLEAN, Got(r, store)
  PROVE  /\ request' \in [Requests -> Asked]
         /\ schemaReset' \in {"yes", "no"}
         /\ request'[r].pc \in {"stat", "answered"}
         /\ request'[r].waiting => request'[r].polls >= 1
         /\ \A q \in Requests \ {r} : request'[q] = request[q]
<1>1. /\ schemaReset \in {"yes", "no"}
      /\ request[r].waiting => request[r].polls >= 1
      /\ request[r] \in Asked
  BY DEF DaemonTypeOK, SchemaFirst, ReadsAreCurrent
<1>2. \A new \in Asked : request' = [request EXCEPT ![r] = new] =>
        /\ request' \in [Requests -> Asked]
        /\ request'[r] = new
        /\ \A q \in Requests \ {r} : request'[q] = request[q]
  BY DEF DaemonTypeOK
<1>3. CASE ~request[r].waiting
  <2>1. Answered \in Asked /\ Answered.pc = "answered" /\ ~Answered.waiting
    BY AnsweredIs
  <2>2. request' = [request EXCEPT ![r] = Answered] /\ schemaReset' = schemaReset
    BY <1>3 DEF Got
  <2>3. request'[r] = Answered
    BY <1>2, <2>1, <2>2
  <2>4. request'[r].pc = "answered" /\ ~request'[r].waiting
    BY <2>1, <2>3
  <2>5. schemaReset' \in {"yes", "no"}
    BY <1>1, <2>2
  <2>6. request' \in [Requests -> Asked] /\ \A q \in Requests \ {r} : request'[q] = request[q]
    BY <1>2, <2>1, <2>2
  <2> QED
    BY <2>4, <2>5, <2>6
<1>4. CASE request[r].waiting /\ (store \/ TimesOut(r))
  <2> DEFINE new == [Unasked EXCEPT !.pc = "stat"]
  <2>1. new \in Asked /\ new.pc = "stat" /\ ~new.waiting
    BY Unused, AskedPc
  <2>2. request' = [request EXCEPT ![r] = new] /\ schemaReset' \in {"yes", "no"}
    BY <1>4 DEF Got
  <2> HIDE DEF new
  <2>3. request'[r] = new
    BY <1>2, <2>1, <2>2
  <2> QED
    BY <1>2, <2>1, <2>2, <2>3, Zenon
<1>5. CASE request[r].waiting /\ ~(store \/ TimesOut(r))
  <2> DEFINE new == [request[r] EXCEPT !.pc = "stat", !.version = 0, !.polls = request[r].polls - 1]
  <2>1. request[r].polls - 1 \in 1..Polls
    BY <1>1, <1>5, DaemonAssumption DEF DaemonAssumption, TimesOut, Asked
  <2>2. new \in Asked /\ new.pc = "stat" /\ new.polls >= 1
    <3> DEFINE one == [request[r] EXCEPT !.pc = "stat"]
               two == [one EXCEPT !.version = 0]
    <3>1. one \in Asked /\ one.pc = "stat"
      BY <1>1, AskedPc
    <3> HIDE DEF one
    <3>2. two \in Asked /\ two.pc = "stat"
      BY <3>1, AskedVersion
    <3> HIDE DEF two
    <3>3. new = [two EXCEPT !.polls = request[r].polls - 1]
      BY DEF one, two
    <3>4. request[r].polls - 1 \in 0..Polls
      BY <2>1
    <3> HIDE DEF new
    <3> QED
      BY <2>1, <3>2, <3>3, <3>4, AskedPolls
  <2>3. request' = [request EXCEPT ![r] = new] /\ schemaReset' = schemaReset
    BY <1>1, <1>5 DEF Got, DaemonTypeOK, Asked
  <2> HIDE DEF new
  <2>4. request'[r] = new
    BY <1>2, <2>2, <2>3
  <2> QED
    BY <1>1, <1>2, <2>2, <2>3, <2>4, Zenon
<1> QED
  BY <1>3, <1>4, <1>5
-----------------------------------------------------------------------------
(* The actions keep the invariant *)

LEMMA ScanKeeps ==
  ASSUME DaemonIInv, NEW s \in Slots, Scan(s)
  PROVE  DaemonIInv'
<1>1. /\ analyses[s].pc = "scan" /\ analyses'[s].pc = "truncate"
      /\ analyses' \in [Slots -> Runs]
      /\ \A t \in Slots \ {s} : analyses'[t] = analyses[t]
      /\ UNCHANGED <<tree, context, graph, schema, daemon, cache, schemaReset, request,
                     rebuildRunning, rebuildPending, reanalyzeTimer, batch, seen, flushed,
                     troubles, broken>>
  <2> DEFINE one == [Idle EXCEPT !.pc = "truncate"]
             new == [one EXCEPT !.version = tree]
  <2>1. one \in Runs /\ one.pc = "truncate"
    BY Unused, RunsPc
  <2> HIDE DEF one
  <2>2. new \in Runs /\ new.pc = "truncate"
    BY <2>1, RunsVersion DEF DaemonIInv, DaemonTypeOK
  <2>3. analyses' = [analyses EXCEPT ![s] = new]
    BY DEF Scan, one
  <2> HIDE DEF new
  <2> QED
    BY <2>2, <2>3 DEF DaemonIInv, DaemonTypeOK, Scan, diskVars, handlerVars, watchVars
<1>2. DaemonTypeOK'
  BY <1>1 DEF DaemonIInv, DaemonTypeOK
<1>3. OneSlot'
  BY <1>1 DEF DaemonIInv, OneSlot, Running
<1>4. SchemaFirst'
  BY <1>1 DEF DaemonIInv, SchemaFirst, Active
<1>5. ReadsAreCurrent'
  BY <1>1 DEF DaemonIInv, ReadsAreCurrent
<1>6. WipedIsRebuilt'
  BY <1>1 DEF DaemonIInv, WipedIsRebuilt, OnItsWay
<1>7. NoWipedStore'
  BY <1>1 DEF DaemonIInv, NoWipedStore
<1>8. MislabelledIsRewritten'
  BY <1>1 DEF DaemonIInv, MislabelledIsRewritten, Mislabelled, Rewrites
<1> QED
  BY <1>2, <1>3, <1>4, <1>5, <1>6, <1>7, <1>8 DEF DaemonIInv

LEMMA EditKeeps ==
  ASSUME DaemonIInv, Edit
  PROVE  DaemonIInv'
<1>1. /\ tree' = tree + 1 /\ troubles' \in 0..MaxTroubles
      /\ UNCHANGED <<context, graph, schema, daemon, cache, schemaReset, request,
                     rebuildRunning, rebuildPending, reanalyzeTimer, analyses, batch, seen,
                     flushed, broken>>
  BY DaemonAssumption DEF DaemonAssumption, DaemonIInv, DaemonTypeOK, Edit, Trouble, diskVars,
     handlerVars, rebuildVars, watchVars
<1>2. DaemonTypeOK'
  BY <1>1 DEF DaemonIInv, DaemonTypeOK
<1>3. OneSlot'
  BY <1>1 DEF DaemonIInv, OneSlot, Running
<1>4. SchemaFirst'
  BY <1>1 DEF DaemonIInv, SchemaFirst, Active
<1>5. ReadsAreCurrent'
  BY <1>1 DEF DaemonIInv, ReadsAreCurrent
<1>6. WipedIsRebuilt'
  BY <1>1 DEF DaemonIInv, WipedIsRebuilt, OnItsWay
<1>7. NoWipedStore'
  BY <1>1 DEF DaemonIInv, NoWipedStore
<1>8. MislabelledIsRewritten'
  BY <1>1 DEF DaemonIInv, MislabelledIsRewritten, Mislabelled, Rewrites
<1> QED
  BY <1>2, <1>3, <1>4, <1>5, <1>6, <1>7, <1>8 DEF DaemonIInv

LEMMA RestartKeeps ==
  ASSUME DaemonIInv, Restart
  PROVE  DaemonIInv'
<1>1. /\ daemon' = "starting"
      /\ UNCHANGED <<tree, context, graph, schema, cache, schemaReset, request, rebuildRunning,
                     rebuildPending, reanalyzeTimer, analyses, batch, seen, flushed, troubles,
                     broken>>
  BY DEF Restart, diskVars, handlerVars, rebuildVars, watchVars
<1>2. DaemonTypeOK'
  BY <1>1 DEF DaemonIInv, DaemonTypeOK
<1>3. OneSlot'
  BY <1>1 DEF DaemonIInv, OneSlot, Running
<1>4. SchemaFirst'
  BY <1>1 DEF DaemonIInv, SchemaFirst, Active
<1>5. ReadsAreCurrent'
  BY <1>1 DEF DaemonIInv, ReadsAreCurrent
<1>6. WipedIsRebuilt'
  BY <1>1 DEF DaemonIInv, WipedIsRebuilt, OnItsWay
<1>7. NoWipedStore'
  BY <1>1 DEF DaemonIInv, NoWipedStore
<1>8. MislabelledIsRewritten'
  BY <1>1 DEF DaemonIInv, MislabelledIsRewritten, Mislabelled, Rewrites
<1> QED
  BY <1>2, <1>3, <1>4, <1>5, <1>6, <1>7, <1>8 DEF DaemonIInv

LEMMA ReanalyzeFiresKeeps ==
  ASSUME DaemonIInv, ReanalyzeFires
  PROVE  DaemonIInv'
<1>1. /\ reanalyzeTimer' = FALSE /\ Trigger
      /\ UNCHANGED <<tree, context, graph, schema, daemon, cache, schemaReset, request, batch,
                     seen, flushed, troubles, broken>>
  BY DEF ReanalyzeFires, diskVars, handlerVars, watchVars
<1>2. DaemonTypeOK'
  BY <1>1, TriggerStarts DEF DaemonIInv, DaemonTypeOK
<1>3. OneSlot'
  BY <1>1, TriggerStarts DEF DaemonIInv, OneSlot, Running
<1>4. SchemaFirst'
  BY <1>1, TriggerHelps DEF DaemonIInv, SchemaFirst, Active
<1>5. ReadsAreCurrent'
  BY <1>1 DEF DaemonIInv, ReadsAreCurrent
<1>6. WipedIsRebuilt'
  BY <1>1, TriggerHelps DEF DaemonIInv, WipedIsRebuilt, OnItsWay
<1>7. NoWipedStore'
  BY <1>1 DEF DaemonIInv, NoWipedStore
<1>8. MislabelledIsRewritten'
  BY <1>1, TriggerHelps DEF DaemonIInv, MislabelledIsRewritten, Mislabelled, Rewrites
<1> QED
  BY <1>2, <1>3, <1>4, <1>5, <1>6, <1>7, <1>8 DEF DaemonIInv

LEMMA StartupCheckKeeps ==
  ASSUME DaemonIInv, StartupCheck
  PROVE  DaemonIInv'
<1>1. /\ daemon' = "up" /\ schema' = "current" /\ seen' = tree
      /\ schemaReset' \in {"yes", "no"}
      /\ \/ schema = "stale" /\ graph' = Empty /\ Trigger
         \/ /\ schema = "current" /\ graph' = graph
            /\ UNCHANGED <<rebuildRunning, rebuildPending, analyses>>
      /\ UNCHANGED <<tree, context, cache, request, reanalyzeTimer, batch, flushed, troubles,
                     broken>>
  BY DEF DaemonIInv, DaemonTypeOK, StartupCheck, OpenStore, NoTrigger
<1>2. DaemonTypeOK'
  BY <1>1, TriggerStarts DEF DaemonIInv, DaemonTypeOK
<1>3. OneSlot'
  <2>1. CASE Trigger
    BY <2>1, TriggerStarts DEF DaemonIInv
  <2>2. CASE UNCHANGED <<rebuildRunning, rebuildPending, analyses>>
    BY <2>2 DEF DaemonIInv, OneSlot, Running
  <2> QED
    BY <1>1, <2>1, <2>2
<1>4. SchemaFirst'
  BY <1>1, TriggerHelps DEF DaemonIInv, SchemaFirst, Active
<1>5. ReadsAreCurrent'
  BY <1>1 DEF DaemonIInv, ReadsAreCurrent
<1>6. WipedIsRebuilt'
  BY <1>1, TriggerHelps DEF DaemonIInv, WipedIsRebuilt, OnItsWay
<1>7. NoWipedStore'
  BY <1>1 DEF DaemonIInv, NoWipedStore, SchemaFirst
<1>8. MislabelledIsRewritten'
  BY <1>1, TriggerHelps DEF DaemonIInv, MislabelledIsRewritten, Mislabelled, Rewrites
<1> QED
  BY <1>2, <1>3, <1>4, <1>5, <1>6, <1>7, <1>8 DEF DaemonIInv

LEMMA TruncateContextKeeps ==
  ASSUME DaemonIInv, NEW s \in Slots, TruncateContext(s)
  PROVE  DaemonIInv'
<1>1. /\ context' \in Contexts /\ context'.version = context.version /\ Outdate
      /\ analyses[s].pc = "truncate" /\ analyses'[s].pc = "fill" /\ analyses' \in [Slots -> Runs]
      /\ \A t \in Slots \ {s} : analyses'[t] = analyses[t]
      /\ batch' \in Batches /\ batch'.pc = batch.pc
      /\ UNCHANGED <<tree, graph, schema, daemon, schemaReset, rebuildRunning, rebuildPending,
                     reanalyzeTimer, seen, flushed, troubles, broken>>
  <2> DEFINE one == [analyses[s] EXCEPT !.pc = "fill"]
             new == [one EXCEPT !.alone = TRUE]
  <2>1. one \in Runs /\ one.pc = "fill"
    BY RunsPc DEF DaemonIInv, DaemonTypeOK
  <2> HIDE DEF one
  <2>2. new \in Runs /\ new.pc = "fill"
    BY <2>1, RunsAlone
  <2>3. analyses' = [analyses EXCEPT ![s] = new]
    BY DEF TruncateContext, one, DaemonIInv, DaemonTypeOK
  <2> HIDE DEF new
  <2>4. batch' \in Batches /\ batch'.pc = batch.pc
    BY BatchesAlone DEF DaemonIInv, DaemonTypeOK, TruncateContext
  <2>5. /\ context' \in Contexts
        /\ context'.version = context.version
    BY DEF Contexts, DaemonIInv, DaemonTypeOK, TruncateContext, Truncate
  <2> QED
    BY <2>2, <2>3, <2>4, <2>5 DEF DaemonIInv, DaemonTypeOK, TruncateContext, Truncate
<1>2. DaemonTypeOK'
  <2>1. cache' \in Labelled \cup {NoEntry} /\ request' \in [Requests -> Asked]
    BY <1>1, OutdateForgets DEF DaemonIInv
  <2> QED
    BY <1>1, <2>1 DEF DaemonIInv, DaemonTypeOK
<1>3. OneSlot'
  BY <1>1 DEF DaemonIInv, OneSlot, Running
<1>4. SchemaFirst'
  BY <1>1, OutdateForgets DEF DaemonIInv, SchemaFirst, Active
<1>5. ReadsAreCurrent'
  BY <1>1, OutdateForgets DEF DaemonIInv, ReadsAreCurrent
<1>6. WipedIsRebuilt'
  BY <1>1 DEF DaemonIInv, WipedIsRebuilt, OnItsWay
<1>7. NoWipedStore'
  BY <1>1, OutdateForgets DEF DaemonIInv, NoWipedStore
<1>8. MislabelledIsRewritten'
  BY <1>1, OutdateForgets DEF DaemonIInv, MislabelledIsRewritten, Mislabelled, Rewrites
<1> QED
  BY <1>2, <1>3, <1>4, <1>5, <1>6, <1>7, <1>8 DEF DaemonIInv

LEMMA FillContextKeeps ==
  ASSUME DaemonIInv, NEW s \in Slots, FillContext(s)
  PROVE  DaemonIInv'
<1>1. /\ context' \in Contexts /\ Outdate
      /\ analyses[s].pc = "fill" /\ analyses'[s].pc = "graph" /\ analyses' \in [Slots -> Runs]
      /\ \A t \in Slots \ {s} : analyses'[t] = analyses[t]
      /\ batch' \in Batches /\ batch'.pc = batch.pc
      /\ UNCHANGED <<tree, graph, schema, daemon, schemaReset, rebuildRunning, rebuildPending,
                     reanalyzeTimer, seen, flushed, troubles, broken>>
  <2> DEFINE one == [analyses[s] EXCEPT !.pc = "graph"]
             new == [one EXCEPT !.alone = FALSE]
  <2>1. one \in Runs /\ one.pc = "graph"
    BY RunsPc DEF DaemonIInv, DaemonTypeOK
  <2> HIDE DEF one
  <2>2. new \in Runs /\ new.pc = "graph"
    BY <2>1, RunsAlone
  <2>3. analyses' = [analyses EXCEPT ![s] = new]
    BY DEF FillContext, one, DaemonIInv, DaemonTypeOK
  <2> HIDE DEF new
  <2>4. batch' \in Batches /\ batch'.pc = batch.pc
    BY BatchesAlone DEF DaemonIInv, DaemonTypeOK, FillContext
  <2>5. context' \in Contexts /\ Outdate
    <3>1. analyses[s].version \in Nat /\ Fill(analyses[s].version, analyses[s].alone)
      BY DEF DaemonIInv, DaemonTypeOK, FillContext, Runs
    <3>2. context' \in Contexts
      BY <3>1, FilledIsContext DEF DaemonIInv
    <3>3. Outdate
      BY <3>1 DEF Fill
    <3> QED
      BY <3>1, <3>2, <3>3
  <2> QED
    BY <2>2, <2>3, <2>4, <2>5 DEF DaemonIInv, DaemonTypeOK, FillContext
<1>2. DaemonTypeOK'
  <2>1. cache' \in Labelled \cup {NoEntry} /\ request' \in [Requests -> Asked]
    BY <1>1, OutdateForgets DEF DaemonIInv
  <2> QED
    BY <1>1, <2>1 DEF DaemonIInv, DaemonTypeOK
<1>3. OneSlot'
  BY <1>1 DEF DaemonIInv, OneSlot, Running
<1>4. SchemaFirst'
  BY <1>1, OutdateForgets DEF DaemonIInv, SchemaFirst, Active
<1>5. ReadsAreCurrent'
  BY <1>1, OutdateForgets DEF DaemonIInv, ReadsAreCurrent
<1>6. WipedIsRebuilt'
  BY <1>1 DEF DaemonIInv, WipedIsRebuilt, OnItsWay
<1>7. NoWipedStore'
  BY <1>1, OutdateForgets DEF DaemonIInv, NoWipedStore
<1>8. MislabelledIsRewritten'
  BY <1>1, OutdateForgets DEF DaemonIInv, MislabelledIsRewritten, Mislabelled, Rewrites
<1> QED
  BY <1>2, <1>3, <1>4, <1>5, <1>6, <1>7, <1>8 DEF DaemonIInv

LEMMA WriteGraphKeeps ==
  ASSUME DaemonIInv, NEW s \in Slots, WriteGraph(s)
  PROVE  DaemonIInv'
<1>1. /\ analyses[s].pc = "graph" /\ analyses'[s].pc = "end" /\ analyses' \in [Slots -> Runs]
      /\ \A t \in Slots \ {s} : analyses'[t] = analyses[t]
      /\ schema' = "current" /\ graph' \in Nat
      /\ UNCHANGED <<tree, context, daemon, cache, schemaReset, request, rebuildRunning,
                     rebuildPending, reanalyzeTimer, batch, seen, flushed, troubles, broken>>
  <2> DEFINE new == [analyses[s] EXCEPT !.pc = "end"]
  <2>1. new \in Runs /\ new.pc = "end"
    BY RunsPc DEF DaemonIInv, DaemonTypeOK
  <2>2. analyses' = [analyses EXCEPT ![s] = new]
    BY DEF WriteGraph, DaemonIInv, DaemonTypeOK
  <2> HIDE DEF new
  <2>3. /\ analyses' \in [Slots -> Runs] /\ analyses'[s] = new
        /\ \A t \in Slots \ {s} : analyses'[t] = analyses[t]
    BY <2>1, <2>2 DEF DaemonIInv, DaemonTypeOK
  <2> QED
    BY <2>1, <2>3, DaemonAssumption DEF DaemonAssumption, DaemonIInv, DaemonTypeOK, Runs, WriteGraph,
       Trouble, OpenStore, diskVars, handlerVars, watchVars
<1>2. DaemonTypeOK'
  BY <1>1 DEF DaemonIInv, DaemonTypeOK
<1>3. OneSlot'
  BY <1>1 DEF DaemonIInv, OneSlot, Running
<1>4. SchemaFirst'
  BY <1>1 DEF DaemonIInv, SchemaFirst, Active
<1>5. ReadsAreCurrent'
  BY <1>1 DEF DaemonIInv, ReadsAreCurrent
<1>6. WipedIsRebuilt'
  BY <1>1, DaemonAssumption DEF DaemonIInv, WipedIsRebuilt, OnItsWay, DaemonAssumption
<1>7. NoWipedStore'
  BY <1>1, DaemonAssumption DEF DaemonIInv, NoWipedStore, DaemonAssumption
<1>8. MislabelledIsRewritten'
  BY <1>1 DEF DaemonIInv, MislabelledIsRewritten, Mislabelled, Rewrites
<1> QED
  BY <1>2, <1>3, <1>4, <1>5, <1>6, <1>7, <1>8 DEF DaemonIInv

LEMMA WriteGraphFailsKeeps ==
  ASSUME DaemonIInv, NEW s \in Slots, WriteGraphFails(s)
  PROVE  DaemonIInv'
<1>1. /\ analyses[s].pc = "graph" /\ analyses'[s].pc = "end" /\ analyses' \in [Slots -> Runs]
      /\ \A t \in Slots \ {s} : analyses'[t] = analyses[t]
      /\ schema' = "current" /\ graph' \in Nat \cup {Empty, Partial}
      /\ broken' = TRUE /\ troubles' \in 0..MaxTroubles
      /\ UNCHANGED <<tree, context, daemon, cache, schemaReset, request, rebuildRunning,
                     rebuildPending, reanalyzeTimer, batch, seen, flushed>>
  <2> DEFINE new == [analyses[s] EXCEPT !.pc = "end"]
  <2>1. new \in Runs /\ new.pc = "end"
    BY RunsPc DEF DaemonIInv, DaemonTypeOK
  <2>2. analyses' = [analyses EXCEPT ![s] = new]
    BY DEF WriteGraphFails, DaemonIInv, DaemonTypeOK
  <2> HIDE DEF new
  <2>3. /\ analyses' \in [Slots -> Runs] /\ analyses'[s] = new
        /\ \A t \in Slots \ {s} : analyses'[t] = analyses[t]
    BY <2>1, <2>2 DEF DaemonIInv, DaemonTypeOK
  <2> QED
    BY <2>1, <2>3, DaemonAssumption DEF DaemonAssumption, DaemonIInv, DaemonTypeOK, Runs,
       WriteGraphFails, Trouble, OpenStore, diskVars, handlerVars, watchVars
<1>2. DaemonTypeOK'
  BY <1>1 DEF DaemonIInv, DaemonTypeOK
<1>3. OneSlot'
  BY <1>1 DEF DaemonIInv, OneSlot, Running
<1>4. SchemaFirst'
  BY <1>1 DEF DaemonIInv, SchemaFirst, Active
<1>5. ReadsAreCurrent'
  BY <1>1 DEF DaemonIInv, ReadsAreCurrent
<1>6. WipedIsRebuilt'
  BY <1>1 DEF DaemonIInv, WipedIsRebuilt, OnItsWay
<1>7. NoWipedStore'
  BY <1>1 DEF DaemonIInv, NoWipedStore
<1>8. MislabelledIsRewritten'
  BY <1>1 DEF DaemonIInv, MislabelledIsRewritten, Mislabelled, Rewrites
<1> QED
  BY <1>2, <1>3, <1>4, <1>5, <1>6, <1>7, <1>8 DEF DaemonIInv

LEMMA AnalysisFailsKeeps ==
  ASSUME DaemonIInv, NEW s \in Slots, AnalysisFails(s)
  PROVE  DaemonIInv'
<1>1. /\ analyses[s].pc # "idle" /\ analyses'[s].pc = "end" /\ analyses' \in [Slots -> Runs]
      /\ \A t \in Slots \ {s} : analyses'[t] = analyses[t]
      /\ context' \in Contexts /\ context'.version = context.version
      /\ UNCHANGED <<cache, request>> \/ Outdate
      /\ batch' \in Batches /\ batch'.pc = batch.pc
      /\ broken' = TRUE /\ troubles' \in 0..MaxTroubles
      /\ UNCHANGED <<tree, graph, schema, daemon, schemaReset, rebuildRunning, rebuildPending,
                     reanalyzeTimer, seen, flushed>>
  <2> DEFINE new == [analyses[s] EXCEPT !.pc = "end"]
  <2>1. new \in Runs /\ new.pc = "end"
    BY RunsPc DEF DaemonIInv, DaemonTypeOK
  <2>2. analyses' = [analyses EXCEPT ![s] = new] /\ analyses[s].pc # "idle"
    BY DEF AnalysisFails, DaemonIInv, DaemonTypeOK
  <2> HIDE DEF new
  <2>3. /\ analyses' \in [Slots -> Runs] /\ analyses'[s] = new
        /\ \A t \in Slots \ {s} : analyses'[t] = analyses[t]
    BY <2>1, <2>2 DEF DaemonIInv, DaemonTypeOK
  <2>4. context \in Contexts /\ batch \in Batches
    BY DEF DaemonIInv, DaemonTypeOK
  <2>5. /\ context' \in Contexts /\ context'.version = context.version
        /\ UNCHANGED <<cache, request>> \/ Outdate
        /\ batch' \in Batches /\ batch'.pc = batch.pc
    <3>1. CASE UNCHANGED <<context, cache, request, batch>>
      BY <2>4, <3>1
    <3>2. CASE Truncate /\ batch' = [batch EXCEPT !.alone = FALSE]
      <4>1. context' = [context EXCEPT !.whole = FALSE] /\ Outdate
        BY <3>2 DEF Truncate
      <4>2. context' \in Contexts /\ context'.version = context.version
        BY <2>4, <4>1 DEF Contexts
      <4> QED
        BY <2>4, <3>2, <4>1, <4>2, BatchesAlone
    <3> QED
      BY <3>1, <3>2 DEF AnalysisFails
  <2>6. troubles' \in 0..MaxTroubles
    BY DaemonAssumption DEF DaemonAssumption, DaemonIInv, DaemonTypeOK, AnalysisFails, Trouble
  <2> QED
    BY <2>1, <2>2, <2>3, <2>5, <2>6 DEF AnalysisFails
<1>2. DaemonTypeOK'
  <2>1. cache' \in Labelled \cup {NoEntry} /\ request' \in [Requests -> Asked]
    BY <1>1, OutdateForgets DEF DaemonIInv, DaemonTypeOK
  <2> QED
    BY <1>1, <2>1 DEF DaemonIInv, DaemonTypeOK
<1>3. OneSlot'
  BY <1>1 DEF DaemonIInv, OneSlot, Running
<1>4. SchemaFirst'
  BY <1>1, OutdateForgets DEF DaemonIInv, SchemaFirst, Active
<1>5. ReadsAreCurrent'
  BY <1>1, OutdateForgets DEF DaemonIInv, ReadsAreCurrent
<1>6. WipedIsRebuilt' /\ NoWipedStore' /\ MislabelledIsRewritten'
  BY <1>1 DEF WipedIsRebuilt, NoWipedStore, MislabelledIsRewritten
<1> QED
  BY <1>2, <1>3, <1>4, <1>5, <1>6 DEF DaemonIInv

LEMMA RebuiltKeeps ==
  ASSUME DaemonIInv, NEW s \in Slots, Rebuilt(s)
  PROVE  DaemonIInv'
<1>1. /\ analyses[s].pc = "end" /\ analyses'[s].pc = "idle" /\ analyses' \in [Slots -> Runs]
      /\ \A t \in Slots \ {s} : analyses'[t] = analyses[t]
      /\ rebuildRunning' = FALSE /\ rebuildPending' = FALSE
      /\ reanalyzeTimer' = (reanalyzeTimer \/ rebuildPending)
      /\ UNCHANGED <<tree, context, graph, schema, daemon, cache, schemaReset, request, batch,
                     seen, flushed, troubles, broken>>
  BY Unused DEF DaemonIInv, DaemonTypeOK, Rebuilt, diskVars, handlerVars, watchVars
<1>2. DaemonTypeOK'
  BY <1>1 DEF DaemonIInv, DaemonTypeOK
<1>3. OneSlot'
  BY <1>1 DEF DaemonIInv, OneSlot, Running
<1>4. SchemaFirst'
  BY <1>1 DEF DaemonIInv, SchemaFirst, Active
<1>5. ReadsAreCurrent'
  BY <1>1 DEF DaemonIInv, ReadsAreCurrent
<1>6. WipedIsRebuilt'
  BY <1>1 DEF DaemonIInv, WipedIsRebuilt, OnItsWay
<1>7. NoWipedStore'
  BY <1>1 DEF DaemonIInv, NoWipedStore
<1>8. MislabelledIsRewritten'
  BY <1>1 DEF DaemonIInv, MislabelledIsRewritten, Mislabelled, Rewrites
<1> QED
  BY <1>2, <1>3, <1>4, <1>5, <1>6, <1>7, <1>8 DEF DaemonIInv

LEMMA KillKeeps ==
  ASSUME DaemonIInv, Kill
  PROVE  DaemonIInv'
<1>1. /\ \/ UNCHANGED <<graph, schema>>
         \/ /\ \E s \in Slots : OnItsWay(s)
            /\ schema' = "current" /\ graph' \in {Empty, Partial}
      /\ daemon' = "down" /\ cache' = NoEntry /\ schemaReset' = "unknown" /\ flushed' = 0
      /\ request' \in [Requests -> Asked]
      /\ \A r \in Requests : ~Active(r)' /\ ~request'[r].current /\ ~request'[r].waiting
      /\ rebuildRunning' = FALSE /\ rebuildPending' = FALSE /\ reanalyzeTimer' = FALSE
      /\ analyses' \in [Slots -> Runs] /\ \A s \in Slots : analyses'[s].pc = "idle"
      /\ batch' \in Batches
      /\ troubles' \in 0..MaxTroubles
      /\ broken' = (broken \/ rebuildRunning \/ reanalyzeTimer)
      /\ UNCHANGED <<tree, context, seen>>
  <2>1. /\ request' \in [Requests -> Asked]
        /\ \A r \in Requests : ~Active(r)' /\ ~request'[r].current /\ ~request'[r].waiting
    <3>1. request' = [r \in Requests |-> IF request[r].pc = "unasked" THEN Unasked ELSE Answered]
      BY DEF Kill
    <3>2. \A r \in Requests : request'[r] \in {Unasked, Answered}
      BY <3>1
    <3>3. request' \in [Requests -> Asked]
      BY <3>1, Unused, AnsweredIs
    <3>4. /\ Unasked.pc = "unasked" /\ ~Unasked.current /\ ~Unasked.waiting
          /\ Answered.pc = "answered" /\ ~Answered.current /\ ~Answered.waiting
      BY Unused, AnsweredIs
    <3>5. ASSUME NEW r \in Requests
          PROVE  ~Active(r)' /\ ~request'[r].current /\ ~request'[r].waiting
      <4>1. CASE request'[r] = Unasked
        BY <3>4, <4>1 DEF Active
      <4>2. CASE request'[r] = Answered
        BY <3>4, <4>2 DEF Active
      <4> QED
        BY <3>2, <4>1, <4>2
    <3> QED
      BY <3>3, <3>5
  <2>2. analyses' \in [Slots -> Runs] /\ \A s \in Slots : analyses'[s].pc = "idle"
    BY Unused DEF Kill
  <2>3. batch' \in Batches
    BY Unused DEF Kill
  <2>4. troubles' \in 0..MaxTroubles
    BY DaemonAssumption DEF DaemonAssumption, DaemonIInv, DaemonTypeOK, Kill, Trouble
  <2>5. \/ UNCHANGED <<graph, schema>>
        \/ /\ \E s \in Slots : OnItsWay(s)
           /\ schema' = "current" /\ graph' \in {Empty, Partial}
    BY DEF Kill, OnItsWay
  <2> QED
    BY <2>1, <2>2, <2>3, <2>4, <2>5 DEF Kill
<1>2. DaemonTypeOK'
  BY <1>1 DEF DaemonIInv, DaemonTypeOK
<1>3. OneSlot'
  BY <1>1 DEF DaemonIInv, OneSlot, Running
<1>4. SchemaFirst'
  BY <1>1 DEF DaemonIInv, SchemaFirst, Active
<1>5. ReadsAreCurrent'
  BY <1>1 DEF DaemonIInv, ReadsAreCurrent
<1>6. WipedIsRebuilt'
  <2>1. (\E s \in Slots : OnItsWay(s)) => broken'
    BY <1>1 DEF DaemonIInv, OneSlot, Running, OnItsWay
  <2>2. broken => broken'
    BY <1>1
  <2> QED
    BY <1>1, <2>1, <2>2 DEF DaemonIInv, WipedIsRebuilt
<1>7. NoWipedStore'
  BY <1>1 DEF DaemonIInv, NoWipedStore
<1>8. MislabelledIsRewritten'
  BY <1>1 DEF DaemonIInv, MislabelledIsRewritten, Mislabelled, Rewrites
<1> QED
  BY <1>2, <1>3, <1>4, <1>5, <1>6, <1>7, <1>8 DEF DaemonIInv

LEMMA IndexBatchKeeps ==
  ASSUME DaemonIInv, IndexBatch
  PROVE  DaemonIInv'
<1>1. /\ seen' = tree /\ batch.pc = "idle" /\ batch' \in Batches
      /\ graph' = IF graph = Empty THEN Partial ELSE graph
      /\ UNCHANGED <<tree, context, schema, daemon, cache, schemaReset, request, rebuildRunning,
                     rebuildPending, reanalyzeTimer, analyses, flushed, troubles, broken>>
  BY Unused, BatchesPc DEF IndexBatch, handlerVars, rebuildVars
<1>2. DaemonTypeOK'
  BY <1>1 DEF DaemonIInv, DaemonTypeOK
<1>3. OneSlot'
  BY <1>1 DEF DaemonIInv, OneSlot, Running
<1>4. SchemaFirst'
  BY <1>1 DEF DaemonIInv, SchemaFirst, Active
<1>5. ReadsAreCurrent'
  BY <1>1 DEF DaemonIInv, ReadsAreCurrent
<1>6. WipedIsRebuilt'
  BY <1>1 DEF DaemonIInv, WipedIsRebuilt, OnItsWay
<1>7. NoWipedStore'
  BY <1>1, DaemonAssumption DEF DaemonIInv, NoWipedStore, DaemonAssumption
<1>8. MislabelledIsRewritten'
  BY <1>1 DEF DaemonIInv, MislabelledIsRewritten, Mislabelled, Rewrites
<1> QED
  BY <1>2, <1>3, <1>4, <1>5, <1>6, <1>7, <1>8 DEF DaemonIInv

LEMMA LoadContextKeeps ==
  ASSUME DaemonIInv, LoadContext
  PROVE  DaemonIInv'
<1>1. /\ batch.pc = "load" /\ batch' \in Batches
      /\ UNCHANGED <<tree, context, graph, schema, daemon, cache, schemaReset, request,
                     rebuildRunning, rebuildPending, reanalyzeTimer, analyses, seen, flushed,
                     troubles, broken>>
  <2> DEFINE one == [Idle EXCEPT !.pc = "truncate"]
             new == [one EXCEPT !.version = context.version]
  <2>1. one \in Batches
    BY Unused, BatchesPc
  <2> HIDE DEF one
  <2>2. context.version \in Nat
    BY DEF Contexts, DaemonIInv, DaemonTypeOK
  <2>3. new \in Batches
    BY <2>1, <2>2, BatchesVersion
  <2>4. batch' \in {new, Idle} /\ batch.pc = "load"
    BY DEF LoadContext, one
  <2> HIDE DEF new
  <2> QED
    BY <2>3, <2>4, Unused DEF LoadContext, diskVars, handlerVars, rebuildVars
<1>2. DaemonTypeOK'
  BY <1>1 DEF DaemonIInv, DaemonTypeOK
<1>3. OneSlot'
  BY <1>1 DEF DaemonIInv, OneSlot, Running
<1>4. SchemaFirst'
  BY <1>1 DEF DaemonIInv, SchemaFirst, Active
<1>5. ReadsAreCurrent'
  BY <1>1 DEF DaemonIInv, ReadsAreCurrent
<1>6. WipedIsRebuilt'
  BY <1>1 DEF DaemonIInv, WipedIsRebuilt, OnItsWay
<1>7. NoWipedStore'
  BY <1>1 DEF DaemonIInv, NoWipedStore
<1>8. MislabelledIsRewritten'
  BY <1>1 DEF DaemonIInv, MislabelledIsRewritten, Mislabelled, Rewrites
<1> QED
  BY <1>2, <1>3, <1>4, <1>5, <1>6, <1>7, <1>8 DEF DaemonIInv

LEMMA TruncatePersistedKeeps ==
  ASSUME DaemonIInv, TruncatePersisted
  PROVE  DaemonIInv'
<1>1. /\ context' \in Contexts /\ context'.version = context.version /\ Outdate
      /\ analyses' \in [Slots -> Runs] /\ \A t \in Slots : analyses'[t].pc = analyses[t].pc
      /\ batch' \in Batches /\ batch'.pc = "fill" /\ batch.pc = "truncate"
      /\ UNCHANGED <<tree, graph, schema, daemon, schemaReset, rebuildRunning, rebuildPending,
                     reanalyzeTimer, seen, flushed, troubles, broken>>
  <2> DEFINE one == [batch EXCEPT !.pc = "fill"]
             new == [one EXCEPT !.alone = TRUE]
  <2>1. one \in Batches /\ one.pc = "fill"
    BY BatchesPc DEF DaemonIInv, DaemonTypeOK
  <2> HIDE DEF one
  <2>2. new \in Batches /\ new.pc = "fill"
    BY <2>1, BatchesAlone
  <2>3. batch' = new /\ batch.pc = "truncate"
    BY DEF TruncatePersisted, one
  <2> HIDE DEF new
  <2>4. analyses' \in [Slots -> Runs] /\ \A t \in Slots : analyses'[t].pc = analyses[t].pc
    <3>1. analyses' = [t \in Slots |-> [analyses[t] EXCEPT !.alone = FALSE]]
      BY DEF TruncatePersisted
    <3>2. \A t \in Slots : analyses[t] \in Runs
      BY DEF DaemonIInv, DaemonTypeOK
    <3>3. \A t \in Slots : analyses'[t] = [analyses[t] EXCEPT !.alone = FALSE]
      BY <3>1
    <3>4. \A t \in Slots : analyses'[t] \in Runs /\ analyses'[t].pc = analyses[t].pc
      BY <3>2, <3>3, RunsAlone
    <3> QED
      BY <3>1, <3>4
  <2>5. /\ context' \in Contexts
        /\ context'.version = context.version /\ Outdate
    BY DEF Contexts, DaemonIInv, DaemonTypeOK, TruncatePersisted, Truncate
  <2> QED
    BY <2>2, <2>3, <2>4, <2>5 DEF TruncatePersisted
<1>2. DaemonTypeOK'
  <2>1. cache' \in Labelled \cup {NoEntry} /\ request' \in [Requests -> Asked]
    BY <1>1, OutdateForgets DEF DaemonIInv
  <2> QED
    BY <1>1, <2>1 DEF DaemonIInv, DaemonTypeOK
<1>3. OneSlot'
  BY <1>1 DEF DaemonIInv, OneSlot, Running
<1>4. SchemaFirst'
  BY <1>1, OutdateForgets DEF DaemonIInv, SchemaFirst, Active
<1>5. ReadsAreCurrent'
  BY <1>1, OutdateForgets DEF DaemonIInv, ReadsAreCurrent
<1>6. WipedIsRebuilt'
  BY <1>1 DEF DaemonIInv, WipedIsRebuilt, OnItsWay
<1>7. NoWipedStore'
  BY <1>1, OutdateForgets DEF DaemonIInv, NoWipedStore
<1>8. MislabelledIsRewritten'
  BY <1>1, OutdateForgets DEF DaemonIInv, MislabelledIsRewritten, Mislabelled, Rewrites
<1> QED
  BY <1>2, <1>3, <1>4, <1>5, <1>6, <1>7, <1>8 DEF DaemonIInv

LEMMA FillPersistedKeeps ==
  ASSUME DaemonIInv, FillPersisted
  PROVE  DaemonIInv'
<1>1. /\ context' \in Contexts /\ Outdate
      /\ analyses' \in [Slots -> Runs] /\ \A t \in Slots : analyses'[t].pc = analyses[t].pc
      /\ batch' \in Batches /\ batch'.pc = "prime" /\ batch.pc = "fill"
      /\ UNCHANGED <<tree, graph, schema, daemon, schemaReset, rebuildRunning, rebuildPending,
                     reanalyzeTimer, seen, flushed, troubles, broken>>
  <2> DEFINE one == [batch EXCEPT !.pc = "prime"]
             new == [one EXCEPT !.alone = FALSE]
  <2>1. one \in Batches /\ one.pc = "prime"
    BY BatchesPc DEF DaemonIInv, DaemonTypeOK
  <2> HIDE DEF one
  <2>2. new \in Batches /\ new.pc = "prime"
    BY <2>1, BatchesAlone
  <2>3. batch' = new /\ batch.pc = "fill"
    BY DEF FillPersisted, one
  <2> HIDE DEF new
  <2>4. analyses' \in [Slots -> Runs] /\ \A t \in Slots : analyses'[t].pc = analyses[t].pc
    <3>1. analyses' = [t \in Slots |-> [analyses[t] EXCEPT !.alone = FALSE]]
      BY DEF FillPersisted
    <3>2. \A t \in Slots : analyses[t] \in Runs
      BY DEF DaemonIInv, DaemonTypeOK
    <3>3. \A t \in Slots : analyses'[t] = [analyses[t] EXCEPT !.alone = FALSE]
      BY <3>1
    <3>4. \A t \in Slots : analyses'[t] \in Runs /\ analyses'[t].pc = analyses[t].pc
      BY <3>2, <3>3, RunsAlone
    <3> QED
      BY <3>1, <3>4
  <2>5. context' \in Contexts /\ Outdate
    <3>1. batch.version \in Nat /\ Fill(batch.version, batch.alone)
      BY DEF DaemonIInv, DaemonTypeOK, FillPersisted, Batches
    <3>2. context' \in Contexts
      BY <3>1, FilledIsContext DEF DaemonIInv
    <3>3. Outdate
      BY <3>1 DEF Fill
    <3> QED
      BY <3>1, <3>2, <3>3
  <2> QED
    BY <2>2, <2>3, <2>4, <2>5 DEF FillPersisted
<1>2. DaemonTypeOK'
  <2>1. cache' \in Labelled \cup {NoEntry} /\ request' \in [Requests -> Asked]
    BY <1>1, OutdateForgets DEF DaemonIInv
  <2> QED
    BY <1>1, <2>1 DEF DaemonIInv, DaemonTypeOK
<1>3. OneSlot'
  BY <1>1 DEF DaemonIInv, OneSlot, Running
<1>4. SchemaFirst'
  BY <1>1, OutdateForgets DEF DaemonIInv, SchemaFirst, Active
<1>5. ReadsAreCurrent'
  BY <1>1, OutdateForgets DEF DaemonIInv, ReadsAreCurrent
<1>6. WipedIsRebuilt'
  BY <1>1 DEF DaemonIInv, WipedIsRebuilt, OnItsWay
<1>7. NoWipedStore'
  BY <1>1, OutdateForgets DEF DaemonIInv, NoWipedStore
<1>8. MislabelledIsRewritten'
  BY <1>1, OutdateForgets DEF DaemonIInv, MislabelledIsRewritten, Mislabelled, Rewrites
<1> QED
  BY <1>2, <1>3, <1>4, <1>5, <1>6, <1>7, <1>8 DEF DaemonIInv

LEMMA PersistFailsKeeps ==
  ASSUME DaemonIInv, PersistFails
  PROVE  DaemonIInv'
<1>1. /\ context' \in Contexts /\ context'.version = context.version
      /\ UNCHANGED <<cache, request>> \/ Outdate
      /\ analyses' \in [Slots -> Runs] /\ \A t \in Slots : analyses'[t].pc = analyses[t].pc
      /\ batch' = Idle /\ batch.pc \in {"truncate", "fill"} /\ troubles' \in 0..MaxTroubles
      /\ UNCHANGED <<tree, graph, schema, daemon, schemaReset, rebuildRunning, rebuildPending,
                     reanalyzeTimer, seen, flushed, broken>>
  <2>1. context \in Contexts /\ analyses \in [Slots -> Runs]
    BY DEF DaemonIInv, DaemonTypeOK
  <2>2. /\ context' \in Contexts /\ context'.version = context.version
        /\ UNCHANGED <<cache, request>> \/ Outdate
    <3>1. \/ UNCHANGED <<context, cache, request>>
          \/ /\ context' = [context EXCEPT !.spoilt = ~context.whole]
             /\ UNCHANGED <<cache, request>>
          \/ context' = [context EXCEPT !.whole = FALSE, !.spoilt = TRUE] /\ Outdate
      BY DEF PersistFails, Spoil
    <3> QED
      BY <2>1, <3>1 DEF Contexts
  <2>3. analyses' \in [Slots -> Runs] /\ \A t \in Slots : analyses'[t].pc = analyses[t].pc
    <3>1. CASE UNCHANGED analyses
      BY <2>1, <3>1
    <3>2. CASE analyses' = [t \in Slots |-> [analyses[t] EXCEPT !.alone = FALSE]]
      <4>1. \A t \in Slots : analyses'[t] = [analyses[t] EXCEPT !.alone = FALSE]
        BY <3>2
      <4>2. \A t \in Slots : analyses'[t] \in Runs /\ analyses'[t].pc = analyses[t].pc
        BY <2>1, <4>1, RunsAlone
      <4> QED
        BY <3>2, <4>2
    <3> QED
      BY <3>1, <3>2 DEF PersistFails, Spoil
  <2>4. troubles' \in 0..MaxTroubles
    BY DaemonAssumption DEF DaemonAssumption, DaemonIInv, DaemonTypeOK, PersistFails, Trouble
  <2> QED
    BY <2>2, <2>3, <2>4 DEF PersistFails
<1>2. DaemonTypeOK'
  <2>1. cache' \in Labelled \cup {NoEntry} /\ request' \in [Requests -> Asked]
    BY <1>1, OutdateForgets DEF DaemonIInv, DaemonTypeOK
  <2> QED
    BY <1>1, <2>1, Unused DEF DaemonIInv, DaemonTypeOK
<1>3. OneSlot'
  BY <1>1 DEF DaemonIInv, OneSlot, Running
<1>4. SchemaFirst'
  BY <1>1, OutdateForgets DEF DaemonIInv, SchemaFirst, Active
<1>5. ReadsAreCurrent'
  BY <1>1, OutdateForgets DEF DaemonIInv, ReadsAreCurrent
<1>6. WipedIsRebuilt'
  BY <1>1 DEF DaemonIInv, WipedIsRebuilt, OnItsWay
<1>7. NoWipedStore'
  BY <1>1, OutdateForgets DEF DaemonIInv, NoWipedStore
<1>8. MislabelledIsRewritten'
  BY <1>1, OutdateForgets DEF DaemonIInv, MislabelledIsRewritten, Mislabelled, Rewrites
<1> QED
  BY <1>2, <1>3, <1>4, <1>5, <1>6, <1>7, <1>8 DEF DaemonIInv

LEMMA PrimeKeeps ==
  ASSUME DaemonIInv, Prime
  PROVE  DaemonIInv'
<1>1. /\ cache' \in Labelled /\ (cache'.store => cache # NoEntry /\ cache.store)
      /\ batch' \in Batches /\ batch'.pc = "end"
      /\ UNCHANGED <<tree, context, graph, schema, daemon, schemaReset, request, rebuildRunning,
                     rebuildPending, reanalyzeTimer, analyses, seen, flushed, troubles, broken>>
  <2> DEFINE store == IF cache = NoEntry THEN FALSE ELSE cache.store
  <2>1. store \in BOOLEAN /\ batch.version \in Nat
    BY DEF DaemonIInv, DaemonTypeOK, Labelled, Batches
  <2>2. cache' = Entry(TRUE, batch.version, store)
    BY DEF Prime
  <2>3. store => cache # NoEntry /\ cache.store
    BY DEF DaemonIInv, DaemonTypeOK
  <2> HIDE DEF store
  <2>4. cache' \in Labelled /\ (cache'.store => cache # NoEntry /\ cache.store)
    BY <2>1, <2>2, <2>3, EntryIs
  <2>5. batch' \in Batches /\ batch'.pc = "end"
    BY Unused, BatchesPc DEF Prime
  <2> QED
    BY <2>4, <2>5 DEF Prime, diskVars, rebuildVars
<1>2. DaemonTypeOK'
  BY <1>1 DEF DaemonIInv, DaemonTypeOK
<1>3. OneSlot'
  BY <1>1 DEF DaemonIInv, OneSlot, Running
<1>4. SchemaFirst'
  BY <1>1 DEF DaemonIInv, SchemaFirst, Active
<1>5. ReadsAreCurrent'
  BY <1>1 DEF DaemonIInv, ReadsAreCurrent
<1>6. WipedIsRebuilt'
  BY <1>1 DEF DaemonIInv, WipedIsRebuilt, OnItsWay
<1>7. NoWipedStore'
  BY <1>1 DEF DaemonIInv, NoWipedStore
<1>8. MislabelledIsRewritten'
  BY <1>1 DEF DaemonIInv, MislabelledIsRewritten, Mislabelled, Rewrites
<1> QED
  BY <1>2, <1>3, <1>4, <1>5, <1>6, <1>7, <1>8 DEF DaemonIInv

LEMMA FlushedKeeps ==
  ASSUME DaemonIInv, Flushed
  PROVE  DaemonIInv'
<1>1. /\ batch' = Idle /\ flushed' = seen /\ reanalyzeTimer' = TRUE
      /\ UNCHANGED <<tree, context, graph, schema, daemon, cache, schemaReset, request,
                     rebuildRunning, rebuildPending, analyses, seen, troubles, broken>>
  BY DEF Flushed, diskVars, handlerVars
<1>2. DaemonTypeOK'
  BY <1>1, Unused DEF DaemonIInv, DaemonTypeOK
<1>3. OneSlot'
  BY <1>1 DEF DaemonIInv, OneSlot, Running
<1>4. SchemaFirst'
  BY <1>1 DEF DaemonIInv, SchemaFirst, Active
<1>5. ReadsAreCurrent'
  BY <1>1 DEF DaemonIInv, ReadsAreCurrent
<1>6. WipedIsRebuilt'
  BY <1>1 DEF DaemonIInv, WipedIsRebuilt, OnItsWay
<1>7. NoWipedStore'
  BY <1>1 DEF DaemonIInv, NoWipedStore
<1>8. MislabelledIsRewritten'
  BY <1>1 DEF DaemonIInv, MislabelledIsRewritten, Mislabelled, Rewrites
<1> QED
  BY <1>2, <1>3, <1>4, <1>5, <1>6, <1>7, <1>8 DEF DaemonIInv

(***************************************************************************)
(* The value a request gets: r's own, the others' as they were.            *)
(***************************************************************************)
LEMMA OneRequest ==
  ASSUME DaemonTypeOK, NEW r \in Requests, NEW new \in Asked, request' = [request EXCEPT ![r] = new]
  PROVE  /\ request' \in [Requests -> Asked] /\ request'[r] = new
         /\ \A q \in Requests \ {r} : request'[q] = request[q]
BY DEF DaemonTypeOK

LEMMA AskKeeps ==
  ASSUME DaemonIInv, NEW r \in Requests, Ask(r)
  PROVE  DaemonIInv'
<1>1. /\ schema' = "current" /\ schemaReset' \in {"yes", "no"}
      /\ \/ Trigger /\ graph' \in {graph, Empty} /\ (schema = "current" => graph' = graph)
         \/ schema = "current" /\ graph' = graph
            /\ UNCHANGED <<rebuildRunning, rebuildPending, analyses>>
      /\ request' \in [Requests -> Asked]
      /\ request'[r].pc = "stat" /\ (request'[r].waiting => request'[r].polls >= 1)
      /\ \A q \in Requests \ {r} : request'[q] = request[q]
      /\ UNCHANGED <<tree, context, daemon, cache, reanalyzeTimer, batch, seen, flushed,
                     troubles, broken>>
  <2> DEFINE reset == schemaReset = "yes" \/ (schemaReset = "unknown" /\ schema = "stale")
             polls == IF reset THEN Polls ELSE 0
             one == [Unasked EXCEPT !.pc = "stat"]
             two == [one EXCEPT !.waiting = reset]
             new == [two EXCEPT !.polls = polls]
  <2>1. reset \in BOOLEAN /\ polls \in 0..Polls /\ (reset => polls >= 1)
    BY DaemonAssumption DEF DaemonAssumption
  <2>2. /\ IF schemaReset = "unknown" THEN OpenStore ELSE UNCHANGED <<graph, schema>>
        /\ schemaReset' = IF reset THEN "yes" ELSE "no"
        /\ IF reset THEN Trigger ELSE NoTrigger
    BY DEF Ask
  <2>3. request' = [request EXCEPT ![r] = new]
    BY DEF Ask
  <2>4. /\ schemaReset = "unknown" => (reset <=> schema = "stale")
        /\ schemaReset # "unknown" => (reset <=> schemaReset = "yes")
    OBVIOUS
  <2> HIDE DEF reset
  <2>5. polls \in 0..Polls /\ (reset => polls >= 1)
    BY <2>1, DaemonAssumption DEF DaemonAssumption
  <2> HIDE DEF polls
  <2>6. one \in Asked /\ one.pc = "stat"
    BY Unused, AskedPc
  <2> HIDE DEF one
  <2>7. two \in Asked /\ two.pc = "stat" /\ two.waiting = reset
    BY <2>1, <2>6, AskedWaiting
  <2> HIDE DEF two
  <2>8. new \in Asked /\ new.pc = "stat" /\ new.waiting = reset /\ new.polls = polls
    BY <2>7, <2>5, AskedPolls
  <2> HIDE DEF new
  <2>9. /\ request' \in [Requests -> Asked] /\ request'[r] = new
        /\ \A q \in Requests \ {r} : request'[q] = request[q]
    BY <2>3, <2>8, OneRequest DEF DaemonIInv
  <2>10. schema \in {"stale", "current"} /\ (schemaReset # "unknown" => schema = "current")
    BY DEF DaemonIInv, DaemonTypeOK, SchemaFirst
  <2>11. schema' = "current" /\ graph' \in {graph, Empty} /\ (schema = "current" => graph' = graph)
    BY <2>2, <2>10 DEF OpenStore
  <2>12. schema = "stale" => reset
    BY <2>4, <2>10
  <2>13. request'[r].pc = "stat" /\ (request'[r].waiting => request'[r].polls >= 1)
    BY <2>8, <2>9, <2>5
  <2> QED
    <3>1. CASE reset
      BY <3>1, <2>2, <2>9, <2>11, <2>13 DEF Ask, watchVars
    <3>2. CASE ~reset
      BY <3>2, <2>2, <2>9, <2>10, <2>11, <2>12, <2>13 DEF Ask, NoTrigger, watchVars
    <3> QED
      BY <2>1, <3>1, <3>2
<1>2. DaemonTypeOK'
  BY <1>1, TriggerStarts DEF DaemonIInv, DaemonTypeOK
<1>3. OneSlot'
  <2>1. CASE Trigger
    BY <2>1, TriggerStarts DEF DaemonIInv
  <2>2. CASE UNCHANGED <<rebuildRunning, rebuildPending, analyses>>
    BY <2>2 DEF DaemonIInv, OneSlot, Running
  <2> QED
    BY <1>1, <2>1, <2>2
<1>4. SchemaFirst'
  BY <1>1, TriggerHelps DEF DaemonIInv, SchemaFirst, Active
<1>5. ReadsAreCurrent'
  BY <1>1 DEF DaemonIInv, ReadsAreCurrent
<1>6. WipedIsRebuilt'
  BY <1>1, TriggerHelps DEF DaemonIInv, WipedIsRebuilt, OnItsWay, DaemonTypeOK
<1>7. NoWipedStore'
  BY <1>1 DEF DaemonIInv, NoWipedStore, SchemaFirst, DaemonTypeOK
<1>8. MislabelledIsRewritten'
  BY <1>1, TriggerHelps DEF DaemonIInv, MislabelledIsRewritten, Mislabelled, Rewrites
<1> QED
  BY <1>2, <1>3, <1>4, <1>5, <1>6, <1>7, <1>8 DEF DaemonIInv

LEMMA StatKeeps ==
  ASSUME DaemonIInv, NEW r \in Requests, Stat(r)
  PROVE  DaemonIInv'
<1>1. /\ schema = "current" /\ schemaReset' \in {"yes", "no"}
      /\ request' \in [Requests -> Asked]
      /\ request'[r].pc # "open" /\ (request'[r].waiting => request'[r].polls >= 1)
      /\ \A q \in Requests \ {r} : request'[q] = request[q]
      /\ UNCHANGED <<tree, context, graph, schema, daemon, cache, rebuildRunning,
                     rebuildPending, reanalyzeTimer, analyses, batch, seen, flushed, troubles,
                     broken>>
  <2> DEFINE one == [request[r] EXCEPT !.pc = "read"]
             new == [one EXCEPT !.current = TRUE]
  <2>1. Active(r) /\ schema = "current" /\ schemaReset \in {"yes", "no"} /\ request[r] \in Asked
    BY DEF Stat, Active, DaemonIInv, DaemonTypeOK, SchemaFirst
  <2>2. CASE cache # NoEntry /\ cache.hit
    <3>1. cache.store \in BOOLEAN /\ Got(r, cache.store)
      BY <2>2 DEF Stat, DaemonIInv, DaemonTypeOK, Labelled
    <3>2. UNCHANGED <<tree, diskVars, daemon, cache, rebuildVars, watchVars, troubles, broken>>
      BY DEF Stat
    <3> QED
      BY <2>1, <3>1, <3>2, GotAnswers DEF DaemonIInv, diskVars, rebuildVars, watchVars
  <2>3. CASE ~(cache # NoEntry /\ cache.hit)
    <3>1. one \in Asked /\ one.pc = "read" /\ one.waiting = request[r].waiting
          /\ one.polls = request[r].polls
      BY <2>1, AskedPc
    <3>2. request' = [request EXCEPT ![r] = new] /\ schemaReset' = schemaReset
      BY <2>3 DEF Stat, DaemonIInv, DaemonTypeOK
    <3> HIDE DEF one
    <3>3. new \in Asked /\ new.pc = "read" /\ new.waiting = request[r].waiting
          /\ new.polls = request[r].polls
      BY <3>1, AskedCurrent
    <3> HIDE DEF new
    <3>4. /\ request' \in [Requests -> Asked] /\ request'[r] = new
          /\ \A q \in Requests \ {r} : request'[q] = request[q]
      BY <3>2, <3>3, OneRequest DEF DaemonIInv
    <3>5. request[r].waiting => request[r].polls >= 1
      BY DEF DaemonIInv, ReadsAreCurrent
    <3>6. request'[r].pc # "open" /\ (request'[r].waiting => request'[r].polls >= 1)
      BY <3>3, <3>4, <3>5
    <3>7. UNCHANGED <<tree, diskVars, daemon, cache, rebuildVars, watchVars, troubles, broken>>
      BY DEF Stat
    <3> QED
      BY <2>1, <3>2, <3>4, <3>6, <3>7 DEF diskVars, rebuildVars, watchVars
  <2> QED
    BY <2>2, <2>3
<1>2. DaemonTypeOK'
  BY <1>1 DEF DaemonIInv, DaemonTypeOK
<1>3. OneSlot'
  BY <1>1 DEF DaemonIInv, OneSlot, Running
<1>4. SchemaFirst'
  BY <1>1 DEF DaemonIInv, SchemaFirst, Active
<1>5. ReadsAreCurrent'
  BY <1>1 DEF DaemonIInv, ReadsAreCurrent
<1>6. WipedIsRebuilt'
  BY <1>1 DEF DaemonIInv, WipedIsRebuilt, OnItsWay
<1>7. NoWipedStore'
  BY <1>1 DEF DaemonIInv, NoWipedStore
<1>8. MislabelledIsRewritten'
  BY <1>1 DEF DaemonIInv, MislabelledIsRewritten, Mislabelled, Rewrites
<1> QED
  BY <1>2, <1>3, <1>4, <1>5, <1>6, <1>7, <1>8 DEF DaemonIInv

LEMMA ReadKeeps ==
  ASSUME DaemonIInv, NEW r \in Requests, Read(r)
  PROVE  DaemonIInv'
<1>1. /\ schema = "current" /\ schemaReset' \in {"yes", "no"}
      /\ request' \in [Requests -> Asked]
      /\ request'[r].pc = "open" => request'[r].version = context.version
      /\ request'[r].waiting => request'[r].polls >= 1
      /\ \A q \in Requests \ {r} : request'[q] = request[q]
      /\ UNCHANGED <<tree, context, graph, schema, daemon, cache, rebuildRunning,
                     rebuildPending, reanalyzeTimer, analyses, batch, seen, flushed, troubles,
                     broken>>
  <2> DEFINE one == [request[r] EXCEPT !.pc = "open"]
             new == [one EXCEPT !.version = context.version]
  <2>1. Active(r) /\ schema = "current" /\ schemaReset \in {"yes", "no"} /\ request[r] \in Asked
    BY DEF Read, Active, DaemonIInv, DaemonTypeOK, SchemaFirst
  <2>2. UNCHANGED <<tree, diskVars, daemon, cache, rebuildVars, watchVars, troubles, broken>>
    BY DEF Read
  <2>3. CASE ~context.whole
    <3>1. Got(r, FALSE)
      BY <2>3 DEF Read
    <3>2. /\ schemaReset' \in {"yes", "no"} /\ request' \in [Requests -> Asked]
          /\ request'[r].pc \in {"stat", "answered"}
          /\ request'[r].waiting => request'[r].polls >= 1
          /\ \A q \in Requests \ {r} : request'[q] = request[q]
      BY <2>1, <3>1, GotAnswers DEF DaemonIInv
    <3> QED
      BY <2>1, <2>2, <3>2 DEF diskVars, rebuildVars, watchVars
  <2>4. CASE context.whole
    <3>1. one \in Asked /\ one.waiting = request[r].waiting /\ one.polls = request[r].polls
      BY <2>1, AskedPc
    <3>2. context.version \in Nat
      BY DEF Contexts, DaemonIInv, DaemonTypeOK
    <3>3. request' = [request EXCEPT ![r] = new] /\ schemaReset' = schemaReset
      BY <2>4 DEF Read, DaemonIInv, DaemonTypeOK
    <3> HIDE DEF one
    <3>4. new \in Asked /\ new.version = context.version /\ new.waiting = request[r].waiting
          /\ new.polls = request[r].polls
      BY <3>1, <3>2, AskedVersion
    <3> HIDE DEF new
    <3>5. /\ request' \in [Requests -> Asked] /\ request'[r] = new
          /\ \A q \in Requests \ {r} : request'[q] = request[q]
      BY <3>3, <3>4, OneRequest DEF DaemonIInv
    <3>6. request[r].waiting => request[r].polls >= 1
      BY DEF DaemonIInv, ReadsAreCurrent
    <3>7. /\ request'[r].version = context.version
          /\ request'[r].waiting => request'[r].polls >= 1
      BY <3>4, <3>5, <3>6
    <3> QED
      BY <2>1, <2>2, <3>3, <3>5, <3>7 DEF diskVars, rebuildVars, watchVars
  <2> QED
    BY <2>3, <2>4
<1>2. DaemonTypeOK'
  BY <1>1 DEF DaemonIInv, DaemonTypeOK
<1>3. OneSlot'
  BY <1>1 DEF DaemonIInv, OneSlot, Running
<1>4. SchemaFirst'
  BY <1>1 DEF DaemonIInv, SchemaFirst, Active
<1>5. ReadsAreCurrent'
  BY <1>1 DEF DaemonIInv, ReadsAreCurrent
<1>6. WipedIsRebuilt'
  BY <1>1 DEF DaemonIInv, WipedIsRebuilt, OnItsWay
<1>7. NoWipedStore'
  BY <1>1 DEF DaemonIInv, NoWipedStore
<1>8. MislabelledIsRewritten'
  BY <1>1 DEF DaemonIInv, MislabelledIsRewritten, Mislabelled, Rewrites
<1> QED
  BY <1>2, <1>3, <1>4, <1>5, <1>6, <1>7, <1>8 DEF DaemonIInv

LEMMA OpenKeeps ==
  ASSUME DaemonIInv, NEW r \in Requests, Open(r)
  PROVE  DaemonIInv'
<1>1. /\ cache' \in Labelled /\ schema = "current"
      /\ cache'.store => graph # Empty
      /\ cache'.hit => cache'.version = context.version
      /\ schemaReset' \in {"yes", "no"}
      /\ request' \in [Requests -> Asked]
      /\ request'[r].pc \in {"stat", "answered"} /\ (request'[r].waiting => request'[r].polls >= 1)
      /\ \A q \in Requests \ {r} : request'[q] = request[q]
      /\ UNCHANGED <<tree, context, graph, schema, daemon, rebuildRunning, rebuildPending,
                     reanalyzeTimer, analyses, batch, seen, flushed, troubles, broken>>
  <2> DEFINE store == graph # Empty
  <2>1. Active(r) /\ schema = "current" /\ request[r] \in Asked
    BY DEF Open, Active, DaemonIInv, DaemonTypeOK, SchemaFirst
  <2>2. request[r].current => request[r].version = context.version
    BY DEF Open, DaemonIInv, ReadsAreCurrent
  <2>3. /\ cache' = Entry(request[r].current, request[r].version, store) /\ Got(r, store)
        /\ UNCHANGED <<tree, diskVars, daemon, rebuildVars, watchVars, troubles, broken>>
    BY DEF Open
  <2>4. store \in BOOLEAN /\ (store => graph # Empty)
    OBVIOUS
  <2> HIDE DEF store
  <2>5. request[r].current \in BOOLEAN /\ request[r].version \in Nat
    BY <2>1 DEF Asked
  <2>6. /\ cache' \in Labelled /\ cache'.hit = request[r].current /\ cache'.store = store
        /\ cache'.hit => cache'.version = request[r].version
    BY <2>3, <2>4, <2>5, EntryIs
  <2>7. /\ schemaReset' \in {"yes", "no"} /\ request' \in [Requests -> Asked]
        /\ request'[r].pc \in {"stat", "answered"}
        /\ request'[r].waiting => request'[r].polls >= 1
        /\ \A q \in Requests \ {r} : request'[q] = request[q]
    BY <2>1, <2>3, <2>4, GotAnswers DEF DaemonIInv
  <2> QED
    BY <2>1, <2>2, <2>3, <2>4, <2>6, <2>7 DEF diskVars, rebuildVars, watchVars
<1>2. DaemonTypeOK'
  BY <1>1 DEF DaemonIInv, DaemonTypeOK
<1>3. OneSlot'
  BY <1>1 DEF DaemonIInv, OneSlot, Running
<1>4. SchemaFirst'
  BY <1>1 DEF DaemonIInv, SchemaFirst, Active
<1>5. ReadsAreCurrent'
  BY <1>1 DEF DaemonIInv, ReadsAreCurrent
<1>6. WipedIsRebuilt'
  BY <1>1 DEF DaemonIInv, WipedIsRebuilt, OnItsWay
<1>7. NoWipedStore'
  BY <1>1 DEF DaemonIInv, NoWipedStore
<1>8. MislabelledIsRewritten'
  BY <1>1 DEF DaemonIInv, MislabelledIsRewritten, Mislabelled, Rewrites
<1> QED
  BY <1>2, <1>3, <1>4, <1>5, <1>6, <1>7, <1>8 DEF DaemonIInv
-----------------------------------------------------------------------------
(* The theorems *)

LEMMA DaemonStarts == DaemonInit => DaemonIInv
<1> SUFFICES ASSUME DaemonInit PROVE DaemonIInv
  OBVIOUS
<1>1. /\ request \in [Requests -> Asked] /\ analyses \in [Slots -> Runs] /\ batch \in Batches
      /\ \A r \in Requests : request[r] = Unasked
      /\ \A s \in Slots : analyses[s].pc = "idle"
  BY Unused DEF DaemonInit
<1>2. \A r \in Requests : ~Active(r) /\ request[r].pc = "unasked" /\ ~request[r].waiting
  BY <1>1, Unused DEF Active
<1>3. DaemonTypeOK
  <2>1. tree \in Nat /\ seen \in Nat /\ flushed \in Nat /\ troubles \in 0..MaxTroubles
    BY DaemonAssumption DEF DaemonAssumption, DaemonInit
  <2>2. context \in Contexts /\ graph \in Nat
    BY DEF Contexts, DaemonInit
  <2>3. /\ schema \in {"stale", "current"} /\ daemon = "starting" /\ cache = NoEntry
        /\ schemaReset = "unknown" /\ broken = FALSE
        /\ rebuildRunning = FALSE /\ rebuildPending = FALSE /\ reanalyzeTimer = FALSE
    BY DEF DaemonInit
  <2> QED
    BY <1>1, <2>1, <2>2, <2>3 DEF DaemonTypeOK
<1>4. OneSlot
  BY <1>1 DEF DaemonInit, OneSlot, Running
<1>5. SchemaFirst
  BY <1>1, <1>2 DEF DaemonInit, SchemaFirst
<1>6. ReadsAreCurrent
  BY <1>2 DEF ReadsAreCurrent
<1>7. WipedIsRebuilt /\ NoWipedStore /\ MislabelledIsRewritten
  BY DaemonAssumption DEF DaemonAssumption, DaemonInit, WipedIsRebuilt, NoWipedStore,
     MislabelledIsRewritten, Mislabelled
<1> QED
  BY <1>3, <1>4, <1>5, <1>6, <1>7 DEF DaemonIInv

LEMMA DaemonStepKeeps == DaemonIInv /\ [DaemonNext]_daemonVars => DaemonIInv'
<1> SUFFICES ASSUME DaemonIInv, [DaemonNext]_daemonVars PROVE DaemonIInv'
  OBVIOUS
<1>1. CASE StartupCheck
  BY <1>1, StartupCheckKeeps
<1>2. CASE ReanalyzeFires
  BY <1>2, ReanalyzeFiresKeeps
<1>3. ASSUME NEW s \in Slots, Analyze(s) PROVE DaemonIInv'
  BY <1>3, ScanKeeps, TruncateContextKeeps, FillContextKeeps, WriteGraphKeeps, RebuiltKeeps DEF Analyze
<1>4. CASE Batch
  BY <1>4, IndexBatchKeeps, LoadContextKeeps, TruncatePersistedKeeps, FillPersistedKeeps, PrimeKeeps,
     FlushedKeeps DEF Batch
<1>5. ASSUME NEW r \in Requests, Serve(r) PROVE DaemonIInv'
  BY <1>5, StatKeeps, ReadKeeps, OpenKeeps DEF Serve
<1>6. ASSUME NEW s \in Slots, WriteGraphFails(s) \/ AnalysisFails(s) PROVE DaemonIInv'
  BY <1>6, WriteGraphFailsKeeps, AnalysisFailsKeeps
<1>12. CASE PersistFails
  BY <1>12, PersistFailsKeeps
<1>7. CASE Edit
  BY <1>7, EditKeeps
<1>8. CASE Kill
  BY <1>8, KillKeeps
<1>9. CASE Restart
  BY <1>9, RestartKeeps
<1>10. ASSUME NEW r \in Requests, Ask(r) PROVE DaemonIInv'
  BY <1>10, AskKeeps
<1>11. CASE UNCHANGED daemonVars
  <2>1. UNCHANGED <<tree, context, graph, schema, daemon, cache, schemaReset, request, rebuildRunning,
                    rebuildPending, reanalyzeTimer, analyses, batch, seen, flushed, troubles, broken>>
    BY <1>11 DEF daemonVars, diskVars, handlerVars, rebuildVars, watchVars
  <2>2. DaemonTypeOK' /\ OneSlot' /\ SchemaFirst'
    BY <2>1 DEF DaemonIInv, DaemonTypeOK, OneSlot, Running, SchemaFirst, Active
  <2>3. ReadsAreCurrent' /\ WipedIsRebuilt' /\ NoWipedStore' /\ MislabelledIsRewritten'
    BY <2>1 DEF DaemonIInv, ReadsAreCurrent, WipedIsRebuilt, OnItsWay, NoWipedStore,
       MislabelledIsRewritten, Mislabelled, Rewrites
  <2> QED
    BY <2>2, <2>3 DEF DaemonIInv
<1> QED
  BY <1>1, <1>2, <1>3, <1>4, <1>5, <1>6, <1>7, <1>8, <1>9, <1>10, <1>11, <1>12
  DEF DaemonNext, DaemonStep

(***************************************************************************)
(* The inductive invariant holds in every reachable state of the daemon.   *)
(***************************************************************************)
THEOREM DaemonInvariant == DaemonSpec => []DaemonIInv
<1> QED
  BY DaemonStarts, DaemonStepKeeps, PTL DEF DaemonSpec

(***************************************************************************)
(* The variables of the daemon keep their types.                           *)
(***************************************************************************)
THEOREM DaemonTyped == DaemonSpec => []DaemonTypeOK
<1>1. DaemonIInv => DaemonTypeOK
  BY DEF DaemonIInv
<1> QED
  BY <1>1, DaemonInvariant, PTL

(***************************************************************************)
(* Never two analyses at a time: triggerRebuild starts none while one      *)
(* runs, and its flag is set exactly while one does.                       *)
(***************************************************************************)
THEOREM RebuildsAreOne == DaemonSpec => []OneRebuild
<1>1. DaemonIInv => OneRebuild
  <2> SUFFICES ASSUME DaemonIInv PROVE OneRebuild
    OBVIOUS
  <2>1. /\ \A s, t \in Analyzing : s = t
        /\ rebuildRunning <=> Analyzing # {}
    BY DEF DaemonIInv, OneSlot, Running, Analyzing
  <2>2. CASE Analyzing = {}
    BY <2>1, <2>2, FS_EmptySet DEF OneRebuild
  <2>3. CASE Analyzing # {}
    <3>1. PICK s \in Analyzing : Analyzing = {s}
      BY <2>1, <2>3
    <3>2. Cardinality(Analyzing) = 1
      BY <3>1, FS_Singleton
    <3> QED
      BY <2>1, <3>2 DEF OneRebuild
  <2> QED
    BY <2>2, <2>3
<1> QED
  BY <1>1, DaemonInvariant, PTL

(***************************************************************************)
(* A wiped graph is being rebuilt, whoever opened the store first: the     *)
(* startup check or a request before it.                                   *)
(***************************************************************************)
THEOREM WipedGraphsAreRebuilt == DaemonSpec => []WipedIsRebuilt
<1>1. DaemonIInv => WipedIsRebuilt
  BY DEF DaemonIInv
<1> QED
  BY <1>1, DaemonInvariant, PTL

(***************************************************************************)
(* The cache never keeps the handle of a wiped store, for any number of    *)
(* requests under way.                                                     *)
(***************************************************************************)
THEOREM NoWipedStoreIsCached == DaemonSpec => []NoWipedStore
<1>1. DaemonIInv => NoWipedStore
  BY DEF DaemonIInv
<1> QED
  BY <1>1, DaemonInvariant, PTL

(***************************************************************************)
(* An entry of the cache that hits and is not what the file holds is about *)
(* to be written over: a batch ends, the debounce is armed or an analysis  *)
(* runs.                                                                   *)
(***************************************************************************)
THEOREM HitsAreReads == DaemonSpec => []HitIsARead
<1>1. DaemonIInv => HitIsARead
  <2>1. ASSUME DaemonIInv PROVE HitIsARead
    <3>1. rebuildPending => rebuildRunning
      BY <2>1 DEF DaemonIInv, OneSlot
    <3>2. (\E s \in Slots : Rewrites(s)) => rebuildRunning
      BY <2>1 DEF DaemonIInv, OneSlot, Running, Rewrites
    <3> QED
      BY <2>1, <3>1, <3>2 DEF DaemonIInv, MislabelledIsRewritten, HitIsARead
  <2> QED
    BY <2>1
<1> QED
  BY <1>1, DaemonInvariant, PTL
=============================================================================
