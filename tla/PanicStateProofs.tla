--------------------------- MODULE PanicStateProofs ---------------------------
(* Theorems about PanicState, for every value of its constants. *)
EXTENDS PanicState, TLAPS

PCs == {"idle", "want", "unlink", "read", "write", "release", "readUnlocked", "writeUnlocked"}
Ops == {"none", "update", "inject", "hook", "cas", "done"}
Jobs == [pc : PCs, op : Ops, seen : States, attempt : 0..1]

LEMMA AtRestIsJob == AtRest \in Jobs /\ Default \in States
BY PanicAssumption DEF AtRest, Default, Jobs, States, PCs, Ops, Levels

LEMMA ReadStateTyped == ASSUME PanicTypeOK PROVE ReadState \in States
BY AtRestIsJob DEF PanicTypeOK, ReadState

LEMMA WriterTyped ==
  ASSUME PanicTypeOK
  PROVE  writer \in [Writers -> Jobs]
BY DEF PanicTypeOK, Jobs, PCs, Ops

(***************************************************************************)
(* A poll that lost leaves the daemon idle, or at its second try.          *)
(***************************************************************************)
LEMMA LeavesTyped ==
  ASSUME PanicTypeOK, NEW p \in Writers, Leaves(p)
  PROVE  writer' \in [Writers -> Jobs]
<1>1. writer \in [Writers -> Jobs] /\ ReadState \in States
  BY WriterTyped, ReadStateTyped
<1>2. CASE Retries(p)
  <2>1. PICK level \in Levels :
          writer' = [writer EXCEPT ![p].pc = "want", ![p].attempt = @ + 1,
                                   ![p].seen = [ReadState EXCEPT !.level = level]]
    BY <1>2 DEF Leaves, PollLevels
  <2>2. [ReadState EXCEPT !.level = level] \in States
    BY <1>1 DEF States
  <2>3. writer[p].attempt + 1 \in 0..1
    BY <1>2 DEF Retries
  <2> QED
    BY <1>1, <2>1, <2>2, <2>3 DEF Jobs, PCs
<1>3. CASE ~Retries(p)
  BY <1>1, <1>3, AtRestIsJob DEF Leaves
<1> QED
  BY <1>2, <1>3

LEMMA WrittenTyped ==
  ASSUME PanicTypeOK, NEW p \in Writers PROVE Written(p) \in States
<1>1. writer[p].seen \in States
  BY DEF PanicTypeOK
<1> QED
  BY <1>1 DEF PanicTypeOK, Written, States

(***************************************************************************)
(* Every reachable state is well typed, whatever crashes, stalls or        *)
(* expires: in particular a poll never tries a third time.                 *)
(***************************************************************************)
THEOREM PanicTypeCorrect == PanicSpec => []PanicTypeOK
<1> USE PanicAssumption
<1>1. PanicInit => PanicTypeOK
  <2> SUFFICES ASSUME PanicInit PROVE PanicTypeOK
    OBVIOUS
  <2>1. writer \in [Writers -> Jobs] /\ panicFile \in States
    BY AtRestIsJob DEF PanicInit
  <2>2. lock = NoLock /\ intruded \in BOOLEAN
    BY Zenon DEF PanicInit
  <2>3. /\ trackerLevel \in Levels /\ answering \in 0..ops
        /\ ops \in 0..MaxOps /\ faults \in 0..MaxFaults /\ interventions \in Nat
    BY DEF PanicInit, Levels
  <2> QED
    BY <2>1, <2>2, <2>3, Zenon DEF PanicTypeOK, Jobs, PCs, Ops
<1>2. PanicTypeOK /\ [PanicNext]_panicFileVars => PanicTypeOK'
  <2> SUFFICES ASSUME PanicTypeOK, [PanicNext]_panicFileVars PROVE PanicTypeOK'
    OBVIOUS
  <2> USE DEF At, Goes
  <2>a. writer \in [Writers -> Jobs] /\ ReadState \in States /\ Default \in States
    BY WriterTyped, ReadStateTyped, AtRestIsJob
  <2>b. AtRest \in Jobs /\ Mcp \in Writers /\ Watch \in Writers
    BY AtRestIsJob DEF Writers
  <2>c. ASSUME NEW p \in Writers, NEW op \in Ops, NEW seen \in States, Starts(p, op, seen)
        PROVE  /\ writer' \in [Writers -> Jobs] /\ ops' \in 1..MaxOps /\ ops' = ops + 1
               /\ UNCHANGED <<panicFile, lock, faults, interventions, intruded>>
    BY <2>a, <2>c DEF Starts, PanicTypeOK, Jobs, PCs
  <2>d. ASSUME NEW p \in Writers, NEW pc \in PCs, Goes(p, pc)
        PROVE  writer' \in [Writers -> Jobs]
    BY <2>a, <2>d DEF Jobs
  <2>1. CASE McpUpdates
    <3>1. Starts(Mcp, "update", Default)
      BY <2>1 DEF McpUpdates
    <3> QED
      BY <2>1, <2>a, <2>b, <2>c, <3>1 DEF McpUpdates, PanicTypeOK, Jobs, PCs, Ops
  <2>2. CASE McpInjects
    <3>1. CASE trackerLevel >= Injected
      <4>1. Starts(Mcp, "inject", Default)
        BY <2>2, <3>1 DEF McpInjects
      <4> QED
        BY <2>2, <2>a, <2>b, <2>c, <4>1 DEF McpInjects, PanicTypeOK, Jobs, PCs, Ops
    <3>2. CASE ~(trackerLevel >= Injected)
      BY <2>2, <3>2 DEF McpInjects, PanicTypeOK
    <3> QED
      BY <3>1, <3>2
  <2>3. CASE PollSignals
    <3>1. PICK level \in Levels : Starts(Watch, "cas", [ReadState EXCEPT !.level = level])
      BY <2>3 DEF PollSignals, PollLevels
    <3>2. [ReadState EXCEPT !.level = level] \in States
      BY <2>a DEF States
    <3> QED
      BY <2>3, <2>b, <2>c, <3>1, <3>2 DEF PollSignals, PanicTypeOK, Jobs, PCs, Ops
  <2>4. ASSUME NEW h \in Hooks, HookWarns(h) PROVE PanicTypeOK'
    <3>1. Starts(h, "hook", ReadState) /\ h \in Writers
      BY <2>4 DEF HookWarns, Writers
    <3> QED
      BY <2>4, <2>a, <2>c, <3>1 DEF HookWarns, PanicTypeOK, Jobs, PCs, Ops
  <2>5. CASE ReadUnlocked
    BY <2>5, <2>a, <2>b DEF ReadUnlocked, PanicTypeOK, Jobs, PCs, Ops
  <2>6. CASE WriteUnlocked
    <3>1. Written(Mcp) \in States
      BY <2>b, WrittenTyped
    <3> QED
      BY <2>6, <2>a, <2>b, <3>1 DEF WriteUnlocked, Persist, Record, PanicTypeOK, Jobs, PCs, Ops
  <2>7. ASSUME NEW p \in Writers, CreateLock(p) \/ SeesStale(p) \/ RemovesStale(p)
        PROVE  PanicTypeOK'
    <3>1. writer' \in [Writers -> Jobs]
      BY <2>7, <2>d DEF CreateLock, SeesStale, RemovesStale, PCs
    <3>2. /\ lock' \in [owner : Writers \cup {Dead}, stale : BOOLEAN] \cup {NoLock}
          /\ UNCHANGED <<panicFile, trackerLevel, answering, ops, faults, interventions>>
      <4>1. CASE CreateLock(p)
        <5>1. [owner |-> p, stale |-> FALSE] \in [owner : Writers \cup {Dead}, stale : BOOLEAN]
          OBVIOUS
        <5> QED
          BY <4>1, <5>1 DEF CreateLock
      <4>2. CASE SeesStale(p) \/ RemovesStale(p)
        BY <4>2 DEF SeesStale, RemovesStale, Unlink, PanicTypeOK
      <4> QED
        BY <2>7, <4>1, <4>2
    <3>3. intruded' \in BOOLEAN
      <4>1. CASE RemovesStale(p)
        BY <4>1 DEF RemovesStale, Unlink
      <4>2. CASE CreateLock(p) \/ SeesStale(p)
        BY <4>2 DEF CreateLock, SeesStale, PanicTypeOK
      <4> QED
        BY <2>7, <4>1, <4>2
    <3> QED
      BY <3>1, <3>2, <3>3 DEF PanicTypeOK, Jobs, PCs, Ops
  <2>8. ASSUME NEW p \in Writers, GivesUp(p) PROVE PanicTypeOK'
    <3>1. writer' \in [Writers -> Jobs]
      BY <2>8, <2>d, LeavesTyped DEF GivesUp, PCs
    <3> QED
      BY <2>8, <3>1 DEF GivesUp, PanicTypeOK, Jobs, PCs, Ops
  <2>9. ASSUME NEW p \in Writers, ReadAgain(p) PROVE PanicTypeOK'
    <3>1. PICK pc \in {"release", "write"}, seen \in States :
            writer' = [writer EXCEPT ![p].pc = pc, ![p].seen = seen]
      <4>1. writer[p].seen \in States
        BY <2>a DEF Jobs
      <4> QED
        BY <2>9, <2>a, <4>1 DEF ReadAgain
    <3>2. writer' \in [Writers -> Jobs]
      BY <2>a, <3>1 DEF Jobs, PCs
    <3> QED
      BY <2>9, <3>2 DEF ReadAgain, PanicTypeOK, Jobs, PCs, Ops
  <2>10. ASSUME NEW p \in Writers, Write(p) PROVE PanicTypeOK'
    <3>1. Written(p) \in States
      BY WrittenTyped
    <3>2. writer' \in [Writers -> Jobs]
      <4>1. writer' = [writer EXCEPT ![p].pc = "release", ![p].op = "done"]
        BY <2>10 DEF Write
      <4>2. writer[p] \in Jobs /\ writer \in [Writers -> Jobs]
        BY <2>a
      <4>3. [writer[p] EXCEPT !.pc = "release", !.op = "done"] \in Jobs
        BY <4>2 DEF Jobs, PCs, Ops
      <4> QED
        BY <4>1, <4>2, <4>3
    <3>3. panicFile' \in States
      BY <2>10, <3>1 DEF Write, Persist
    <3>4. interventions' \in Nat
      BY <2>10 DEF Write, Record, PanicTypeOK
    <3> QED
      BY <2>10, <3>2, <3>3, <3>4 DEF Write, PanicTypeOK, Jobs, PCs, Ops
  <2>11. ASSUME NEW p \in Writers, WriteFails(p) PROVE PanicTypeOK'
    <3>1. writer' \in [Writers -> Jobs]
      <4>1. CASE Goes(p, "release")
        BY <2>d, <4>1 DEF PCs
      <4>2. CASE writer' = [writer EXCEPT ![p] = AtRest]
        BY <2>a, <2>b, <4>2
      <4> QED
        BY <2>11, <4>1, <4>2 DEF WriteFails
    <3> QED
      BY <2>11, <3>1 DEF WriteFails, Fault, PanicTypeOK, Jobs, PCs, Ops
  <2>12. ASSUME NEW p \in Writers, Release(p) PROVE PanicTypeOK'
    <3>1. writer' \in [Writers -> Jobs]
      BY <2>12, LeavesTyped DEF Release
    <3> QED
      BY <2>12, <3>1 DEF Release, Unlink, PanicTypeOK, Jobs, PCs, Ops
  <2>13. ASSUME NEW p \in Writers, Crash(p) PROVE PanicTypeOK'
    <3>1. writer' \in [Writers -> Jobs]
      BY <2>13, <2>a, <2>b DEF Crash
    <3>2. lock' \in [owner : Writers \cup {Dead}, stale : BOOLEAN] \cup {NoLock}
      BY <2>13 DEF Crash, PanicTypeOK
    <3>3. trackerLevel' \in Levels /\ answering' \in 0..ops
      BY <2>13 DEF Crash, PanicTypeOK, Levels
    <3> QED
      BY <2>13, <3>1, <3>2, <3>3 DEF Crash, Fault, PanicTypeOK, Jobs, PCs, Ops
  <2>14. CASE LockAges
    <3>1. lock' \in [owner : Writers \cup {Dead}, stale : BOOLEAN]
      BY <2>14 DEF LockAges, PanicTypeOK
    <3> QED
      BY <2>14, <3>1 DEF LockAges, Fault, PanicTypeOK
  <2>15. CASE Expires
    <3>1. panicFile' \in States
      BY <2>15 DEF Expires, PanicTypeOK, States
    <3> QED
      BY <2>15, <3>1 DEF Expires, Fault, PanicTypeOK
  <2>16. CASE UNCHANGED panicFileVars
    BY <2>16 DEF panicFileVars, PanicTypeOK
  <2> QED
    BY <2>1, <2>2, <2>3, <2>4, <2>5, <2>6, <2>7, <2>8, <2>9, <2>10, <2>11, <2>12, <2>13, <2>14,
       <2>15, <2>16 DEF PanicNext
<1> QED
  BY <1>1, <1>2, PTL DEF PanicSpec
-----------------------------------------------------------------------------
(***************************************************************************)
(* Until a writer is intruded upon, whoever is inside owns the lock file.  *)
(***************************************************************************)
HolderInside == intruded \/ \A p \in Inside : lock # NoLock /\ lock.owner = p

InsidePCs == {"read", "write", "release"}

(***************************************************************************)
(* What one writer's step leaves of the others.                            *)
(***************************************************************************)
LEMMA GoesAlone ==
  ASSUME PanicTypeOK, NEW p \in Writers, NEW pc \in PCs, Goes(p, pc)
  PROVE  /\ writer'[p].pc = pc /\ writer'[p].seen = writer[p].seen
         /\ \A q \in Writers \ {p} : writer'[q] = writer[q]
BY WriterTyped DEF Goes, Jobs

LEMMA FailsAlone ==
  ASSUME PanicTypeOK, NEW p \in Writers, WriteFails(p)
  PROVE  /\ \/ /\ writer[p].pc = "write" /\ writer'[p].pc = "release"
               /\ writer'[p].seen = writer[p].seen
            \/ writer'[p] = AtRest
         /\ \A q \in Writers \ {p} : writer'[q] = writer[q]
         /\ UNCHANGED <<panicFile, lock, interventions, intruded>>
<1>1. UNCHANGED <<panicFile, lock, interventions, intruded>>
  BY DEF WriteFails
<1>2. CASE At(p, "write") /\ Goes(p, "release")
  BY <1>1, <1>2, GoesAlone DEF At, PCs
<1>3. CASE writer' = [writer EXCEPT ![p] = AtRest]
  BY <1>1, <1>3, WriterTyped
<1> QED
  BY <1>2, <1>3 DEF WriteFails

LEMMA LeavesAlone ==
  ASSUME PanicTypeOK, NEW p \in Writers, Leaves(p)
  PROVE  /\ \/ writer'[p] = AtRest
            \/ /\ p = Watch /\ writer'[p].pc = "want"
               /\ writer'[p].seen.count = ReadState.count
               /\ writer'[p].seen.revision = ReadState.revision
         /\ \A q \in Writers \ {p} : writer'[q] = writer[q]
<1>1. writer \in [Writers -> Jobs] /\ ReadState \in States
  BY WriterTyped, ReadStateTyped
<1>2. CASE Retries(p)
  <2>1. PICK level \in Levels :
          writer' = [writer EXCEPT ![p].pc = "want", ![p].attempt = @ + 1,
                                   ![p].seen = [ReadState EXCEPT !.level = level]]
    BY <1>2 DEF Leaves, PollLevels
  <2>2. /\ [ReadState EXCEPT !.level = level].count = ReadState.count
        /\ [ReadState EXCEPT !.level = level].revision = ReadState.revision
    BY <1>1 DEF States
  <2>3. writer'[p].pc = "want" /\ writer'[p].seen = [ReadState EXCEPT !.level = level]
    BY <1>1, <2>1 DEF Jobs
  <2>4. \A q \in Writers \ {p} : writer'[q] = writer[q]
    BY <1>1, <2>1
  <2> QED
    BY <1>2, <2>2, <2>3, <2>4 DEF Retries
<1>3. CASE ~Retries(p)
  BY <1>1, <1>3 DEF Leaves
<1> QED
  BY <1>2, <1>3

LEMMA StartsAlone ==
  ASSUME PanicTypeOK, NEW p \in Writers, NEW op, NEW seen, Starts(p, op, seen)
  PROVE  /\ writer[p].pc = "idle" /\ writer'[p].pc = "want" /\ writer'[p].seen = seen
         /\ \A q \in Writers \ {p} : writer'[q] = writer[q]
         /\ UNCHANGED <<panicFile, lock, faults, interventions, intruded>>
BY WriterTyped DEF Starts, At

LEMMA ReadAgainAlone ==
  ASSUME PanicTypeOK, NEW p \in Writers, ReadAgain(p)
  PROVE  /\ writer[p].pc = "read"
         /\ writer'[p].pc \in {"write", "release"}
         /\ writer'[p].seen = IF p = Watch THEN writer[p].seen ELSE ReadState
         /\ p = Watch /\ writer'[p].pc = "write" => writer[p].seen.revision = panicFile.revision
         /\ \A q \in Writers \ {p} : writer'[q] = writer[q]
<1> DEFINE pc == IF p = Watch /\ panicFile.revision # writer[p].seen.revision
                 THEN "release" ELSE "write"
           seen == IF p = Watch THEN writer[p].seen ELSE ReadState
<1>1. writer' = [writer EXCEPT ![p].pc = pc, ![p].seen = seen] /\ writer[p].pc = "read"
  BY DEF ReadAgain, At
<1> HIDE DEF pc, seen
<1>2. writer'[p].pc = pc /\ writer'[p].seen = seen
  BY <1>1, WriterTyped DEF Jobs
<1>3. \A q \in Writers \ {p} : writer'[q] = writer[q]
  BY <1>1, WriterTyped
<1>4. writer'[p].pc \in {"write", "release"}
  BY <1>2 DEF pc
<1>5. p = Watch /\ writer'[p].pc = "write" => writer[p].seen.revision = panicFile.revision
  BY <1>2 DEF pc
<1>6. writer'[p].seen = IF p = Watch THEN writer[p].seen ELSE ReadState
  BY <1>2 DEF seen
<1> QED
  BY <1>1, <1>3, <1>4, <1>5, <1>6

LEMMA WriteAlone ==
  ASSUME PanicTypeOK, NEW p \in Writers, Write(p)
  PROVE  /\ writer[p].pc = "write" /\ writer'[p].pc = "release"
         /\ \A q \in Writers \ {p} : writer'[q] = writer[q]
BY WriterTyped DEF Write, At, Jobs

(***************************************************************************)
(* Only a writer inside changes what the others may rely on: the steps     *)
(* that leave the file, with the writer that takes them.                   *)
(***************************************************************************)
LEMMA HolderKept ==
  ASSUME PanicTypeOK, HolderInside, [PanicNext]_panicFileVars
  PROVE  HolderInside'
<1> SUFFICES ASSUME ~intruded', NEW r \in Inside'
             PROVE  lock' # NoLock /\ lock'.owner = r
  BY DEF HolderInside
<1> USE DEF Inside
<1>a. r \in Writers /\ writer'[r].pc \in InsidePCs
  BY DEF InsidePCs
<1>b. \A p \in Writers : ~intruded /\ writer[p].pc \in InsidePCs => lock # NoLock /\ lock.owner = p
  BY DEF HolderInside, InsidePCs
<1>c. CASE ~intruded /\ UNCHANGED lock /\ (writer[r].pc \in InsidePCs \/ UNCHANGED writer)
  BY <1>a, <1>b, <1>c
<1>s. ASSUME NEW p \in Writers, NEW op, NEW seen, Starts(p, op, seen)
      PROVE  ~intruded /\ UNCHANGED lock /\ (writer[r].pc \in InsidePCs \/ UNCHANGED writer)
  BY <1>a, <1>s, StartsAlone DEF InsidePCs
<1>w. Mcp \in Writers /\ Watch \in Writers
  BY DEF Writers
<1>1. CASE McpUpdates
  BY <1>1, <1>c, <1>s, <1>w DEF McpUpdates
<1>2. CASE McpInjects
  BY <1>2, <1>c, <1>s, <1>w DEF McpInjects
<1>3. CASE PollSignals
  BY <1>3, <1>c, <1>s, <1>w DEF PollSignals
<1>4. ASSUME NEW h \in Hooks, HookWarns(h) PROVE lock' # NoLock /\ lock'.owner = r
  BY <1>4, <1>c, <1>s DEF HookWarns, Writers
<1>5. CASE ReadUnlocked
  BY <1>5, <1>a, <1>c, WriterTyped DEF ReadUnlocked, Jobs, InsidePCs
<1>6. CASE WriteUnlocked
  BY <1>6, Zenon DEF WriteUnlocked
<1>7. ASSUME NEW p \in Writers, CreateLock(p) PROVE lock' # NoLock /\ lock'.owner = r
  <2>1. \A q \in Writers \ {p} : writer'[q] = writer[q]
    BY <1>7, GoesAlone DEF CreateLock, PCs
  <2>2. ~intruded /\ lock = NoLock /\ lock' = [owner |-> p, stale |-> FALSE]
    BY <1>7 DEF CreateLock
  <2>3. r = p
    BY <1>a, <1>b, <2>1, <2>2
  <2>4. [owner |-> p, stale |-> FALSE] # NoLock
    <3>1. [owner |-> p, stale |-> FALSE] \in [owner : Writers \cup {Dead}, stale : BOOLEAN]
      OBVIOUS
    <3> QED
      BY <3>1, PanicAssumption
  <2> QED
    BY <2>2, <2>3, <2>4
<1>8. ASSUME NEW p \in Writers, SeesStale(p) PROVE lock' # NoLock /\ lock'.owner = r
  <2>1. writer'[p].pc = "unlink" /\ \A q \in Writers \ {p} : writer'[q] = writer[q]
    BY <1>8, GoesAlone DEF SeesStale, PCs
  <2> QED
    BY <1>8, <1>a, <1>c, <2>1 DEF SeesStale, InsidePCs
<1>9. ASSUME NEW p \in Writers, RemovesStale(p) PROVE lock' # NoLock /\ lock'.owner = r
  <2>1. writer'[p].pc = "want" /\ \A q \in Writers \ {p} : writer'[q] = writer[q]
    BY <1>9, GoesAlone DEF RemovesStale, PCs
  <2>2. r # p /\ writer[r].pc \in InsidePCs
    BY <1>a, <2>1 DEF InsidePCs
  <2>3. ~intruded /\ ~(lock # NoLock /\ lock.owner \in Inside \ {p})
    BY <1>9 DEF RemovesStale, Unlink
  <2>4. lock # NoLock /\ lock.owner = r
    BY <1>a, <1>b, <2>2, <2>3
  <2> QED
    BY <1>a, <2>2, <2>3, <2>4 DEF InsidePCs
<1>10. ASSUME NEW p \in Writers, GivesUp(p) PROVE lock' # NoLock /\ lock'.owner = r
  <2>1. writer'[p].pc \notin InsidePCs /\ \A q \in Writers \ {p} : writer'[q] = writer[q]
    <3>1. CASE p = Mcp
      BY <1>10, <3>1, GoesAlone DEF GivesUp, PCs, InsidePCs
    <3>2. CASE p # Mcp
      BY <1>10, <3>2, LeavesAlone DEF GivesUp, AtRest, InsidePCs
    <3> QED
      BY <3>1, <3>2
  <2> QED
    BY <1>10, <1>a, <1>c, <2>1 DEF GivesUp
<1>11. ASSUME NEW p \in Writers, ReadAgain(p) \/ Write(p) \/ WriteFails(p)
       PROVE  lock' # NoLock /\ lock'.owner = r
  <2>1. /\ writer[p].pc \in InsidePCs \/ writer'[p].pc = "idle"
        /\ \A q \in Writers \ {p} : writer'[q] = writer[q]
    <3>1. CASE ReadAgain(p)
      BY <3>1, ReadAgainAlone DEF InsidePCs
    <3>2. CASE Write(p)
      BY <3>2, WriteAlone DEF InsidePCs
    <3>3. CASE WriteFails(p)
      BY <3>3, FailsAlone DEF AtRest, InsidePCs
    <3> QED
      BY <1>11, <3>1, <3>2, <3>3
  <2>2. ~intruded /\ UNCHANGED lock
    BY <1>11 DEF ReadAgain, Write, WriteFails
  <2>3. writer[r].pc \in InsidePCs
    BY <1>a, <2>1 DEF InsidePCs
  <2> QED
    BY <1>c, <2>2, <2>3
<1>12. ASSUME NEW p \in Writers, Release(p) PROVE lock' # NoLock /\ lock'.owner = r
  <2>1. writer'[p].pc \notin InsidePCs /\ \A q \in Writers \ {p} : writer'[q] = writer[q]
    BY <1>12, LeavesAlone DEF Release, AtRest, InsidePCs
  <2>2. ~intruded /\ writer[p].pc \in InsidePCs
    BY <1>12 DEF Release, Unlink, At, InsidePCs
  <2> QED
    BY <1>a, <1>b, <2>1, <2>2
<1>13. ASSUME NEW p \in Writers, Crash(p) PROVE lock' # NoLock /\ lock'.owner = r
  <2>1. writer'[p].pc = "idle" /\ \A q \in Writers \ {p} : writer'[q] = writer[q]
    BY <1>13, WriterTyped DEF Crash, AtRest
  <2>2. ~intruded /\ lock' = IF lock # NoLock /\ lock.owner = p
                             THEN [lock EXCEPT !.owner = Dead] ELSE lock
    BY <1>13 DEF Crash
  <2>3. r # p /\ lock # NoLock /\ lock.owner = r
    BY <1>a, <1>b, <2>1, <2>2 DEF InsidePCs
  <2> QED
    BY <2>2, <2>3
<1>14. CASE LockAges
  <2>1. ~intruded /\ UNCHANGED writer /\ lock' = [lock EXCEPT !.stale = TRUE] /\ lock # NoLock
    BY <1>14 DEF LockAges
  <2>2. lock \in [owner : Writers \cup {Dead}, stale : BOOLEAN]
    BY <2>1 DEF PanicTypeOK
  <2>3. lock' \in [owner : Writers \cup {Dead}, stale : BOOLEAN] /\ lock'.owner = lock.owner
    BY <2>1, <2>2
  <2>4. lock' # NoLock
    BY <2>3, PanicAssumption
  <2> QED
    BY <1>a, <1>b, <2>1, <2>3, <2>4
<1>15. CASE Expires
  BY <1>15, <1>a, <1>b DEF Expires
<1>16. CASE UNCHANGED panicFileVars
  BY <1>16, <1>a, <1>b DEF panicFileVars
<1> QED
  BY <1>1, <1>2, <1>3, <1>4, <1>5, <1>6, <1>7, <1>8, <1>9, <1>10, <1>11, <1>12, <1>13, <1>14,
     <1>15, <1>16 DEF PanicNext
-----------------------------------------------------------------------------
(***************************************************************************)
(* What a write builds on.  The state gryph-watch read has a revision that *)
(* the file has passed, or the file's own count.  A writer about to write  *)
(* has seen the file as it is.                                             *)
(***************************************************************************)
Building == {"want", "unlink", "read", "write"}

PollSaw(seen) ==
  IF panicFile.live THEN /\ seen.revision <= panicFile.revision
                         /\ seen.revision = panicFile.revision => seen.count = panicFile.count
  ELSE seen.revision = 0 /\ seen.count = 0

WriterSaw(p, seen) ==
  IF p = Watch THEN seen.revision = panicFile.revision
  ELSE seen.revision = ReadState.revision /\ seen.count = ReadState.count

Built == \/ intruded
         \/ /\ ReadState.count = interventions
            /\ writer[Watch].pc \in Building => PollSaw(writer[Watch].seen)
            /\ \A p \in Writers : writer[p].pc = "write" => WriterSaw(p, writer[p].seen)

PanicIInv == PanicTypeOK /\ HolderInside /\ Built

(***************************************************************************)
(* A step of p that leaves the file and the history.                       *)
(***************************************************************************)
LEMMA BuiltKept ==
  ASSUME Built, NEW p \in Writers,
         UNCHANGED <<panicFile, interventions>>, intruded => intruded',
         \A q \in Writers \ {p} : writer'[q] = writer[q],
         ~intruded => /\ p = Watch /\ writer'[p].pc \in Building => PollSaw(writer'[p].seen)
                      /\ writer'[p].pc = "write" => WriterSaw(p, writer'[p].seen)
  PROVE  Built'
<1> SUFFICES ASSUME ~intruded PROVE Built'
  BY DEF Built
<1> Watch \in Writers
  BY DEF Writers
<1>1. ReadState' = ReadState
  BY DEF ReadState, Default
<1>2. \A seen : PollSaw(seen)' = PollSaw(seen)
  BY DEF PollSaw
<1>3. writer'[Watch].pc \in Building => PollSaw(writer'[Watch].seen)
  BY DEF Built
<1>4. ASSUME NEW q \in Writers, writer'[q].pc = "write" PROVE WriterSaw(q, writer'[q].seen)
  BY <1>4 DEF Built
<1>5. ReadState'.count = interventions'
  BY <1>1 DEF Built
<1>6. writer'[Watch].pc \in Building => PollSaw(writer[Watch].seen)'
  BY <1>3 DEF PollSaw
<1>7. \A q \in Writers : writer'[q].pc = "write" => WriterSaw(q, writer[q].seen)'
  BY <1>1, <1>4 DEF WriterSaw
<1> QED
  BY <1>5, <1>6, <1>7 DEF Built

LEMMA PollSeesTheFile ==
  ASSUME PanicTypeOK, NEW seen,
         seen.revision = ReadState.revision, seen.count = ReadState.count
  PROVE  PollSaw(seen)
BY DEF PanicTypeOK, States, ReadState, PollSaw, Default

(***************************************************************************)
(* The write itself: nobody else is about to write, and the daemon's state *)
(* falls behind.                                                           *)
(***************************************************************************)
LEMMA BuiltByWrite ==
  ASSUME PanicIInv, NEW p \in Writers, Write(p)
  PROVE  Built' /\ (intruded' \/ Written(p).revision = ReadState.revision + 1)
<1> SUFFICES ASSUME ~intruded
             PROVE  Built' /\ Written(p).revision = ReadState.revision + 1
  BY DEF Write, Built
<1> Watch \in Writers
  BY DEF Writers
<1>1. /\ writer[p].pc = "write" /\ writer'[p].pc = "release"
      /\ \A q \in Writers \ {p} : writer'[q] = writer[q]
  BY WriteAlone DEF PanicIInv
<1>2. panicFile' = Written(p) /\ Record(writer[p].op)
  BY DEF Write, Persist
<1>3. /\ panicFile.revision \in Nat /\ panicFile.count \in Nat
      /\ writer[p].seen.revision \in Nat /\ writer[p].seen.count \in Nat
      /\ writer[Watch].seen.revision \in Nat /\ interventions \in Nat
  BY DEF PanicIInv, PanicTypeOK, States
<1>4. WriterSaw(p, writer[p].seen) /\ ReadState.count = interventions
  BY <1>1 DEF PanicIInv, Built
<1>5. writer[p].seen.revision = ReadState.revision /\ writer[p].seen.count = interventions
  <2>1. CASE p = Watch
    <3>1. PollSaw(writer[p].seen)
      BY <1>1, <2>1 DEF PanicIInv, Built, Building
    <3> QED
      BY <1>3, <1>4, <2>1, <3>1 DEF PollSaw, WriterSaw, ReadState, Default
  <2>2. CASE p # Watch
    BY <1>4, <2>2 DEF WriterSaw
  <2> QED
    BY <2>1, <2>2
<1>6. Written(p).revision = ReadState.revision + 1 /\ Written(p).live = TRUE
  BY <1>5 DEF Written
<1>7. Written(p).count = interventions'
  BY <1>2, <1>5 DEF Written, Record
<1>8. ReadState' = Written(p)
  BY <1>2, <1>6 DEF ReadState
<1>9. \A q \in Writers : writer'[q].pc # "write"
  <2> SUFFICES ASSUME NEW q \in Writers, q # p, writer[q].pc = "write" PROVE FALSE
    BY <1>1
  <2>1. p \in Inside /\ q \in Inside
    BY <1>1 DEF Inside
  <2> QED
    BY <2>1 DEF PanicIInv, HolderInside
<1>10. writer'[Watch].pc \in Building => PollSaw(writer[Watch].seen)'
  <2> SUFFICES ASSUME writer'[Watch].pc \in Building
               PROVE  PollSaw(writer[Watch].seen)'
    OBVIOUS
  <2>1. Watch # p /\ writer'[Watch] = writer[Watch]
    BY <1>1 DEF Building
  <2>2. PollSaw(writer[Watch].seen)
    BY <2>1 DEF PanicIInv, Built
  <2>3. writer[Watch].seen.revision < ReadState.revision + 1
    BY <1>3, <2>2 DEF PollSaw, ReadState, Default
  <2>4. /\ writer'[Watch].seen.revision \in Nat /\ panicFile'.live
        /\ writer'[Watch].seen.revision < panicFile'.revision
    BY <1>2, <1>3, <1>6, <2>1, <2>3
  <2>5. panicFile'.revision \in Nat
    BY <1>2, <1>6, <1>3, <1>5
  <2> QED
    BY <2>4, <2>5 DEF PollSaw
<1> QED
  BY <1>6, <1>7, <1>8, <1>9, <1>10 DEF Built

(***************************************************************************)
(* Every step keeps the invariant.                                         *)
(***************************************************************************)
LEMMA BuiltStep ==
  ASSUME PanicIInv, [PanicNext]_panicFileVars
  PROVE  Built'
<1> USE DEF PanicIInv
<1>w. Mcp \in Writers /\ Watch \in Writers /\ Mcp # Watch /\ Watch \notin Hooks
  BY PanicAssumption DEF Writers
<1>r. ReadState \in States
  BY ReadStateTyped
<1>s. ASSUME NEW p \in Writers, NEW op, NEW seen, Starts(p, op, seen),
             p = Watch => PollSaw(seen)
      PROVE  Built'
  <2>1. /\ writer'[p].pc = "want" /\ writer'[p].seen = seen
        /\ \A q \in Writers \ {p} : writer'[q] = writer[q]
        /\ UNCHANGED <<panicFile, interventions, intruded>>
    BY <1>s, StartsAlone
  <2> QED
    BY <1>s, <2>1, BuiltKept
<1>g. ASSUME NEW p \in Writers, NEW pc \in PCs, Goes(p, pc), pc # "write",
             pc \in Building => writer[p].pc \in Building,
             UNCHANGED <<panicFile, interventions>>, intruded => intruded'
      PROVE  Built'
  <2>1. /\ writer'[p].pc = pc /\ writer'[p].seen = writer[p].seen
        /\ \A q \in Writers \ {p} : writer'[q] = writer[q]
    BY <1>g, GoesAlone
  <2>2. ~intruded /\ p = Watch /\ writer'[p].pc \in Building => PollSaw(writer'[p].seen)
    BY <1>g, <2>1 DEF Built
  <2> QED
    BY <1>g, <2>1, <2>2, BuiltKept
<1>l. ASSUME NEW p \in Writers, Leaves(p),
             UNCHANGED <<panicFile, interventions>>, intruded => intruded'
      PROVE  Built'
  <2>1. \A q \in Writers \ {p} : writer'[q] = writer[q]
    BY <1>l, LeavesAlone
  <2>2. CASE writer'[p] = AtRest
    BY <1>l, <2>1, <2>2, BuiltKept DEF AtRest, Building
  <2>3. CASE writer'[p] # AtRest
    <3>1. /\ writer'[p].pc = "want" /\ writer'[p].seen.count = ReadState.count
          /\ writer'[p].seen.revision = ReadState.revision
      BY <1>l, <2>3, LeavesAlone
    <3>2. PollSaw(writer'[p].seen)
      BY <3>1, PollSeesTheFile
    <3> QED
      BY <1>l, <2>1, <3>1, <3>2, BuiltKept
  <2> QED
    BY <2>2, <2>3
<1>1. CASE McpUpdates
  BY <1>1, <1>s, <1>w DEF McpUpdates
<1>k. UNCHANGED <<panicFile, interventions, intruded, writer>> => Built'
  <2> SUFFICES ASSUME UNCHANGED <<panicFile, interventions, intruded, writer>> PROVE Built'
    OBVIOUS
  <2>1. ~intruded /\ Mcp = Watch => PollSaw(writer'[Mcp].seen)
    BY <1>w
  <2>2. ~intruded /\ writer'[Mcp].pc = "write" => WriterSaw(Mcp, writer'[Mcp].seen)
    BY <1>w DEF Built
  <2> QED
    BY <1>w, <2>1, <2>2, BuiltKept
<1>2. CASE McpInjects
  BY <1>2, <1>s, <1>k, <1>w DEF McpInjects
<1>3. CASE PollSignals
  <2>1. PICK level \in Levels : Starts(Watch, "cas", [ReadState EXCEPT !.level = level])
    BY <1>3 DEF PollSignals, PollLevels
  <2>2. /\ [ReadState EXCEPT !.level = level].count = ReadState.count
        /\ [ReadState EXCEPT !.level = level].revision = ReadState.revision
    BY <1>r DEF States
  <2>3. PollSaw([ReadState EXCEPT !.level = level])
    BY <2>2, PollSeesTheFile
  <2> QED
    BY <1>s, <1>w, <2>1, <2>3
<1>4. ASSUME NEW h \in Hooks, HookWarns(h) PROVE Built'
  <2>1. h \in Writers /\ h # Watch
    BY <1>w DEF Writers
  <2> QED
    BY <1>4, <1>s, <2>1 DEF HookWarns
<1>5. CASE ReadUnlocked
  <2>1. writer'[Mcp].pc = "writeUnlocked" /\ \A q \in Writers \ {Mcp} : writer'[q] = writer[q]
    BY <1>5, <1>w, WriterTyped DEF ReadUnlocked, Jobs
  <2> QED
    BY <1>5, <1>w, <2>1, BuiltKept DEF ReadUnlocked, Building
<1>6. CASE WriteUnlocked
  <2>1. intruded'
    BY <1>6, Zenon DEF WriteUnlocked
  <2> QED
    BY <2>1 DEF Built
<1>7. ASSUME NEW p \in Writers, CreateLock(p) \/ SeesStale(p) PROVE Built'
  BY <1>7, <1>g DEF CreateLock, SeesStale, At, PCs, Building
<1>8. ASSUME NEW p \in Writers, RemovesStale(p) PROVE Built'
  <2>1. intruded => intruded'
    BY <1>8 DEF RemovesStale, Unlink
  <2> QED
    BY <1>8, <1>g, <2>1 DEF RemovesStale, At, PCs, Building
<1>9. ASSUME NEW p \in Writers, GivesUp(p) PROVE Built'
  BY <1>9, <1>g, <1>l DEF GivesUp, PCs, Building
<1>10. ASSUME NEW p \in Writers, ReadAgain(p) PROVE Built'
  <2>1. /\ writer'[p].pc \in {"write", "release"}
        /\ writer'[p].seen = IF p = Watch THEN writer[p].seen ELSE ReadState
        /\ p = Watch /\ writer'[p].pc = "write" => writer[p].seen.revision = panicFile.revision
        /\ \A q \in Writers \ {p} : writer'[q] = writer[q]
        /\ writer[p].pc \in Building
    BY <1>10, ReadAgainAlone DEF Building
  <2>2. ~intruded /\ p = Watch => PollSaw(writer'[p].seen)
    BY <2>1 DEF Built
  <2>3. writer'[p].pc = "write" => WriterSaw(p, writer'[p].seen)
    BY <2>1 DEF WriterSaw
  <2>4. UNCHANGED <<panicFile, interventions, intruded>>
    BY <1>10 DEF ReadAgain
  <2> QED
    BY <2>1, <2>2, <2>3, <2>4, BuiltKept
<1>11. ASSUME NEW p \in Writers, Write(p) PROVE Built'
  BY <1>11, BuiltByWrite
<1>12. ASSUME NEW p \in Writers, WriteFails(p) PROVE Built'
  <2>1. CASE writer'[p] = AtRest
    BY <1>12, <2>1, FailsAlone, BuiltKept DEF AtRest, Building
  <2>2. CASE writer'[p] # AtRest
    <3>1. /\ writer[p].pc = "write" /\ writer'[p].pc = "release"
          /\ \A q \in Writers \ {p} : writer'[q] = writer[q]
          /\ UNCHANGED <<panicFile, lock, interventions, intruded>>
      BY <1>12, <2>2, FailsAlone
    <3> QED
      BY <3>1, BuiltKept DEF Building
  <2> QED
    BY <2>1, <2>2
<1>13. ASSUME NEW p \in Writers, Release(p) PROVE Built'
  <2>1. intruded => intruded'
    BY <1>13 DEF Release, Unlink
  <2> QED
    BY <1>13, <1>l, <2>1 DEF Release
<1>14. ASSUME NEW p \in Writers, Crash(p) PROVE Built'
  <2>1. writer'[p].pc = "idle" /\ \A q \in Writers \ {p} : writer'[q] = writer[q]
    BY <1>14, WriterTyped DEF Crash, AtRest
  <2>2. UNCHANGED <<panicFile, interventions, intruded>>
    BY <1>14 DEF Crash
  <2> QED
    BY <2>1, <2>2, BuiltKept DEF Building
<1>15. CASE LockAges
  BY <1>15, <1>k DEF LockAges
<1>16. CASE Expires
  <2>1. \A p \in Writers : writer'[p].pc = "idle"
    BY <1>16 DEF Expires, At
  <2>2. panicFile' = [panicFile EXCEPT !.live = FALSE] /\ interventions' = 0
    BY <1>16 DEF Expires
  <2>3. panicFile'.live = FALSE
    BY <2>2 DEF PanicTypeOK, States
  <2>4. ReadState'.count = interventions'
    BY <2>2, <2>3 DEF ReadState, Default
  <2> QED
    BY <1>w, <2>1, <2>4 DEF Built, Building
<1>17. CASE UNCHANGED panicFileVars
  BY <1>17, <1>k DEF panicFileVars
<1> QED
  BY <1>1, <1>2, <1>3, <1>4, <1>5, <1>6, <1>7, <1>8, <1>9, <1>10, <1>11, <1>12, <1>13, <1>14,
     <1>15, <1>16, <1>17 DEF PanicNext

LEMMA PanicInvariant == PanicSpec => []PanicIInv
<1>1. PanicInit => HolderInside /\ Built
  <2> SUFFICES ASSUME PanicInit PROVE HolderInside /\ Built
    OBVIOUS
  <2>1. \A p \in Writers : writer[p] = AtRest
    BY DEF PanicInit
  <2>2. HolderInside
    BY <2>1 DEF HolderInside, Inside, AtRest
  <2>3. ReadState.count = interventions /\ Watch \in Writers
    BY DEF PanicInit, ReadState, Default, Writers
  <2> QED
    BY <2>1, <2>2, <2>3 DEF Built, Building, AtRest
<1>2. PanicTypeOK /\ HolderInside /\ Built /\ [PanicNext]_panicFileVars
        => HolderInside' /\ Built'
  BY HolderKept, BuiltStep DEF PanicIInv
<1> QED
  BY <1>1, <1>2, PanicTypeCorrect, PTL DEF PanicSpec, PanicIInv

(***************************************************************************)
(* No increment of the intervention counter is lost, however many hooks,   *)
(* signals and polls interleave, until a writer is intruded upon.          *)
(***************************************************************************)
THEOREM CountCorrect == PanicSpec => []CountIsExact
<1>1. PanicIInv => CountIsExact
  BY DEF PanicIInv, Built, CountIsExact
<1> QED
  BY <1>1, PanicInvariant, PTL

(***************************************************************************)
(* Every write raises the revision that gryph-watch compares, within a     *)
(* session that nobody intruded upon.                                      *)
(***************************************************************************)
THEOREM RevisionCorrect == PanicSpec => RevisionGrows
<1>1. PanicIInv /\ [PanicNext]_panicFileVars =>
        [panicFile' # panicFile => \/ panicFile'.revision > panicFile.revision
                                   \/ ~panicFile.live \/ ~panicFile'.live
                                   \/ intruded']_panicFileVars
  <2> SUFFICES ASSUME PanicIInv, PanicNext, panicFile' # panicFile
               PROVE  \/ panicFile'.revision > panicFile.revision
                      \/ ~panicFile.live \/ ~panicFile'.live \/ intruded'
    BY DEF panicFileVars
  <2>1. CASE WriteUnlocked
    BY <2>1, Zenon DEF WriteUnlocked
  <2>2. CASE Expires
    BY <2>2 DEF Expires, PanicIInv, PanicTypeOK, States
  <2>3. ASSUME NEW p \in Writers, Write(p)
        PROVE  panicFile'.revision > panicFile.revision \/ ~panicFile.live \/ intruded'
    <3>1. intruded' \/ Written(p).revision = ReadState.revision + 1
      BY <2>3, BuiltByWrite
    <3>2. panicFile' = Written(p) /\ panicFile.revision \in Nat
      BY <2>3 DEF Write, Persist, PanicIInv, PanicTypeOK, States
    <3> QED
      BY <3>1, <3>2 DEF ReadState
  <2>4. \/ WriteUnlocked \/ Expires \/ \E p \in Writers : Write(p)
    BY DEF PanicNext, McpUpdates, McpInjects, PollSignals, HookWarns, Starts, ReadUnlocked,
           CreateLock, SeesStale, RemovesStale, GivesUp, ReadAgain, WriteFails, Release, Crash,
           LockAges
  <2> QED
    BY <2>1, <2>2, <2>3, <2>4
<1> QED
  BY <1>1, PanicInvariant, PTL DEF PanicSpec, RevisionGrows
-----------------------------------------------------------------------------
(***************************************************************************)
(* Before the first fault no lock is stale, so nobody removes one that is  *)
(* held, and whoever is inside owns it.                                    *)
(***************************************************************************)
Unstolen ==
  faults = 0 => /\ lock # NoLock => lock.stale = FALSE /\ lock.owner # Dead
                /\ \A p \in Writers : /\ writer[p].pc # "unlink"
                                      /\ writer[p].pc \in InsidePCs
                                           => lock # NoLock /\ lock.owner = p

(***************************************************************************)
(* A step of p that leaves the lock.                                       *)
(***************************************************************************)
LEMMA UnstolenKept ==
  ASSUME Unstolen, NEW p \in Writers, faults' = 0 => faults = 0, UNCHANGED lock,
         \A q \in Writers \ {p} : writer'[q] = writer[q],
         writer'[p].pc # "unlink",
         writer'[p].pc \in InsidePCs => writer[p].pc \in InsidePCs
  PROVE  Unstolen'
<1> SUFFICES ASSUME faults' = 0, NEW q \in Writers
             PROVE  /\ lock # NoLock => lock.stale = FALSE /\ lock.owner # Dead
                    /\ writer'[q].pc # "unlink"
                    /\ writer'[q].pc \in InsidePCs => lock # NoLock /\ lock.owner = q
  BY DEF Unstolen
<1>1. CASE q = p
  BY <1>1 DEF Unstolen
<1>2. CASE q # p
  BY <1>2 DEF Unstolen
<1> QED
  BY <1>1, <1>2

LEMMA UnstolenStep ==
  ASSUME PanicTypeOK, Unstolen, [PanicNext]_panicFileVars
  PROVE  Unstolen'
<1>w. Mcp \in Writers /\ Watch \in Writers
  BY DEF Writers
<1>f. faults \in Nat /\ (Fault => faults' # 0)
  BY PanicAssumption DEF PanicTypeOK, Fault
<1>s. ASSUME NEW p \in Writers, NEW op, NEW seen, Starts(p, op, seen) PROVE Unstolen'
  BY <1>s, StartsAlone, UnstolenKept DEF InsidePCs
<1>g. ASSUME NEW p \in Writers, NEW pc \in PCs \ {"unlink"}, Goes(p, pc),
             pc \notin InsidePCs \/ writer[p].pc \in InsidePCs,
             UNCHANGED lock, faults' = 0 => faults = 0
      PROVE  Unstolen'
  BY <1>g, GoesAlone, UnstolenKept
<1>u. UNCHANGED <<lock, faults, writer>> => Unstolen'
  BY <1>w, UnstolenKept DEF Unstolen, InsidePCs
<1>1. CASE McpUpdates
  BY <1>1, <1>s, <1>w DEF McpUpdates
<1>2. CASE McpInjects
  BY <1>2, <1>s, <1>u, <1>w DEF McpInjects
<1>3. CASE PollSignals
  BY <1>3, <1>s, <1>w DEF PollSignals
<1>4. ASSUME NEW h \in Hooks, HookWarns(h) PROVE Unstolen'
  BY <1>4, <1>s DEF HookWarns, Writers
<1>5. CASE ReadUnlocked
  <2>1. writer'[Mcp].pc = "writeUnlocked" /\ \A q \in Writers \ {Mcp} : writer'[q] = writer[q]
    BY <1>5, <1>w, WriterTyped DEF ReadUnlocked, Jobs
  <2> QED
    BY <1>5, <1>w, <2>1, UnstolenKept DEF ReadUnlocked, InsidePCs
<1>6. CASE WriteUnlocked
  <2>1. writer'[Mcp].pc = "idle" /\ \A q \in Writers \ {Mcp} : writer'[q] = writer[q]
    BY <1>6, <1>w, WriterTyped DEF WriteUnlocked, AtRest
  <2>2. UNCHANGED <<lock, faults>>
    BY <1>6 DEF WriteUnlocked
  <2> QED
    BY <1>w, <2>1, <2>2, UnstolenKept DEF InsidePCs
<1>7. ASSUME NEW p \in Writers, CreateLock(p) PROVE Unstolen'
  <2>1. writer'[p].pc = "read" /\ \A q \in Writers \ {p} : writer'[q] = writer[q]
    BY <1>7, GoesAlone DEF CreateLock, PCs
  <2>2. /\ lock = NoLock /\ lock' = [owner |-> p, stale |-> FALSE] /\ UNCHANGED faults
        /\ p # Dead
    BY <1>7, PanicAssumption DEF CreateLock
  <2>3. lock' # NoLock
    <3>1. [owner |-> p, stale |-> FALSE] \in [owner : Writers \cup {Dead}, stale : BOOLEAN]
      OBVIOUS
    <3> QED
      BY <2>2, <3>1, PanicAssumption
  <2>4. lock'.owner = p /\ lock'.stale = FALSE
    BY <2>2
  <2>5. ASSUME NEW q \in Writers \ {p}, faults = 0
        PROVE  writer[q].pc # "unlink" /\ writer[q].pc \notin InsidePCs
    BY <2>2, <2>5 DEF Unstolen
  <2> QED
    BY <2>1, <2>2, <2>3, <2>4, <2>5 DEF Unstolen
<1>8. ASSUME NEW p \in Writers, SeesStale(p) PROVE Unstolen'
  <2>1. faults' # 0
    BY <1>8 DEF SeesStale, Unstolen
  <2> QED
    BY <2>1 DEF Unstolen
<1>9. ASSUME NEW p \in Writers, RemovesStale(p) PROVE Unstolen'
  <2>1. faults' # 0
    BY <1>9 DEF RemovesStale, At, Unstolen
  <2> QED
    BY <2>1 DEF Unstolen
<1>l. ASSUME NEW p \in Writers, Leaves(p)
      PROVE  writer'[p].pc \in {"idle", "want"} /\ \A q \in Writers \ {p} : writer'[q] = writer[q]
  BY <1>l, LeavesAlone DEF AtRest
<1>10. ASSUME NEW p \in Writers, GivesUp(p) PROVE Unstolen'
  <2>1. CASE p = Mcp
    BY <1>10, <1>g, <2>1 DEF GivesUp, PCs, InsidePCs
  <2>2. CASE p # Mcp
    BY <1>10, <1>l, <2>2, UnstolenKept DEF GivesUp, InsidePCs
  <2> QED
    BY <2>1, <2>2
<1>11. ASSUME NEW p \in Writers, ReadAgain(p) PROVE Unstolen'
  <2>1. UNCHANGED <<lock, faults>>
    BY <1>11 DEF ReadAgain
  <2> QED
    BY <1>11, <2>1, ReadAgainAlone, UnstolenKept DEF InsidePCs
<1>12. ASSUME NEW p \in Writers, Write(p) PROVE Unstolen'
  <2>1. UNCHANGED <<lock, faults>>
    BY <1>12 DEF Write
  <2> QED
    BY <1>12, <2>1, WriteAlone, UnstolenKept DEF InsidePCs
<1>13. ASSUME NEW p \in Writers, WriteFails(p) \/ Crash(p) PROVE Unstolen'
  BY <1>13, <1>f DEF WriteFails, Crash, Unstolen
<1>14. ASSUME NEW p \in Writers, Release(p) PROVE Unstolen'
  <2>1. writer'[p].pc \in {"idle", "want"} /\ \A q \in Writers \ {p} : writer'[q] = writer[q]
    BY <1>14, <1>l DEF Release
  <2>2. lock' = NoLock /\ UNCHANGED faults /\ writer[p].pc = "release"
    BY <1>14 DEF Release, Unlink, At
  <2>3. ASSUME NEW q \in Writers \ {p}, faults = 0
        PROVE  writer[q].pc # "unlink" /\ writer[q].pc \notin InsidePCs
    BY <2>2, <2>3 DEF Unstolen, InsidePCs
  <2> QED
    BY <2>1, <2>2, <2>3 DEF Unstolen, InsidePCs
<1>15. CASE LockAges
  <2>1. faults' # 0
    BY <1>15, <1>f DEF LockAges, Unstolen
  <2> QED
    BY <2>1 DEF Unstolen
<1>16. CASE Expires
  BY <1>16, <1>f DEF Expires, Unstolen
<1>17. CASE UNCHANGED panicFileVars
  BY <1>17, <1>u DEF panicFileVars
<1> QED
  BY <1>1, <1>2, <1>3, <1>4, <1>5, <1>6, <1>7, <1>8, <1>9, <1>10, <1>11, <1>12, <1>13, <1>14,
     <1>15, <1>16, <1>17 DEF PanicNext

(***************************************************************************)
(* Without a crash, a stall or a failed write no two writers are inside    *)
(* the lock together.                                                      *)
(***************************************************************************)
THEOREM LockCorrect == PanicSpec => []LockExcludes
<1>1. PanicInit => Unstolen
  BY DEF PanicInit, Unstolen, AtRest, InsidePCs
<1>2. PanicTypeOK /\ Unstolen /\ [PanicNext]_panicFileVars => Unstolen'
  BY UnstolenStep
<1>3. PanicTypeOK /\ Unstolen => LockExcludes
  BY DEF PanicTypeOK, Unstolen, LockExcludes, Inside, InsidePCs
<1> QED
  BY <1>1, <1>2, <1>3, PanicTypeCorrect, PTL DEF PanicSpec
=============================================================================
