------------------------------ MODULE PanicState ------------------------------
(***************************************************************************)
(* panic-state.json and its writers: the MCP server after every tool call  *)
(* and after every signal it injects, the panic-check hooks (one process   *)
(* each), and the gryph-watch daemon.  They read, modify and write the     *)
(* file under an O_EXCL lock file that anyone may remove once it is stale  *)
(* (src/core/services/mcp-handlers/panic-response.ts); the daemon compares *)
(* the revision it read before.  The panic policy is "advisory".           *)
(*                                                                         *)
(* Every system call on the file and on the lock is a step.  The level of  *)
(* the tracker (EpistemicLease) is any; the score, the triggers and the    *)
(* times of the file are left out.  The eighty attempts at the lock are    *)
(* not counted: a contender may run out of them while the lock exists.     *)
(*                                                                         *)
(* A definition named Mutant... is no part of the specification.           *)
(***************************************************************************)
EXTENDS Integers

CONSTANTS Hooks,        (* the panic-check processes                        *)
          Mcp, Watch,   (* the MCP server, gryph-watch                      *)
          NoLock, Dead, (* no lock file; the owner of an orphaned one       *)
          Top,          (* the highest panic level                          *)
          Injected,     (* PANIC_INJECTION_MIN_LEVEL                        *)
          MaxOps,       (* bound: operations started                        *)
          MaxFaults     (* bound: crashes, stalls, failed writes, expiries  *)

Writers == Hooks \cup {Mcp, Watch}
Levels == 0..Top

ASSUME PanicAssumption ==
  /\ Mcp # Watch /\ Mcp \notin Hooks /\ Watch \notin Hooks
  /\ Dead \notin Writers
  /\ NoLock \notin [owner : Writers \cup {Dead}, stale : BOOLEAN]
  /\ Top \in Nat /\ Injected \in Levels \ {0} /\ MaxOps \in Nat /\ MaxFaults \in Nat

VARIABLES panicFile,    (* panic-state.json; live: younger than the expiry  *)
          lock,         (* panic-state.json.lock                            *)
          writer,       (* what each writer is doing, and what it read      *)
          trackerLevel, (* the panic level in the MCP server's memory       *)
          answering,    (* tool calls whose answer is not out yet           *)
          ops, faults,
          interventions,(* history: recorded since the last write at zero   *)
          intruded      (* history: a writer wrote without the lock, or     *)
                        (* lost it while it was inside                      *)
panicFileVars == <<panicFile, lock, writer, trackerLevel, answering, ops, faults,
                   interventions, intruded>>

Default == [level |-> 0, count |-> 0, revision |-> 0, live |-> TRUE]
AtRest == [pc |-> "idle", op |-> "none", seen |-> Default, attempt |-> 0]

PanicInit ==
  /\ panicFile = Default /\ lock = NoLock
  /\ writer = [p \in Writers |-> AtRest]
  /\ trackerLevel = 0 /\ answering = 0
  /\ ops = 0 /\ faults = 0 /\ interventions = 0 /\ intruded = FALSE

At(p, pc) == writer[p].pc = pc
Goes(p, pc) == writer' = [writer EXCEPT ![p].pc = pc]
Inside == {p \in Writers : writer[p].pc \in {"read", "write", "release"}}

(***************************************************************************)
(* readPanicState: an expired session reads as no file at all.             *)
(***************************************************************************)
ReadState == IF panicFile.live THEN panicFile ELSE Default
-----------------------------------------------------------------------------
(* The operations *)

Starts(p, op, seen) ==
  /\ At(p, "idle") /\ ops < MaxOps
  /\ ops' = ops + 1
  /\ writer' = [writer EXCEPT ![p] = [pc |-> "want", op |-> op, seen |-> seen, attempt |-> 0]]
  /\ UNCHANGED <<panicFile, lock, faults, interventions, intruded>>

McpUpdates ==
  /\ Starts(Mcp, "update", Default)
  /\ trackerLevel' \in Levels
  /\ answering' = answering + 1

(***************************************************************************)
(* The answer of a call carries a panic signal from level two on.          *)
(***************************************************************************)
McpInjects ==
  /\ answering > 0
  /\ answering' = answering - 1
  /\ IF trackerLevel >= Injected THEN Starts(Mcp, "inject", Default)
     ELSE /\ At(Mcp, "idle")
          /\ UNCHANGED <<panicFile, lock, writer, ops, faults, interventions, intruded>>
  /\ UNCHANGED trackerLevel

(***************************************************************************)
(* panic-check decides on what it reads without the lock.                  *)
(***************************************************************************)
HookWarns(h) == /\ ReadState.level > 0
                /\ Starts(h, "hook", ReadState)
                /\ UNCHANGED <<trackerLevel, answering>>

(***************************************************************************)
(* A poll that saw signals: the score moves, and the level at most by one. *)
(***************************************************************************)
PollLevels(level) == {l \in Levels : l - level \in {-1, 0, 1}}

PollSignals == /\ \E level \in PollLevels(ReadState.level) :
                    Starts(Watch, "cas", [ReadState EXCEPT !.level = level])
               /\ UNCHANGED <<trackerLevel, answering>>
-----------------------------------------------------------------------------
(* withPanicStateLock *)

CreateLock(p) ==
  /\ At(p, "want") /\ lock = NoLock
  /\ lock' = [owner |-> p, stale |-> FALSE]
  /\ Goes(p, "read")
  /\ UNCHANGED <<panicFile, trackerLevel, answering, ops, faults, interventions, intruded>>

MutantSeesStale(p) ==
  /\ At(p, "want") /\ lock # NoLock
  /\ Goes(p, "unlink")
  /\ UNCHANGED <<panicFile, lock, trackerLevel, answering, ops, faults, interventions, intruded>>

SeesStale(p) ==
  /\ At(p, "want") /\ lock # NoLock /\ lock.stale
  /\ Goes(p, "unlink")
  /\ UNCHANGED <<panicFile, lock, trackerLevel, answering, ops, faults, interventions, intruded>>

(***************************************************************************)
(* unlink takes whatever file has the name by now.                         *)
(***************************************************************************)
Unlink(p) ==
  /\ lock' = NoLock
  /\ intruded' = (intruded \/ (lock # NoLock /\ lock.owner \in Inside \ {p}))

RemovesStale(p) ==
  /\ At(p, "unlink")
  /\ Unlink(p)
  /\ Goes(p, "want")
  /\ UNCHANGED <<panicFile, trackerLevel, answering, ops, faults, interventions>>

(***************************************************************************)
(* What casWritePanicState answers: a poll that lost, for whatever reason, *)
(* reads and tries once more.                                              *)
(***************************************************************************)
MutantRetries(p) == p = Watch /\ writer[p].op = "cas"
Retries(p) == p = Watch /\ writer[p].op = "cas" /\ writer[p].attempt = 0

Leaves(p) ==
  IF Retries(p)
  THEN \E level \in PollLevels(ReadState.level) :
         writer' = [writer EXCEPT ![p].pc = "want", ![p].attempt = @ + 1,
                                  ![p].seen = [ReadState EXCEPT !.level = level]]
  ELSE writer' = [writer EXCEPT ![p] = AtRest]

(***************************************************************************)
(* Out of attempts: the MCP server goes on without the lock, the others    *)
(* leave.                                                                  *)
(***************************************************************************)
GivesUp(p) ==
  /\ At(p, "want") /\ lock # NoLock
  /\ IF p = Mcp THEN Goes(p, "readUnlocked") ELSE Leaves(p)
  /\ UNCHANGED <<panicFile, lock, trackerLevel, answering, ops, faults, interventions, intruded>>

(***************************************************************************)
(* Under the lock: what the write builds on is read again, and the         *)
(* daemon's compared, by the revision in the file even of an expired one.  *)
(***************************************************************************)
MutantReadAgain(p) ==
  /\ At(p, "read")
  /\ writer' = [writer EXCEPT ![p].pc = "write", ![p].seen = IF p = Mcp THEN ReadState ELSE @]
  /\ UNCHANGED <<panicFile, lock, trackerLevel, answering, ops, faults, interventions, intruded>>

ReadAgain(p) ==
  /\ At(p, "read")
  /\ writer' = [writer EXCEPT
       ![p].pc = IF p = Watch /\ panicFile.revision # writer[p].seen.revision
                 THEN "release" ELSE "write",
       ![p].seen = IF p = Watch THEN @ ELSE ReadState]
  /\ UNCHANGED <<panicFile, lock, trackerLevel, answering, ops, faults, interventions, intruded>>

Written(p) ==
  LET seen == writer[p].seen
      op == writer[p].op
  IN  [level |-> IF p = Mcp THEN trackerLevel ELSE seen.level,
       count |-> IF op = "update" /\ trackerLevel = 0 THEN 0
                 ELSE IF op \in {"inject", "hook"} THEN seen.count + 1 ELSE seen.count,
       revision |-> seen.revision + 1,
       live |-> TRUE]

MutantPersist(p) == panicFile' = IF p = Mcp THEN Written(p)
                                 ELSE [Written(p) EXCEPT !.revision = @ - 1]
Persist(p) == panicFile' = Written(p)

Record(op) == interventions' = IF op = "update" /\ trackerLevel = 0 THEN 0
                               ELSE IF op \in {"inject", "hook"} THEN interventions + 1
                               ELSE interventions

Write(p) ==
  /\ At(p, "write")
  /\ Persist(p) /\ Record(writer[p].op)
  /\ writer' = [writer EXCEPT ![p].pc = "release", ![p].op = "done"]
  /\ UNCHANGED <<lock, trackerLevel, answering, ops, faults, intruded>>

(***************************************************************************)
(* The write fails: the state stays as it was.                             *)
(***************************************************************************)
Fault == faults < MaxFaults /\ faults' = faults + 1

WriteFails(p) ==
  /\ Fault
  /\ \/ At(p, "write") /\ Goes(p, "release")
     \/ At(p, "writeUnlocked") /\ writer' = [writer EXCEPT ![p] = AtRest]
  /\ UNCHANGED <<panicFile, lock, trackerLevel, answering, ops, interventions, intruded>>

Release(p) ==
  /\ At(p, "release")
  /\ Unlink(p)
  /\ Leaves(p)
  /\ UNCHANGED <<panicFile, trackerLevel, answering, ops, faults, interventions>>

ReadUnlocked ==
  /\ At(Mcp, "readUnlocked")
  /\ writer' = [writer EXCEPT ![Mcp].pc = "writeUnlocked", ![Mcp].seen = ReadState]
  /\ UNCHANGED <<panicFile, lock, trackerLevel, answering, ops, faults, interventions, intruded>>

WriteUnlocked ==
  /\ At(Mcp, "writeUnlocked")
  /\ Persist(Mcp) /\ Record(writer[Mcp].op)
  /\ intruded' = TRUE
  /\ writer' = [writer EXCEPT ![Mcp] = AtRest]
  /\ UNCHANGED <<lock, trackerLevel, answering, ops, faults>>
-----------------------------------------------------------------------------
(* Faults of the processes *)

(***************************************************************************)
(* A writer dies; the lock it holds stays.  A new MCP server starts with a *)
(* new tracker.                                                            *)
(***************************************************************************)
Crash(p) ==
  /\ Fault /\ ~At(p, "idle")
  /\ writer' = [writer EXCEPT ![p] = AtRest]
  /\ lock' = IF lock # NoLock /\ lock.owner = p THEN [lock EXCEPT !.owner = Dead] ELSE lock
  /\ IF p = Mcp THEN trackerLevel' = 0 /\ answering' = 0 ELSE UNCHANGED <<trackerLevel, answering>>
  /\ UNCHANGED <<panicFile, ops, interventions, intruded>>

(***************************************************************************)
(* LOCK_STALE_MS pass: over a dead owner's lock, or over one who stalls.   *)
(***************************************************************************)
LockAges ==
  /\ lock # NoLock /\ ~lock.stale
  /\ lock' = [lock EXCEPT !.stale = TRUE]
  /\ IF lock.owner = Dead THEN UNCHANGED faults ELSE Fault
  /\ UNCHANGED <<panicFile, writer, trackerLevel, answering, ops, interventions, intruded>>

(***************************************************************************)
(* PANIC_SESSION_EXPIRY_MS pass and nobody writes.                         *)
(***************************************************************************)
Expires ==
  /\ Fault
  /\ panicFile.live /\ \A p \in Writers : At(p, "idle")
  /\ panicFile' = [panicFile EXCEPT !.live = FALSE]
  /\ interventions' = 0
  /\ UNCHANGED <<lock, writer, trackerLevel, answering, ops, intruded>>
-----------------------------------------------------------------------------
PanicNext ==
  \/ McpUpdates \/ McpInjects \/ PollSignals \/ ReadUnlocked \/ WriteUnlocked
  \/ \E h \in Hooks : HookWarns(h)
  \/ \E p \in Writers : \/ CreateLock(p) \/ SeesStale(p) \/ RemovesStale(p) \/ GivesUp(p)
                        \/ ReadAgain(p) \/ Write(p) \/ WriteFails(p) \/ Release(p)
                        \/ Crash(p)
  \/ LockAges \/ Expires

PanicSpec == PanicInit /\ [][PanicNext]_panicFileVars
-----------------------------------------------------------------------------
(* Properties *)

(***************************************************************************)
(* The types; a poll tries twice at most.                                  *)
(***************************************************************************)
States == [level : Levels, count : Nat, revision : Nat, live : BOOLEAN]
PanicTypeOK ==
  /\ panicFile \in States
  /\ lock \in [owner : Writers \cup {Dead}, stale : BOOLEAN] \cup {NoLock}
  /\ writer \in [Writers ->
       [pc : {"idle", "want", "unlink", "read", "write", "release", "readUnlocked",
              "writeUnlocked"},
        op : {"none", "update", "inject", "hook", "cas", "done"},
        seen : States, attempt : 0..1]]
  /\ trackerLevel \in Levels /\ answering \in 0..ops
  /\ ops \in 0..MaxOps /\ faults \in 0..MaxFaults
  /\ interventions \in Nat /\ intruded \in BOOLEAN

(***************************************************************************)
(* "concurrent panic-check hooks must not lose increments": as long as no  *)
(* writer was intruded upon, the counter of the file is the number of      *)
(* interventions recorded since the last write at level zero, whichever    *)
(* processes recorded them and whatever the daemon wrote in between.       *)
(***************************************************************************)
CountIsExact == intruded \/ ReadState.count = interventions

(***************************************************************************)
(* "Monotonically increasing write counter": every write raises the        *)
(* revision, which is what the daemon's comparison relies on, until a      *)
(* session expires or a writer is intruded upon.                           *)
(***************************************************************************)
RevisionGrows ==
  [][panicFile' # panicFile => \/ panicFile'.revision > panicFile.revision
                               \/ ~panicFile.live \/ ~panicFile'.live
                               \/ intruded']_panicFileVars

(***************************************************************************)
(* The lock keeps writers apart until one dies or stalls inside it.        *)
(***************************************************************************)
LockExcludes == faults > 0 \/ \A p, q \in Inside : p = q
=============================================================================
