----------------------------- MODULE AtomicStore ------------------------------
(***************************************************************************)
(* The persistence primitives under the decision and the memory store      *)
(* (src/core/decisions/atomic-store.ts): casUpdate, which loads, mutates   *)
(* and rewrites one JSON file inside an advisory lockfile, and the loaders *)
(* (loadDecisionStore, loadMemoryStore), which any process also calls with *)
(* no lock and which move an unparsable file aside.                        *)
(*                                                                         *)
(* A step is what the code does between two awaits on the file system.     *)
(* Writers are the calls of casUpdate, one at a time per writer; readers   *)
(* are processes that only load.  The pid-and-counter lock token is the    *)
(* writer itself: a token is written to the lockfile its writer created    *)
(* and outlives the call only when that writer crashed.  Time is a coarse  *)
(* clock: an age or a wait of n is n steps of Tick.                        *)
(*                                                                         *)
(* A definition named Mutant... is no part of the specification: it is a   *)
(* plausible bug in the definition after it, which some property refutes.  *)
(***************************************************************************)
EXTENDS Naturals, Sequences

CONSTANTS Writers,       (* callers of casUpdate                            *)
          Readers,       (* callers that only load                          *)
          NoOne,         (* no owner of the lockfile                        *)
          MaxUpdates,    (* bound: the updates a writer submits             *)
          MaxCrashes,    (* bound: the writers that may crash               *)
          StaleAge,      (* LOCK_STALE_MS, in ticks                         *)
          MaxWait,       (* LOCK_MAX_WAIT_MS, in ticks                      *)
          Stalls,        (* may a live holder hold longer than StaleAge?    *)
          Faults,        (* file-system calls that may fail, by the step    *)
          InitialKinds   (* what the store file may be at the start         *)

Procs == Writers \cup Readers

ASSUME ProcsAssumption == /\ Writers \cap Readers = {}
                          /\ NoOne \notin Procs
ASSUME BoundsAssumption == MaxUpdates \in Nat /\ MaxCrashes \in Nat
ASSUME FaultsAssumption == Faults \subseteq {"open", "steal", "read", "link", "unlink", "write"}
ASSUME InitialKindsAssumption == InitialKinds \subseteq {"absent", "torn", "whole"}

(***************************************************************************)
(* "STALE < MAX_WAIT by design".                                           *)
(***************************************************************************)
ASSUME PatienceAssumption == /\ StaleAge \in Nat
                             /\ MaxWait \in Nat
                             /\ StaleAge < MaxWait
                             /\ Stalls \in BOOLEAN

(***************************************************************************)
(* An update is named by its writer and its rank among that writer's       *)
(* calls; OldUpdate stands for what was committed before the run.          *)
(***************************************************************************)
Updates == (Writers \cup {NoOne}) \X (0..MaxUpdates)
OldUpdate == <<NoOne, 0>>

(***************************************************************************)
(* A store file: absent, whole (it parses and has the right shape), or     *)
(* torn (it does not), with the sequence and the updates its bytes hold.   *)
(***************************************************************************)
File == [kind : {"absent", "torn", "whole"}, sequence : Nat, applied : SUBSET Updates]
NoFile == [kind |-> "absent", sequence |-> 0, applied |-> {}]

VARIABLES lockOwner,   (* who created the lockfile now on disk, or NoOne    *)
          lockAge,     (* ticks since its mtime                             *)
          store,       (* the file at the store's path                      *)
          quarantine,  (* the files at <path>.corrupt-0, .corrupt-1, ...    *)
          pc,          (* where each process is                             *)
          waited,      (* ticks since a writer started to wait for the lock *)
          base,        (* the file a process loaded                         *)
          submitted,   (* how many updates each writer has submitted        *)
          acked,       (* updates whose casUpdate returned                  *)
          failed,      (* updates whose casUpdate threw                     *)
          crashes      (* how many writers crashed                          *)

fileVars == <<lockOwner, lockAge, store, quarantine>>
callVars == <<submitted, acked, failed, crashes>>
vars == <<fileVars, pc, waited, base, callVars>>

WaitingPCs == {"open", "stat", "steal"}
HoldingPCs == {"load", "link", "unlink", "write", "release", "giveUp",
               "unlock", "unlockFailed"}
ReaderPCs  == {"idle", "link", "unlink"}
PCs == {"idle", "dead"} \cup WaitingPCs \cup HoldingPCs

Goto(p, l) == pc' = [pc EXCEPT ![p] = l]
Pending(w) == <<w, submitted[w]>>
Acknowledge(w) == acked' = acked \cup {Pending(w)} /\ UNCHANGED failed
Fail(w) == failed' = failed \cup {Pending(w)} /\ UNCHANGED acked

Init == /\ lockOwner = NoOne
        /\ lockAge = 0
        /\ \E k \in InitialKinds :
             store = IF k = "absent" THEN NoFile
                     ELSE [kind |-> k, sequence |-> 1, applied |-> {OldUpdate}]
        /\ quarantine = <<>>
        /\ pc = [p \in Procs |-> "idle"]
        /\ waited = [w \in Writers |-> 0]
        /\ base = [p \in Procs |-> NoFile]
        /\ submitted = [w \in Writers |-> 0]
        /\ acked = store.applied
        /\ failed = {}
        /\ crashes = 0
-----------------------------------------------------------------------------
(* withCommitLock: acquiring *)

Submit(w) == /\ pc[w] = "idle"
             /\ submitted[w] < MaxUpdates
             /\ submitted' = [submitted EXCEPT ![w] = @ + 1]
             /\ Goto(w, "open")
             /\ UNCHANGED <<fileVars, waited, base, acked, failed, crashes>>

(***************************************************************************)
(* open(lockPath, 'wx') and the token's write: exclusive create.           *)
(***************************************************************************)
MutantCreateShared(w) == /\ pc[w] = "open"
                         /\ lockOwner' = w
                         /\ lockAge' = 0
                         /\ waited' = [waited EXCEPT ![w] = 0]
                         /\ Goto(w, "load")
                         /\ UNCHANGED <<store, quarantine, base, callVars>>

CreateLock(w) == /\ pc[w] = "open"
                 /\ lockOwner = NoOne
                 /\ lockOwner' = w
                 /\ lockAge' = 0
                 /\ waited' = [waited EXCEPT ![w] = 0]
                 /\ Goto(w, "load")
                 /\ UNCHANGED <<store, quarantine, base, callVars>>

(***************************************************************************)
(* The open, or the mkdir before it, throws something but EEXIST.          *)
(***************************************************************************)
OpenFails(w) == /\ pc[w] = "open"
                /\ "open" \in Faults
                /\ Fail(w)
                /\ waited' = [waited EXCEPT ![w] = 0]
                /\ Goto(w, "idle")
                /\ UNCHANGED <<fileVars, base, submitted, crashes>>

LockExists(w) == /\ pc[w] = "open"
                 /\ lockOwner # NoOne
                 /\ Goto(w, "stat")
                 /\ UNCHANGED <<fileVars, waited, base, callVars>>

(***************************************************************************)
(* stat(lockPath) and the decisions taken on its answer.                   *)
(***************************************************************************)
LockVanished(w) == /\ pc[w] = "stat"
                   /\ lockOwner = NoOne
                   /\ Goto(w, "open")
                   /\ UNCHANGED <<fileVars, waited, base, callVars>>

MutantStaleTooSoon(w) == /\ pc[w] = "stat"
                         /\ lockOwner # NoOne
                         /\ lockAge >= StaleAge
                         /\ Goto(w, "steal")
                         /\ UNCHANGED <<fileVars, waited, base, callVars>>

SeeStale(w) == /\ pc[w] = "stat"
               /\ lockOwner # NoOne
               /\ lockAge > StaleAge
               /\ Goto(w, "steal")
               /\ UNCHANGED <<fileVars, waited, base, callVars>>

Poll(w) == /\ pc[w] = "stat"
           /\ lockOwner # NoOne
           /\ lockAge <= StaleAge
           /\ waited[w] <= MaxWait
           /\ Goto(w, "open")
           /\ UNCHANGED <<fileVars, waited, base, callVars>>

TimeOut(w) == /\ pc[w] = "stat"
              /\ lockOwner # NoOne
              /\ lockAge <= StaleAge
              /\ waited[w] > MaxWait
              /\ Fail(w)
              /\ waited' = [waited EXCEPT ![w] = 0]
              /\ Goto(w, "idle")
              /\ UNCHANGED <<fileVars, base, submitted, crashes>>

(***************************************************************************)
(* The unlink of a stale lock removes whatever is at the path by now.      *)
(***************************************************************************)
MutantStealNothing(w) == /\ pc[w] = "steal"
                         /\ Goto(w, "open")
                         /\ UNCHANGED <<fileVars, waited, base, callVars>>

Steal(w) == /\ pc[w] = "steal"
            /\ lockOwner' = NoOne
            /\ lockAge' = 0
            /\ Goto(w, "open")
            /\ UNCHANGED <<store, quarantine, waited, base, callVars>>

(***************************************************************************)
(* A stale lock that cannot be unlinked is no error: the loop goes round   *)
(* again, and past the check of its own waiting time.                      *)
(***************************************************************************)
StealFails(w) == /\ pc[w] = "steal"
                 /\ "steal" \in Faults
                 /\ Goto(w, "open")
                 /\ UNCHANGED <<fileVars, waited, base, callVars>>
-----------------------------------------------------------------------------
(* loadDecisionStore and loadMemoryStore, inside the lock or outside it *)

Loading(p) == pc[p] = IF p \in Writers THEN "load" ELSE "idle"
MutantAfterLoad(p) == "write"
AfterLoad(p) == IF p \in Writers THEN "write" ELSE "idle"

(***************************************************************************)
(* The existence check and readFile observe the file once: an absent file  *)
(* loads as the empty store.                                               *)
(***************************************************************************)
LoadWhole(p) == /\ Loading(p)
                /\ store.kind # "torn"
                /\ base' = [base EXCEPT ![p] = store]
                /\ Goto(p, AfterLoad(p))
                /\ UNCHANGED <<fileVars, waited, callVars>>

Unreadable == store.kind = "torn" \/ (store.kind = "whole" /\ "read" \in Faults)

MutantTornAsEmpty(p) == /\ Loading(p)
                        /\ Unreadable
                        /\ base' = [base EXCEPT ![p] = NoFile]
                        /\ Goto(p, AfterLoad(p))
                        /\ UNCHANGED <<fileVars, waited, callVars>>

(***************************************************************************)
(* A read fault is handled like bytes that do not parse.                   *)
(***************************************************************************)
LoadTorn(p) == /\ Loading(p)
               /\ Unreadable
               /\ base' = [base EXCEPT ![p] = NoFile]
               /\ Goto(p, "link")
               /\ UNCHANGED <<fileVars, waited, callVars>>

(***************************************************************************)
(* quarantineCorrupt: link the path to the first free suffix, then unlink  *)
(* the path; a path already gone needs neither.                            *)
(***************************************************************************)
LinkAside(p) == /\ pc[p] = "link"
                /\ store.kind # "absent"
                /\ quarantine' = Append(quarantine, store)
                /\ Goto(p, "unlink")
                /\ UNCHANGED <<lockOwner, lockAge, store, waited, base, callVars>>

AlreadyAside(p) == /\ pc[p] = "link"
                   /\ store.kind = "absent"
                   /\ Goto(p, AfterLoad(p))
                   /\ UNCHANGED <<fileVars, waited, base, callVars>>

UnlinkPath(p) == /\ pc[p] = "unlink"
                 /\ store' = NoFile
                 /\ Goto(p, AfterLoad(p))
                 /\ UNCHANGED <<lockOwner, lockAge, quarantine, waited, base, callVars>>

(***************************************************************************)
(* The move fails half-way or at once: the file stays, and the caller goes *)
(* on with the empty store all the same.                                   *)
(***************************************************************************)
MoveFails(p) == /\ pc[p] \in {"link", "unlink"} \cap Faults
                /\ Goto(p, AfterLoad(p))
                /\ UNCHANGED <<fileVars, waited, base, callVars>>
-----------------------------------------------------------------------------
(* casUpdate's commit and withCommitLock's release *)

(***************************************************************************)
(* mutate runs on the loaded store and the result replaces the file in one *)
(* rename; the temporary file it is written to has a name of its own.      *)
(***************************************************************************)
MutantClobber(w) == [kind |-> "whole",
                     sequence |-> base[w].sequence + 1,
                     applied |-> {Pending(w)}]
MutantNoBump(w) == [kind |-> "whole",
                    sequence |-> base[w].sequence,
                    applied |-> base[w].applied \cup {Pending(w)}]

Mutated(w) == [kind |-> "whole",
               sequence |-> base[w].sequence + 1,
               applied |-> base[w].applied \cup {Pending(w)}]

Rename(w) == /\ pc[w] = "write"
             /\ store' = Mutated(w)
             /\ base' = [base EXCEPT ![w] = NoFile]
             /\ Goto(w, "release")
             /\ UNCHANGED <<lockOwner, lockAge, quarantine, waited, callVars>>

(***************************************************************************)
(* Writing or syncing the temporary file throws: it is removed and the     *)
(* error propagates through the release.                                   *)
(***************************************************************************)
MutantFailsAfterRename(w) == /\ pc[w] = "write"
                             /\ store' = Mutated(w)
                             /\ base' = [base EXCEPT ![w] = NoFile]
                             /\ Goto(w, "giveUp")
                             /\ UNCHANGED <<lockOwner, lockAge, quarantine, waited, callVars>>

WriteFails(w) == /\ pc[w] = "write"
                 /\ "write" \in Faults
                 /\ base' = [base EXCEPT ![w] = NoFile]
                 /\ Goto(w, "giveUp")
                 /\ UNCHANGED <<fileVars, waited, callVars>>

(***************************************************************************)
(* The release reads the token and unlinks the lockfile when it is ours.   *)
(***************************************************************************)
SeeOwnToken(w) == /\ pc[w] \in {"release", "giveUp"}
                  /\ lockOwner = w
                  /\ Goto(w, IF pc[w] = "release" THEN "unlock" ELSE "unlockFailed")
                  /\ UNCHANGED <<fileVars, waited, base, callVars>>

Return(w) == IF pc[w] \in {"release", "unlock"} THEN Acknowledge(w) ELSE Fail(w)

SeeOtherToken(w) == /\ pc[w] \in {"release", "giveUp"}
                    /\ lockOwner # w
                    /\ Return(w)
                    /\ Goto(w, "idle")
                    /\ UNCHANGED <<fileVars, waited, base, submitted, crashes>>

Unlock(w) == /\ pc[w] \in {"unlock", "unlockFailed"}
             /\ lockOwner' = NoOne
             /\ lockAge' = 0
             /\ Return(w)
             /\ Goto(w, "idle")
             /\ UNCHANGED <<store, quarantine, waited, base, submitted, crashes>>
-----------------------------------------------------------------------------
(* The environment *)

(***************************************************************************)
(* A writer's process dies between two steps; nothing cleans up after it.  *)
(* (A token that cannot be written leaves the lockfile behind like this.)  *)
(***************************************************************************)
Crash(w) == /\ crashes < MaxCrashes
            /\ pc[w] \notin {"idle", "dead"}
            /\ crashes' = crashes + 1
            /\ Goto(w, "dead")
            /\ UNCHANGED <<fileVars, waited, base, submitted, acked, failed>>

(***************************************************************************)
(* Time passes.  Unless Stalls, a live holder finishes before its lock     *)
(* grows stale ("these tiny critical sections").  Ages and waits count no  *)
(* further than the code can tell apart.                                   *)
(***************************************************************************)
HeldByLiveWriter == \E w \in Writers : lockOwner = w /\ pc[w] # "dead"
HolderKeepsUp == HeldByLiveWriter /\ ~Stalls => lockAge < StaleAge

Older(t, limit) == IF t > limit THEN t ELSE t + 1

Tick == /\ HolderKeepsUp
        /\ lockAge' = IF lockOwner = NoOne THEN lockAge ELSE Older(lockAge, StaleAge)
        /\ waited' = [w \in Writers |-> IF pc[w] \in WaitingPCs
                                        THEN Older(waited[w], MaxWait)
                                        ELSE waited[w]]
        /\ UNCHANGED <<lockOwner, store, quarantine, pc, base, callVars>>

Write(w) == \/ CreateLock(w) \/ OpenFails(w) \/ LockExists(w) \/ LockVanished(w)
            \/ SeeStale(w) \/ Poll(w) \/ TimeOut(w) \/ Steal(w) \/ StealFails(w)
            \/ Rename(w) \/ WriteFails(w)
            \/ SeeOwnToken(w) \/ SeeOtherToken(w) \/ Unlock(w)

Quarantine(p) == LinkAside(p) \/ AlreadyAside(p) \/ UnlinkPath(p) \/ MoveFails(p)

Load(p) == LoadWhole(p) \/ LoadTorn(p)

Next == \/ \E w \in Writers : Submit(w) \/ Write(w) \/ Crash(w)
        \/ \E p \in Procs : Load(p) \/ Quarantine(p)
        \/ Tick

(***************************************************************************)
(* A call that started keeps running until it returns or its process dies, *)
(* and the clock does not stop; nobody has to submit, crash or read.  A    *)
(* stale lock cannot be undeletable for ever: only the file system bounds  *)
(* the tries, since a waiter that finds the lock stale never times out.    *)
(***************************************************************************)
Fairness == /\ \A w \in Writers : WF_vars(Write(w) \/ Load(w)) /\ SF_vars(Steal(w))
            /\ \A p \in Procs : WF_vars(Quarantine(p))
            /\ WF_vars(Tick)

Spec == Init /\ [][Next]_vars
FairSpec == Spec /\ Fairness
-----------------------------------------------------------------------------
(* Properties *)

TypeOK == /\ lockOwner \in Writers \cup {NoOne}
          /\ lockAge \in Nat
          /\ store \in File
          /\ quarantine \in Seq(File)
          /\ pc \in [Procs -> PCs]
          /\ \A r \in Readers : pc[r] \in ReaderPCs
          /\ waited \in [Writers -> Nat]
          /\ base \in [Procs -> File]
          /\ submitted \in [Writers -> 0..MaxUpdates]
          /\ acked \in SUBSET Updates
          /\ failed \in SUBSET Updates
          /\ crashes \in Nat

(***************************************************************************)
(* The lock is the serialization point (casUpdate's doc comment): no two   *)
(* live writers are between their load and their release.                  *)
(***************************************************************************)
MutualExclusion ==
  \A v, w \in Writers : pc[v] \in HoldingPCs /\ pc[w] \in HoldingPCs => v = w

(***************************************************************************)
(* "No concurrent write is lost": the bytes of every acknowledged update   *)
(* are in the store file or in a quarantined one.                          *)
(***************************************************************************)
Kept == store.applied \cup UNION {quarantine[i].applied : i \in DOMAIN quarantine}
NoAckedWriteLost == acked \subseteq Kept

(***************************************************************************)
(* A call that threw left nothing behind, so retrying it is safe ("a rare  *)
(* surfaced error the caller can retry").                                  *)
(***************************************************************************)
FailedWriteNotKept == failed \cap Kept = {}

(***************************************************************************)
(* Loads of one reader never go back in the commit order: the sequence     *)
(* orders writes and lets external readers detect change.                  *)
(***************************************************************************)
ReadsMoveForward ==
  [][\A r \in Readers : /\ base'[r].sequence >= base[r].sequence
                        /\ base[r].applied \subseteq base'[r].applied]_vars

(***************************************************************************)
(* Every call returns, throws or dies with its process, whoever crashed    *)
(* holding the lock and however often its removal had to be tried again.   *)
(***************************************************************************)
EveryCallReturns ==
  \A w \in Writers : pc[w] # "idle" ~> pc[w] \in {"idle", "dead"}

(***************************************************************************)
(* casUpdate over the lockfile implements the promise of SequencedStore:   *)
(* each commit is one step on top of the latest store.                     *)
(***************************************************************************)
Promise == INSTANCE SequencedStore WITH sequence <- store.sequence,
                                        applied <- store.applied
KeepsPromise == Promise!Spec
=============================================================================
