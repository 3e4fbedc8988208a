-------------------------- MODULE DecisionLifecycle ---------------------------
(***************************************************************************)
(* The life of an architectural decision between record_decision and the   *)
(* spec files: the MCP handlers (src/core/services/mcp-handlers/           *)
(* decisions.ts), the detached "decisions --consolidate" process each      *)
(* record spawns (src/cli/commands/decisions.ts), the reviewers, and       *)
(* syncApprovedDecisions (src/core/decisions/syncer.ts).                   *)
(*                                                                         *)
(* They share one store.  A call of updateDecisionStore is one step here   *)
(* (AtomicStore is about how it becomes one); what a process loads, it     *)
(* keeps over its LLM calls and file writes and may find outdated.         *)
(***************************************************************************)
EXTENDS Naturals, FiniteSets

CONSTANTS Recorded,    (* ids of the decisions agents record                *)
          Minted,      (* ids a consolidation may mint: a hash of session,  *)
                       (* domain and the title the LLM gives                *)
          Homeless,    (* decisions that have no spec file and need no ADR  *)
          Jobs,        (* bound: the consolidation processes ever spawned   *)
          Reviewers,   (* callers of approve_decision and reject_decision   *)
          Syncers,     (* callers of sync_decisions                         *)
          Hearsay,     (* ids the LLM may call superseded without having    *)
                       (* been shown them: any, through a draft's own list  *)
          NoOne,       (* no holder of the consolidation lock, no id        *)
          Mortal,      (* may a server die as soon as it stored a draft?    *)
          LLMFails,    (* may an LLM call fail or answer with nothing?      *)
          Slow,        (* may a consolidation hold the lock past STALE_MS?  *)
          Impatient,   (* jobs that may wait for it past MAX_WAIT_MS        *)
          Killable     (* consolidation processes that may be killed        *)

Ids == Recorded \cup Minted
Procs == Jobs \cup Reviewers \cup Syncers

ASSUME SetsAssumption == /\ Homeless \subseteq Ids
                         /\ Hearsay \subseteq Ids
                         /\ Killable \subseteq Jobs
                         /\ Impatient \subseteq Jobs
                         /\ Jobs \cap Reviewers = {}
                         /\ Jobs \cap Syncers = {}
                         /\ Reviewers \cap Syncers = {}
                         /\ NoOne \notin Ids \cup Procs
ASSUME SwitchAssumption == {Mortal, LLMFails, Slow} \subseteq BOOLEAN

(***************************************************************************)
(* A decision's status; "none" when the store does not hold it.  Neither   *)
(* "consolidated" nor "synced" is ever committed: the verifier replaces    *)
(* the first, and the commit that sets the second purges the decision.     *)
(***************************************************************************)
Statuses == {"none", "draft", "verified", "phantom", "approved", "rejected", "synced"}
Inactive == {"rejected", "synced", "phantom"}

VARIABLES store,      (* the status of every decision on disk               *)
          specs,      (* the decisions the spec files record                *)
          approvals,  (* history: the decisions somebody ever approved      *)
          lock,       (* the job that made .consolidate.lock, or NoOne      *)
          lockless,   (* the jobs that went on without the lock             *)
          pc,         (* where each process is                              *)
          loaded,     (* the store a job or a syncer has in memory          *)
          subject,    (* the decision a reviewer or a syncer works on       *)
          specCopy,   (* the spec files as a syncer read them               *)
          written,    (* what a syncer has written to the spec files        *)
          errors      (* what a syncer failed to write                      *)

syncVars == <<specCopy, written, errors>>
lockVars == <<lock, lockless>>
vars == <<store, specs, approvals, lockVars, pc, loaded, subject, syncVars>>

Goto(p, l) == pc' = [pc EXCEPT ![p] = l]
Nothing == [i \in Ids |-> "none"]
Load(p) == loaded' = [loaded EXCEPT ![p] = store]
Forget(p) == loaded' = [loaded EXCEPT ![p] = Nothing]

Init == /\ store = Nothing
        /\ specs = {}
        /\ approvals = {}
        /\ lock = NoOne
        /\ lockless = {}
        /\ pc = [p \in Procs |-> IF p \in Jobs THEN "unborn" ELSE "idle"]
        /\ loaded = [p \in Jobs \cup Syncers |-> Nothing]
        /\ subject = [p \in Reviewers \cup Syncers |-> NoOne]
        /\ specCopy = [s \in Syncers |-> {}]
        /\ written = [s \in Syncers |-> {}]
        /\ errors = [s \in Syncers |-> {}]
-----------------------------------------------------------------------------
(* record_decision: upsert the draft, spawn a consolidation *)

Upsert(i) == store' = [store EXCEPT ![i] = IF @ = "none" THEN "draft" ELSE @]

Record(i, j) == /\ pc[j] = "unborn"
                /\ Upsert(i)
                /\ Goto(j, "queued")
                /\ UNCHANGED <<specs, approvals, lockVars, loaded, subject, syncVars>>

(***************************************************************************)
(* The server dies between the two: the draft waits for the next record.   *)
(***************************************************************************)
RecordUnspawned(i) == /\ Mortal
                      /\ Upsert(i)
                      /\ UNCHANGED <<specs, approvals, lockVars, pc, loaded, subject, syncVars>>
-----------------------------------------------------------------------------
(* decisions --consolidate *)

MutantAcquireShared(j) ==
  /\ pc[j] = "queued"
  /\ lock' = j
  /\ Goto(j, "entered")
  /\ UNCHANGED <<store, specs, approvals, lockless, loaded, subject, syncVars>>

AcquireDecisionsLock(j) ==
  /\ pc[j] = "queued"
  /\ lock = NoOne
  /\ lock' = j
  /\ Goto(j, "entered")
  /\ UNCHANGED <<store, specs, approvals, lockless, loaded, subject, syncVars>>

(***************************************************************************)
(* The lock is older than STALE_MS: its maker was killed, or is slow.  The *)
(* file is removed a step later, whosever it is by then.                   *)
(***************************************************************************)
SeeStaleLock(j) ==
  /\ pc[j] = "queued"
  /\ lock # NoOne
  /\ Slow \/ pc[lock] = "killed"
  /\ Goto(j, "stealing")
  /\ UNCHANGED <<store, specs, approvals, lockVars, loaded, subject, syncVars>>

StealLock(j) ==
  /\ pc[j] = "stealing"
  /\ lock' = NoOne
  /\ Goto(j, "queued")
  /\ UNCHANGED <<store, specs, approvals, lockless, loaded, subject, syncVars>>

(***************************************************************************)
(* After MAX_WAIT_MS the job goes on without the lock.                     *)
(***************************************************************************)
GoLockless(j) ==
  /\ pc[j] = "queued"
  /\ j \in Impatient
  /\ lock # NoOne
  /\ lockless' = lockless \cup {j}
  /\ Goto(j, "entered")
  /\ UNCHANGED <<store, specs, approvals, lock, loaded, subject, syncVars>>

(***************************************************************************)
(* The store is read again inside the lock; the LLM works on that reading. *)
(***************************************************************************)
LoadInLock(j) == /\ pc[j] = "entered"
                 /\ Load(j)
                 /\ Goto(j, "thinking")
                 /\ UNCHANGED <<store, specs, approvals, lockVars, subject, syncVars>>

DraftsOf(p) == {i \in Ids : loaded[p][i] = "draft"}

(***************************************************************************)
(* A consolidated decision keeps the id of a draft or of an existing       *)
(* decision the LLM was shown, or gets a minted one.  Without drafts the   *)
(* decisions are extracted from the diff, under minted ids.                *)
(***************************************************************************)
Reusable(j) == {i \in Ids : loaded[j][i] \in {"draft", "verified", "approved"}}
Nameable(j) == Minted \cup IF DraftsOf(j) = {} THEN {} ELSE Reusable(j)

MutantKeepsDrafts(j, verified, phantom, superseded) ==
  [i \in Ids |-> CASE i \in verified -> "verified"
                   [] i \in phantom -> "phantom"
                   [] OTHER -> store[i]]

(***************************************************************************)
(* The commit of a consolidation: every loaded draft and every id the LLM  *)
(* calls superseded is rejected, then the verified and phantom decisions   *)
(* are put in place whatever the store now says of them.                   *)
(***************************************************************************)
Consolidated(j, verified, phantom, superseded) ==
  [i \in Ids |-> CASE i \in verified -> "verified"
                   [] i \in phantom -> "phantom"
                   [] store[i] # "none" /\ i \in DraftsOf(j) \cup superseded -> "rejected"
                   [] OTHER -> store[i]]

Supersedable(j) == IF DraftsOf(j) = {} THEN {} ELSE Reusable(j) \cup Hearsay

(***************************************************************************)
(* The verifier may list a decision as verified, as phantom, or not at     *)
(* all; superseded ids come from the consolidation of drafts only, and are *)
(* passed on unchecked.                                                    *)
(***************************************************************************)
Persist(j) ==
  /\ pc[j] = "thinking"
  /\ \E verified, phantom \in SUBSET Nameable(j), superseded \in SUBSET Supersedable(j) :
       /\ verified \cap phantom = {}
       /\ store' = Consolidated(j, verified, phantom, superseded)
  /\ Forget(j)
  /\ Goto(j, "releasing")
  /\ UNCHANGED <<specs, approvals, lockVars, subject, syncVars>>

(***************************************************************************)
(* The LLM call throws, or consolidation returns no decision: the job      *)
(* leaves the store alone.                                                 *)
(***************************************************************************)
GiveUp(j) == /\ pc[j] = "thinking"
             /\ LLMFails
             /\ Forget(j)
             /\ Goto(j, "releasing")
             /\ UNCHANGED <<store, specs, approvals, lockVars, subject, syncVars>>

(***************************************************************************)
(* The release removes the lock file without asking whose it is.           *)
(***************************************************************************)
Release(j) == /\ pc[j] = "releasing"
              /\ lock' = IF j \in lockless THEN lock ELSE NoOne
              /\ lockless' = lockless \ {j}
              /\ Goto(j, "done")
              /\ UNCHANGED <<store, specs, approvals, loaded, subject, syncVars>>

(***************************************************************************)
(* The process is killed; the lock file stays.                             *)
(***************************************************************************)
Kill(j) == /\ j \in Killable
           /\ pc[j] \in {"queued", "stealing", "entered", "thinking", "releasing"}
           /\ Forget(j)
           /\ lockless' = lockless \ {j}
           /\ Goto(j, "killed")
           /\ UNCHANGED <<store, specs, approvals, lock, subject, syncVars>>
-----------------------------------------------------------------------------
(* approve_decision and reject_decision *)

(***************************************************************************)
(* The handler loads the store and refuses an unknown decision.            *)
(***************************************************************************)
OpenReview(r, i) == /\ pc[r] = "idle"
                    /\ store[i] # "none"
                    /\ subject' = [subject EXCEPT ![r] = i]
                    /\ Goto(r, "reviewing")
                    /\ UNCHANGED <<store, specs, approvals, lockVars, loaded, syncVars>>

(***************************************************************************)
(* The patch sets the status whatever it is by now, and does nothing to a  *)
(* decision that is gone (the handler then reports an error).              *)
(***************************************************************************)
CommitReview(r, i, verdict) ==
  /\ pc[r] = "reviewing"
  /\ subject[r] = i
  /\ store' = [store EXCEPT ![i] = IF @ = "none" THEN @ ELSE verdict]
  /\ approvals' = IF store'[i] = "approved" THEN approvals \cup {i} ELSE approvals
  /\ subject' = [subject EXCEPT ![r] = NoOne]
  /\ Goto(r, "idle")
  /\ UNCHANGED <<specs, lockVars, loaded, syncVars>>
-----------------------------------------------------------------------------
(* sync_decisions *)

(***************************************************************************)
(* Load the store; a sync of a given id approves it in the loaded copy.    *)
(***************************************************************************)
BeginSync(s, promoted) ==
  /\ pc[s] = "idle"
  /\ promoted # NoOne => store[promoted] # "none"
  /\ Load(s)
  /\ subject' = [subject EXCEPT ![s] = promoted]
  /\ approvals' = IF promoted = NoOne THEN approvals ELSE approvals \cup {promoted}
  /\ Goto(s, "syncing")
  /\ UNCHANGED <<store, specs, lockVars, syncVars>>

MutantToSync(s) == {i \in Ids : loaded[s][i] \in {"approved", "verified"}}
                     \ (written[s] \cup errors[s])

ToSync(s) == {i \in Ids : loaded[s][i] = "approved" \/ i = subject[s]}
               \ (written[s] \cup errors[s])

(***************************************************************************)
(* syncDecision: read the spec file, append the decision, write the file   *)
(* back.  A decision with nowhere to go counts as written.                 *)
(***************************************************************************)
ReadSpec(s) == /\ pc[s] = "syncing"
               /\ ToSync(s) \ Homeless # {}
               /\ specCopy' = [specCopy EXCEPT ![s] = specs]
               /\ Goto(s, "appending")
               /\ UNCHANGED <<store, specs, approvals, lockVars, loaded, subject, written, errors>>

Appended(s, i) == specCopy[s] \cup {i}

DoneWith(s) == /\ specCopy' = [specCopy EXCEPT ![s] = {}]
               /\ Goto(s, "syncing")
               /\ UNCHANGED <<store, approvals, lockVars, loaded, subject>>

WriteSpec(s, i) == /\ pc[s] = "appending"
                   /\ i \in ToSync(s) \ Homeless
                   /\ specs' = Appended(s, i)
                   /\ written' = [written EXCEPT ![s] = @ \cup {i}]
                   /\ UNCHANGED errors
                   /\ DoneWith(s)

MutantSyncFails(s, i) == /\ pc[s] = "appending"
                         /\ i \in ToSync(s) \ Homeless
                         /\ specs' \in {specs, Appended(s, i)}
                         /\ written' = [written EXCEPT ![s] = @ \cup {i}]
                         /\ UNCHANGED errors
                         /\ DoneWith(s)

(***************************************************************************)
(* The error may also come when the spec file is written and the next      *)
(* file, or the ADR, is not.                                               *)
(***************************************************************************)
SyncFails(s, i) == /\ pc[s] = "appending"
                   /\ i \in ToSync(s) \ Homeless
                   /\ specs' \in {specs, Appended(s, i)}
                   /\ errors' = [errors EXCEPT ![s] = @ \cup {i}]
                   /\ UNCHANGED written
                   /\ DoneWith(s)

SkipHomeless(s, i) == /\ pc[s] = "syncing"
                      /\ i \in ToSync(s) \cap Homeless
                      /\ written' = [written EXCEPT ![s] = @ \cup {i}]
                      /\ UNCHANGED <<specs, errors>>
                      /\ DoneWith(s)

MutantPurged(status) == IF status \in Inactive \ {"synced"} THEN "none" ELSE status

Purged(status) == IF status \in Inactive THEN "none" ELSE status

(***************************************************************************)
(* What the syncer makes of a decision it loaded.                          *)
(***************************************************************************)
Snapshot(s, i) == CASE i \in written[s] -> "synced"
                    [] i = subject[s] -> "approved"
                    [] OTHER -> loaded[s][i]

MutantMerged(s, i) == Purged(Snapshot(s, i))

(***************************************************************************)
(* The commit of a sync: the snapshot wins for every decision it holds,    *)
(* the others are taken from the disk, and inactive decisions are purged.  *)
(***************************************************************************)
Merged(s, i) == Purged(IF loaded[s][i] # "none" THEN Snapshot(s, i) ELSE store[i])

CommitSync(s) == /\ pc[s] = "syncing"
                 /\ ToSync(s) = {}
                 /\ store' = [i \in Ids |-> Merged(s, i)]
                 /\ subject' = [subject EXCEPT ![s] = NoOne]
                 /\ written' = [written EXCEPT ![s] = {}]
                 /\ errors' = [errors EXCEPT ![s] = {}]
                 /\ Forget(s)
                 /\ Goto(s, "idle")
                 /\ UNCHANGED <<specs, approvals, lockVars, specCopy>>
-----------------------------------------------------------------------------
Consolidate(j) == \/ AcquireDecisionsLock(j) \/ SeeStaleLock(j) \/ StealLock(j)
                  \/ GoLockless(j) \/ LoadInLock(j) \/ Persist(j) \/ GiveUp(j) \/ Release(j)

Review(r) == \E i \in Ids : \/ OpenReview(r, i)
                            \/ CommitReview(r, i, "approved")
                            \/ CommitReview(r, i, "rejected")

Sync(s) == \/ \E i \in Ids \cup {NoOne} : BeginSync(s, i)
           \/ ReadSpec(s)
           \/ \E i \in Ids : WriteSpec(s, i) \/ SyncFails(s, i) \/ SkipHomeless(s, i)
           \/ CommitSync(s)

Next == \/ \E i \in Recorded, j \in Jobs : Record(i, j)
        \/ \E i \in Recorded : RecordUnspawned(i)
        \/ \E j \in Jobs : Consolidate(j) \/ Kill(j)
        \/ \E r \in Reviewers : Review(r)
        \/ \E s \in Syncers : Sync(s)

(***************************************************************************)
(* A spawned consolidation runs to its end; nobody has to record, review   *)
(* or sync.                                                                *)
(***************************************************************************)
Fairness == \A j \in Jobs : WF_vars(Consolidate(j))

Spec == Init /\ [][Next]_vars
FairSpec == Spec /\ Fairness
-----------------------------------------------------------------------------
(* Properties *)

PCs == {"unborn", "queued", "stealing", "entered", "thinking", "releasing", "done", "killed",
        "idle", "reviewing", "syncing", "appending"}

TypeOK == /\ store \in [Ids -> Statuses \ {"synced"}]
          /\ specs \in SUBSET Ids
          /\ approvals \in SUBSET Ids
          /\ lock \in Jobs \cup {NoOne}
          /\ lockless \in SUBSET Jobs
          /\ pc \in [Procs -> PCs]
          /\ loaded \in [Jobs \cup Syncers -> [Ids -> Statuses \ {"synced"}]]
          /\ subject \in [Reviewers \cup Syncers -> Ids \cup {NoOne}]
          /\ specCopy \in [Syncers -> SUBSET Ids]
          /\ written \in [Syncers -> SUBSET Ids]
          /\ errors \in [Syncers -> SUBSET Ids]

(***************************************************************************)
(* Nothing reaches the spec files that nobody approved, whatever the       *)
(* interleaving of stale loads and commits.                                *)
(***************************************************************************)
SpecsOnlyApproved == specs \subseteq approvals

(***************************************************************************)
(* A recorded draft leaves the store only into the spec files (or because  *)
(* it has nowhere to go): no commit of another process drops a draft it    *)
(* never saw.                                                              *)
(***************************************************************************)
DraftsNeverVanish ==
  [][\A i \in Ids : store[i] = "draft" /\ store'[i] = "none" => i \in specs \cup Homeless]_vars

(***************************************************************************)
(* "Partial failure leaves the decision in store at status='approved'":    *)
(* after a sync, a decision it failed to write is still approved, and one  *)
(* it calls synced is in the spec files.                                   *)
(***************************************************************************)
SyncAgreesWithSpecs ==
  [][\A s \in Syncers :
       CommitSync(s) => /\ \A i \in errors[s] : store'[i] = "approved"
                        /\ written[s] \subseteq specs \cup Homeless]_vars

(***************************************************************************)
(* A consolidation changes the status of a decision only if it is still    *)
(* the one it loaded: "a record_decision/approve committed concurrently    *)
(* (different lock) is preserved rather than clobbered by this stale       *)
(* snapshot".  One the LLM calls superseded without having been shown it   *)
(* is rejected as it stands.                                               *)
(***************************************************************************)
Unshown(j) == IF DraftsOf(j) = {} THEN {} ELSE Hearsay \ Reusable(j)

ConsolidationPreserves ==
  [][\A j \in Jobs : (pc[j] = "thinking" /\ pc'[j] = "releasing") =>
       \A i \in Ids : store'[i] # store[i] =>
         \/ loaded[j][i] = store[i]
         \/ i \in Unshown(j) /\ store'[i] = "rejected"]_vars

(***************************************************************************)
(* The commit of a sync leaves a decision it did not sync as it is on      *)
(* disk, but for the purge: "a competing write is preserved rather than    *)
(* clobbered".                                                             *)
(***************************************************************************)
SyncPreserves ==
  [][\A s \in Syncers : CommitSync(s) =>
       \A i \in Ids \ (written[s] \cup errors[s]) :
         store'[i] \in {store[i], Purged(store[i])}]_vars

(***************************************************************************)
(* Every draft is eventually consolidated, unless its server dies before   *)
(* the spawn or its consolidation does: each record spawns a process       *)
(* that reads the store after the draft is in it ("whoever holds the lock  *)
(* sees every draft written so far, so nothing is lost").                  *)
(***************************************************************************)
EveryDraftConsolidated ==
  \A i \in Recorded : store[i] = "draft" ~> store[i] # "draft"
=============================================================================
