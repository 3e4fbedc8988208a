----------------------- MODULE DecisionLifecycleProofs ------------------------
(* Theorems about DecisionLifecycle, for every value of its constants. *)
EXTENDS DecisionLifecycle, TLAPS

OnDisk == Statuses \ {"synced"}

LEMMA PurgedOnDisk == ASSUME NEW x \in Statuses PROVE Purged(x) \in OnDisk
BY DEF Purged, OnDisk, Statuses, Inactive

(***************************************************************************)
(* A snapshot is made of statuses, and what a sync commits can be stored.  *)
(***************************************************************************)
LEMMA MergedOnDisk ==
  ASSUME TypeOK, NEW s \in Syncers, NEW i \in Ids
  PROVE  Snapshot(s, i) \in Statuses /\ Merged(s, i) \in OnDisk
<1>1. loaded[s][i] \in Statuses /\ store[i] \in Statuses
  BY DEF TypeOK
<1>2. Snapshot(s, i) \in Statuses
  BY <1>1 DEF Snapshot, Statuses
<1> QED
  BY <1>1, <1>2, PurgedOnDisk DEF Merged

(***************************************************************************)
(* Every reachable state is well typed: in particular no commit leaves a   *)
(* decision in the store as "synced", which every sync sets before it      *)
(* purges.                                                                 *)
(***************************************************************************)
THEOREM TypeCorrect == Spec => []TypeOK
<1> USE SetsAssumption DEF Procs
<1>1. Init => TypeOK
  BY DEF Init, TypeOK, Nothing, Statuses, PCs
<1>2. TypeOK /\ [Next]_vars => TypeOK'
  <2> SUFFICES ASSUME TypeOK, [Next]_vars PROVE TypeOK'
    OBVIOUS
  <2>a. Nothing \in [Ids -> OnDisk]
    BY DEF Nothing, OnDisk, Statuses
  <2> USE DEF PCs, Goto, syncVars, lockVars
  <2>1. ASSUME NEW i \in Recorded,
               (\E j \in Jobs : Record(i, j)) \/ RecordUnspawned(i)
        PROVE  TypeOK'
    <3>1. store' \in [Ids -> OnDisk]
      BY <2>1 DEF Record, RecordUnspawned, Upsert, TypeOK, OnDisk, Statuses
    <3> QED
      BY <2>1, <3>1 DEF Record, RecordUnspawned, TypeOK, OnDisk
  <2>2. ASSUME NEW j \in Jobs, Consolidate(j) \/ Kill(j) PROVE TypeOK'
    <3>1. CASE AcquireDecisionsLock(j)
      BY <3>1 DEF AcquireDecisionsLock, TypeOK
    <3>2. CASE SeeStaleLock(j) \/ StealLock(j)
      BY <3>2 DEF SeeStaleLock, StealLock, TypeOK
    <3>3. CASE GoLockless(j)
      BY <3>3 DEF GoLockless, TypeOK
    <3>4. CASE LoadInLock(j)
      BY <3>4 DEF LoadInLock, Load, TypeOK
    <3>5. CASE Persist(j)
      <4>1. store' \in [Ids -> OnDisk]
        BY <3>5 DEF Persist, Consolidated, TypeOK, OnDisk, Statuses
      <4> QED
        BY <2>a, <3>5, <4>1 DEF Persist, Forget, TypeOK, OnDisk
    <3>6. CASE GiveUp(j)
      BY <2>a, <3>6 DEF GiveUp, Forget, TypeOK, OnDisk
    <3>7. CASE Release(j)
      BY <3>7 DEF Release, TypeOK
    <3>8. CASE Kill(j)
      BY <2>a, <3>8 DEF Kill, Forget, TypeOK, OnDisk
    <3> QED
      BY <2>2, <3>1, <3>2, <3>3, <3>4, <3>5, <3>6, <3>7, <3>8 DEF Consolidate
  <2>3. ASSUME NEW r \in Reviewers, Review(r) PROVE TypeOK'
    <3>1. ASSUME NEW i \in Ids, OpenReview(r, i) PROVE TypeOK'
      BY <3>1 DEF OpenReview, TypeOK
    <3>2. ASSUME NEW i \in Ids, NEW verdict \in {"approved", "rejected"},
                 CommitReview(r, i, verdict)
          PROVE  TypeOK'
      <4>1. store' \in [Ids -> OnDisk]
        BY <3>2 DEF CommitReview, TypeOK, OnDisk, Statuses
      <4> QED
        BY <3>2, <4>1 DEF CommitReview, TypeOK, OnDisk
    <3> QED
      BY <2>3, <3>1, <3>2 DEF Review
  <2>4. ASSUME NEW s \in Syncers, Sync(s) PROVE TypeOK'
    <3>1. ASSUME NEW i \in Ids \cup {NoOne}, BeginSync(s, i) PROVE TypeOK'
      BY <3>1 DEF BeginSync, Load, TypeOK
    <3>2. CASE ReadSpec(s)
      BY <3>2 DEF ReadSpec, TypeOK
    <3>3. ASSUME NEW i \in Ids, WriteSpec(s, i) \/ SyncFails(s, i) \/ SkipHomeless(s, i)
          PROVE  TypeOK'
      <4>1. Appended(s, i) \in SUBSET Ids
        BY DEF Appended, TypeOK
      <4>2. specs' \in SUBSET Ids
        BY <3>3, <4>1 DEF WriteSpec, SyncFails, SkipHomeless, TypeOK
      <4>3. written' \in [Syncers -> SUBSET Ids] /\ errors' \in [Syncers -> SUBSET Ids]
        <5>1. CASE WriteSpec(s, i)
          BY <5>1 DEF WriteSpec, TypeOK
        <5>2. CASE SyncFails(s, i)
          BY <5>2 DEF SyncFails, TypeOK
        <5>3. CASE SkipHomeless(s, i)
          BY <5>3 DEF SkipHomeless, TypeOK
        <5> QED
          BY <3>3, <5>1, <5>2, <5>3
      <4>4. DoneWith(s)
        BY <3>3 DEF WriteSpec, SyncFails, SkipHomeless
      <4> QED
        BY <4>2, <4>3, <4>4 DEF DoneWith, TypeOK
    <3>4. CASE CommitSync(s)
      <4>1. store' \in [Ids -> OnDisk]
        BY <3>4, MergedOnDisk DEF CommitSync
      <4> QED
        BY <2>a, <3>4, <4>1 DEF CommitSync, Forget, TypeOK, OnDisk
    <3> QED
      BY <2>4, <3>1, <3>2, <3>3, <3>4 DEF Sync
  <2>5. CASE UNCHANGED vars
    BY <2>5 DEF vars, TypeOK
  <2> QED
    BY <2>1, <2>2, <2>3, <2>4, <2>5 DEF Next
<1> QED
  BY <1>1, <1>2, PTL DEF Spec
-----------------------------------------------------------------------------
(***************************************************************************)
(* "Approved" is written nowhere without an approval on record: not on     *)
(* disk, not in what a process loaded before others committed, not in the  *)
(* spec files as a syncer read them.                                       *)
(***************************************************************************)
ApprovedInv ==
  /\ SpecsOnlyApproved
  /\ \A i \in Ids : store[i] = "approved" => i \in approvals
  /\ \A p \in Jobs \cup Syncers, i \in Ids : loaded[p][i] = "approved" => i \in approvals
  /\ \A s \in Syncers : /\ specCopy[s] \subseteq approvals
                        /\ subject[s] # NoOne => subject[s] \in approvals

LEMMA ToSyncApproved ==
  ASSUME TypeOK, ApprovedInv, NEW s \in Syncers, NEW i \in ToSync(s)
  PROVE  i \in approvals
BY SetsAssumption DEF ToSync, TypeOK, ApprovedInv, Procs

LEMMA MergedApproved ==
  ASSUME TypeOK, ApprovedInv, NEW s \in Syncers, NEW i \in Ids, Merged(s, i) = "approved"
  PROVE  i \in approvals
<1>1. Snapshot(s, i) = "approved" \/ store[i] = "approved"
  BY DEF Merged, Purged
<1> QED
  BY <1>1, SetsAssumption DEF Snapshot, TypeOK, ApprovedInv, Procs

(***************************************************************************)
(* Whatever the interleaving of stale loads and commits, however many      *)
(* consolidations, reviewers and syncs there are and whether or not the    *)
(* consolidation lock holds, only decisions somebody approved reach the    *)
(* spec files.                                                             *)
(***************************************************************************)
THEOREM OnlyApprovedSynced == Spec => []SpecsOnlyApproved
<1> USE SetsAssumption DEF Procs
<1>1. Init => ApprovedInv
  BY DEF Init, ApprovedInv, SpecsOnlyApproved, Nothing
<1>2. TypeOK /\ ApprovedInv /\ [Next]_vars => ApprovedInv'
  <2> SUFFICES ASSUME TypeOK, ApprovedInv, [Next]_vars PROVE ApprovedInv'
    OBVIOUS
  <2> USE DEF SpecsOnlyApproved, Goto, syncVars, lockVars
  <2>1. ASSUME NEW i \in Recorded,
               (\E j \in Jobs : Record(i, j)) \/ RecordUnspawned(i)
        PROVE  ApprovedInv'
    <3>1. \A k \in Ids : store'[k] = "approved" => store[k] = "approved"
      BY <2>1 DEF Record, RecordUnspawned, Upsert, TypeOK
    <3> QED
      BY <2>1, <3>1 DEF Record, RecordUnspawned, ApprovedInv
  <2>2. ASSUME NEW j \in Jobs, Consolidate(j) \/ Kill(j) PROVE ApprovedInv'
    <3>1. UNCHANGED <<specs, approvals, specCopy, subject>>
      BY <2>2 DEF Consolidate, Kill, AcquireDecisionsLock, SeeStaleLock, StealLock, GoLockless,
                  LoadInLock, Persist, GiveUp, Release
    <3>2. \A k \in Ids : store'[k] = "approved" => store[k] = "approved"
      <4>1. CASE Persist(j)
        BY <4>1 DEF Persist, Consolidated
      <4>2. CASE ~Persist(j)
        BY <2>2, <4>2 DEF Consolidate, Kill, AcquireDecisionsLock, SeeStaleLock, StealLock,
                          GoLockless, LoadInLock, GiveUp, Release
      <4> QED
        BY <4>1, <4>2
    <3>3. loaded' = loaded \/ Load(j) \/ Forget(j)
      BY <2>2 DEF Consolidate, Kill, AcquireDecisionsLock, SeeStaleLock, StealLock, GoLockless,
                  LoadInLock, Persist, GiveUp, Release
    <3>4. \A p \in Jobs \cup Syncers, k \in Ids :
            loaded'[p][k] = "approved" => loaded[p][k] = "approved" \/ store[k] = "approved"
      <4>1. CASE Load(j)
        BY <4>1 DEF Load, TypeOK
      <4>2. CASE Forget(j)
        BY <4>2 DEF Forget, Nothing, TypeOK
      <4> QED
        BY <3>3, <4>1, <4>2
    <3> QED
      BY <3>1, <3>2, <3>4 DEF ApprovedInv
  <2>3. ASSUME NEW r \in Reviewers, Review(r) PROVE ApprovedInv'
    <3>1. ASSUME NEW i \in Ids, OpenReview(r, i) PROVE ApprovedInv'
      BY <3>1 DEF OpenReview, TypeOK, ApprovedInv
    <3>2. ASSUME NEW i \in Ids, NEW verdict \in {"approved", "rejected"},
                 CommitReview(r, i, verdict)
          PROVE  ApprovedInv'
      <4>1. approvals \subseteq approvals'
        BY <3>2 DEF CommitReview
      <4>2. \A k \in Ids : store'[k] = "approved" => k \in approvals'
        BY <3>2 DEF CommitReview, TypeOK, ApprovedInv
      <4>3. \A s \in Syncers : subject'[s] = subject[s]
        BY <3>2 DEF CommitReview, TypeOK
      <4>4. UNCHANGED <<specs, loaded, specCopy>>
        BY <3>2 DEF CommitReview
      <4> QED
        BY <4>1, <4>2, <4>3, <4>4 DEF ApprovedInv
    <3> QED
      BY <2>3, <3>1, <3>2 DEF Review
  <2>4. ASSUME NEW s \in Syncers, Sync(s) PROVE ApprovedInv'
    <3>1. ASSUME NEW i \in Ids \cup {NoOne}, BeginSync(s, i) PROVE ApprovedInv'
      <4>1. approvals \subseteq approvals' /\ (i # NoOne => i \in approvals')
        BY <3>1 DEF BeginSync
      <4>2. \A t \in Syncers : subject'[t] \in {subject[t], i}
        BY <3>1 DEF BeginSync, TypeOK
      <4>3. \A p \in Jobs \cup Syncers, k \in Ids :
              loaded'[p][k] = "approved" => loaded[p][k] = "approved" \/ store[k] = "approved"
        BY <3>1 DEF BeginSync, Load, TypeOK
      <4>4. UNCHANGED <<store, specs, specCopy>>
        BY <3>1 DEF BeginSync
      <4>5. \A t \in Syncers : subject'[t] # NoOne => subject'[t] \in approvals'
        BY <4>1, <4>2 DEF ApprovedInv
      <4> QED
        BY <4>1, <4>3, <4>4, <4>5 DEF ApprovedInv
    <3>2. CASE ReadSpec(s)
      BY <3>2 DEF ReadSpec, TypeOK, ApprovedInv
    <3>3. ASSUME NEW i \in Ids, WriteSpec(s, i) \/ SyncFails(s, i) \/ SkipHomeless(s, i)
          PROVE  ApprovedInv'
      <4>1. i \in approvals
        BY <3>3, ToSyncApproved DEF WriteSpec, SyncFails, SkipHomeless
      <4>2. specs' \subseteq approvals
        BY <3>3, <4>1 DEF WriteSpec, SyncFails, SkipHomeless, Appended, ApprovedInv
      <4>3. DoneWith(s)
        BY <3>3 DEF WriteSpec, SyncFails, SkipHomeless
      <4>4. UNCHANGED <<store, approvals, loaded, subject>>
        BY <4>3 DEF DoneWith
      <4>5. \A t \in Syncers : specCopy'[t] \subseteq approvals
        BY <4>3 DEF DoneWith, TypeOK, ApprovedInv
      <4> QED
        BY <4>2, <4>4, <4>5 DEF ApprovedInv
    <3>4. CASE CommitSync(s)
      <4>1. \A k \in Ids : store'[k] = "approved" => k \in approvals
        BY <3>4, MergedApproved DEF CommitSync
      <4>2. \A p \in Jobs \cup Syncers, k \in Ids :
              loaded'[p][k] = "approved" => loaded[p][k] = "approved"
        BY <3>4 DEF CommitSync, Forget, Nothing, TypeOK
      <4>3. \A t \in Syncers : subject'[t] # NoOne => subject'[t] = subject[t]
        BY <3>4 DEF CommitSync, TypeOK
      <4>4. UNCHANGED <<specs, approvals, specCopy>>
        BY <3>4 DEF CommitSync
      <4> QED
        BY <4>1, <4>2, <4>3, <4>4 DEF ApprovedInv
    <3> QED
      BY <2>4, <3>1, <3>2, <3>3, <3>4 DEF Sync
  <2>5. CASE UNCHANGED vars
    BY <2>5 DEF vars, ApprovedInv
  <2> QED
    BY <2>1, <2>2, <2>3, <2>4, <2>5 DEF Next
<1>3. ApprovedInv => SpecsOnlyApproved
  BY DEF ApprovedInv
<1> QED
  BY <1>1, <1>2, <1>3, TypeCorrect, PTL DEF Spec
-----------------------------------------------------------------------------
OneSyncer == \A s, t \in Syncers : s = t

(***************************************************************************)
(* While the only sync is under way, the spec files hold what it wrote and *)
(* nothing it loaded has left the store or gone back to draft.             *)
(***************************************************************************)
SyncInvOf(s) ==
  /\ pc[s] \notin {"syncing", "appending"} =>
       /\ \A i \in Ids : loaded[s][i] = "none"
       /\ subject[s] = NoOne
       /\ written[s] \cup errors[s] = {}
  /\ written[s] \cap errors[s] = {}
  /\ \A i \in written[s] \cup errors[s] : loaded[s][i] = "approved" \/ i = subject[s]
  /\ subject[s] # NoOne => loaded[s][subject[s]] # "none"
  /\ pc[s] = "appending" => specCopy[s] = specs
  /\ written[s] \subseteq specs \cup Homeless
  /\ \A i \in Ids : loaded[s][i] # "none" =>
       /\ store[i] # "none"
       /\ store[i] = "draft" => loaded[s][i] = "draft"

SyncInv == \A s \in Syncers : SyncInvOf(s)

(***************************************************************************)
(* What every step but the commit of a sync does to the store: decisions   *)
(* stay in it, and none goes back to draft.                                *)
(***************************************************************************)
StoreGrows == \A i \in Ids : /\ store[i] # "none" => store'[i] # "none"
                             /\ store'[i] = "draft" => store[i] \in {"draft", "none"}

LEMMA Bystander ==
  ASSUME NEW s \in Syncers, SyncInvOf(s), StoreGrows, specs' = specs, pc'[s] = pc[s],
         loaded'[s] = loaded[s], subject'[s] = subject[s], UNCHANGED syncVars
  PROVE  SyncInvOf(s)'
BY DEF SyncInvOf, StoreGrows, syncVars

LEMMA RecordAndReviewGrow ==
  ASSUME TypeOK, NEW i \in Ids,
         \/ \E j \in Jobs : Record(i, j)
         \/ RecordUnspawned(i)
         \/ \E r \in Reviewers : \/ OpenReview(r, i)
                                 \/ CommitReview(r, i, "approved")
                                 \/ CommitReview(r, i, "rejected")
  PROVE  StoreGrows
<1>1. CASE (\E j \in Jobs : Record(i, j)) \/ RecordUnspawned(i)
  BY <1>1 DEF Record, RecordUnspawned, Upsert, StoreGrows, TypeOK
<1>2. CASE \E r \in Reviewers : OpenReview(r, i)
  BY <1>2 DEF OpenReview, StoreGrows
<1>3. CASE \E r \in Reviewers, verdict \in {"approved", "rejected"} : CommitReview(r, i, verdict)
  BY <1>3 DEF CommitReview, StoreGrows, TypeOK
<1> QED
  BY <1>1, <1>2, <1>3

LEMMA ConsolidationGrows ==
  ASSUME TypeOK, NEW j \in Jobs, Consolidate(j) \/ Kill(j)
  PROVE  StoreGrows
<1>1. CASE Persist(j)
  <2>1. PICK verified \in SUBSET Nameable(j), phantom \in SUBSET Nameable(j),
             superseded \in SUBSET Supersedable(j) :
               store' = Consolidated(j, verified, phantom, superseded)
    BY <1>1 DEF Persist
  <2> QED
    BY <2>1 DEF Consolidated, StoreGrows
<1>2. CASE ~Persist(j)
  <2>1. store' = store
    BY <1>2 DEF Consolidate, Kill, AcquireDecisionsLock, SeeStaleLock, StealLock, GoLockless,
                LoadInLock, GiveUp, Release
  <2> QED
    BY <2>1 DEF StoreGrows
<1> QED
  BY <1>1, <1>2

LEMMA SyncInvStep ==
  ASSUME OneSyncer, TypeOK, SyncInv, [Next]_vars
  PROVE  SyncInv'
<1> USE SetsAssumption DEF Procs
<1> SUFFICES ASSUME NEW s \in Syncers PROVE SyncInvOf(s)'
  BY DEF SyncInv
<1>0. SyncInvOf(s)
  BY DEF SyncInv
<1> USE DEF Goto
<1>1. ASSUME NEW i \in Recorded,
             (\E j \in Jobs : Record(i, j)) \/ RecordUnspawned(i)
      PROVE  SyncInvOf(s)'
  <2>1. StoreGrows
    BY <1>1, RecordAndReviewGrow DEF Ids
  <2>2. pc'[s] = pc[s]
    BY <1>1 DEF Record, RecordUnspawned, TypeOK
  <2>3. UNCHANGED <<specs, loaded, subject, syncVars>>
    BY <1>1 DEF Record, RecordUnspawned
  <2> QED
    BY <1>0, <2>1, <2>2, <2>3, Bystander
<1>2. ASSUME NEW j \in Jobs, Consolidate(j) \/ Kill(j) PROVE SyncInvOf(s)'
  <2>1. StoreGrows
    BY <1>2, ConsolidationGrows
  <2>2. UNCHANGED <<specs, subject, syncVars>>
    BY <1>2 DEF Consolidate, Kill, AcquireDecisionsLock, SeeStaleLock, StealLock, GoLockless,
                LoadInLock, Persist, GiveUp, Release
  <2>3. \E l \in PCs : Goto(j, l)
    BY <1>2 DEF Consolidate, Kill, AcquireDecisionsLock, SeeStaleLock, StealLock, GoLockless,
                LoadInLock, Persist, GiveUp, Release, PCs
  <2>4. loaded' = loaded \/ Load(j) \/ Forget(j)
    BY <1>2 DEF Consolidate, Kill, AcquireDecisionsLock, SeeStaleLock, StealLock, GoLockless,
                LoadInLock, Persist, GiveUp, Release
  <2>5. pc'[s] = pc[s] /\ loaded'[s] = loaded[s]
    BY <2>3, <2>4 DEF Load, Forget, TypeOK
  <2> QED
    BY <1>0, <2>1, <2>2, <2>5, Bystander
<1>3. ASSUME NEW r \in Reviewers, Review(r) PROVE SyncInvOf(s)'
  <2>1. StoreGrows
    BY <1>3, RecordAndReviewGrow DEF Review
  <2>2. pc'[s] = pc[s] /\ subject'[s] = subject[s]
    BY <1>3 DEF Review, OpenReview, CommitReview, TypeOK
  <2>3. UNCHANGED <<specs, loaded, syncVars>>
    BY <1>3 DEF Review, OpenReview, CommitReview
  <2> QED
    BY <1>0, <2>1, <2>2, <2>3, Bystander
<1>4. ASSUME Sync(s) PROVE SyncInvOf(s)'
  <2>1. ASSUME NEW i \in Ids \cup {NoOne}, BeginSync(s, i) PROVE SyncInvOf(s)'
    <3>1. /\ pc'[s] = "syncing" /\ loaded'[s] = store /\ subject'[s] = i
          /\ UNCHANGED <<store, specs, syncVars>>
          /\ pc[s] = "idle"
          /\ i # NoOne => store[i] # "none"
      BY <2>1 DEF BeginSync, Load, TypeOK
    <3>2. written[s] \cup errors[s] = {}
      BY <1>0, <3>1 DEF SyncInvOf
    <3> QED
      BY <3>1, <3>2 DEF SyncInvOf, syncVars
  <2>2. CASE ReadSpec(s)
    <3>1. /\ pc[s] = "syncing" /\ pc'[s] = "appending" /\ specCopy'[s] = specs
          /\ UNCHANGED <<store, specs, loaded, subject, written, errors>>
      BY <2>2 DEF ReadSpec, TypeOK
    <3> QED
      BY <1>0, <3>1 DEF SyncInvOf
  <2>3. ASSUME NEW i \in Ids, WriteSpec(s, i) \/ SyncFails(s, i) \/ SkipHomeless(s, i)
        PROVE  SyncInvOf(s)'
    <3>1. /\ pc[s] \in {"syncing", "appending"} /\ pc'[s] = "syncing"
          /\ UNCHANGED <<store, loaded, subject>>
      BY <2>3 DEF WriteSpec, SyncFails, SkipHomeless, DoneWith, TypeOK
    <3>2. /\ i \notin written[s] \cup errors[s]
          /\ loaded[s][i] = "approved" \/ i = subject[s]
      BY <2>3 DEF WriteSpec, SyncFails, SkipHomeless, ToSync
    <3>3. \/ written'[s] = written[s] \cup {i} /\ errors'[s] = errors[s]
          \/ written'[s] = written[s] /\ errors'[s] = errors[s] \cup {i}
      BY <2>3 DEF WriteSpec, SyncFails, SkipHomeless, TypeOK
    <3>4. specs \subseteq specs'
      BY <1>0, <2>3 DEF WriteSpec, SyncFails, SkipHomeless, Appended, SyncInvOf
    <3>5. i \in written'[s] => i \in specs' \cup Homeless \/ i \in written[s]
      BY <2>3 DEF WriteSpec, SyncFails, SkipHomeless, Appended, TypeOK
    <3> QED
      BY <1>0, <3>1, <3>2, <3>3, <3>4, <3>5 DEF SyncInvOf
  <2>4. CASE CommitSync(s)
    <3>1. /\ pc'[s] = "idle" /\ subject'[s] = NoOne /\ written'[s] = {} /\ errors'[s] = {}
          /\ \A i \in Ids : loaded'[s][i] = "none"
      BY <2>4 DEF CommitSync, Forget, Nothing, TypeOK
    <3> QED
      BY <3>1 DEF SyncInvOf
  <2> QED
    BY <1>4, <2>1, <2>2, <2>3, <2>4 DEF Sync
<1>5. CASE UNCHANGED vars
  BY <1>0, <1>5 DEF vars, syncVars, SyncInvOf
<1> QED
  BY <1>1, <1>2, <1>3, <1>4, <1>5 DEF Next, OneSyncer

LEMMA SyncInvHolds == ASSUME OneSyncer PROVE Spec => [](TypeOK /\ SyncInv)
<1>1. Init => SyncInv
  BY SetsAssumption DEF Init, SyncInv, SyncInvOf, Nothing, Procs
<1>2. TypeOK /\ SyncInv /\ [Next]_vars => SyncInv'
  BY SyncInvStep
<1> QED
  BY <1>1, <1>2, TypeCorrect, PTL DEF Spec

(***************************************************************************)
(* When no two syncs run at once, a sync that failed to write a decision   *)
(* leaves it approved, safe to retry, and calls synced only what the spec  *)
(* files hold, whatever consolidations and reviews commit meanwhile.       *)
(***************************************************************************)
THEOREM LoneSyncAgreesWithSpecs == ASSUME OneSyncer PROVE Spec => SyncAgreesWithSpecs
<1>1. TypeOK /\ SyncInv /\ [Next]_vars
        => [\A s \in Syncers :
              CommitSync(s) => /\ \A i \in errors[s] : store'[i] = "approved"
                               /\ written[s] \subseteq specs \cup Homeless]_vars
  <2> SUFFICES ASSUME TypeOK, SyncInv, NEW s \in Syncers, CommitSync(s)
               PROVE  /\ \A i \in errors[s] : store'[i] = "approved"
                      /\ written[s] \subseteq specs \cup Homeless
    OBVIOUS
  <2>1. SyncInvOf(s)
    BY DEF SyncInv
  <2>2. ASSUME NEW i \in errors[s] PROVE store'[i] = "approved"
    <3>1. i \in Ids
      BY DEF TypeOK
    <3>2. i \notin written[s] /\ (loaded[s][i] = "approved" \/ i = subject[s])
      BY <2>1 DEF SyncInvOf
    <3>3. Snapshot(s, i) = "approved"
      BY <3>2 DEF Snapshot
    <3>4. loaded[s][i] # "none"
      BY <2>1, <3>1, <3>2, SetsAssumption DEF SyncInvOf
    <3>5. Merged(s, i) = "approved"
      BY <3>3, <3>4 DEF Merged, Purged, Inactive
    <3> QED
      BY <3>1, <3>5 DEF CommitSync
  <2> QED
    BY <2>1, <2>2 DEF SyncInvOf
<1> QED
  BY <1>1, SyncInvHolds, PTL DEF Spec, SyncAgreesWithSpecs

(***************************************************************************)
(* When no two syncs run at once, a draft leaves the store only into the   *)
(* spec files or because it has nowhere to go: the snapshot a sync writes  *)
(* back never drops a draft recorded after it was taken.                   *)
(***************************************************************************)
THEOREM LoneSyncKeepsDrafts == ASSUME OneSyncer PROVE Spec => DraftsNeverVanish
<1>1. TypeOK /\ SyncInv /\ [Next]_vars
        => [\A i \in Ids : store[i] = "draft" /\ store'[i] = "none"
                             => i \in specs \cup Homeless]_vars
  <2> SUFFICES ASSUME TypeOK, SyncInv, Next, NEW i \in Ids,
                      store[i] = "draft", store'[i] = "none"
               PROVE  i \in specs \cup Homeless
    OBVIOUS
  <2>1. ~StoreGrows
    BY DEF StoreGrows
  <2>2. PICK s \in Syncers : Sync(s)
    BY <2>1, RecordAndReviewGrow, ConsolidationGrows DEF Next, Review, Ids
  <2>3. CommitSync(s)
    BY <2>2 DEF Sync, BeginSync, ReadSpec, WriteSpec, SyncFails, SkipHomeless, DoneWith
  <2>4. SyncInvOf(s)
    BY DEF SyncInv
  <2>5. Merged(s, i) = "none"
    BY <2>3 DEF CommitSync
  <2>6. loaded[s][i] = "draft"
    BY <2>4, <2>5 DEF SyncInvOf, Merged, Purged, Inactive
  <2>7. i \in written[s]
    BY <2>5, <2>6 DEF Merged, Snapshot, Purged, Inactive
  <2> QED
    BY <2>4, <2>7 DEF SyncInvOf
<1> QED
  BY <1>1, SyncInvHolds, PTL DEF Spec, DraftsNeverVanish
-----------------------------------------------------------------------------
(***************************************************************************)
(* Where the consolidation lock is a lock: nobody outlasts it, outwaits it *)
(* or dies with it, nobody approves, rejects or syncs (they do not take    *)
(* it), and no consolidation mints the id of a decision being recorded.    *)
(***************************************************************************)
Undisturbed == /\ ~Slow /\ Impatient = {} /\ Killable = {}
               /\ Reviewers = {} /\ Syncers = {}
               /\ Recorded \cap Minted = {}

(***************************************************************************)
(* One consolidation is inside at a time, and what the store gained since  *)
(* it loaded are drafts under ids it does not know.                        *)
(***************************************************************************)
Inside == {"entered", "thinking", "releasing"}
NewDraft(j, i) == i \in Recorded /\ loaded[j][i] = "none" /\ store[i] = "draft"

LockedInv ==
  \A j \in Jobs : /\ pc[j] \in Inside => lock = j
                  /\ pc[j] \notin {"stealing", "killed"}
                  /\ pc[j] = "thinking" => \A i \in Ids : loaded[j][i] = store[i] \/ NewDraft(j, i)

LEMMA LockedInvStep ==
  ASSUME Undisturbed, TypeOK, LockedInv, [Next]_vars
  PROVE  LockedInv'
<1> USE SetsAssumption DEF Procs, Goto, Inside
<1> SUFFICES ASSUME NEW k \in Jobs
             PROVE  /\ pc'[k] \in Inside => lock' = k
                    /\ pc'[k] \notin {"stealing", "killed"}
                    /\ pc'[k] = "thinking" =>
                         \A i \in Ids : loaded'[k][i] = store'[i] \/ NewDraft(k, i)'
  BY DEF LockedInv
<1>1. ASSUME NEW i \in Recorded,
             (\E j \in Jobs : Record(i, j)) \/ RecordUnspawned(i)
      PROVE  /\ pc'[k] \in Inside => lock' = k
             /\ pc'[k] \notin {"stealing", "killed"}
             /\ pc'[k] = "thinking" =>
                  \A d \in Ids : loaded'[k][d] = store'[d] \/ NewDraft(k, d)'
  <2>1. /\ pc'[k] = pc[k] \/ pc'[k] = "queued"
        /\ lock' = lock /\ loaded' = loaded
    BY <1>1 DEF Record, RecordUnspawned, TypeOK, lockVars
  <2>2. \A d \in Ids : \/ store'[d] = store[d]
                       \/ d \in Recorded /\ store[d] = "none" /\ store'[d] = "draft"
    BY <1>1 DEF Record, RecordUnspawned, Upsert, TypeOK
  <2> QED
    BY <2>1, <2>2 DEF LockedInv, NewDraft
<1>2. ASSUME NEW j \in Jobs, Consolidate(j)
      PROVE  /\ pc'[k] \in Inside => lock' = k
             /\ pc'[k] \notin {"stealing", "killed"}
             /\ pc'[k] = "thinking" =>
                  \A d \in Ids : loaded'[k][d] = store'[d] \/ NewDraft(k, d)'
  <2>1. CASE AcquireDecisionsLock(j)
    BY <2>1 DEF AcquireDecisionsLock, LockedInv, NewDraft, TypeOK
  <2>2. ~SeeStaleLock(j) /\ ~StealLock(j) /\ ~GoLockless(j)
    BY DEF SeeStaleLock, StealLock, GoLockless, LockedInv, Undisturbed, TypeOK
  <2>3. CASE LoadInLock(j)
    BY <2>3 DEF LoadInLock, Load, LockedInv, NewDraft, TypeOK, lockVars
  <2>4. CASE Persist(j) \/ GiveUp(j)
    <3>1. /\ pc[j] = "thinking" /\ pc' = [pc EXCEPT ![j] = "releasing"] /\ lock' = lock
      BY <2>4 DEF Persist, GiveUp, lockVars
    <3>2. pc[k] = "thinking" => k = j
      BY <3>1 DEF LockedInv
    <3> QED
      BY <3>1, <3>2 DEF LockedInv, TypeOK
  <2>5. CASE Release(j)
    <3>1. pc[j] = "releasing" /\ pc' = [pc EXCEPT ![j] = "done"]
          /\ UNCHANGED <<store, loaded>>
      BY <2>5 DEF Release
    <3>2. k # j => pc[k] \notin Inside
      BY <3>1 DEF LockedInv
    <3> QED
      BY <3>1, <3>2 DEF LockedInv, TypeOK
  <2> QED
    BY <1>2, <2>1, <2>2, <2>3, <2>4, <2>5 DEF Consolidate
<1>3. CASE UNCHANGED vars
  BY <1>3 DEF vars, lockVars, LockedInv, NewDraft
<1>4. ASSUME NEW j \in Jobs PROVE ~Kill(j)
  BY DEF Kill, Undisturbed
<1> QED
  BY <1>1, <1>2, <1>3, <1>4 DEF Next, Undisturbed

(***************************************************************************)
(* Under the lock, for any number of records and consolidations: a         *)
(* consolidation, which thinks for minutes over a store it loaded once,    *)
(* changes no decision that is not as it loaded it.  A draft recorded      *)
(* meanwhile is left for the next, unless the LLM calls its id superseded. *)
(***************************************************************************)
THEOREM LockedConsolidationPreserves == ASSUME Undisturbed PROVE Spec => ConsolidationPreserves
<1>1. Init => LockedInv
  BY SetsAssumption DEF Init, LockedInv, Inside, Procs
<1>2. TypeOK /\ LockedInv /\ [Next]_vars => LockedInv'
  BY LockedInvStep
<1>3. TypeOK /\ LockedInv /\ [Next]_vars
        => [\A j \in Jobs : (pc[j] = "thinking" /\ pc'[j] = "releasing") =>
              \A i \in Ids : store'[i] # store[i] =>
                \/ loaded[j][i] = store[i]
                \/ i \in Unshown(j) /\ store'[i] = "rejected"]_vars
  <2> SUFFICES ASSUME TypeOK, LockedInv, Next, NEW j \in Jobs,
                      pc[j] = "thinking", pc'[j] = "releasing",
                      NEW i \in Ids, loaded[j][i] # store[i]
               PROVE  \/ store'[i] = store[i]
                      \/ i \in Unshown(j) /\ store'[i] = "rejected"
    OBVIOUS
  <2>1. NewDraft(j, i)
    BY DEF LockedInv
  <2>2. Persist(j) \/ GiveUp(j)
    <3>0. ~\E d \in Recorded : RecordUnspawned(d)
      BY DEF RecordUnspawned
    <3>1. PICK c \in Jobs : (\E d \in Recorded : Record(d, c)) \/ Consolidate(c)
      BY <3>0 DEF Next, Kill, Undisturbed
    <3>2. CASE \E d \in Recorded : Record(d, c)
      BY <3>2, SetsAssumption DEF Record, Goto, TypeOK, Procs
    <3>3. CASE Consolidate(c)
      <4>1. c = j
        BY <3>3, SetsAssumption DEF Consolidate, AcquireDecisionsLock, SeeStaleLock, StealLock,
           GoLockless, LoadInLock, Persist, GiveUp, Release, Goto, TypeOK, Procs
      <4> QED
        BY <3>3, <4>1, SetsAssumption DEF Consolidate, AcquireDecisionsLock, SeeStaleLock,
           StealLock, GoLockless, LoadInLock, Release, Goto, TypeOK, Procs
    <3> QED
      BY <3>1, <3>2, <3>3
  <2>3. CASE GiveUp(j)
    BY <2>3 DEF GiveUp
  <2>4. CASE Persist(j)
    <3>1. PICK verified \in SUBSET Nameable(j), phantom \in SUBSET Nameable(j),
               superseded \in SUBSET Supersedable(j) :
                 store' = Consolidated(j, verified, phantom, superseded)
      BY <2>4 DEF Persist
    <3>2. i \notin Minted
      BY <2>1 DEF NewDraft, Undisturbed
    <3>3. i \notin DraftsOf(j) /\ i \notin Reusable(j)
      BY <2>1 DEF NewDraft, DraftsOf, Reusable
    <3>4. i \notin Nameable(j)
      BY <3>2, <3>3 DEF Nameable
    <3>5. i \in superseded => i \in Unshown(j)
      BY <3>3 DEF Supersedable, Unshown
    <3> QED
      BY <3>1, <3>3, <3>4, <3>5 DEF Consolidated
  <2> QED
    BY <2>2, <2>3, <2>4
<1> QED
  BY <1>1, <1>2, <1>3, TypeCorrect, PTL DEF Spec, ConsolidationPreserves
=============================================================================
