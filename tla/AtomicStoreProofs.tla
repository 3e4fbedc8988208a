-------------------------- MODULE AtomicStoreProofs ---------------------------
(* Theorems about AtomicStore, for every value of its constants. *)
EXTENDS AtomicStore, TLAPS

LEMMA NoFileIsFile == NoFile \in File
BY DEF NoFile, File

LEMMA PendingIsUpdate ==
  ASSUME TypeOK, NEW w \in Writers PROVE Pending(w) \in Updates
BY DEF TypeOK, Pending, Updates

(***************************************************************************)
(* Moving one process keeps the program counters typed.                    *)
(***************************************************************************)
LEMMA GotoTyped ==
  ASSUME TypeOK, NEW p \in Procs, NEW l \in PCs, p \in Writers \/ l \in ReaderPCs,
         Goto(p, l)
  PROVE  pc' \in [Procs -> PCs] /\ \A r \in Readers : pc'[r] \in ReaderPCs
BY ProcsAssumption DEF TypeOK, Goto, Procs

(***************************************************************************)
(* Every reachable state is well typed, crashes, stalls and torn stores    *)
(* included: in particular a reader never enters the writers' protocol and *)
(* the store file always holds a set of updates and a sequence.            *)
(***************************************************************************)
THEOREM TypeCorrect == Spec => []TypeOK
<1> USE ProcsAssumption, BoundsAssumption, PatienceAssumption DEF Procs
<1>1. Init => TypeOK
  <2> SUFFICES ASSUME Init PROVE TypeOK
    OBVIOUS
  <2>1. store \in File
    BY InitialKindsAssumption DEF Init, File, NoFile, Updates, OldUpdate
  <2> QED
    BY <2>1, NoFileIsFile DEF Init, TypeOK, File, ReaderPCs, PCs
<1>2. TypeOK /\ [Next]_vars => TypeOK'
  <2> SUFFICES ASSUME TypeOK, [Next]_vars PROVE TypeOK'
    OBVIOUS
  <2> USE DEF WaitingPCs, HoldingPCs, ReaderPCs, PCs, fileVars, callVars
  <2>1. ASSUME NEW w \in Writers, Submit(w) PROVE TypeOK'
    BY <2>1, GotoTyped DEF Submit, TypeOK
  <2>2. ASSUME NEW w \in Writers, Write(w) PROVE TypeOK'
    <3> Pending(w) \in Updates
      BY PendingIsUpdate
    <3>1. CASE CreateLock(w)
      BY <3>1, GotoTyped DEF CreateLock, TypeOK
    <3>2. CASE LockExists(w) \/ LockVanished(w) \/ SeeStale(w) \/ Poll(w) \/ StealFails(w)
      <4>1. \E l \in WaitingPCs : Goto(w, l)
        BY <3>2 DEF LockExists, LockVanished, SeeStale, Poll, StealFails
      <4>2. UNCHANGED <<fileVars, waited, base, callVars>>
        BY <3>2 DEF LockExists, LockVanished, SeeStale, Poll, StealFails
      <4> QED
        BY <4>1, <4>2, GotoTyped DEF TypeOK
    <3>3. CASE OpenFails(w) \/ TimeOut(w)
      BY <3>3, GotoTyped DEF OpenFails, TimeOut, Fail, TypeOK
    <3>4. CASE Steal(w)
      BY <3>4, GotoTyped DEF Steal, TypeOK
    <3>5. CASE Rename(w)
      <4>1. Mutated(w) \in File
        BY DEF Mutated, File, TypeOK
      <4> QED
        BY <3>5, <4>1, NoFileIsFile, GotoTyped DEF Rename, TypeOK
    <3>6. CASE WriteFails(w)
      BY <3>6, NoFileIsFile, GotoTyped DEF WriteFails, TypeOK
    <3>7. CASE SeeOwnToken(w)
      BY <3>7, GotoTyped DEF SeeOwnToken, TypeOK
    <3>8. CASE SeeOtherToken(w)
      BY <3>8, GotoTyped DEF SeeOtherToken, Return, Acknowledge, Fail, TypeOK
    <3>9. CASE Unlock(w)
      BY <3>9, GotoTyped DEF Unlock, Return, Acknowledge, Fail, TypeOK
    <3> QED
      BY <2>2, <3>1, <3>2, <3>3, <3>4, <3>5, <3>6, <3>7, <3>8, <3>9 DEF Write
  <2>3. ASSUME NEW w \in Writers, Crash(w) PROVE TypeOK'
    BY <2>3, GotoTyped DEF Crash, TypeOK
  <2>4. ASSUME NEW p \in Procs, Load(p) PROVE TypeOK'
    <3>1. CASE LoadWhole(p)
      BY <3>1, GotoTyped DEF LoadWhole, AfterLoad, TypeOK
    <3>2. CASE LoadTorn(p)
      BY <3>2, NoFileIsFile, GotoTyped DEF LoadTorn, TypeOK
    <3> QED
      BY <2>4, <3>1, <3>2 DEF Load
  <2>5. ASSUME NEW p \in Procs, Quarantine(p) PROVE TypeOK'
    <3>1. CASE LinkAside(p)
      <4>1. quarantine' \in Seq(File)
        BY <3>1 DEF LinkAside, TypeOK
      <4> QED
        BY <3>1, <4>1, GotoTyped DEF LinkAside, TypeOK
    <3>2. CASE AlreadyAside(p)
      BY <3>2, GotoTyped DEF AlreadyAside, AfterLoad, TypeOK
    <3>3. CASE UnlinkPath(p)
      BY <3>3, NoFileIsFile, GotoTyped DEF UnlinkPath, AfterLoad, TypeOK
    <3>4. CASE MoveFails(p)
      BY <3>4, GotoTyped DEF MoveFails, AfterLoad, TypeOK
    <3> QED
      BY <2>5, <3>1, <3>2, <3>3, <3>4 DEF Quarantine
  <2>6. CASE Tick
    BY <2>6 DEF Tick, Older, TypeOK
  <2>7. CASE UNCHANGED vars
    BY <2>7 DEF vars, TypeOK
  <2> QED
    BY <2>1, <2>2, <2>3, <2>4, <2>5, <2>6, <2>7 DEF Next
<1> QED
  BY <1>1, <1>2, PTL DEF Spec
-----------------------------------------------------------------------------
(* Mutual exclusion, while no writer outstays StaleAge, without crashes or between two writers *)

Quiet == /\ ~Stalls
         /\ MaxCrashes = 0 \/ \A u, v, w \in Writers : u = v \/ v = w \/ u = w

(***************************************************************************)
(* Whoever is inside owns the lockfile, whose age then stays below what a  *)
(* waiter takes for stale.  An owner who is not inside is dead, and while  *)
(* somebody is about to remove its lockfile there is nobody else left who  *)
(* could have made that one: a third writer could.                         *)
(***************************************************************************)
AloneAlive(w) == \A v \in Writers \ {w} : pc[v] = "dead"

LockInv == /\ \A w \in Writers : /\ pc[w] \in HoldingPCs => lockOwner = w
                                 /\ lockOwner = w => pc[w] \in HoldingPCs \cup {"dead"}
                                 /\ pc[w] = "steal" => AloneAlive(w)
                                 /\ pc[w] = "dead" => MaxCrashes # 0
           /\ HeldByLiveWriter => lockAge <= StaleAge

(***************************************************************************)
(* Moving one writer inside the lock, or one waiter outside it, preserves  *)
(* the invariant when the lockfile stays as it is.                         *)
(***************************************************************************)
LEMMA MoveKeepsLockInv ==
  ASSUME TypeOK, LockInv, UNCHANGED <<lockOwner, lockAge>>,
         NEW p \in Procs, NEW l \in PCs \ {"steal", "dead"}, Goto(p, l), pc[p] # "dead",
         p \in Writers => (pc[p] \in HoldingPCs <=> l \in HoldingPCs)
  PROVE  LockInv'
<1>1. \A w \in Writers : w # p => pc'[w] = pc[w]
  BY DEF Goto, TypeOK
<1>2. p \in Writers => pc'[p] = l
  BY DEF Goto, TypeOK, Procs
<1>3. \A w \in Writers : pc'[w] = "steal" => w # p /\ AloneAlive(w)
  BY <1>1, <1>2 DEF LockInv
<1>4. \A w \in Writers : AloneAlive(w) /\ w # p => p \notin Writers
  BY DEF AloneAlive
<1>5. \A w \in Writers : pc'[w] = "steal" => AloneAlive(w)'
  BY <1>1, <1>3, <1>4 DEF AloneAlive
<1>6. HeldByLiveWriter' => HeldByLiveWriter
  BY <1>1, <1>2 DEF HeldByLiveWriter
<1>7. "dead" \notin HoldingPCs
  BY DEF HoldingPCs
<1> QED
  BY <1>1, <1>2, <1>5, <1>6, <1>7 DEF LockInv

LEMMA LockInvStep ==
  ASSUME Quiet, TypeOK, LockInv, [Next]_vars
  PROVE  LockInv'
<1> USE DEF WaitingPCs, HoldingPCs, ReaderPCs, PCs, fileVars, callVars
<1> USE ProcsAssumption, PatienceAssumption DEF Procs
<1>1. ASSUME NEW w \in Writers, Submit(w) PROVE LockInv'
  BY <1>1, MoveKeepsLockInv DEF Submit
<1>2. ASSUME NEW w \in Writers, Write(w) PROVE LockInv'
  <2>1. CASE CreateLock(w)
    <3>1. /\ pc[w] = "open" /\ pc' = [pc EXCEPT ![w] = "load"]
          /\ lockOwner = NoOne /\ lockOwner' = w /\ lockAge' = 0
      BY <2>1 DEF CreateLock, Goto
    <3>2. \A v \in Writers : v # w => pc[v] \notin HoldingPCs /\ ~AloneAlive(v)
      BY <3>1 DEF LockInv, AloneAlive
    <3> QED
      BY <3>1, <3>2 DEF LockInv, TypeOK, HeldByLiveWriter
  <2>2. CASE LockExists(w)
    BY <2>2, MoveKeepsLockInv DEF LockExists
  <2>3. CASE LockVanished(w)
    BY <2>3, MoveKeepsLockInv DEF LockVanished
  <2>4. CASE SeeStale(w)
    <3>1. /\ pc[w] = "stat" /\ pc' = [pc EXCEPT ![w] = "steal"]
          /\ lockOwner # NoOne /\ lockAge > StaleAge /\ UNCHANGED <<lockOwner, lockAge>>
      BY <2>4 DEF SeeStale, Goto
    <3>2. PICK v \in Writers : lockOwner = v
      BY <3>1 DEF TypeOK
    <3>3. pc[v] = "dead" /\ v # w /\ MaxCrashes # 0
      BY <3>1, <3>2 DEF LockInv, HeldByLiveWriter, TypeOK
    <3>4. AloneAlive(w)
      BY <3>3 DEF Quiet, AloneAlive
    <3>5. \A u \in Writers : u # w => pc'[u] = "dead"
      BY <3>1, <3>4 DEF AloneAlive, TypeOK
    <3>6. pc'[w] = "steal" /\ AloneAlive(w)'
      BY <3>1, <3>5 DEF AloneAlive, TypeOK
    <3>7. ~HeldByLiveWriter'
      BY <3>1, <3>2, <3>3, <3>5 DEF HeldByLiveWriter
    <3> QED
      BY <3>1, <3>2, <3>3, <3>5, <3>6, <3>7 DEF LockInv
  <2>5. CASE Poll(w) \/ StealFails(w)
    BY <2>5, MoveKeepsLockInv DEF Poll, StealFails
  <2>6. CASE OpenFails(w) \/ TimeOut(w)
    BY <2>6, MoveKeepsLockInv DEF OpenFails, TimeOut
  <2>7. CASE Steal(w)
    <3>1. pc[w] = "steal" /\ pc' = [pc EXCEPT ![w] = "open"] /\ lockOwner' = NoOne
      BY <2>7 DEF Steal, Goto
    <3>2. \A v \in Writers : v # w => pc'[v] = "dead" /\ pc[v] = "dead"
      BY <3>1 DEF LockInv, AloneAlive, TypeOK
    <3> QED
      BY <3>1, <3>2 DEF LockInv, HeldByLiveWriter, TypeOK
  <2>8. CASE Rename(w)
    BY <2>8, MoveKeepsLockInv DEF Rename
  <2>9. CASE WriteFails(w)
    BY <2>9, MoveKeepsLockInv DEF WriteFails
  <2>10. CASE SeeOwnToken(w)
    BY <2>10, MoveKeepsLockInv DEF SeeOwnToken
  <2>11. CASE SeeOtherToken(w)
    BY <2>11 DEF SeeOtherToken, LockInv
  <2>12. CASE Unlock(w)
    <3>1. /\ pc[w] \in HoldingPCs /\ pc' = [pc EXCEPT ![w] = "idle"]
          /\ lockOwner' = NoOne /\ lockAge' = 0
      BY <2>12 DEF Unlock, Goto
    <3>2. \A v \in Writers : v # w => pc[v] \notin HoldingPCs /\ ~AloneAlive(v)
      BY <3>1 DEF LockInv, AloneAlive
    <3> QED
      BY <3>1, <3>2 DEF LockInv, TypeOK, HeldByLiveWriter
  <2> QED
    BY <1>2, <2>1, <2>2, <2>3, <2>4, <2>5, <2>6, <2>7, <2>8, <2>9, <2>10, <2>11, <2>12
    DEF Write
<1>3. ASSUME NEW w \in Writers, Crash(w) PROVE LockInv'
  <2>1. pc[w] # "dead" /\ pc' = [pc EXCEPT ![w] = "dead"] /\ UNCHANGED <<lockOwner, lockAge>>
    BY <1>3 DEF Crash, Goto
  <2>2. MaxCrashes # 0
    BY <1>3, BoundsAssumption DEF Crash, TypeOK
  <2>3. \A v \in Writers : pc'[v] = pc[v] \/ pc'[v] = "dead"
    BY <2>1 DEF TypeOK
  <2>4. \A v \in Writers : AloneAlive(v) => AloneAlive(v)'
    BY <2>3 DEF AloneAlive
  <2>5. HeldByLiveWriter' => HeldByLiveWriter
    BY <2>1, <2>3 DEF HeldByLiveWriter
  <2> QED
    BY <2>1, <2>2, <2>3, <2>4, <2>5 DEF LockInv
<1>4. ASSUME NEW p \in Procs, Load(p) PROVE LockInv'
  <2>1. CASE LoadWhole(p)
    BY <2>1, MoveKeepsLockInv DEF LoadWhole, Loading, AfterLoad
  <2>2. CASE LoadTorn(p)
    BY <2>2, MoveKeepsLockInv DEF LoadTorn, Loading
  <2> QED
    BY <1>4, <2>1, <2>2 DEF Load
<1>5. ASSUME NEW p \in Procs, Quarantine(p) PROVE LockInv'
  BY <1>5, MoveKeepsLockInv
  DEF Quarantine, LinkAside, AlreadyAside, UnlinkPath, MoveFails, AfterLoad
<1>6. CASE Tick
  <2>1. UNCHANGED <<lockOwner, pc>>
    BY <1>6 DEF Tick
  <2>2. HeldByLiveWriter => lockOwner # NoOne /\ lockAge < StaleAge
    BY <1>6 DEF Tick, HolderKeepsUp, HeldByLiveWriter, Quiet
  <2>3. HeldByLiveWriter => lockAge' <= StaleAge
    BY <1>6, <2>2 DEF Tick, Older, TypeOK
  <2> QED
    BY <2>1, <2>3 DEF LockInv, HeldByLiveWriter, AloneAlive
<1>7. CASE UNCHANGED vars
  BY <1>7 DEF vars, LockInv, HeldByLiveWriter, AloneAlive
<1> QED
  BY <1>1, <1>2, <1>3, <1>4, <1>5, <1>6, <1>7 DEF Next

LEMMA LockInvHolds == ASSUME Quiet PROVE Spec => [](TypeOK /\ LockInv)
<1>1. Init => LockInv
  BY ProcsAssumption DEF Init, LockInv, HeldByLiveWriter, HoldingPCs, Procs
<1>2. Quiet /\ TypeOK /\ LockInv /\ [Next]_vars => LockInv'
  BY LockInvStep
<1>3. Spec => []TypeOK
  BY TypeCorrect
<1> QED
  BY <1>1, <1>2, <1>3, Quiet, PTL DEF Spec

(***************************************************************************)
(* While no writer outstays StaleAge, the lockfile admits one writer at a  *)
(* time between its load and its release: among any number of writers when *)
(* none crashes, and between two whoever crashes and wherever.             *)
(***************************************************************************)
THEOREM QuietMutualExclusion == ASSUME Quiet PROVE Spec => []MutualExclusion
<1>1. TypeOK /\ LockInv => MutualExclusion
  BY DEF LockInv, MutualExclusion
<1> QED
  BY <1>1, LockInvHolds, PTL
-----------------------------------------------------------------------------
(* A call that threw left nothing behind, whatever goes wrong *)

(***************************************************************************)
(* An update is somewhere if a file on disk holds it, or a process has it  *)
(* in a store it loaded.  One that failed is nowhere, and the pending one  *)
(* has not failed and is nowhere until its writer renames or gives up.     *)
(***************************************************************************)
Somewhere(u) == u \in Kept \/ \E p \in Procs : u \in base[p].applied

Settled == {"idle", "release", "unlock", "dead"}

FailInv ==
  /\ \A u \in Updates : u \in failed => ~Somewhere(u)
  /\ \A w \in Writers, n \in 0..MaxUpdates :
       Somewhere(<<w, n>>) \/ <<w, n>> \in failed
         => n < submitted[w] \/ (n = submitted[w] /\ pc[w] \in Settled)

LEMMA InKept ==
  ASSUME NEW u
  PROVE  u \in Kept <=> \/ u \in store.applied
                        \/ \E i \in DOMAIN quarantine : u \in quarantine[i].applied
BY DEF Kept

LEMMA InKeptNext ==
  ASSUME NEW u
  PROVE  (u \in Kept)' <=> \/ u \in store'.applied
                           \/ \E i \in DOMAIN quarantine' : u \in quarantine'[i].applied
BY DEF Kept

(***************************************************************************)
(* Only a rename brings an update anywhere it was not.                     *)
(***************************************************************************)
LEMMA NothingSpreads ==
  ASSUME TypeOK, NEW u \in Updates, Somewhere(u)',
         \/ UNCHANGED <<store, quarantine, base>>
         \/ \E p \in Procs : Load(p) \/ Quarantine(p)
         \/ \E w \in Writers : WriteFails(w)
  PROVE  Somewhere(u)
<1> USE DEF fileVars
<1>1. CASE UNCHANGED <<store, quarantine, base>>
  BY <1>1 DEF Somewhere, Kept
<1>2. ASSUME NEW p \in Procs, LoadWhole(p) \/ LoadTorn(p) PROVE Somewhere(u)
  <2>1. /\ UNCHANGED <<store, quarantine>>
        /\ base' \in {[base EXCEPT ![p] = store], [base EXCEPT ![p] = NoFile]}
    BY <1>2 DEF LoadWhole, LoadTorn
  <2>2. (u \in Kept)' <=> u \in Kept
    BY <2>1 DEF Kept
  <2>3. \A q \in Procs : base'[q] \in {base[q], store, NoFile}
    BY <2>1 DEF TypeOK
  <2>4. u \notin NoFile.applied
    BY DEF NoFile
  <2> QED
    BY <2>2, <2>3, <2>4, InKept DEF Somewhere
<1>3. ASSUME NEW p \in Procs, LinkAside(p) PROVE Somewhere(u)
  <2>1. \A i \in DOMAIN quarantine' : i \in DOMAIN quarantine \/ quarantine'[i] = store
    BY <1>3 DEF LinkAside, TypeOK
  <2>2. \A i \in DOMAIN quarantine : quarantine'[i] = quarantine[i]
    BY <1>3 DEF LinkAside, TypeOK
  <2> QED
    BY <1>3, <2>1, <2>2, InKept, InKeptNext DEF LinkAside, Somewhere
<1>4. ASSUME NEW p \in Procs, UnlinkPath(p) PROVE Somewhere(u)
  BY <1>4, InKept, InKeptNext DEF UnlinkPath, Somewhere, NoFile
<1>5. ASSUME NEW p \in Procs, AlreadyAside(p) \/ MoveFails(p) PROVE Somewhere(u)
  <2>1. UNCHANGED <<store, quarantine, base>>
    BY <1>5 DEF AlreadyAside, MoveFails
  <2> QED
    BY <1>1, <2>1
<1>6. ASSUME NEW w \in Writers, WriteFails(w) PROVE Somewhere(u)
  BY <1>6, InKept, InKeptNext DEF WriteFails, Somewhere, NoFile, TypeOK
<1> QED
  BY <1>1, <1>2, <1>3, <1>4, <1>5, <1>6 DEF Load, Quarantine

(***************************************************************************)
(* A rename brings its own pending update, and no other.                   *)
(***************************************************************************)
LEMMA RenameSpreads ==
  ASSUME TypeOK, NEW u \in Updates, Somewhere(u)', NEW w \in Writers, Rename(w)
  PROVE  Somewhere(u) \/ u = Pending(w)
<1>1. store'.applied = base[w].applied \cup {Pending(w)} /\ quarantine' = quarantine
  BY DEF Rename, Mutated
<1>2. \A p \in Procs : base'[p].applied \subseteq base[p].applied
  BY DEF Rename, NoFile, TypeOK
<1>3. w \in Procs
  BY DEF Procs
<1> QED
  BY <1>1, <1>2, <1>3, InKept, InKeptNext DEF Somewhere

LEMMA FailInvStep ==
  ASSUME TypeOK, FailInv, [Next]_vars PROVE FailInv'
<1> USE ProcsAssumption, BoundsAssumption DEF Procs, fileVars, callVars, Goto
<1>1. \A w \in Writers, n \in 0..MaxUpdates : <<w, n>> \in Updates
  BY DEF Updates
<1>2. \A w \in Writers : submitted[w] \in 0..MaxUpdates
  BY DEF TypeOK
<1>3. ASSUME NEW w \in Writers, Submit(w) PROVE FailInv'
  <2>1. \A u \in Updates : Somewhere(u)' => Somewhere(u)
    BY <1>3, NothingSpreads DEF Submit
  <2>2. submitted' = [submitted EXCEPT ![w] = @ + 1] /\ failed' = failed
        /\ pc' = [pc EXCEPT ![w] = "open"]
    BY <1>3 DEF Submit
  <2>3. \A v \in Writers : \/ v = w /\ submitted'[v] = submitted[v] + 1
                           \/ submitted'[v] = submitted[v] /\ pc'[v] = pc[v]
    BY <2>2 DEF TypeOK
  <2> QED
    BY <1>1, <1>2, <2>1, <2>2, <2>3 DEF FailInv
<1>4. ASSUME NEW w \in Writers, Rename(w) PROVE FailInv'
  <2>1. ASSUME NEW u \in Updates, Somewhere(u)' PROVE Somewhere(u) \/ u = Pending(w)
    BY <1>4, <2>1, RenameSpreads
  <2>2. pc[w] = "write" /\ pc' = [pc EXCEPT ![w] = "release"] /\ UNCHANGED <<submitted, failed>>
    BY <1>4 DEF Rename
  <2>3. Pending(w) \notin failed
    <3>1. pc[w] \notin Settled /\ ~(submitted[w] < submitted[w])
      BY <1>2, <2>2 DEF Settled
    <3>2. <<w, submitted[w]>> \notin failed
      BY <1>2, <3>1 DEF FailInv
    <3> QED
      BY <3>2 DEF Pending
  <2>4. \A v \in Writers : pc[v] \in Settled => pc'[v] \in Settled
    BY <2>2 DEF Settled, TypeOK
  <2>5. \A u \in Updates : u \in failed' => ~Somewhere(u)'
    BY <2>1, <2>2, <2>3 DEF FailInv
  <2>6. ASSUME NEW v \in Writers, NEW n \in 0..MaxUpdates, Somewhere(<<v, n>>)' \/ <<v, n>> \in failed'
        PROVE  n < submitted'[v] \/ (n = submitted'[v] /\ pc'[v] \in Settled)
    <3>1. CASE <<v, n>> = Pending(w)
      BY <2>2, <3>1 DEF Pending, Settled, TypeOK
    <3> QED
      BY <1>1, <2>1, <2>2, <2>6, <2>4, <3>1 DEF FailInv
  <2> QED
    BY <2>5, <2>6 DEF FailInv
<1>5. ASSUME UNCHANGED <<submitted, failed>>,
             \A u \in Updates : Somewhere(u)' => Somewhere(u),
             \A w \in Writers : pc[w] \in Settled => pc'[w] \in Settled
      PROVE  FailInv'
  BY <1>1, <1>2, <1>5 DEF FailInv
<1>6. ASSUME NEW w \in Writers,
             \A u \in Updates : Somewhere(u)' => Somewhere(u),
             pc[w] \notin Settled,
             Fail(w), submitted' = submitted, pc' = [pc EXCEPT ![w] = "idle"]
      PROVE  FailInv'
  <2>1. failed' = failed \cup {<<w, submitted[w]>>}
    BY <1>6 DEF Fail, Pending
  <2>2. \A v \in Writers : pc[v] \in Settled => pc'[v] \in Settled
    BY <1>6 DEF TypeOK, Settled
  <2>3. pc'[w] \in Settled
    BY <1>6 DEF TypeOK, Settled
  <2> QED
    BY <1>1, <1>2, <1>6, <2>1, <2>2, <2>3 DEF FailInv
<1>7. ASSUME NEW w \in Writers, Write(w), ~Rename(w) PROVE FailInv'
  <2>1. \A u \in Updates : Somewhere(u)' => Somewhere(u)
    <3>1. WriteFails(w) \/ UNCHANGED <<store, quarantine, base>>
      BY <1>7 DEF Write, CreateLock, OpenFails, LockExists, LockVanished, SeeStale, Poll,
                  TimeOut, Steal, StealFails, SeeOwnToken, SeeOtherToken, Unlock
    <3> QED
      BY <3>1, NothingSpreads
  <2>2. CASE OpenFails(w) \/ TimeOut(w)
    BY <1>6, <2>1, <2>2 DEF OpenFails, TimeOut, Settled
  <2>3. CASE SeeOtherToken(w) \/ Unlock(w)
    <3>1. CASE Fail(w) /\ pc[w] \in {"giveUp", "unlockFailed"}
      BY <1>6, <2>1, <2>3, <3>1 DEF SeeOtherToken, Unlock, Settled
    <3>2. CASE Acknowledge(w)
      <4>1. UNCHANGED <<submitted, failed>> /\ pc' = [pc EXCEPT ![w] = "idle"]
        BY <2>3, <3>2 DEF SeeOtherToken, Unlock, Acknowledge
      <4> QED
        BY <1>5, <2>1, <4>1 DEF TypeOK, Settled
    <3> QED
      BY <2>3, <3>1, <3>2 DEF SeeOtherToken, Unlock, Return
  <2>4. CASE CreateLock(w) \/ LockExists(w) \/ LockVanished(w) \/ SeeStale(w) \/ Poll(w)
             \/ Steal(w) \/ StealFails(w) \/ WriteFails(w) \/ SeeOwnToken(w)
    <3>1. UNCHANGED <<submitted, failed>>
      BY <2>4 DEF CreateLock, LockExists, LockVanished, SeeStale, Poll, Steal, StealFails, WriteFails,
                  SeeOwnToken
    <3>2. \E l \in PCs : pc' = [pc EXCEPT ![w] = l] /\ (pc[w] \in Settled => l \in Settled)
      BY <2>4 DEF CreateLock, LockExists, LockVanished, SeeStale, Poll, Steal, StealFails, WriteFails,
                  SeeOwnToken, PCs, WaitingPCs, HoldingPCs, Settled
    <3> QED
      BY <1>5, <2>1, <3>1, <3>2 DEF TypeOK
  <2> QED
    BY <1>7, <2>2, <2>3, <2>4 DEF Write
<1>8. ASSUME NEW p \in Procs, Load(p) \/ Quarantine(p) PROVE FailInv'
  <2>1. \A u \in Updates : Somewhere(u)' => Somewhere(u)
    BY <1>8, NothingSpreads
  <2>2. UNCHANGED <<submitted, failed>>
    BY <1>8 DEF Load, LoadWhole, LoadTorn, Quarantine, LinkAside, AlreadyAside, UnlinkPath, MoveFails
  <2>3. \E l \in PCs : pc' = [pc EXCEPT ![p] = l]
    BY <1>8 DEF Load, LoadWhole, LoadTorn, Quarantine, LinkAside, AlreadyAside, UnlinkPath,
                MoveFails, AfterLoad, PCs, WaitingPCs, HoldingPCs
  <2>4. p \in Writers => pc[p] \in {"load", "link", "unlink"}
    BY <1>8 DEF Load, LoadWhole, LoadTorn, Loading, Quarantine, LinkAside, AlreadyAside,
                UnlinkPath, MoveFails
  <2> QED
    BY <1>5, <2>1, <2>2, <2>3, <2>4 DEF TypeOK, Settled
<1>9. ASSUME NEW w \in Writers, Crash(w) PROVE FailInv'
  <2>1. \A u \in Updates : Somewhere(u)' => Somewhere(u)
    BY <1>9, NothingSpreads DEF Crash
  <2> QED
    BY <1>5, <1>9, <2>1 DEF Crash, TypeOK, Settled
<1>10. CASE Tick \/ UNCHANGED vars
  <2>1. \A u \in Updates : Somewhere(u)' => Somewhere(u)
    BY <1>10, NothingSpreads DEF Tick, vars
  <2> QED
    BY <1>5, <1>10, <2>1 DEF Tick, vars
<1> QED
  BY <1>3, <1>4, <1>7, <1>8, <1>9, <1>10 DEF Next

(***************************************************************************)
(* A call that threw left nothing in the store or beside it, so retrying   *)
(* it is safe: whatever crashes, stalls, fails or is torn, and whether or  *)
(* not the lock still excludes.                                            *)
(***************************************************************************)
THEOREM FailuresLeaveNothing == Spec => []FailedWriteNotKept
<1>1. Init => FailInv
  <2> SUFFICES ASSUME Init PROVE FailInv
    OBVIOUS
  <2>1. store.applied \subseteq {OldUpdate} /\ \A p \in Procs : base[p].applied = {}
    BY DEF Init, NoFile
  <2>2. Kept \subseteq {OldUpdate}
    BY <2>1, InKept DEF Init
  <2>3. \A w \in Writers, n \in 0..MaxUpdates : <<w, n>> # OldUpdate
    BY ProcsAssumption DEF Procs, OldUpdate
  <2>4. \A w \in Writers : pc[w] = "idle"
    BY DEF Init, Procs
  <2> QED
    BY <2>1, <2>2, <2>3, <2>4 DEF Init, FailInv, Somewhere
<1>2. TypeOK /\ FailInv => FailedWriteNotKept
  BY DEF TypeOK, FailInv, Somewhere, FailedWriteNotKept
<1> QED
  BY <1>1, <1>2, FailInvStep, TypeCorrect, PTL DEF Spec
-----------------------------------------------------------------------------
(* The promise of SequencedStore, while moreover the store can be read *)

Healthy == Quiet /\ "torn" \notin InitialKinds /\ "read" \notin Faults

(***************************************************************************)
(* A writer about to commit holds the latest store, its update is in the   *)
(* store exactly once it committed, and nobody quarantines anything.       *)
(***************************************************************************)
StoreInv ==
  /\ store.kind # "torn"
  /\ quarantine = <<>>
  /\ \A p \in Procs : pc[p] \notin {"link", "unlink"}
  /\ \A w \in Writers : pc[w] = "write" => base[w] = store

CommitInv ==
  /\ acked \subseteq store.applied
  /\ failed \cap store.applied = {}
  /\ \A w \in Writers :
       /\ pc[w] \in {"release", "unlock"} => Pending(w) \in store.applied
       /\ pc[w] \notin {"idle", "release", "unlock", "dead"}
            => Pending(w) \notin store.applied \cup failed
       /\ \A n \in Nat : <<w, n>> \in store.applied \cup failed => n <= submitted[w]

HealthyInv == TypeOK /\ LockInv /\ StoreInv /\ CommitInv

LEMMA StoreInvStep ==
  ASSUME Healthy, TypeOK, LockInv, StoreInv, [Next]_vars
  PROVE  StoreInv'
<1> USE ProcsAssumption DEF Procs, fileVars, callVars, Goto
<1>1. ASSUME NEW w \in Writers, Submit(w) PROVE StoreInv'
  BY <1>1 DEF Submit, StoreInv, TypeOK
<1>2. ASSUME NEW w \in Writers, Write(w) PROVE StoreInv'
  <2>1. CASE CreateLock(w)
    BY <2>1 DEF CreateLock, StoreInv, TypeOK
  <2>2. CASE LockExists(w) \/ LockVanished(w) \/ SeeStale(w) \/ Poll(w) \/ StealFails(w)
    <3>1. \E l \in WaitingPCs : Goto(w, l)
      BY <2>2 DEF LockExists, LockVanished, SeeStale, Poll, StealFails, WaitingPCs
    <3>2. UNCHANGED <<fileVars, waited, base, callVars>>
      BY <2>2 DEF LockExists, LockVanished, SeeStale, Poll, StealFails
    <3> QED
      BY <3>1, <3>2 DEF StoreInv, TypeOK, WaitingPCs
  <2>3. CASE OpenFails(w) \/ TimeOut(w)
    BY <2>3 DEF OpenFails, TimeOut, StoreInv, TypeOK
  <2>4. CASE Steal(w)
    BY <2>4 DEF Steal, StoreInv, TypeOK
  <2>5. CASE Rename(w)
    <3>1. store'.kind = "whole"
      BY <2>5 DEF Rename, Mutated
    <3>2. \A v \in Writers : pc'[v] # "write"
      BY <2>5 DEF Rename, LockInv, HoldingPCs, TypeOK
    <3> QED
      BY <2>5, <3>1, <3>2 DEF Rename, StoreInv, TypeOK
  <2>6. CASE WriteFails(w)
    BY <2>6 DEF WriteFails, StoreInv, TypeOK
  <2>7. CASE SeeOwnToken(w)
    BY <2>7 DEF SeeOwnToken, StoreInv, TypeOK
  <2>8. CASE SeeOtherToken(w)
    BY <2>8 DEF SeeOtherToken, StoreInv, TypeOK
  <2>9. CASE Unlock(w)
    BY <2>9 DEF Unlock, StoreInv, TypeOK
  <2> QED
    BY <1>2, <2>1, <2>2, <2>3, <2>4, <2>5, <2>6, <2>7, <2>8, <2>9 DEF Write
<1>3. ASSUME NEW w \in Writers, Crash(w) PROVE StoreInv'
  BY <1>3 DEF Crash, StoreInv, TypeOK
<1>4. ASSUME NEW p \in Procs, Load(p) PROVE StoreInv'
  <2>1. LoadWhole(p)
    BY <1>4 DEF Load, LoadTorn, Unreadable, Healthy, StoreInv
  <2> QED
    BY <2>1 DEF LoadWhole, AfterLoad, StoreInv, TypeOK
<1>5. ASSUME NEW p \in Procs, Quarantine(p) PROVE StoreInv'
  BY <1>5 DEF Quarantine, LinkAside, AlreadyAside, UnlinkPath, MoveFails, StoreInv
<1>6. CASE Tick
  BY <1>6 DEF Tick, StoreInv
<1>7. CASE UNCHANGED vars
  BY <1>7 DEF vars, StoreInv
<1> QED
  BY <1>1, <1>2, <1>3, <1>4, <1>5, <1>6, <1>7 DEF Next

(***************************************************************************)
(* How a step of a healthy store touches what CommitInv speaks of.         *)
(***************************************************************************)
LEMMA CommitStep ==
  ASSUME TypeOK, StoreInv, NEW w \in Writers, Rename(w)
  PROVE  /\ store'.applied = store.applied \cup {Pending(w)}
         /\ store'.sequence = store.sequence + 1
BY DEF Rename, Mutated, StoreInv

LEMMA CommitInvStep ==
  ASSUME Healthy, TypeOK, LockInv, StoreInv, CommitInv, [Next]_vars
  PROVE  CommitInv'
<1> USE ProcsAssumption DEF Procs, fileVars, callVars, Goto, Pending
<1>1. ASSUME NEW w \in Writers, Submit(w) PROVE CommitInv'
  BY <1>1 DEF Submit, CommitInv, TypeOK
<1>2. ASSUME NEW w \in Writers, Write(w) PROVE CommitInv'
  <2>1. CASE CreateLock(w)
    BY <2>1 DEF CreateLock, CommitInv, TypeOK
  <2>2. CASE LockExists(w) \/ LockVanished(w) \/ SeeStale(w) \/ Poll(w) \/ StealFails(w)
    <3>1. \E l \in WaitingPCs : Goto(w, l)
      BY <2>2 DEF LockExists, LockVanished, SeeStale, Poll, StealFails, WaitingPCs
    <3>2. pc[w] \in WaitingPCs /\ UNCHANGED <<fileVars, waited, base, callVars>>
      BY <2>2 DEF LockExists, LockVanished, SeeStale, Poll, StealFails, WaitingPCs
    <3> QED
      BY <3>1, <3>2 DEF CommitInv, TypeOK, WaitingPCs
  <2>3. CASE OpenFails(w) \/ TimeOut(w)
    <3>1. /\ pc[w] \in {"open", "stat"} /\ pc' = [pc EXCEPT ![w] = "idle"]
          /\ failed' = failed \cup {Pending(w)}
          /\ UNCHANGED <<store, submitted, acked>>
      BY <2>3 DEF OpenFails, TimeOut, Fail
    <3>2. Pending(w) \notin store.applied
      BY <3>1 DEF CommitInv
    <3>3. \A v \in Writers, n \in Nat : <<v, n>> = Pending(w) => v = w /\ n = submitted[w]
      OBVIOUS
    <3> QED
      BY <3>1, <3>2, <3>3 DEF CommitInv, TypeOK
  <2>4. CASE Steal(w)
    BY <2>4 DEF Steal, CommitInv, TypeOK
  <2>5. CASE Rename(w)
    <3>1. store'.applied = store.applied \cup {Pending(w)}
      BY <2>5, CommitStep
    <3>2. /\ pc[w] = "write" /\ pc' = [pc EXCEPT ![w] = "release"]
          /\ UNCHANGED <<submitted, acked, failed>>
      BY <2>5 DEF Rename
    <3>3. Pending(w) \notin failed /\ Pending(w)' = Pending(w)
      BY <3>2 DEF CommitInv
    <3>4. \A v \in Writers, n \in Nat : <<v, n>> = Pending(w) => v = w /\ n = submitted[w]
      OBVIOUS
    <3>5. acked' \subseteq store'.applied /\ failed' \cap store'.applied = {}
      BY <3>1, <3>2, <3>3 DEF CommitInv
    <3> QED
      BY <3>1, <3>2, <3>4, <3>5 DEF CommitInv, TypeOK
  <2>6. CASE WriteFails(w)
    BY <2>6 DEF WriteFails, CommitInv, TypeOK
  <2>7. CASE SeeOwnToken(w)
    BY <2>7 DEF SeeOwnToken, CommitInv, TypeOK
  <2>8. CASE SeeOtherToken(w)
    BY <2>8 DEF SeeOtherToken, LockInv, HoldingPCs
  <2>9. CASE Unlock(w)
    <3>1. /\ pc[w] \in {"unlock", "unlockFailed"} /\ pc' = [pc EXCEPT ![w] = "idle"]
          /\ UNCHANGED <<store, submitted>>
      BY <2>9 DEF Unlock
    <3>2. CASE pc[w] = "unlock"
      <4>1. acked' = acked \cup {Pending(w)} /\ UNCHANGED failed
        BY <2>9, <3>2 DEF Unlock, Return, Acknowledge
      <4> QED
        BY <3>1, <3>2, <4>1 DEF CommitInv, TypeOK
    <3>3. CASE pc[w] = "unlockFailed"
      <4>1. failed' = failed \cup {Pending(w)} /\ UNCHANGED acked
        BY <2>9, <3>3 DEF Unlock, Return, Fail
      <4>2. Pending(w) \notin store.applied
        BY <3>3 DEF CommitInv
      <4>3. \A v \in Writers, n \in Nat : <<v, n>> = Pending(w) => v = w /\ n = submitted[w]
        OBVIOUS
      <4> QED
        <5>1. acked' \subseteq store'.applied /\ failed' \cap store'.applied = {}
          BY <3>1, <4>1, <4>2 DEF CommitInv
        <5>2. ASSUME NEW v \in Writers
              PROVE  /\ pc'[v] \in {"release", "unlock"} => Pending(v)' \in store'.applied
                     /\ pc'[v] \notin {"idle", "release", "unlock", "dead"}
                          => Pending(v)' \notin store'.applied \cup failed'
          BY <3>1, <4>1, <4>3 DEF CommitInv, TypeOK
        <5>3. ASSUME NEW v \in Writers, NEW n \in Nat, <<v, n>> \in store'.applied \cup failed'
              PROVE  n <= submitted'[v]
          <6>1. <<v, n>> \in store.applied \cup failed \/ <<v, n>> = Pending(w)
            BY <3>1, <4>1, <5>3
          <6>2. CASE <<v, n>> \in store.applied \cup failed
            BY <3>1, <6>2 DEF CommitInv
          <6>3. CASE <<v, n>> = Pending(w)
            <7>1. v = w /\ n = submitted[w]
              BY <4>3, <6>3
            <7> QED
              BY <3>1, <7>1 DEF TypeOK
          <6> QED
            BY <6>1, <6>2, <6>3
        <5> QED
          BY <5>1, <5>2, <5>3 DEF CommitInv
    <3> QED
      BY <3>1, <3>2, <3>3
  <2> QED
    BY <1>2, <2>1, <2>2, <2>3, <2>4, <2>5, <2>6, <2>7, <2>8, <2>9 DEF Write
<1>3. ASSUME NEW w \in Writers, Crash(w) PROVE CommitInv'
  BY <1>3 DEF Crash, CommitInv, TypeOK
<1>4. ASSUME NEW p \in Procs, Load(p) PROVE CommitInv'
  <2>1. LoadWhole(p)
    BY <1>4 DEF Load, LoadTorn, Unreadable, Healthy, StoreInv
  <2> QED
    BY <2>1 DEF LoadWhole, Loading, AfterLoad, CommitInv, TypeOK
<1>5. ASSUME NEW p \in Procs, Quarantine(p) PROVE CommitInv'
  BY <1>5 DEF Quarantine, LinkAside, AlreadyAside, UnlinkPath, MoveFails, StoreInv
<1>6. CASE Tick
  BY <1>6 DEF Tick, CommitInv
<1>7. CASE UNCHANGED vars
  BY <1>7 DEF vars, CommitInv
<1> QED
  BY <1>1, <1>2, <1>3, <1>4, <1>5, <1>6, <1>7 DEF Next

LEMMA HealthyInvHolds == ASSUME Healthy PROVE Spec => []HealthyInv
<1>1. Init => StoreInv /\ CommitInv
  <2> SUFFICES ASSUME Init PROVE StoreInv /\ CommitInv
    OBVIOUS
  <2>1. store.kind # "torn" /\ store.applied \subseteq {OldUpdate}
    BY Healthy, InitialKindsAssumption DEF Healthy, Init, NoFile
  <2>2. \A w \in Writers, n \in Nat : <<w, n>> # OldUpdate
    BY ProcsAssumption DEF Procs, OldUpdate
  <2>3. StoreInv
    BY <2>1 DEF Init, StoreInv, Procs
  <2>4. \A w \in Writers, n \in Nat : <<w, n>> \notin store.applied \cup failed
    BY <2>1, <2>2 DEF Init
  <2>5. \A w \in Writers : pc[w] = "idle"
    BY DEF Init, Procs
  <2>6. acked \subseteq store.applied /\ failed \cap store.applied = {}
    BY DEF Init
  <2> QED
    BY <2>3, <2>4, <2>5, <2>6 DEF CommitInv
<1>2. Healthy /\ TypeOK /\ LockInv /\ StoreInv /\ CommitInv /\ [Next]_vars
        => StoreInv' /\ CommitInv'
  BY StoreInvStep, CommitInvStep
<1>3. Quiet
  BY Healthy DEF Healthy
<1>4. Spec => [](TypeOK /\ LockInv)
  BY <1>3, LockInvHolds
<1> QED
  BY <1>1, <1>2, <1>3, <1>4, PTL DEF Spec, HealthyInv

LEMMA NothingAside == ASSUME StoreInv PROVE Kept = store.applied
BY DEF StoreInv, Kept

(***************************************************************************)
(* Whatever the number of writers and readers, no acknowledged update is   *)
(* lost from a store that starts absent or whole and stays readable, while *)
(* no writer outstays StaleAge, and none crashes or there are two; writes  *)
(* may fail.                                                               *)
(***************************************************************************)
THEOREM HealthyKeepsAckedWrites == ASSUME Healthy PROVE Spec => []NoAckedWriteLost
<1>1. HealthyInv => NoAckedWriteLost
  BY NothingAside DEF HealthyInv, CommitInv, NoAckedWriteLost
<1> QED
  BY <1>1, HealthyInvHolds, PTL

(***************************************************************************)
(* Under the same conditions casUpdate over the lockfile implements        *)
(* SequencedStore: the rename is its Commit, returning and throwing are    *)
(* its Return and Throw, and every other step leaves its state alone.      *)
(***************************************************************************)
THEOREM HealthyKeepsPromise == ASSUME Healthy PROVE Spec => KeepsPromise
<1> USE DEF Promise!vars, fileVars, callVars
<1>1. Init => Promise!Init
  BY InitialKindsAssumption, BoundsAssumption
  DEF Init, Promise!Init, NoFile, Updates, OldUpdate
<1>2. HealthyInv /\ [Next]_vars => [Promise!Next]_(Promise!vars)
  <2> SUFFICES ASSUME HealthyInv, [Next]_vars PROVE [Promise!Next]_(Promise!vars)
    OBVIOUS
  <2>1. ASSUME NEW w \in Writers, Write(w) PROVE [Promise!Next]_(Promise!vars)
    <3>1. Pending(w) \in Updates
      BY PendingIsUpdate DEF HealthyInv
    <3>2. CASE Rename(w)
      <4>1. Promise!Commit(Pending(w))
        BY <3>2, CommitStep DEF Rename, Promise!Commit, HealthyInv, CommitInv
      <4> QED
        BY <3>1, <4>1 DEF Promise!Next
    <3>3. CASE OpenFails(w) \/ TimeOut(w) \/ (Unlock(w) /\ pc[w] = "unlockFailed")
      <4>1. Promise!Throw(Pending(w))
        BY <3>3 DEF OpenFails, TimeOut, Unlock, Return, Fail, Promise!Throw, HealthyInv, CommitInv
      <4> QED
        BY <3>1, <4>1 DEF Promise!Next
    <3>4. CASE Unlock(w) /\ pc[w] = "unlock"
      <4>1. Promise!Return(Pending(w))
        BY <3>4 DEF Unlock, Return, Acknowledge, Promise!Return, HealthyInv, CommitInv
      <4> QED
        BY <3>1, <4>1 DEF Promise!Next
    <3>5. CASE SeeOtherToken(w)
      BY <3>5 DEF SeeOtherToken, HealthyInv, LockInv, HoldingPCs
    <3>6. CASE CreateLock(w) \/ LockExists(w) \/ LockVanished(w) \/ SeeStale(w) \/ Poll(w)
      BY <3>6 DEF CreateLock, LockExists, LockVanished, SeeStale, Poll
    <3>7. CASE Steal(w) \/ StealFails(w) \/ WriteFails(w) \/ SeeOwnToken(w)
      BY <3>7 DEF Steal, StealFails, WriteFails, SeeOwnToken
    <3> QED
      BY <2>1, <3>2, <3>3, <3>4, <3>5, <3>6, <3>7 DEF Write, Unlock
  <2>2. ASSUME NEW w \in Writers, Submit(w) \/ Crash(w)
        PROVE  UNCHANGED Promise!vars
    BY <2>2 DEF Submit, Crash
  <2>3. ASSUME NEW p \in Procs, Load(p) \/ Quarantine(p)
        PROVE  UNCHANGED Promise!vars
    BY <2>3 DEF HealthyInv, StoreInv, Load, LoadWhole, LoadTorn,
                Quarantine, LinkAside, AlreadyAside, UnlinkPath, MoveFails
  <2>4. CASE Tick \/ UNCHANGED vars
    BY <2>4 DEF Tick, vars
  <2> QED
    BY <2>1, <2>2, <2>3, <2>4 DEF Next
<1> QED
  BY <1>1, <1>2, HealthyInvHolds, PTL DEF Spec, KeepsPromise, Promise!Spec

(***************************************************************************)
(* Under the same conditions the loads of a reader never go back: what it  *)
(* loaded last is never ahead of the store.                                *)
(***************************************************************************)
ReadInv == \A r \in Readers : /\ base[r].sequence <= store.sequence
                              /\ base[r].applied \subseteq store.applied

LEMMA StoreMovesForward ==
  ASSUME Healthy, HealthyInv, [Next]_vars
  PROVE  /\ store'.sequence \in Nat
         /\ store.sequence <= store'.sequence
         /\ store.applied \subseteq store'.applied
<1> USE DEF fileVars, HealthyInv
<1>1. store.sequence \in Nat
  BY DEF TypeOK, File
<1>2. ASSUME NEW w \in Writers, Rename(w) PROVE store'.sequence = store.sequence + 1
                                                /\ store.applied \subseteq store'.applied
  BY <1>2, CommitStep
<1>3. ASSUME NEW w \in Writers, Submit(w) \/ (Write(w) /\ ~Rename(w)) \/ Crash(w)
      PROVE  store' = store
  BY <1>3 DEF Submit, Crash, Write, CreateLock, OpenFails, LockExists, LockVanished, SeeStale,
              Poll, TimeOut, Steal, StealFails, WriteFails, SeeOwnToken, SeeOtherToken, Unlock
<1>4. ASSUME NEW p \in Procs, Load(p) \/ Quarantine(p) PROVE store' = store
  BY <1>4 DEF Load, LoadWhole, LoadTorn, Quarantine, LinkAside, AlreadyAside, UnlinkPath,
              MoveFails, StoreInv
<1>5. CASE Tick \/ UNCHANGED vars
  BY <1>1, <1>5 DEF Tick, vars
<1> QED
  BY <1>1, <1>2, <1>3, <1>4, <1>5 DEF Next

THEOREM HealthyReadsMoveForward == ASSUME Healthy PROVE Spec => ReadsMoveForward
<1> USE DEF Procs
<1>1. Init => ReadInv
  <2> SUFFICES ASSUME Init PROVE ReadInv
    OBVIOUS
  <2>1. store.sequence \in {0, 1} /\ \A r \in Readers : base[r] = NoFile
    BY InitialKindsAssumption DEF Init, NoFile
  <2> QED
    BY <2>1 DEF ReadInv, NoFile
<1>2. Healthy /\ HealthyInv /\ ReadInv /\ [Next]_vars
        => ReadInv' /\ [\A r \in Readers : /\ base'[r].sequence >= base[r].sequence
                                           /\ base[r].applied \subseteq base'[r].applied]_vars
  <2> SUFFICES ASSUME Healthy, HealthyInv, ReadInv, [Next]_vars, NEW r \in Readers
               PROVE  /\ base'[r].sequence <= store'.sequence
                      /\ base'[r].applied \subseteq store'.applied
                      /\ base'[r].sequence >= base[r].sequence
                      /\ base[r].applied \subseteq base'[r].applied
    BY DEF ReadInv
  <2>1. base[r].sequence \in Nat /\ store.sequence \in Nat
    BY DEF HealthyInv, TypeOK, File
  <2>2. base'[r] = base[r] \/ base'[r] = store
    <3> USE ProcsAssumption DEF fileVars, HealthyInv
    <3>1. ASSUME NEW w \in Writers, Submit(w) \/ Write(w) \/ Crash(w) PROVE base'[r] = base[r]
      BY <3>1 DEF Submit, Crash, Write, CreateLock, OpenFails, LockExists, LockVanished,
                  SeeStale, Poll, TimeOut, Steal, StealFails, Rename, WriteFails, SeeOwnToken,
                  SeeOtherToken, Unlock, TypeOK
    <3>2. ASSUME NEW p \in Procs, Load(p) PROVE base'[r] = base[r] \/ base'[r] = store
      <4>1. LoadWhole(p)
        BY <3>2 DEF Load, LoadTorn, Unreadable, Healthy, StoreInv
      <4> QED
        BY <4>1 DEF LoadWhole, TypeOK
    <3>3. ASSUME NEW p \in Procs, Quarantine(p) PROVE base'[r] = base[r]
      BY <3>3 DEF Quarantine, LinkAside, AlreadyAside, UnlinkPath, MoveFails
    <3>4. CASE Tick \/ UNCHANGED vars
      BY <3>4 DEF Tick, vars
    <3> QED
      BY <3>1, <3>2, <3>3, <3>4 DEF Next
  <2> QED
    BY <2>1, <2>2, StoreMovesForward DEF ReadInv
<1> QED
  BY <1>1, <1>2, HealthyInvHolds, PTL DEF Spec, ReadsMoveForward
-----------------------------------------------------------------------------
(* Acknowledged updates of a store that may be torn or unreadable, while nobody reads unlocked *)

Unread == Quiet /\ Readers = {} /\ "link" \notin Faults

(***************************************************************************)
(* What a writer is about to throw away is in a quarantined file, or in    *)
(* the store it loaded and writes back.                                    *)
(***************************************************************************)
Aside == UNION {quarantine[i].applied : i \in DOMAIN quarantine}

SavedBy(w) == /\ pc[w] = "write" => store.applied \subseteq base[w].applied \cup Aside
              /\ pc[w] = "unlink" => store.applied \subseteq Aside
              /\ pc[w] \in {"release", "unlock"} => Pending(w) \in Kept

SavedInv == /\ store.kind = "absent" => store.applied = {}
            /\ acked \subseteq Kept
            /\ \A w \in Writers : SavedBy(w)

LEMMA KeptIsStoreAndAside == Kept = store.applied \cup Aside
BY DEF Kept, Aside

LEMMA KeptIsStoreAndAsideNext == Kept' = store'.applied \cup Aside'
BY DEF Kept, Aside

(***************************************************************************)
(* A writer that is not the one who moves keeps what it saved, when the    *)
(* moving one is inside the lock or touches no file.                       *)
(***************************************************************************)
LEMMA OthersKeepSaved ==
  ASSUME LockInv, SavedInv, NEW w \in Writers, NEW v \in Writers, v # w,
         pc'[v] = pc[v], base'[v] = base[v], Pending(v)' = Pending(v), Kept \subseteq Kept',
         pc[w] \in HoldingPCs \/ UNCHANGED <<store, quarantine>>
  PROVE  SavedBy(v)'
<1>1. CASE UNCHANGED <<store, quarantine>>
  <2>1. Aside' = Aside /\ Kept' = Kept
    BY <1>1 DEF Aside, Kept
  <2> QED
    BY <1>1, <2>1 DEF SavedInv, SavedBy
<1>2. CASE pc[w] \in HoldingPCs
  <2>1. pc[v] \notin HoldingPCs
    BY <1>2 DEF LockInv
  <2> QED
    BY <2>1 DEF SavedBy, HoldingPCs
<1> QED
  BY <1>1, <1>2

LEMMA SavedInvStep ==
  ASSUME Unread, TypeOK, LockInv, SavedInv, [Next]_vars
  PROVE  SavedInv'
<1> USE DEF fileVars, callVars, Goto
<1>a. Procs = Writers
  BY DEF Unread, Procs
<1>1. ASSUME NEW w \in Writers,
             /\ pc' = [pc EXCEPT ![w] = pc'[w]] /\ base' = [base EXCEPT ![w] = base'[w]]
             /\ \A v \in Writers \ {w} : submitted'[v] = submitted[v],
             pc[w] \in HoldingPCs \/ UNCHANGED <<store, quarantine>>,
             store'.kind = "absent" => store'.applied = {},
             Kept \subseteq Kept',
             acked' \subseteq Kept',
             SavedBy(w)'
      PROVE  SavedInv'
  <2>1. ASSUME NEW v \in Writers, v # w PROVE SavedBy(v)'
    <3>1. pc'[v] = pc[v] /\ base'[v] = base[v] /\ Pending(v)' = Pending(v)
      BY <1>a, <1>1, <2>1 DEF TypeOK, Pending
    <3> QED
      BY <1>1, <2>1, <3>1, OthersKeepSaved
  <2> QED
    BY <1>1, <2>1 DEF SavedInv
<1>2. ASSUME NEW w \in Writers, Submit(w) PROVE SavedInv'
  <2>1. /\ pc' = [pc EXCEPT ![w] = "open"] /\ submitted' = [submitted EXCEPT ![w] = @ + 1]
        /\ UNCHANGED <<store, quarantine, base, acked>>
    BY <1>2 DEF Submit
  <2>2. Kept' = Kept /\ pc'[w] = "open"
    BY <1>a, <2>1 DEF Kept, TypeOK
  <2> QED
    BY <1>1, <2>1, <2>2 DEF SavedInv, SavedBy, TypeOK
<1>3. ASSUME NEW w \in Writers, Write(w) \/ Crash(w), ~Rename(w) PROVE SavedInv'
  <2>1. UNCHANGED <<store, quarantine, submitted>>
    BY <1>3 DEF Write, Crash, CreateLock, OpenFails, LockExists, LockVanished, SeeStale, Poll,
                TimeOut, Steal, StealFails, WriteFails, SeeOwnToken, SeeOtherToken, Unlock
  <2>2. \E l \in {"load", "idle", "stat", "open", "steal", "giveUp", "unlock", "unlockFailed",
                  "dead"} :
          /\ pc' = [pc EXCEPT ![w] = l]
          /\ l = "unlock" => pc[w] = "release"
    BY <1>3 DEF Write, Crash, CreateLock, OpenFails, LockExists, LockVanished, SeeStale, Poll,
                TimeOut, Steal, StealFails, WriteFails, SeeOwnToken, SeeOtherToken, Unlock
  <2>3. base' = base \/ base' = [base EXCEPT ![w] = NoFile]
    BY <1>3 DEF Write, Crash, CreateLock, OpenFails, LockExists, LockVanished, SeeStale, Poll,
                TimeOut, Steal, StealFails, WriteFails, SeeOwnToken, SeeOtherToken, Unlock
  <2>4. acked' = acked \/ (acked' = acked \cup {Pending(w)} /\ pc[w] \in {"release", "unlock"})
    BY <1>3 DEF Write, Crash, CreateLock, OpenFails, LockExists, LockVanished, SeeStale, Poll,
                TimeOut, Steal, StealFails, WriteFails, SeeOwnToken, SeeOtherToken, Unlock, Return,
                Acknowledge, Fail
  <2>5. Kept' = Kept
    BY <2>1 DEF Kept
  <2>6. acked' \subseteq Kept'
    BY <2>4, <2>5 DEF SavedInv, SavedBy
  <2>7. /\ pc'[w] \in {"load", "idle", "stat", "open", "steal", "giveUp", "unlock", "unlockFailed",
                       "dead"}
        /\ pc'[w] = "unlock" => pc[w] = "release"
        /\ pc' = [pc EXCEPT ![w] = pc'[w]]
    BY <1>a, <2>2 DEF TypeOK
  <2>8. base' = [base EXCEPT ![w] = base'[w]]
    BY <1>a, <2>3 DEF TypeOK
  <2>9. Pending(w)' = Pending(w)
    BY <2>1 DEF Pending
  <2>10. SavedBy(w)'
    BY <2>5, <2>7, <2>9 DEF SavedInv, SavedBy
  <2> QED
    BY <1>1, <2>1, <2>5, <2>6, <2>7, <2>8, <2>10 DEF SavedInv
<1>4. ASSUME NEW w \in Writers, Rename(w) PROVE SavedInv'
  <2>1. /\ pc[w] = "write" /\ pc' = [pc EXCEPT ![w] = "release"] /\ store' = Mutated(w)
        /\ base' = [base EXCEPT ![w] = NoFile] /\ UNCHANGED <<quarantine, submitted, acked>>
    BY <1>4 DEF Rename
  <2>2. store'.kind = "whole" /\ store'.applied = base[w].applied \cup {Pending(w)}
    BY <2>1 DEF Mutated
  <2>3. Aside' = Aside
    BY <2>1 DEF Aside
  <2>4. Kept \subseteq Kept' /\ Pending(w) \in Kept'
    BY <2>1, <2>2, <2>3, KeptIsStoreAndAside, KeptIsStoreAndAsideNext DEF SavedInv, SavedBy
  <2>5. pc'[w] = "release" /\ pc[w] \in HoldingPCs /\ Pending(w)' = Pending(w) /\ base'[w] = NoFile
    BY <1>a, <2>1 DEF TypeOK, HoldingPCs, Pending
  <2>6. SavedBy(w)'
    BY <2>4, <2>5 DEF SavedBy
  <2> QED
    BY <1>1, <2>1, <2>2, <2>4, <2>5, <2>6 DEF SavedInv
<1>5. ASSUME NEW w \in Writers, Load(w) PROVE SavedInv'
  <2>1. /\ UNCHANGED <<store, quarantine, submitted, acked>>
        /\ \/ pc' = [pc EXCEPT ![w] = "write"] /\ base' = [base EXCEPT ![w] = store]
           \/ pc' = [pc EXCEPT ![w] = "link"] /\ base' = [base EXCEPT ![w] = NoFile]
    BY <1>5 DEF Load, LoadWhole, LoadTorn, AfterLoad
  <2>2. Kept' = Kept /\ Aside' = Aside
    BY <2>1 DEF Kept, Aside
  <2>3. /\ (pc'[w] = "write" /\ base'[w] = store) \/ pc'[w] = "link"
        /\ pc' = [pc EXCEPT ![w] = pc'[w]] /\ base' = [base EXCEPT ![w] = base'[w]]
    BY <1>a, <2>1 DEF TypeOK
  <2>4. SavedBy(w)'
    BY <2>1, <2>2, <2>3 DEF SavedBy
  <2> QED
    BY <1>1, <2>1, <2>2, <2>3, <2>4 DEF SavedInv
<1>6. ASSUME NEW w \in Writers, Quarantine(w) PROVE SavedInv'
  <2>1. pc[w] \in {"link", "unlink"} /\ UNCHANGED <<base, submitted, acked>>
    BY <1>6 DEF Quarantine, LinkAside, AlreadyAside, UnlinkPath, MoveFails
  <2>2. pc[w] \in HoldingPCs
    BY <2>1 DEF HoldingPCs
  <2>3. base' = [base EXCEPT ![w] = base'[w]]
    BY <1>a, <2>1 DEF TypeOK
  <2>4. CASE LinkAside(w)
    <3>1. /\ pc' = [pc EXCEPT ![w] = "unlink"] /\ store' = store
          /\ quarantine' = Append(quarantine, store)
      BY <2>4 DEF LinkAside
    <3>2. quarantine \in Seq(File) /\ store \in File
      BY DEF TypeOK
    <3>3. /\ DOMAIN quarantine' = DOMAIN quarantine \cup {Len(quarantine) + 1}
          /\ \A i \in DOMAIN quarantine : quarantine'[i] = quarantine[i]
          /\ quarantine'[Len(quarantine) + 1] = store
      BY <3>1, <3>2
    <3>4. Aside \subseteq Aside' /\ store.applied \subseteq Aside'
      BY <3>3 DEF Aside
    <3>5. Kept \subseteq Kept'
      BY <3>1, <3>4, KeptIsStoreAndAside, KeptIsStoreAndAsideNext
    <3>6. pc'[w] = "unlink" /\ pc' = [pc EXCEPT ![w] = pc'[w]]
      BY <1>a, <3>1 DEF TypeOK
    <3>7. SavedBy(w)'
      BY <3>1, <3>4, <3>6 DEF SavedBy
    <3> QED
      BY <1>1, <2>1, <2>2, <2>3, <3>1, <3>5, <3>6, <3>7 DEF SavedInv
  <2>5. CASE AlreadyAside(w) \/ UnlinkPath(w) \/ MoveFails(w)
    <3>1. /\ pc' = [pc EXCEPT ![w] = "write"] /\ quarantine' = quarantine
          /\ store' = store \/ (store' = NoFile /\ pc[w] = "unlink")
          /\ pc[w] = "unlink" \/ store.kind = "absent"
      BY <2>5 DEF AlreadyAside, UnlinkPath, MoveFails, AfterLoad, Unread
    <3>2. NoFile.applied = {} /\ Aside' = Aside
      BY <3>1 DEF NoFile, Aside
    <3>3. store.applied \subseteq Aside
      BY <3>1 DEF SavedInv, SavedBy
    <3>4. Kept \subseteq Kept' /\ store'.applied \subseteq Aside'
      BY <3>1, <3>2, <3>3, KeptIsStoreAndAside, KeptIsStoreAndAsideNext
    <3>5. pc'[w] = "write" /\ pc' = [pc EXCEPT ![w] = pc'[w]]
      BY <1>a, <3>1 DEF TypeOK
    <3>6. SavedBy(w)'
      BY <3>4, <3>5 DEF SavedBy
    <3> QED
      BY <1>1, <2>1, <2>2, <2>3, <3>1, <3>2, <3>4, <3>5, <3>6 DEF SavedInv
  <2> QED
    BY <1>6, <2>4, <2>5 DEF Quarantine
<1>7. CASE Tick \/ UNCHANGED vars
  <2>1. UNCHANGED <<store, quarantine, pc, base, submitted, acked>>
    BY <1>7 DEF Tick, vars
  <2>2. Kept' = Kept /\ Aside' = Aside
    BY <2>1 DEF Kept, Aside
  <2> QED
    BY <2>1, <2>2 DEF SavedInv, SavedBy, Pending
<1> QED
  BY <1>a, <1>2, <1>3, <1>4, <1>5, <1>6, <1>7 DEF Next

(***************************************************************************)
(* Whether the store starts torn, cannot be read, cannot be unlinked or    *)
(* cannot be written, and whoever of two writers crashes and wherever, the *)
(* bytes of every acknowledged update are in the store or set aside, while *)
(* nobody loads without the lock.                                          *)
(***************************************************************************)
THEOREM UnreadKeepsAckedWrites == ASSUME Unread PROVE Spec => []NoAckedWriteLost
<1>1. Init => SavedInv
  <2> SUFFICES ASSUME Init PROVE SavedInv
    OBVIOUS
  <2>1. \A w \in Writers : pc[w] = "idle"
    BY DEF Init, Procs
  <2>2. acked \subseteq Kept /\ (store.kind = "absent" => store.applied = {})
    BY KeptIsStoreAndAside, InitialKindsAssumption DEF Init, NoFile
  <2> QED
    BY <2>1, <2>2 DEF SavedInv, SavedBy
<1>2. TypeOK /\ LockInv /\ SavedInv /\ [Next]_vars => SavedInv'
  BY SavedInvStep
<1>3. Spec => [](TypeOK /\ LockInv)
  BY LockInvHolds DEF Unread
<1>4. SavedInv => NoAckedWriteLost
  BY DEF SavedInv, NoAckedWriteLost
<1> QED
  BY <1>1, <1>2, <1>3, <1>4, PTL DEF Spec
=============================================================================
