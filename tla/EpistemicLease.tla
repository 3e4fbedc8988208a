---------------------------- MODULE EpistemicLease ----------------------------
(***************************************************************************)
(* The tracker of one MCP session                                          *)
(* (src/core/services/mcp-handlers/epistemic-lease.ts): how far what the   *)
(* agent learned from orient() may be trusted, and the panic score that    *)
(* follows unstable navigation, with the hysteresis of panic-response.ts.  *)
(* Each tool call runs updateTracker, then the panic update (mcp.ts); the  *)
(* panic policy of the session is not "off".                               *)
(*                                                                         *)
(* A density is the number of module switches in the window, its threshold *)
(* scaled by the window; an oscillation is a fraction of transitions.  The *)
(* code's numbers are constants.                                           *)
(*                                                                         *)
(* A definition named Mutant... is no part of the specification.           *)
(***************************************************************************)
EXTENDS Integers, Sequences, FiniteSets

CONSTANTS Calls,       (* tool calls: a weight, and the module of the file  *)
          NoModule,    (* a call that names no file of the project          *)
          NoHash,      (* git could not be asked                            *)
          Gaps,        (* the time that passes before a call                *)
          Start,       (* the clock of the first call, past every interval  *)
          DegradeLoad, StaleLoad, StaleD2Load, StaleD3Load,
          DegradeAge, StaleAge, GitCheckInterval,
          Window, DegradeSwitches, StaleSwitches, BurstSwitches, LocalSwitches,
          SwitchWeight, DensityBonus, BurstSpike, BurstWeight,
          DensityCooldown, SwitchDampening,
          UpThreshold, DownThreshold, ScoreMax,
          TrajectoryDelta, OscillationDelta, StaleDelta, LocalityRecovery,
          DecayTime, Refractory, RapidOrient, NormalRelief, RapidRelief,
          MaxSteps     (* bound: calls and commits                          *)

Times == {DegradeAge, StaleAge, GitCheckInterval, DensityCooldown, SwitchDampening,
          DecayTime, Refractory, RapidOrient}

ASSUME LeaseAssumption ==
  /\ \A c \in Calls : c.weight \in Nat
  /\ NoHash \notin Nat
  /\ Gaps \subseteq Nat /\ MaxSteps \in Nat /\ Start \in Nat
  /\ \A t \in Times : t \in Nat \ {0} /\ t < Start
  /\ Window \in Nat /\ LocalSwitches \in Nat
  /\ \A n \in {DegradeSwitches, StaleSwitches, BurstSwitches} : n \in Nat
  /\ \A n \in {DegradeLoad, StaleLoad, StaleD2Load, StaleD3Load} : n \in Nat
  /\ \A n \in {SwitchWeight, DensityBonus, BurstSpike, BurstWeight} : n \in Nat
  /\ UpThreshold \in [0..3 -> Nat] /\ DownThreshold \in [1..4 -> Nat] /\ ScoreMax \in Nat
  /\ \A n \in {TrajectoryDelta, OscillationDelta, StaleDelta, LocalityRecovery} : n \in Nat
  /\ NormalRelief \in Nat /\ RapidRelief \in Nat

VARIABLES clock,
          head,                 (* the commit HEAD is on                    *)
          lastOrientAt, graphVersionAtOrient, repoMovedSinceOrient,
          cognitiveLoad, freshnessState, staleDepth, lastGitCheckAt,
          lastModule, moduleAccessWindow, lastDensityPenaltyAt, lastSwitchAt,
          panicScore, panicLevel, lastPanicUpdateAt, panicRecoverySuppressionUntil,
          recentOrientCount, lastOrientResetAt,
          steps,
          scoredSince,          (* history: when the panic score began,     *)
          scoredAt,             (* when it was last updated,                *)
          decayed,              (* and the points the clock took off it     *)
          relieved              (* history: what orient() may take off in   *)
                                (* the running series of rapid ones         *)

freshVars == <<lastOrientAt, graphVersionAtOrient, repoMovedSinceOrient, cognitiveLoad,
               freshnessState, staleDepth, lastGitCheckAt, lastModule, moduleAccessWindow,
               lastDensityPenaltyAt, lastSwitchAt>>
panicVars == <<panicScore, panicLevel, lastPanicUpdateAt, panicRecoverySuppressionUntil,
               recentOrientCount, lastOrientResetAt, scoredSince, scoredAt, decayed,
               relieved>>
leaseVars == <<clock, head, freshVars, panicVars, steps>>

LeaseInit ==
  /\ clock = Start /\ head = 0 /\ steps = 0
  /\ lastOrientAt = Start /\ graphVersionAtOrient \in {0, NoHash}
  /\ repoMovedSinceOrient = FALSE
  /\ cognitiveLoad = 0 /\ freshnessState = "fresh" /\ staleDepth = 0
  /\ lastGitCheckAt = Start
  /\ lastModule = NoModule /\ moduleAccessWindow = <<>>
  /\ lastDensityPenaltyAt = 0 /\ lastSwitchAt = 0
  /\ panicScore = 0 /\ panicLevel = 0 /\ lastPanicUpdateAt = 0
  /\ panicRecoverySuppressionUntil = 0
  /\ recentOrientCount = 0 /\ lastOrientResetAt = 0
  /\ scoredSince = 0 /\ scoredAt = 0 /\ decayed = 0 /\ relieved = 0
-----------------------------------------------------------------------------
(* The trajectory *)

Larger(a, b) == IF a < b THEN b ELSE a
Clamp(score) == IF score < 0 THEN 0 ELSE IF score > ScoreMax THEN ScoreMax ELSE score

Slide(window, module) ==
  LET longer == Append(window, module)
  IN  IF Len(longer) > Window THEN Tail(longer) ELSE longer

(***************************************************************************)
(* computeCrossModuleDensity, computeOscillationScore: the visits that     *)
(* enter another module, and those that go straight back.                  *)
(***************************************************************************)
Visits(window) == SelectSeq(window, LAMBDA m : m # NoModule)
Entries(visits) == {i \in DOMAIN visits : i > 1 /\ visits[i] # visits[i - 1]}

Switches(window) == Cardinality(Entries(Visits(window)))

Returns(window) ==
  LET visits == Visits(window)
      entries == Entries(visits)
      back(i) == \E j \in entries : /\ j < i
                                    /\ \A k \in entries : k <= j \/ k >= i
                                    /\ visits[i] = visits[j - 1]
  IN  Cardinality({i \in entries : back(i)})

Oscillates(window) == Switches(window) >= 2 /\ 2 * Returns(window) >= Switches(window) - 1
Steady(window) == Switches(window) < 2 \/ 10 * Returns(window) < Switches(window) - 1

(***************************************************************************)
(* localityConfidence below one half.                                      *)
(***************************************************************************)
Drifting(window) ==
  LET n == Switches(window)
      back == Returns(window)
  IN  \/ 4 * n > Window
      \/ n >= 2 /\ 2 * (Window - 2 * n) * (n - 1 - back) < Window * (n - 1)

DepthOf(load) == IF load >= StaleD3Load THEN 3 ELSE IF load >= StaleD2Load THEN 2 ELSE 1
-----------------------------------------------------------------------------
(* updateTracker *)

(***************************************************************************)
(* Stale already: no load any more, only a deeper depth.                   *)
(***************************************************************************)
MutantDeepen(call) ==
  LET burst == call.weight >= BurstWeight \/ Switches(moduleAccessWindow') >= BurstSwitches IN
  /\ staleDepth' = IF burst /\ staleDepth < 3 THEN 3 ELSE DepthOf(cognitiveLoad)
  /\ UNCHANGED <<cognitiveLoad, freshnessState, repoMovedSinceOrient, lastGitCheckAt, lastModule,
                 lastDensityPenaltyAt, lastSwitchAt>>

Deepen(call) ==
  LET burst == call.weight >= BurstWeight \/ Switches(moduleAccessWindow') >= BurstSwitches IN
  /\ staleDepth' = IF burst THEN 3 ELSE Larger(staleDepth, DepthOf(cognitiveLoad))
  /\ UNCHANGED <<cognitiveLoad, freshnessState, repoMovedSinceOrient, lastGitCheckAt, lastModule,
                 lastDensityPenaltyAt, lastSwitchAt>>

(***************************************************************************)
(* The load of a call: its weight, a switch of modules unless the last was *)
(* just now, and a debt for a dense window unless it was just charged.     *)
(***************************************************************************)
Charge(call, now) ==
  LET dense == Switches(moduleAccessWindow')
      switch == /\ call.module # NoModule /\ lastModule # NoModule /\ call.module # lastModule
                /\ now - lastSwitchAt > SwitchDampening
      debt == dense >= StaleSwitches /\ now - lastDensityPenaltyAt > DensityCooldown
  IN
  /\ cognitiveLoad' = cognitiveLoad + call.weight + (IF switch THEN SwitchWeight ELSE 0)
                        + (IF ~debt THEN 0 ELSE IF dense >= BurstSwitches THEN BurstSpike
                           ELSE DensityBonus)
  /\ lastSwitchAt' = IF switch THEN now ELSE lastSwitchAt
  /\ lastDensityPenaltyAt' = IF debt THEN now ELSE lastDensityPenaltyAt
  /\ lastModule' = IF call.module = NoModule THEN lastModule ELSE call.module

(***************************************************************************)
(* The rate-limited look at HEAD: a fact for the note, at most a nudge.    *)
(***************************************************************************)
LookAtHead(now) ==
  LET due == now - lastGitCheckAt > GitCheckInterval IN
  /\ lastGitCheckAt' = IF due THEN now ELSE lastGitCheckAt
  /\ \E hash \in IF due THEN {head, NoHash} ELSE {NoHash} :
       repoMovedSinceOrient' = (repoMovedSinceOrient \/
                                  /\ hash # NoHash
                                  /\ graphVersionAtOrient # NoHash
                                  /\ hash # graphVersionAtOrient)

Expire(now) ==
  LET age == now - lastOrientAt
      dense == Switches(moduleAccessWindow')
  IN  IF age >= StaleAge \/ cognitiveLoad' >= StaleLoad \/ dense >= StaleSwitches
      THEN freshnessState' = "stale" /\ staleDepth' = DepthOf(cognitiveLoad')
      ELSE /\ freshnessState' = IF \/ repoMovedSinceOrient' /\ ~repoMovedSinceOrient
                                   \/ age >= DegradeAge
                                   \/ cognitiveLoad' >= DegradeLoad
                                   \/ dense >= DegradeSwitches
                                THEN "degraded" ELSE freshnessState
           /\ UNCHANGED staleDepth

UpdateTracker(call, now) ==
  /\ moduleAccessWindow' = Slide(moduleAccessWindow, call.module)
  /\ IF freshnessState = "stale" THEN Deepen(call)
     ELSE Charge(call, now) /\ LookAtHead(now) /\ Expire(now)
  /\ UNCHANGED <<lastOrientAt, graphVersionAtOrient>>

ResetTracker(now) ==
  /\ lastOrientAt' = now
  /\ graphVersionAtOrient' \in {head, NoHash}
  /\ cognitiveLoad' = 0 /\ freshnessState' = "fresh" /\ staleDepth' = 0
  /\ lastGitCheckAt' = now
  /\ lastModule' = NoModule /\ moduleAccessWindow' = <<>>
  /\ lastDensityPenaltyAt' = 0 /\ lastSwitchAt' = 0
  /\ repoMovedSinceOrient' = FALSE
-----------------------------------------------------------------------------
(* The panic score *)

Floor(depth) == IF depth >= 3 THEN 2 ELSE IF depth >= 2 THEN 1 ELSE 0

(***************************************************************************)
(* applyPanicHysteresis: one level up, or one down, and never below the    *)
(* floor of the stale depth.                                               *)
(***************************************************************************)
MutantHysteresis(level, score, depth) ==
  IF level < 4 /\ score >= UpThreshold[level] /\ (level = 3 => depth >= 3) THEN level + 1
  ELSE IF level > 0 /\ score < DownThreshold[level] THEN level - 1
  ELSE level

Hysteresis(level, score, depth) ==
  Larger(Floor(depth),
         IF level < 4 /\ score >= UpThreshold[level] /\ (level = 3 => depth >= 3) THEN level + 1
         ELSE IF level > 0 /\ score < DownThreshold[level] THEN level - 1
         ELSE level)

(***************************************************************************)
(* The decay by the clock keeps what is left of a point for the next call. *)
(***************************************************************************)
MutantDecayed(now) == IF lastPanicUpdateAt = 0 THEN now ELSE lastPanicUpdateAt

Decayed(now) ==
  IF lastPanicUpdateAt = 0 THEN now
  ELSE lastPanicUpdateAt + DecayTime * ((now - lastPanicUpdateAt) \div DecayTime)

DecayPoints(now) == IF lastPanicUpdateAt = 0 THEN 0 ELSE (now - lastPanicUpdateAt) \div DecayTime

(***************************************************************************)
(* Upward signals wait for the end of the refractory period.               *)
(***************************************************************************)
Upward(now) ==
  IF panicRecoverySuppressionUntil > now THEN 0
  ELSE (IF Switches(moduleAccessWindow') >= BurstSwitches THEN TrajectoryDelta ELSE 0)
       + (IF Oscillates(moduleAccessWindow') THEN OscillationDelta ELSE 0)
       + (IF staleDepth' >= 3 /\ Drifting(moduleAccessWindow') THEN StaleDelta ELSE 0)

Recovery == IF /\ Switches(moduleAccessWindow') <= LocalSwitches
               /\ Steady(moduleAccessWindow')
               /\ staleDepth' = 0
            THEN LocalityRecovery ELSE 0

MutantScored(now) == panicScore - DecayPoints(now) + Upward(now) - Recovery
Scored(now) == Clamp(panicScore - DecayPoints(now) + Upward(now) - Recovery)

UpdatePanic(now) ==
  /\ panicScore' = Scored(now)
  /\ panicLevel' = Hysteresis(panicLevel, panicScore', staleDepth')
  /\ lastPanicUpdateAt' = Decayed(now)
  /\ scoredSince' = IF scoredSince = 0 THEN now ELSE scoredSince
  /\ scoredAt' = now /\ decayed' = decayed + DecayPoints(now)
  /\ UNCHANGED <<panicRecoverySuppressionUntil, recentOrientCount, lastOrientResetAt, relieved>>

(***************************************************************************)
(* resetPanicOnOrient: a second orient() shortly after the first takes off *)
(* less, a third nothing.                                                  *)
(***************************************************************************)
MutantRelief(count, rapid) == IF rapid THEN RapidRelief ELSE NormalRelief

Relief(count, rapid) ==
  IF count >= 3 THEN 0 ELSE IF rapid THEN RapidRelief ELSE NormalRelief

ResetPanicOnOrient(now) ==
  LET rapid == now - lastOrientResetAt < RapidOrient
      count == IF rapid THEN recentOrientCount + 1 ELSE 1
      relief == Relief(count, rapid)
  IN
  /\ recentOrientCount' = count
  /\ lastOrientResetAt' = now
  /\ panicScore' = Clamp(panicScore - relief)
  /\ panicLevel' = Hysteresis(panicLevel, panicScore', 0)
  /\ panicRecoverySuppressionUntil' = IF relief > 0 THEN now + Refractory
                                      ELSE panicRecoverySuppressionUntil
  /\ relieved' = IF rapid THEN relieved + relief ELSE relief
  /\ UNCHANGED <<lastPanicUpdateAt, scoredSince, scoredAt, decayed>>
-----------------------------------------------------------------------------
Later(gap) == /\ steps < MaxSteps
              /\ steps' = steps + 1
              /\ clock' = clock + gap

ToolCall(call, gap) == /\ Later(gap)
                       /\ UpdateTracker(call, clock + gap)
                       /\ UpdatePanic(clock + gap)
                       /\ UNCHANGED head

Orient(gap) == /\ Later(gap)
               /\ ResetTracker(clock + gap)
               /\ ResetPanicOnOrient(clock + gap)
               /\ UNCHANGED head

Commit == /\ steps < MaxSteps
          /\ steps' = steps + 1
          /\ head' = head + 1
          /\ UNCHANGED <<clock, freshVars, panicVars>>

LeaseNext == \/ \E gap \in Gaps : Orient(gap) \/ \E call \in Calls : ToolCall(call, gap)
             \/ Commit

LeaseSpec == LeaseInit /\ [][LeaseNext]_leaseVars
-----------------------------------------------------------------------------
(* Properties *)

(***************************************************************************)
(* The types; the score keeps between 0 and its ceiling.                   *)
(***************************************************************************)
LeaseTypeOK ==
  /\ clock \in Nat /\ head \in Nat /\ steps \in 0..MaxSteps
  /\ lastOrientAt \in Nat /\ graphVersionAtOrient \in Nat \cup {NoHash}
  /\ repoMovedSinceOrient \in BOOLEAN
  /\ cognitiveLoad \in Nat
  /\ freshnessState \in {"fresh", "degraded", "stale"} /\ staleDepth \in 0..3
  /\ lastGitCheckAt \in Nat /\ lastDensityPenaltyAt \in Nat /\ lastSwitchAt \in Nat
  /\ moduleAccessWindow \in Seq({c.module : c \in Calls})
  /\ lastModule \in {c.module : c \in Calls} \cup {NoModule}
  /\ panicScore \in 0..ScoreMax /\ panicLevel \in 0..4
  /\ lastPanicUpdateAt \in Nat /\ panicRecoverySuppressionUntil \in Nat
  /\ recentOrientCount \in Nat /\ lastOrientResetAt \in Nat
  /\ scoredSince \in Nat /\ scoredAt \in Nat /\ decayed \in Nat /\ relieved \in Nat

(***************************************************************************)
(* "stale > degraded > fresh (never reverses)", "depth can only increase,  *)
(* never decrease until orient() reset".                                   *)
(***************************************************************************)
Rank == [fresh |-> 0, degraded |-> 1, stale |-> 2]
OnlyWorsens ==
  [][\/ lastOrientResetAt' # lastOrientResetAt \/ recentOrientCount' # recentOrientCount
     \/ /\ Rank[freshnessState'] >= Rank[freshnessState]
        /\ staleDepth' >= staleDepth]_leaseVars

(***************************************************************************)
(* "staleDepth is always >= 1 when freshnessState === 'stale'", and 0      *)
(* otherwise; it is what the load came to when the state went stale, or    *)
(* three after a burst; and it floors the panic level ("Panic ceiling").   *)
(***************************************************************************)
DepthMatches == /\ staleDepth \in IF freshnessState = "stale" THEN {DepthOf(cognitiveLoad), 3}
                                  ELSE {0}
                /\ panicLevel >= Floor(staleDepth)

(***************************************************************************)
(* "Decay accrues by wall-clock regardless of call cadence": the points    *)
(* taken off so far are the whole time the score has run, rounded down     *)
(* once; no call loses a remainder or counts the same time twice.          *)
(***************************************************************************)
DecayKeepsTime == decayed = (scoredAt - scoredSince) \div DecayTime

(***************************************************************************)
(* orient() called over and over is no way out of panic: a series of rapid *)
(* ones takes off no more than the first two.                              *)
(***************************************************************************)
SpamIsBounded == relieved <= NormalRelief + RapidRelief
=============================================================================
