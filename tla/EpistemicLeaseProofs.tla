------------------------- MODULE EpistemicLeaseProofs -------------------------
(* Theorems about EpistemicLease, for every value of its constants. *)
EXTENDS EpistemicLease, TLAPS

States == {"fresh", "degraded", "stale"}
Modules == {c.module : c \in Calls} \cup {NoModule}

(***************************************************************************)
(* Arithmetic of the decay: the whole points in a time, and that there is  *)
(* only one number of them.                                                *)
(***************************************************************************)
LEMMA WholePoints ==
  ASSUME NEW d \in Nat \ {0}, NEW time \in Nat
  PROVE  /\ time \div d \in Nat
         /\ d * (time \div d) \in Nat
         /\ d * (time \div d) <= time
         /\ time < d * (time \div d) + d
<1>1. time \div d \in Nat
  OBVIOUS
<1>2. time = d * (time \div d) + (time % d) /\ time % d \in 0..(d - 1)
  OBVIOUS
<1>3. d * (time \div d) \in Nat
  BY <1>1
<1> DEFINE points == d * (time \div d)
           rest == time % d
<1>4. points \in Nat /\ rest \in 0..(d - 1) /\ time = points + rest
  BY <1>2, <1>3
<1> HIDE DEF points, rest
<1>5. points <= time /\ time < points + d
  BY <1>4
<1> QED
  BY <1>1, <1>3, <1>5 DEF points

LEMMA PointsAdd ==
  ASSUME NEW d \in Nat, NEW a \in Nat, NEW b \in Nat
  PROVE  d * (a + b) = d * a + d * b /\ d * a \in Nat
OBVIOUS

LEMMA MorePoints ==
  ASSUME NEW d \in Nat, NEW a \in Nat, NEW b \in Nat, a < b
  PROVE  d * a + d <= d * b
<1>1. PICK c \in Nat : b = a + 1 + c
  <2>1. b - a - 1 \in Nat /\ b = a + 1 + (b - a - 1)
    OBVIOUS
  <2> QED
    BY <2>1
<1>2. d * b = d * a + d + d * c
  BY <1>1
<1>3. d * c \in Nat /\ d * a \in Nat
  OBVIOUS
<1> QED
  BY <1>2, <1>3

LEMMA PointsAreUnique ==
  ASSUME NEW d \in Nat \ {0}, NEW time \in Nat, NEW k \in Nat,
         d * k <= time, time < d * k + d
  PROVE  time \div d = k
<1> DEFINE q == time \div d
<1>1. q \in Nat /\ d * q \in Nat /\ d * q <= time /\ time < d * q + d
  BY WholePoints
<1>2. d * k \in Nat
  OBVIOUS
<1> HIDE DEF q
<1>3. ~(q < k)
  <2>1. q < k => d * q + d <= d * k
    BY <1>1, MorePoints
  <2> QED
    BY <1>1, <1>2, <2>1
<1>4. ~(k < q)
  <2>1. k < q => d * k + d <= d * q
    BY <1>1, MorePoints
  <2> QED
    BY <1>1, <1>2, <2>1
<1>5. q = k
  BY <1>1, <1>3, <1>4
<1> QED
  BY <1>5 DEF q
-----------------------------------------------------------------------------
(* What the operators return *)

LEMMA DepthTyped == \A load : DepthOf(load) \in 1..3
BY DEF DepthOf

LEMMA ClampTyped == \A score \in Int : Clamp(score) \in 0..ScoreMax
BY LeaseAssumption DEF Clamp

LEMMA HysteresisTyped ==
  ASSUME NEW level \in 0..4, NEW score \in Nat, NEW depth \in 0..3
  PROVE  /\ Hysteresis(level, score, depth) \in 0..4
         /\ Hysteresis(level, score, depth) >= Floor(depth)
<1> DEFINE moved == IF level < 4 /\ score >= UpThreshold[level] /\ (level = 3 => depth >= 3)
                    THEN level + 1
                    ELSE IF level > 0 /\ score < DownThreshold[level] THEN level - 1
                    ELSE level
<1>1. moved \in 0..4
  OBVIOUS
<1>2. Floor(depth) \in 0..2
  BY DEF Floor
<1>3. Hysteresis(level, score, depth) = Larger(Floor(depth), moved)
  BY DEF Hysteresis
<1> HIDE DEF moved
<1> QED
  BY <1>1, <1>2, <1>3 DEF Larger

LEMMA SlideTyped ==
  ASSUME NEW window \in Seq({c.module : c \in Calls}), NEW call \in Calls
  PROVE  Slide(window, call.module) \in Seq({c.module : c \in Calls})
<1> DEFINE longer == Append(window, call.module)
<1>1. longer \in Seq({c.module : c \in Calls}) /\ Len(longer) = Len(window) + 1
  OBVIOUS
<1>2. Len(window) \in Nat
  OBVIOUS
<1>3. Len(longer) > Window => Tail(longer) \in Seq({c.module : c \in Calls})
  <2> HIDE DEF longer
  <2>1. longer # <<>>
    BY <1>1, <1>2
  <2> QED
    BY <1>1, <2>1
<1>4. Slide(window, call.module) = IF Len(longer) > Window THEN Tail(longer) ELSE longer
  BY DEF Slide
<1> HIDE DEF longer
<1> QED
  BY <1>1, <1>3, <1>4

(***************************************************************************)
(* The baseline of the decay, however the calls fall: it is as far from    *)
(* where the score began as the points taken off account for, and less     *)
(* than a point behind the last update.                                    *)
(***************************************************************************)
BaselineOK ==
  /\ lastPanicUpdateAt = 0 <=> scoredSince = 0
  /\ scoredSince = 0 => decayed = 0
  /\ lastPanicUpdateAt = scoredSince + DecayTime * decayed
  /\ lastPanicUpdateAt <= scoredAt /\ scoredAt < lastPanicUpdateAt + DecayTime
  /\ scoredAt <= clock

BaselineTyped == /\ lastPanicUpdateAt \in Nat /\ scoredSince \in Nat
                 /\ scoredAt \in Nat /\ decayed \in Nat /\ clock \in Nat

LEMMA BaselineCounts ==
  ASSUME BaselineTyped, BaselineOK
  PROVE  DecayKeepsTime
<1>1. DecayTime \in Nat \ {0}
  BY LeaseAssumption DEF Times
<1> DEFINE points == DecayTime * decayed
           time == scoredAt - scoredSince
<1>2. points \in Nat
  BY <1>1 DEF BaselineTyped
<1>3. lastPanicUpdateAt = scoredSince + points
  BY DEF BaselineOK
<1> HIDE DEF points
<1>4. time \in Nat /\ points <= time /\ time < points + DecayTime
  BY <1>1, <1>2, <1>3 DEF BaselineOK, BaselineTyped
<1> HIDE DEF time
<1>5. time \div DecayTime = decayed
  BY <1>1, <1>4, PointsAreUnique DEF points, BaselineTyped
<1> QED
  BY <1>5 DEF DecayKeepsTime, time

LEMMA DecayedTyped ==
  ASSUME BaselineTyped, BaselineOK, NEW now \in Nat, clock <= now
  PROVE  /\ Decayed(now) \in Nat /\ DecayPoints(now) \in Nat
         /\ Decayed(now) <= now /\ now < Decayed(now) + DecayTime
         /\ lastPanicUpdateAt = 0 => Decayed(now) = now /\ DecayPoints(now) = 0
         /\ lastPanicUpdateAt # 0 => /\ Decayed(now) >= lastPanicUpdateAt
                                     /\ Decayed(now) = scoredSince
                                          + DecayTime * (decayed + DecayPoints(now))
<1>1. DecayTime \in Nat \ {0}
  BY LeaseAssumption DEF Times
<1>2. CASE lastPanicUpdateAt = 0
  BY <1>1, <1>2 DEF Decayed, DecayPoints
<1>3. CASE lastPanicUpdateAt # 0
  <2> DEFINE time == now - lastPanicUpdateAt
             points == time \div DecayTime
             off == DecayTime * points
  <2>1. time \in Nat /\ now = lastPanicUpdateAt + time
    BY DEF BaselineTyped, BaselineOK
  <2>2. Decayed(now) = lastPanicUpdateAt + off /\ DecayPoints(now) = points
    BY <1>3 DEF Decayed, DecayPoints
  <2> HIDE DEF time
  <2>3. points \in Nat /\ off \in Nat /\ off <= time /\ time < off + DecayTime
    BY <1>1, <2>1, WholePoints
  <2> HIDE DEF points
  <2>4. DecayTime * (decayed + points) = DecayTime * decayed + off /\ DecayTime * decayed \in Nat
    BY <1>1, <2>3, PointsAdd DEF BaselineTyped
  <2> HIDE DEF off
  <2>5. DecayTime * (decayed + DecayPoints(now)) = DecayTime * decayed + off
    BY <2>2, <2>4
  <2>6. lastPanicUpdateAt = scoredSince + DecayTime * decayed
    BY DEF BaselineOK
  <2>7. Decayed(now) = scoredSince + DecayTime * (decayed + DecayPoints(now))
    BY <2>2, <2>3, <2>4, <2>5, <2>6 DEF BaselineTyped
  <2>8. /\ Decayed(now) \in Nat /\ Decayed(now) >= lastPanicUpdateAt
        /\ Decayed(now) <= now /\ now < Decayed(now) + DecayTime
    BY <1>1, <2>1, <2>2, <2>3 DEF BaselineTyped
  <2> QED
    BY <1>3, <2>2, <2>3, <2>7, <2>8
<1> QED
  BY <1>2, <1>3
-----------------------------------------------------------------------------
(* The invariant, in the two halves of the tracker *)

FreshOK ==
  /\ lastOrientAt \in Nat /\ graphVersionAtOrient \in Nat \cup {NoHash}
  /\ repoMovedSinceOrient \in BOOLEAN
  /\ cognitiveLoad \in Nat /\ freshnessState \in States
  /\ staleDepth \in IF freshnessState = "stale" THEN {DepthOf(cognitiveLoad), 3} ELSE {0}
  /\ lastGitCheckAt \in Nat /\ lastDensityPenaltyAt \in Nat /\ lastSwitchAt \in Nat
  /\ moduleAccessWindow \in Seq({c.module : c \in Calls})
  /\ lastModule \in Modules

ScoreOK ==
  /\ panicScore \in 0..ScoreMax /\ panicLevel \in 0..4
  /\ panicLevel >= Floor(staleDepth)
  /\ lastPanicUpdateAt \in Nat /\ panicRecoverySuppressionUntil \in Nat
  /\ recentOrientCount \in Nat /\ lastOrientResetAt \in Nat
  /\ scoredSince \in Nat /\ scoredAt \in Nat /\ decayed \in Nat /\ relieved \in Nat

(***************************************************************************)
(* What a series of rapid orient() calls took off, by its length so far.   *)
(***************************************************************************)
SeriesOK ==
  /\ Start <= clock /\ lastOrientResetAt <= clock
  /\ recentOrientCount = 0 => lastOrientResetAt = 0 /\ relieved = 0
  /\ recentOrientCount = 1 => relieved <= NormalRelief
  /\ relieved <= NormalRelief + RapidRelief

ClockOK == clock \in Nat /\ head \in Nat /\ steps \in 0..MaxSteps

LeaseIInv == ClockOK /\ FreshOK /\ ScoreOK /\ SeriesOK /\ BaselineOK

LEMMA InvariantBaseline == LeaseIInv => BaselineTyped
BY DEF LeaseIInv, ClockOK, ScoreOK, BaselineTyped

LEMMA DepthInRange == FreshOK => staleDepth \in 0..3
BY DepthTyped DEF FreshOK

LEMMA InvariantTyped == LeaseIInv => LeaseTypeOK /\ DepthMatches
<1> SUFFICES ASSUME LeaseIInv PROVE LeaseTypeOK /\ DepthMatches
  OBVIOUS
<1>1. staleDepth \in 0..3
  BY DepthInRange DEF LeaseIInv
<1>2. DepthMatches
  BY DEF LeaseIInv, FreshOK, ScoreOK, DepthMatches
<1>3. LeaseTypeOK
  BY <1>1, Zenon DEF LeaseIInv, ClockOK, FreshOK, ScoreOK, LeaseTypeOK, States, Modules
<1> QED
  BY <1>2, <1>3
-----------------------------------------------------------------------------
(* The steps *)

LEMMA ResetKeepsFresh ==
  ASSUME ClockOK, NEW now \in Nat, ResetTracker(now)
  PROVE  FreshOK' /\ staleDepth' = 0
<1>1. /\ cognitiveLoad' = 0 /\ freshnessState' = "fresh" /\ staleDepth' = 0
      /\ lastOrientAt' = now /\ lastGitCheckAt' = now
      /\ lastDensityPenaltyAt' = 0 /\ lastSwitchAt' = 0
      /\ graphVersionAtOrient' \in {head, NoHash}
      /\ lastModule' = NoModule
  BY DEF ResetTracker
<1>2. repoMovedSinceOrient' \in BOOLEAN
  BY DEF ResetTracker
<1>3. moduleAccessWindow' \in Seq({c.module : c \in Calls})
  BY DEF ResetTracker
<1> QED
  BY <1>1, <1>2, <1>3 DEF FreshOK, ClockOK, States, Modules

LEMMA DeepenKeepsFresh ==
  ASSUME FreshOK, NEW call \in Calls, NEW now \in Nat, UpdateTracker(call, now),
         freshnessState = "stale"
  PROVE  FreshOK' /\ freshnessState' = "stale" /\ staleDepth' >= staleDepth
<1>0. Deepen(call) /\ UNCHANGED <<lastOrientAt, graphVersionAtOrient>>
  BY DEF UpdateTracker
<1>1. moduleAccessWindow' \in Seq({c.module : c \in Calls})
  BY SlideTyped DEF UpdateTracker, FreshOK
<1>2. staleDepth \in {DepthOf(cognitiveLoad), 3} /\ DepthOf(cognitiveLoad) \in 1..3
  BY DepthTyped DEF FreshOK
<1>3. \/ staleDepth' = 3
      \/ staleDepth' = Larger(staleDepth, DepthOf(cognitiveLoad))
  BY <1>0 DEF Deepen
<1>4. staleDepth' \in {DepthOf(cognitiveLoad), 3} /\ staleDepth' >= staleDepth
  BY <1>2, <1>3 DEF Larger
<1>5. UNCHANGED <<cognitiveLoad, freshnessState, repoMovedSinceOrient, lastGitCheckAt, lastModule,
                  lastDensityPenaltyAt, lastSwitchAt>>
  BY <1>0 DEF Deepen
<1> QED
  BY <1>0, <1>1, <1>4, <1>5 DEF FreshOK

LEMMA ExpireKeepsFresh ==
  ASSUME FreshOK, NEW call \in Calls, NEW now \in Nat, UpdateTracker(call, now),
         freshnessState # "stale"
  PROVE  /\ FreshOK' /\ staleDepth = 0
         /\ freshnessState = "degraded" => freshnessState' # "fresh"
<1>0. /\ Charge(call, now) /\ LookAtHead(now) /\ Expire(now)
      /\ UNCHANGED <<lastOrientAt, graphVersionAtOrient>>
  BY DEF UpdateTracker
<1>1. moduleAccessWindow' \in Seq({c.module : c \in Calls})
  BY SlideTyped DEF UpdateTracker, FreshOK
<1>2. cognitiveLoad' \in Nat
  <2>1. /\ call.weight \in Nat /\ SwitchWeight \in Nat /\ BurstSpike \in Nat
        /\ DensityBonus \in Nat /\ cognitiveLoad \in Nat
    BY LeaseAssumption DEF FreshOK
  <2>2. \E a \in {SwitchWeight, 0} : \E b \in {0, BurstSpike, DensityBonus} :
          cognitiveLoad' = cognitiveLoad + call.weight + a + b
    BY <1>0 DEF Charge
  <2> QED
    BY <2>1, <2>2
<1>3. lastSwitchAt' \in Nat /\ lastDensityPenaltyAt' \in Nat /\ lastModule' \in Modules
  BY <1>0 DEF Charge, FreshOK, Modules
<1>4. lastGitCheckAt' \in Nat
  BY <1>0 DEF LookAtHead, FreshOK
<1>5. repoMovedSinceOrient' \in BOOLEAN
  BY <1>0 DEF LookAtHead
<1>6. staleDepth = 0
  BY DEF FreshOK
<1>7. \/ freshnessState' = "stale" /\ staleDepth' = DepthOf(cognitiveLoad')
      \/ freshnessState' \in {"degraded", freshnessState} /\ staleDepth' = staleDepth
  BY <1>0 DEF Expire
<1>8. freshnessState' \in States
  BY <1>7 DEF FreshOK, States
<1>9. staleDepth' \in IF freshnessState' = "stale" THEN {DepthOf(cognitiveLoad'), 3} ELSE {0}
  BY <1>6, <1>7
<1>10. lastOrientAt' \in Nat /\ graphVersionAtOrient' \in Nat \cup {NoHash}
  BY <1>0 DEF FreshOK
<1>11. freshnessState = "degraded" => freshnessState' # "fresh"
  BY <1>7
<1> QED
  BY <1>1, <1>2, <1>3, <1>4, <1>5, <1>6, <1>8, <1>9, <1>10, <1>11 DEF FreshOK, DepthOf

LEMMA UpdatePanicKeepsScore ==
  ASSUME LeaseIInv, NEW now \in Nat, clock <= now, FreshOK', UpdatePanic(now)
  PROVE  ScoreOK'
<1>1. staleDepth' \in 0..3
  BY DepthTyped DEF FreshOK
<1>2. DecayPoints(now) \in Nat /\ Decayed(now) \in Nat
  BY InvariantBaseline, DecayedTyped DEF LeaseIInv
<1>3. Upward(now) \in Int
  <2>1. \E a \in {TrajectoryDelta, 0} : \E b \in {OscillationDelta, 0} : \E c \in {StaleDelta, 0} :
          Upward(now) = 0 \/ Upward(now) = a + b + c
    BY DEF Upward
  <2> QED
    BY <2>1, LeaseAssumption
<1>4. Recovery \in Int
  BY LeaseAssumption DEF Recovery
<1>5. panicScore' \in 0..ScoreMax
  <2>1. panicScore - DecayPoints(now) + Upward(now) - Recovery \in Int
    BY <1>2, <1>3, <1>4, LeaseAssumption DEF LeaseIInv, ScoreOK
  <2> QED
    BY <2>1, ClampTyped DEF UpdatePanic, Scored
<1>6. panicLevel' \in 0..4 /\ panicLevel' >= Floor(staleDepth')
  BY <1>1, <1>5, HysteresisTyped DEF UpdatePanic, LeaseIInv, ScoreOK
<1>7. lastPanicUpdateAt' \in Nat /\ scoredSince' \in Nat /\ scoredAt' \in Nat /\ decayed' \in Nat
  BY <1>2 DEF UpdatePanic, LeaseIInv, ScoreOK
<1>8. UNCHANGED <<panicRecoverySuppressionUntil, recentOrientCount, lastOrientResetAt, relieved>>
  BY DEF UpdatePanic
<1> QED
  BY <1>5, <1>6, <1>7, <1>8 DEF ScoreOK, LeaseIInv

LEMMA UpdatePanicKeepsTime ==
  ASSUME LeaseIInv, NEW now \in Nat, clock <= now, clock' = now, now # 0, UpdatePanic(now)
  PROVE  BaselineOK'
<1>1. /\ lastPanicUpdateAt' = Decayed(now)
      /\ scoredSince' = IF scoredSince = 0 THEN now ELSE scoredSince
      /\ scoredAt' = now /\ decayed' = decayed + DecayPoints(now)
  BY DEF UpdatePanic
<1>2. /\ lastPanicUpdateAt = 0 <=> scoredSince = 0
      /\ scoredSince = 0 => decayed = 0
  BY DEF LeaseIInv, BaselineOK
<1>3. DecayTime \in Nat \ {0} /\ BaselineTyped
  BY LeaseAssumption, InvariantBaseline DEF Times
<1>4. /\ Decayed(now) <= now /\ now < Decayed(now) + DecayTime /\ Decayed(now) \in Nat
      /\ lastPanicUpdateAt = 0 => Decayed(now) = now /\ DecayPoints(now) = 0
      /\ lastPanicUpdateAt # 0 => /\ Decayed(now) >= lastPanicUpdateAt
                                  /\ Decayed(now) = scoredSince
                                       + DecayTime * (decayed + DecayPoints(now))
  BY <1>3, DecayedTyped DEF LeaseIInv
<1>5. lastPanicUpdateAt' <= scoredAt' /\ scoredAt' < lastPanicUpdateAt' + DecayTime
  BY <1>1, <1>4
<1>6. CASE lastPanicUpdateAt = 0
  <2>1. lastPanicUpdateAt' = now /\ scoredSince' = now /\ decayed' = 0
    BY <1>1, <1>2, <1>4, <1>6
  <2>2. DecayTime * decayed' = 0
    BY <1>3, <2>1
  <2> QED
    BY <1>1, <1>5, <2>1, <2>2 DEF BaselineOK
<1>7. CASE lastPanicUpdateAt # 0
  <2>1. scoredSince' = scoredSince /\ scoredSince # 0
    BY <1>1, <1>2, <1>7
  <2>2. lastPanicUpdateAt' # 0
    BY <1>1, <1>3, <1>4, <1>7 DEF BaselineTyped
  <2>3. lastPanicUpdateAt' = scoredSince' + DecayTime * decayed'
    BY <1>1, <1>4, <1>7, <2>1
  <2> QED
    BY <1>1, <1>5, <2>1, <2>2, <2>3 DEF BaselineOK
<1> QED
  BY <1>6, <1>7

LEMMA OrientKeepsScore ==
  ASSUME LeaseIInv, NEW now \in Nat, clock <= now, clock' = now, staleDepth' = 0,
         ResetPanicOnOrient(now)
  PROVE  ScoreOK' /\ SeriesOK' /\ BaselineOK'
<1> DEFINE rapid == now - lastOrientResetAt < RapidOrient
           count == IF rapid THEN recentOrientCount + 1 ELSE 1
           relief == Relief(count, rapid)
<1>0. /\ NormalRelief \in Nat /\ RapidRelief \in Nat /\ Refractory \in Nat
      /\ RapidOrient \in Nat /\ RapidOrient < Start /\ Start \in Nat
  BY LeaseAssumption DEF Times
<1>1. /\ recentOrientCount' = count /\ lastOrientResetAt' = now
      /\ panicScore' = Clamp(panicScore - relief)
      /\ panicLevel' = Hysteresis(panicLevel, panicScore', 0)
      /\ panicRecoverySuppressionUntil' \in {now + Refractory, panicRecoverySuppressionUntil}
      /\ relieved' = IF rapid THEN relieved + relief ELSE relief
      /\ UNCHANGED <<lastPanicUpdateAt, scoredSince, scoredAt, decayed>>
  BY DEF ResetPanicOnOrient
<1>2. /\ recentOrientCount \in Nat /\ lastOrientResetAt \in Nat /\ relieved \in Nat
      /\ clock \in Nat /\ Start <= clock
  BY DEF LeaseIInv, ClockOK, ScoreOK, SeriesOK
<1>3. /\ recentOrientCount = 0 => lastOrientResetAt = 0
      /\ recentOrientCount = 1 => relieved <= NormalRelief
      /\ relieved <= NormalRelief + RapidRelief
  BY DEF LeaseIInv, SeriesOK
<1>4. count \in Nat \ {0}
  BY <1>2
<1>5. /\ relief \in Nat
      /\ ~rapid => count = 1 /\ relief = NormalRelief
      /\ rapid => /\ count >= 2
                  /\ relief = IF count >= 3 THEN 0 ELSE RapidRelief
                  /\ count = 2 => relieved <= NormalRelief
  <2>1. rapid => recentOrientCount # 0
    BY <1>0, <1>2, <1>3
  <2>2. ~rapid => count = 1
    OBVIOUS
  <2>3. rapid => count = recentOrientCount + 1 /\ count >= 2
    BY <1>2, <2>1
  <2>4. relief = IF count >= 3 THEN 0 ELSE IF rapid THEN RapidRelief ELSE NormalRelief
    BY DEF Relief
  <2>5. rapid /\ count = 2 => relieved <= NormalRelief
    BY <1>2, <1>3, <2>3
  <2> HIDE DEF rapid, count, relief
  <2> QED
    BY <1>0, <2>2, <2>3, <2>4, <2>5
<1> HIDE DEF rapid, count, relief
<1>6. relieved' \in Nat /\ relieved' <= NormalRelief + RapidRelief
  <2>1. CASE ~rapid
    BY <1>0, <1>1, <1>5, <2>1
  <2>2. CASE rapid
    <3>1. relief = 0 \/ (relief = RapidRelief /\ relieved <= NormalRelief)
      BY <1>4, <1>5, <2>2
    <3> QED
      BY <1>0, <1>1, <1>2, <1>3, <2>2, <3>1
  <2> QED
    BY <2>1, <2>2
<1>7. count = 1 => relieved' <= NormalRelief
  <2>1. count = 1 => ~rapid
    BY <1>5
  <2> QED
    BY <1>0, <1>1, <1>5, <2>1
<1>8. SeriesOK'
  <2>1. Start <= clock' /\ lastOrientResetAt' <= clock' /\ recentOrientCount' # 0
    BY <1>0, <1>1, <1>2, <1>4
  <2> QED
    BY <1>1, <1>6, <1>7, <2>1 DEF SeriesOK
<1>9. panicScore' \in 0..ScoreMax
  <2>1. panicScore - relief \in Int
    BY <1>5, LeaseAssumption DEF LeaseIInv, ScoreOK
  <2> QED
    BY <1>1, <2>1, ClampTyped
<1>10. panicLevel' \in 0..4 /\ panicLevel' >= Floor(staleDepth')
  BY <1>1, <1>9, HysteresisTyped DEF LeaseIInv, ScoreOK
<1>11. ScoreOK'
  BY <1>0, <1>1, <1>4, <1>6, <1>9, <1>10 DEF ScoreOK, LeaseIInv
<1>12. BaselineOK'
  <2>1. scoredAt' <= clock'
    BY <1>1, <1>2 DEF LeaseIInv, ScoreOK, BaselineOK
  <2> QED
    BY <1>1, <2>1 DEF LeaseIInv, BaselineOK
<1> QED
  BY <1>8, <1>11, <1>12

(***************************************************************************)
(* Every step keeps the invariant, and what it may never undo.             *)
(***************************************************************************)
Kept == /\ Rank[freshnessState'] >= Rank[freshnessState]
        /\ staleDepth' >= staleDepth

LEMMA ToolCallKeeps ==
  ASSUME LeaseIInv, NEW call \in Calls, NEW gap \in Gaps, ToolCall(call, gap)
  PROVE  LeaseIInv' /\ Kept
<1> DEFINE now == clock + gap
<1>1. /\ now \in Nat /\ clock <= now /\ now # 0 /\ clock' = now
      /\ clock \in Nat /\ Start <= now
  BY LeaseAssumption DEF ToolCall, Later, LeaseIInv, ClockOK, SeriesOK, Times
<1>2. UpdateTracker(call, now) /\ UpdatePanic(now)
  BY DEF ToolCall
<1>3. ClockOK'
  BY <1>1, LeaseAssumption DEF ToolCall, Later, LeaseIInv, ClockOK
<1> HIDE DEF now
<1>4. FreshOK' /\ Kept
  <2>1. CASE freshnessState = "stale"
    <3>1. FreshOK' /\ freshnessState' = "stale" /\ staleDepth' >= staleDepth
      BY <1>1, <1>2, <2>1, DeepenKeepsFresh DEF LeaseIInv
    <3> QED
      BY <2>1, <3>1 DEF Kept, Rank
  <2>2. CASE freshnessState # "stale"
    <3>1. /\ FreshOK' /\ staleDepth = 0
          /\ freshnessState = "degraded" => freshnessState' # "fresh"
      BY <1>1, <1>2, <2>2, ExpireKeepsFresh DEF LeaseIInv
    <3>2. staleDepth' >= staleDepth
      BY <3>1, DepthTyped DEF FreshOK
    <3>3. freshnessState \in States /\ freshnessState' \in States
      BY <3>1 DEF FreshOK, LeaseIInv
    <3> QED
      BY <2>2, <3>1, <3>2, <3>3 DEF Kept, Rank, States
  <2> QED
    BY <2>1, <2>2
<1>5. ScoreOK' /\ BaselineOK'
  BY <1>1, <1>2, <1>4, UpdatePanicKeepsScore, UpdatePanicKeepsTime
<1>6. SeriesOK'
  <2>1. UNCHANGED <<recentOrientCount, lastOrientResetAt, relieved>>
    BY <1>2 DEF UpdatePanic
  <2> QED
    BY <1>1, <2>1, LeaseAssumption DEF SeriesOK, LeaseIInv, ScoreOK
<1> QED
  BY <1>3, <1>4, <1>5, <1>6 DEF LeaseIInv

LEMMA OrientKeeps ==
  ASSUME LeaseIInv, NEW gap \in Gaps, Orient(gap)
  PROVE  /\ LeaseIInv'
         /\ lastOrientResetAt' # lastOrientResetAt \/ recentOrientCount' # recentOrientCount
<1> DEFINE now == clock + gap
<1>1. now \in Nat /\ clock <= now /\ clock' = now
  BY LeaseAssumption DEF Orient, Later, LeaseIInv, ClockOK
<1>2. ResetTracker(now) /\ ResetPanicOnOrient(now)
  BY DEF Orient
<1>3. ClockOK'
  BY <1>1, LeaseAssumption DEF Orient, Later, LeaseIInv, ClockOK
<1> HIDE DEF now
<1>4. FreshOK' /\ staleDepth' = 0
  BY <1>1, <1>2, ResetKeepsFresh DEF LeaseIInv
<1>5. ScoreOK' /\ SeriesOK' /\ BaselineOK'
  BY <1>1, <1>2, <1>4, OrientKeepsScore
<1>6. /\ lastOrientResetAt' = now
      /\ now - lastOrientResetAt < RapidOrient => recentOrientCount' = recentOrientCount + 1
  BY <1>2 DEF ResetPanicOnOrient
<1>7. lastOrientResetAt' # lastOrientResetAt \/ recentOrientCount' # recentOrientCount
  <2>1. RapidOrient \in Nat \ {0} /\ lastOrientResetAt \in Nat /\ recentOrientCount \in Nat
    BY LeaseAssumption DEF Times, LeaseIInv, ScoreOK
  <2> QED
    BY <1>1, <1>6, <2>1
<1> QED
  BY <1>3, <1>4, <1>5, <1>7 DEF LeaseIInv

LEMMA LeaseStep ==
  ASSUME LeaseIInv, [LeaseNext]_leaseVars
  PROVE  /\ LeaseIInv'
         /\ \/ lastOrientResetAt' # lastOrientResetAt \/ recentOrientCount' # recentOrientCount
            \/ Kept
<1>1. ASSUME NEW gap \in Gaps, Orient(gap)
      PROVE  /\ LeaseIInv'
             /\ lastOrientResetAt' # lastOrientResetAt \/ recentOrientCount' # recentOrientCount
  BY <1>1, OrientKeeps
<1>2. ASSUME NEW gap \in Gaps, NEW call \in Calls, ToolCall(call, gap)
      PROVE  LeaseIInv' /\ Kept
  BY <1>2, ToolCallKeeps
<1>3. ASSUME UNCHANGED <<freshVars, panicVars, clock>>, ClockOK'
      PROVE  LeaseIInv' /\ Kept
  <2>1. FreshOK'
    BY <1>3 DEF LeaseIInv, FreshOK, freshVars, DepthOf
  <2>2. ScoreOK' /\ SeriesOK' /\ BaselineOK'
    BY <1>3 DEF LeaseIInv, ScoreOK, SeriesOK, BaselineOK, Floor, freshVars, panicVars
  <2>3. freshnessState' = freshnessState /\ staleDepth' = staleDepth
    BY <1>3 DEF freshVars
  <2>4. staleDepth \in 0..3 /\ freshnessState \in States
    BY DepthInRange DEF LeaseIInv, FreshOK
  <2> QED
    BY <1>3, <2>1, <2>2, <2>3, <2>4 DEF LeaseIInv, Kept, Rank, States
<1>4. CASE Commit
  <2>1. ClockOK'
    BY <1>4, LeaseAssumption DEF Commit, LeaseIInv, ClockOK
  <2> QED
    BY <1>3, <1>4, <2>1 DEF Commit
<1>5. CASE UNCHANGED leaseVars
  <2>1. ClockOK'
    BY <1>5 DEF leaseVars, LeaseIInv, ClockOK
  <2> QED
    BY <1>3, <1>5, <2>1 DEF leaseVars
<1> QED
  BY <1>1, <1>2, <1>4, <1>5 DEF LeaseNext

LEMMA LeaseInvariant == LeaseSpec => []LeaseIInv
<1>1. LeaseInit => LeaseIInv
  <2> SUFFICES ASSUME LeaseInit PROVE LeaseIInv
    OBVIOUS
  <2> USE LeaseAssumption DEF LeaseInit
  <2>1. ClockOK /\ SeriesOK
    BY DEF ClockOK, SeriesOK
  <2>2. FreshOK
    <3>1. repoMovedSinceOrient \in BOOLEAN
      OBVIOUS
    <3>2. moduleAccessWindow \in Seq({c.module : c \in Calls}) /\ lastModule \in Modules
      BY DEF Modules
    <3>3. /\ lastOrientAt \in Nat /\ graphVersionAtOrient \in Nat \cup {NoHash}
          /\ cognitiveLoad \in Nat /\ freshnessState = "fresh" /\ staleDepth = 0
          /\ lastGitCheckAt \in Nat /\ lastDensityPenaltyAt \in Nat /\ lastSwitchAt \in Nat
      OBVIOUS
    <3> QED
      BY <3>1, <3>2, <3>3 DEF FreshOK, States
  <2>3. ScoreOK
    BY DEF ScoreOK, Floor
  <2>4. BaselineOK
    <3>1. DecayTime \in Nat \ {0} /\ DecayTime * 0 = 0
      BY DEF Times
    <3> QED
      BY <3>1 DEF BaselineOK
  <2> QED
    BY <2>1, <2>2, <2>3, <2>4 DEF LeaseIInv
<1>2. LeaseIInv /\ [LeaseNext]_leaseVars => LeaseIInv'
  BY LeaseStep
<1> QED
  BY <1>1, <1>2, PTL DEF LeaseSpec
-----------------------------------------------------------------------------
(* The theorems *)

(***************************************************************************)
(* Every reachable state is well typed; the score keeps within its bounds. *)
(***************************************************************************)
THEOREM LeaseTypeCorrect == LeaseSpec => []LeaseTypeOK
BY InvariantTyped, LeaseInvariant, PTL

(***************************************************************************)
(* The stale depth is what the load came to, or three, exactly when the    *)
(* lease is stale, and the panic level never falls below its floor.        *)
(***************************************************************************)
THEOREM DepthCorrect == LeaseSpec => []DepthMatches
BY InvariantTyped, LeaseInvariant, PTL

(***************************************************************************)
(* However often and whenever a tool is called, the points taken off are   *)
(* the whole time the score has run, rounded down once.                    *)
(***************************************************************************)
THEOREM DecayCorrect == LeaseSpec => []DecayKeepsTime
<1>1. LeaseIInv => DecayKeepsTime
  BY InvariantBaseline, BaselineCounts DEF LeaseIInv
<1> QED
  BY <1>1, LeaseInvariant, PTL

(***************************************************************************)
(* A series of rapid orient() calls of any length takes off a bounded      *)
(* amount of panic.                                                        *)
(***************************************************************************)
THEOREM SpamCorrect == LeaseSpec => []SpamIsBounded
<1>1. LeaseIInv => SpamIsBounded
  BY DEF LeaseIInv, SeriesOK, SpamIsBounded
<1> QED
  BY <1>1, LeaseInvariant, PTL

(***************************************************************************)
(* Only orient() makes the lease fresher or the depth smaller.             *)
(***************************************************************************)
THEOREM WorsensCorrect == LeaseSpec => OnlyWorsens
<1>1. LeaseIInv /\ [LeaseNext]_leaseVars =>
        [\/ lastOrientResetAt' # lastOrientResetAt \/ recentOrientCount' # recentOrientCount
         \/ /\ Rank[freshnessState'] >= Rank[freshnessState]
            /\ staleDepth' >= staleDepth]_leaseVars
  BY LeaseStep DEF Kept
<1> QED
  BY <1>1, LeaseInvariant, PTL DEF LeaseSpec, OnlyWorsens
=============================================================================
