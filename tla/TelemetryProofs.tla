--------------------------- MODULE TelemetryProofs ---------------------------
(***************************************************************************)
(* Proofs about what a call is measured at and what is made of it: of      *)
(* LlmAdapter, for any threads, tools, requests and retries, and of        *)
(* Granularity, for every telemetry, hysteresis window, backoff base and   *)
(* sweep of levels.  What Granularity's signals are computed from does not *)
(* matter: the results are about what decide() does with them.             *)
(***************************************************************************)
EXTENDS Granularity, LlmAdapter, RecursionLemmas

Cap == 3 * W

(* Three windows are more than none.                                         *)
LEMMA CapType == W \in Nat /\ W > 0 /\ Cap \in Nat /\ W <= Cap /\ Cap > 0
BY GranularityAssumption DEF Cap

-----------------------------------------------------------------------------
(* A window that has records keeps some (WindowedCollector.add).             *)
LEMMA ObservedType ==
    ASSUME NEW win \in Seq(Records), NEW recs \in Seq(Records)
    PROVE  /\ Observed(win, recs) \in Seq(Records)
           /\ win # <<>> => Observed(win, recs) # <<>>
<1> DEFINE all == win \o recs
           m == IF Len(all) > W THEN Len(all) - W + 1 ELSE 1
<1>1. all \in Seq(Records) /\ Len(all) = Len(win) + Len(recs)
    OBVIOUS
<1>2. Len(all) \in Nat /\ m \in 1 .. Len(all) + 1 /\ (Len(all) > 0 => m <= Len(all))
    BY <1>1, CapType
<1>3. win # <<>> => Len(win) > 0
    OBVIOUS
<1>4. Len(win) \in Nat /\ Len(recs) \in Nat
    OBVIOUS
<1>5. Observed(win, recs) = SubSeq(all, m, Len(all))
    BY DEF Observed
<1> HIDE DEF all, m
<1>6. \A i \in m .. Len(all) : all[i] \in Records
    <2> TAKE i \in m .. Len(all)
    <2>1. i \in 1 .. Len(all)
        BY <1>2
    <2> QED
        BY <1>1, <2>1, ElementOfSeq
<1>7. m \in Int /\ Len(all) \in Int
    BY <1>2
<1>8. /\ SubSeq(all, m, Len(all)) \in Seq(Records)
      /\ Len(SubSeq(all, m, Len(all))) = IF m <= Len(all) THEN Len(all) - m + 1 ELSE 0
    BY <1>2, <1>6, <1>7, SubSeqProperties
<1>9. ASSUME win # <<>> PROVE SubSeq(all, m, Len(all)) # <<>>
    <2>1. Len(all) > 0
        BY <1>1, <1>3, <1>4, <1>9
    <2>2. Len(SubSeq(all, m, Len(all))) # 0
        BY <1>2, <1>7, <1>8, <2>1
    <2>3. Len(<<>>) = 0
        OBVIOUS
    <2> QED
        BY <2>2, <2>3, Zenon
<1> QED
    BY <1>5, <1>8, <1>9

LEMMA MeasuredType ==
    ASSUME NEW level \in ToSet(Levels), NEW recs \in Measured(level)
    PROVE  recs \in Seq(Records)
<1>1. PICK n \in 0 .. Calls[level] : recs \in [1 .. n -> Records]
    BY DEF Measured
<1>2. n \in Nat
    BY GranularityAssumption
<1> QED
    BY <1>1, <1>2

(* decide() finds one of the three directions.                               *)
LEMMA FoundType ==
    ASSUME NEW win, NEW t
    PROVE  Found(win, t) \in Actions
BY DEF Found, Actions

(* A flip never asks for less than one decision, nor for more than the cap.  *)
LEMMA BackoffType ==
    ASSUME NEW n \in 0 .. MaxFlips
    PROVE  Least(W * BackoffBase ^ (n + 1), Cap) \in 1 .. Cap
<1>1. PICK x \in Nat \ {0} : x = BackoffBase ^ (n + 1)
    BY GranularityAssumption
<1>2. W * x \in Nat /\ W * x >= 1
    <2>1. W \in Nat /\ W >= 1 /\ x >= 1
        BY CapType
    <2> QED
        BY <2>1
<1> QED
    BY <1>1, <1>2, CapType DEF Least

-----------------------------------------------------------------------------
\* The types of the controller's state.
ControlType ==
    /\ window \in Seq(Records)
    /\ composeStreak \in Nat /\ decomposeStreak \in Nat
    /\ changes \in 0 .. MaxFlips
    /\ lastAction \in Actions
    /\ held \in [dir : Actions, count : 0 .. Cap]
    /\ since \in 0 .. Cap

\* The streak of the direction that is found is as long as the direction has
\* been found, or as the last action is ago; the other streak is empty.
StreakCounts ==
    /\ held.dir = "COMPOSE" => composeStreak = Least(held.count, since)
    /\ held.dir = "DECOMPOSE" => decomposeStreak = Least(held.count, since)
    /\ held.dir # "COMPOSE" => composeStreak = 0
    /\ held.dir # "DECOMPOSE" => decomposeStreak = 0

\* A streak that reaches what its direction requires has led to an action.
StreaksRequired ==
    /\ composeStreak < Required("COMPOSE")
    /\ decomposeStreak < Required("DECOMPOSE")

\* A direction other than that of the last action has been found only since.
TurnsAreRecent ==
    /\ lastAction = "MAINTAIN" => since = Cap
    /\ lastAction # "MAINTAIN" /\ held.dir # lastAction => held.count <= since

\* No decision with data, no action.
ActsOnData == window = <<>> => since = Cap

HysteresisInv ==
    /\ ControlType
    /\ StreakCounts
    /\ StreaksRequired
    /\ TurnsAreRecent
    /\ ActsOnData

(* What _required_streak asks for is between one decision and the cap.       *)
LEMMA RequiredType ==
    ASSUME ControlType, NEW a
    PROVE  Required(a) \in 1 .. Cap
<1>1. Least(W * BackoffBase ^ (changes + 1), Cap) \in 1 .. Cap
    <2>1. PICK n \in 0 .. MaxFlips : n = changes
        BY DEF ControlType
    <2> QED
        BY <2>1, BackoffType
<1>2. Required(a) = IF ~IsFlip(a) THEN W ELSE Least(W * BackoffBase ^ (changes + 1), Cap)
    <2>1. W * 3 = Cap
        BY CapType DEF Cap
    <2> QED
        BY <2>1 DEF Required
<1> QED
    BY <1>1, <1>2, CapType

-----------------------------------------------------------------------------
(* One decision with data that does not act: the found direction's streak    *)
(* grows, with held and since, and stays below what is required.             *)
LEMMA DecideWaits ==
    ASSUME HysteresisInv, NEW found \in Actions, Decide(found), lastAction' = lastAction,
           changes' = changes, since' = Least(since + 1, Cap),
           window' \in Seq(Records), window' # <<>>,
           composeStreak' = IF found = "COMPOSE" THEN composeStreak + 1 ELSE 0,
           decomposeStreak' = IF found = "DECOMPOSE" THEN decomposeStreak + 1 ELSE 0,
           found = "COMPOSE" => composeStreak' < Required("COMPOSE"),
           found = "DECOMPOSE" => decomposeStreak' < Required("DECOMPOSE")
    PROVE  HysteresisInv'
<1>1. /\ Cap \in Nat /\ Cap > 0
      /\ Required("COMPOSE") \in 1 .. Cap /\ Required("DECOMPOSE") \in 1 .. Cap
    BY CapType, RequiredType DEF HysteresisInv
<1>2. /\ Required("COMPOSE")' = Required("COMPOSE")
      /\ Required("DECOMPOSE")' = Required("DECOMPOSE")
    BY DEF Required, IsFlip
<1>3. held' = [dir |-> found, count |-> IF found = held.dir
                                        THEN Least(held.count + 1, Cap) ELSE 1]
    BY DEF Decide, Cap
<1>4. held'.dir = found /\ held'.count = IF found = held.dir
                                         THEN Least(held.count + 1, Cap) ELSE 1
    BY <1>3
<1>5. /\ held.dir \in Actions /\ held.count \in 0 .. Cap /\ since \in 0 .. Cap
      /\ composeStreak \in Nat /\ decomposeStreak \in Nat
    BY DEF HysteresisInv, ControlType
<1>6. held' \in [dir : Actions, count : 0 .. Cap]
    BY <1>1, <1>3, <1>5 DEF Least
<1>7. since' \in 0 .. Cap /\ since' > 0 /\ (since = Cap => since' = Cap)
    BY <1>1, <1>5 DEF Least
<1>8. ControlType'
    BY <1>5, <1>6, <1>7 DEF HysteresisInv, ControlType
<1>9. StreaksRequired'
    BY <1>1, <1>2 DEF StreaksRequired
<1>10. StreakCounts'
    <2>1. CASE found = "COMPOSE"
        <3>1. composeStreak' < Cap
            BY <1>1, <1>5, <2>1
        <3>2. composeStreak' = Least(held'.count, since')
            <4>1. CASE held.dir = "COMPOSE"
                BY <1>1, <1>4, <1>5, <2>1, <3>1, <4>1
                   DEF HysteresisInv, StreakCounts, Least
            <4>2. CASE held.dir # "COMPOSE"
                BY <1>1, <1>4, <1>5, <1>7, <2>1, <4>2
                   DEF HysteresisInv, StreakCounts, Least
            <4> QED
                BY <4>1, <4>2
        <3> QED
            BY <1>4, <2>1, <3>2 DEF StreakCounts
    <2>2. CASE found = "DECOMPOSE"
        <3>1. decomposeStreak' < Cap
            BY <1>1, <1>5, <2>2
        <3>2. decomposeStreak' = Least(held'.count, since')
            <4>1. CASE held.dir = "DECOMPOSE"
                BY <1>1, <1>4, <1>5, <2>2, <3>1, <4>1
                   DEF HysteresisInv, StreakCounts, Least
            <4>2. CASE held.dir # "DECOMPOSE"
                BY <1>1, <1>4, <1>5, <1>7, <2>2, <4>2
                   DEF HysteresisInv, StreakCounts, Least
            <4> QED
                BY <4>1, <4>2
        <3> QED
            BY <1>4, <2>2, <3>2 DEF StreakCounts
    <2>3. CASE found = "MAINTAIN"
        BY <1>4, <2>3 DEF StreakCounts
    <2> QED
        BY <2>1, <2>2, <2>3 DEF Actions
<1>11. TurnsAreRecent'
    <2>1. lastAction' = "MAINTAIN" => since' = Cap
        BY <1>7 DEF HysteresisInv, TurnsAreRecent
    <2>2. ASSUME lastAction # "MAINTAIN", found # lastAction
          PROVE  held'.count <= since'
        <3>1. CASE found = held.dir
            BY <1>1, <1>4, <1>5, <2>2, <3>1 DEF HysteresisInv, TurnsAreRecent, Least
        <3>2. CASE found # held.dir
            BY <1>4, <1>7, <3>2
        <3> QED
            BY <3>1, <3>2
    <2> QED
        BY <1>4, <2>1, <2>2 DEF TurnsAreRecent
<1>12. ActsOnData'
    BY DEF ActsOnData
<1> QED
    BY <1>8, <1>9, <1>10, <1>11, <1>12 DEF HysteresisInv

(* One that acts: both streaks start again.                                  *)
LEMMA DecideActs ==
    ASSUME HysteresisInv, NEW found \in {"COMPOSE", "DECOMPOSE"}, Decide(found),
           changes < MaxFlips, lastAction' = found, since' = 0,
           changes' = IF IsFlip(found) THEN changes + 1 ELSE changes,
           window' \in Seq(Records), window' # <<>>,
           composeStreak' = 0, decomposeStreak' = 0
    PROVE  HysteresisInv'
<1>1. Cap \in Nat /\ Cap > 0
    BY CapType
<1>2. held' = [dir |-> found, count |-> IF found = held.dir
                                        THEN Least(held.count + 1, Cap) ELSE 1]
    BY DEF Decide, Cap
<1>3. held.count \in 0 .. Cap /\ changes \in 0 .. MaxFlips /\ MaxFlips \in Nat
    BY GranularityAssumption DEF HysteresisInv, ControlType
<1>4. held' \in [dir : Actions, count : 0 .. Cap] /\ held'.dir = found
    BY <1>1, <1>2, <1>3 DEF Least, Actions
<1>5. changes' \in 0 .. MaxFlips
    BY <1>3
<1>6. ControlType'
    BY <1>1, <1>4, <1>5 DEF ControlType, Actions
<1>7. Required("COMPOSE")' \in 1 .. Cap /\ Required("DECOMPOSE")' \in 1 .. Cap
    <2>1. PICK n \in 0 .. MaxFlips : n = changes'
        BY <1>5
    <2>2. Least(W * BackoffBase ^ (n + 1), Cap) \in 1 .. Cap
        BY BackoffType
    <2>3. W * 3 = Cap /\ W \in 1 .. Cap
        BY CapType DEF Cap
    <2> QED
        BY <2>1, <2>2, <2>3 DEF Required
<1>8. StreaksRequired'
    BY <1>1, <1>7 DEF StreaksRequired
<1>9. StreakCounts'
    <2>1. held'.count \in Nat
        BY <1>1, <1>4
    <2>2. Least(held'.count, 0) = 0
        BY <2>1 DEF Least
    <2> QED
        BY <2>2 DEF StreakCounts
<1>10. TurnsAreRecent' /\ ActsOnData'
    BY <1>4 DEF TurnsAreRecent, ActsOnData
<1> QED
    BY <1>6, <1>8, <1>9, <1>10 DEF HysteresisInv

(* What a decision does, in terms of the two.                                *)
LEMMA DecideOutcomes ==
    ASSUME HysteresisInv, NEW found \in Actions, Decide(found), changes < MaxFlips
    PROVE  \/ /\ lastAction' = lastAction /\ changes' = changes
              /\ since' = Least(since + 1, Cap)
              /\ composeStreak' = IF found = "COMPOSE" THEN composeStreak + 1 ELSE 0
              /\ decomposeStreak' = IF found = "DECOMPOSE" THEN decomposeStreak + 1 ELSE 0
              /\ found = "COMPOSE" => composeStreak' < Required("COMPOSE")
              /\ found = "DECOMPOSE" => decomposeStreak' < Required("DECOMPOSE")
           \/ /\ found \in {"COMPOSE", "DECOMPOSE"}
              /\ lastAction' = found /\ since' = 0
              /\ changes' = IF IsFlip(found) THEN changes + 1 ELSE changes
              /\ composeStreak' = 0 /\ decomposeStreak' = 0
              /\ found = "COMPOSE" => composeStreak + 1 >= Required("COMPOSE")
              /\ found = "DECOMPOSE" => decomposeStreak + 1 >= Required("DECOMPOSE")
<1> DEFINE compose   == IF found = "COMPOSE" THEN composeStreak + 1 ELSE 0
           decompose == IF found = "DECOMPOSE" THEN decomposeStreak + 1 ELSE 0
           fires     == \/ found = "COMPOSE"   /\ compose   >= Required("COMPOSE")
                        \/ found = "DECOMPOSE" /\ decompose >= Required("DECOMPOSE")
<1>1. /\ composeStreak' = After(compose, fires)
      /\ decomposeStreak' = After(decompose, fires)
      /\ changes' = IF fires /\ IsFlip(found) THEN changes + 1 ELSE changes
      /\ lastAction' = IF fires THEN found ELSE lastAction
      /\ since' = IF fires THEN 0 ELSE Least(since + 1, Cap)
    BY Zenon DEF Decide, Cap
<1>2. /\ Required("COMPOSE") \in Int /\ Required("DECOMPOSE") \in Int
      /\ composeStreak \in Nat /\ decomposeStreak \in Nat
    BY CapType, RequiredType DEF HysteresisInv, ControlType
<1>3. CASE fires
    BY <1>1, <1>3 DEF After
<1>4. CASE ~fires
    BY <1>1, <1>2, <1>4 DEF After
<1> QED
    BY <1>3, <1>4

(* Observing and deciding, as one step of a run.                             *)
LEMMA ObserveAndDecideKeeps ==
    ASSUME HysteresisInv, NEW recs \in Seq(Records), ObserveAndDecide(recs),
           changes < MaxFlips
    PROVE  HysteresisInv'
<1> DEFINE win == Observed(window, recs)
<1>1. win \in Seq(Records) /\ (window # <<>> => win # <<>>)
    BY ObservedType DEF HysteresisInv, ControlType
<1>2. window' = win
    BY DEF ObserveAndDecide
<1> HIDE DEF win
<1>3. CASE win = <<>>
    <2>1. DecideNothing /\ window = <<>>
        BY <1>1, <1>3 DEF ObserveAndDecide, win
    <2> QED
        BY <1>1, <1>2, <2>1
           DEF DecideNothing, HysteresisInv, ControlType, StreakCounts, StreaksRequired,
               TurnsAreRecent, ActsOnData, Required, IsFlip
<1>4. CASE win # <<>>
    <2>1. PICK found \in Actions : found = Found(win, thresholds)
        BY FoundType
    <2>2. Decide(found)
        BY <1>4, <2>1 DEF ObserveAndDecide, win
    <2> QED
        BY <1>1, <1>2, <1>4, <2>2, DecideOutcomes, DecideWaits, DecideActs
<1> QED
    BY <1>3, <1>4

-----------------------------------------------------------------------------
LEMMA FreshHolds ==
    ASSUME Fresh
    PROVE  HysteresisInv
<1>1. /\ window = <<>> /\ composeStreak = 0 /\ decomposeStreak = 0
      /\ changes = 0 /\ lastAction = "MAINTAIN"
      /\ held = [dir |-> "MAINTAIN", count |-> 0] /\ since = Cap
    BY DEF Fresh, Cap
<1>2. MaxFlips \in Nat /\ W > 0 /\ W \in Nat /\ Cap \in Nat
    BY GranularityAssumption, CapType
<1>3. held.dir = "MAINTAIN" /\ held \in [dir : Actions, count : 0 .. Cap]
    BY <1>1, <1>2 DEF Actions
<1>4. ControlType
    BY <1>1, <1>2, <1>3 DEF ControlType, Actions
<1>5. Required("COMPOSE") = W /\ Required("DECOMPOSE") = W
    BY <1>1 DEF Required, IsFlip
<1> QED
    BY <1>1, <1>2, <1>3, <1>4, <1>5
       DEF HysteresisInv, StreakCounts, StreaksRequired, TurnsAreRecent, ActsOnData

(* reset() and a new controller start from the same state.                   *)
LEMMA RenewedHolds ==
    ASSUME Renewed
    PROVE  HysteresisInv'
<1>1. /\ window' = <<>> /\ composeStreak' = 0 /\ decomposeStreak' = 0
      /\ changes' = 0 /\ lastAction' = "MAINTAIN"
      /\ held' = [dir |-> "MAINTAIN", count |-> 0] /\ since' = Cap
    BY DEF Renewed, Cap
<1>2. MaxFlips \in Nat /\ W > 0 /\ W \in Nat /\ Cap \in Nat
    BY GranularityAssumption, CapType
<1>3. held'.dir = "MAINTAIN" /\ held' \in [dir : Actions, count : 0 .. Cap]
    BY <1>1, <1>2 DEF Actions
<1>4. ControlType'
    BY <1>1, <1>2, <1>3 DEF ControlType, Actions
<1>5. Required("COMPOSE")' = W /\ Required("DECOMPOSE")' = W
    BY <1>1 DEF Required, IsFlip
<1> QED
    BY <1>1, <1>2, <1>3, <1>4, <1>5
       DEF HysteresisInv, StreakCounts, StreaksRequired, TurnsAreRecent, ActsOnData

\* A profiler's run goes through the levels of the sweep.
ProfileInv ==
    profile = None \/ \E todo \in Seq(ToSet(Levels)) : \E entries :
                          profile = [left |-> todo, entries |-> entries]

ControllerInv == HysteresisInv /\ ProfileInv

(* A step is a run or a level of a profile that decides, one that raises     *)
(* before it decides, one that leaves the controller alone, or a reset.      *)
LEMMA StepKinds ==
    ASSUME ControllerInv, [Next]_vars
    PROVE  /\ \/ \E recs \in Seq(Records) : ObserveAndDecide(recs) /\ changes < MaxFlips
              \/ /\ UNCHANGED control
                 /\ \/ window' = window
                    \/ \E recs \in Seq(Records) : window' = Observed(window, recs)
              \/ Renewed
           /\ ProfileInv'
<1>1. ASSUME NEW level \in ToSet(Levels), NEW recs \in Measured(level),
             Run(recs) \/ FailedRun(recs)
      PROVE  /\ recs \in Seq(Records)
             /\ \/ ObserveAndDecide(recs) /\ changes < MaxFlips
                \/ UNCHANGED control /\ window' = Observed(window, recs)
             /\ profile' = profile
    <2>1. recs \in Seq(Records)
        BY MeasuredType
    <2> QED
        BY <1>1, <2>1 DEF Run, FailedRun
<1>2. ASSUME profile # None, profile.left # <<>>,
             NEW recs \in Measured(Head(profile.left)),
             ProfileLevel(recs) \/ ProfileLevelFails(recs)
      PROVE  /\ recs \in Seq(Records)
             /\ \/ ObserveAndDecide(recs) /\ changes < MaxFlips
                \/ UNCHANGED control /\ window' = Observed(window, recs)
             /\ ProfileInv'
    <2>1. PICK todo \in Seq(ToSet(Levels)) : \E entries :
                   profile = [left |-> todo, entries |-> entries]
        BY <1>2, Zenon DEF ControllerInv, ProfileInv
    <2>2. PICK entries : profile = [left |-> todo, entries |-> entries]
        BY <2>1
    <2>3. todo # <<>> /\ profile.left = todo /\ profile.entries = entries
        BY <1>2, <2>2
    <2>4. Head(todo) \in ToSet(Levels) /\ Tail(todo) \in Seq(ToSet(Levels))
        BY <2>3
    <2>5. recs \in Seq(Records)
        BY <2>3, <2>4, MeasuredType
    <2>6. \/ profile' = None
          \/ \E e : profile' = [left |-> Tail(todo), entries |-> e]
        <3>1. CASE ProfileLevel(recs)
            BY <2>3, <3>1 DEF ProfileLevel
        <3>2. CASE ProfileLevelFails(recs)
            <4>1. \A t : [profile EXCEPT !.left = t] = [left |-> t, entries |-> entries]
                BY <2>2
            <4> QED
                BY <2>3, <3>2, <4>1 DEF ProfileLevelFails
        <3> QED
            BY <1>2, <3>1, <3>2
    <2>7. ProfileInv'
        BY <2>4, <2>6 DEF ProfileInv
    <2> QED
        BY <1>2, <2>5, <2>7 DEF ProfileLevel, ProfileLevelFails
<1>3. CASE Reset
    BY <1>3 DEF Reset, ControllerInv, ProfileInv
<1>4. CASE StartProfile
    <2>1. Levels \in Seq(ToSet(Levels))
        BY GranularityAssumption
    <2> QED
        BY <1>4, <2>1 DEF StartProfile, ProfileInv
<1>5. ASSUME NEW adopt \in BOOLEAN, FinishProfile(adopt)
      PROVE  /\ Renewed \/ UNCHANGED <<window, control>>
             /\ ProfileInv'
    BY <1>5 DEF FinishProfile, ProfileInv
<1>6. CASE UNCHANGED vars
    BY <1>6 DEF vars, control, ControllerInv, ProfileInv
<1>7. ASSUME profile' = profile PROVE ProfileInv'
    BY <1>7 DEF ControllerInv, ProfileInv
<1> QED
    BY <1>1, <1>2, <1>3, <1>4, <1>5, <1>6, <1>7 DEF Next, Reset, StartProfile

LEMMA ControllerInvInit == Init => ControllerInv
BY FreshHolds DEF Init, ControllerInv, ProfileInv

LEMMA ControllerInvStep == ControllerInv /\ [Next]_vars => ControllerInv'
<1> SUFFICES ASSUME ControllerInv, [Next]_vars PROVE ControllerInv'
    OBVIOUS
<1>1. HysteresisInv /\ ProfileInv'
    BY StepKinds DEF ControllerInv
<1>2. ASSUME NEW recs \in Seq(Records), ObserveAndDecide(recs), changes < MaxFlips
      PROVE  HysteresisInv'
    BY <1>1, <1>2, ObserveAndDecideKeeps
<1>3. ASSUME UNCHANGED control, window' \in Seq(Records), window # <<>> => window' # <<>>
      PROVE  HysteresisInv'
    BY <1>1, <1>3
       DEF control, HysteresisInv, ControlType, StreakCounts, StreaksRequired,
           TurnsAreRecent, ActsOnData, Required, IsFlip
<1>4. ASSUME Renewed PROVE HysteresisInv'
    BY <1>4, RenewedHolds
<1>5. ASSUME NEW recs \in Seq(Records), window' = Observed(window, recs)
      PROVE  window' \in Seq(Records) /\ (window # <<>> => window' # <<>>)
    BY <1>1, <1>5, ObservedType DEF HysteresisInv, ControlType
<1>6. ASSUME window' = window
      PROVE  window' \in Seq(Records) /\ (window # <<>> => window' # <<>>)
    BY <1>1, <1>6 DEF HysteresisInv, ControlType
<1> QED
    BY <1>1, <1>2, <1>3, <1>4, <1>5, <1>6, StepKinds DEF ControllerInv

(* The cap: a direction found by 3 * W decisions in a row has been acted on  *)
(* within them, whatever the telemetry, the backoff base, the resets, the    *)
(* failing runs and the profiler's runs.                                     *)
THEOREM SustainedSignalIsActedOn == Spec => []SustainedSignalActs
<1>1. ControllerInv => SustainedSignalActs
    <2> SUFFICES ASSUME ControllerInv PROVE SustainedSignalActs
        OBVIOUS
    <2>1. /\ ControlType /\ StreakCounts /\ StreaksRequired /\ TurnsAreRecent
          /\ W \in Nat /\ Cap \in Nat /\ W <= Cap /\ Cap > 0 /\ W > 0
          /\ Required("COMPOSE") \in 1 .. Cap /\ Required("DECOMPOSE") \in 1 .. Cap
        BY CapType, RequiredType DEF ControllerInv, HysteresisInv
    <2>2. /\ composeStreak \in 0 .. Cap - 1 /\ decomposeStreak \in 0 .. Cap - 1
          /\ composeStreak = 0 \/ decomposeStreak = 0
        BY <2>1 DEF ControlType, StreakCounts, StreaksRequired
    <2>3. ASSUME held.count = Cap, held.dir # "MAINTAIN"
          PROVE  lastAction = held.dir /\ since < W
        <3> DEFINE streak == IF held.dir = "COMPOSE" THEN composeStreak ELSE decomposeStreak
        <3>1. held.dir \in {"COMPOSE", "DECOMPOSE"}
            BY <2>1, <2>3 DEF ControlType, Actions
        <3>2. streak = since /\ streak < Required(held.dir)
            BY <2>1, <2>3, <3>1 DEF ControlType, StreakCounts, StreaksRequired, Least
        <3>3. since < Cap
            BY <2>1, <3>1, <3>2 DEF ControlType
        <3>4. lastAction = held.dir
            BY <2>1, <2>3, <3>3 DEF TurnsAreRecent, ControlType
        <3>5. Required(held.dir) = W
            BY <3>4 DEF Required, IsFlip
        <3> QED
            BY <3>2, <3>4, <3>5
    <2> QED
        BY <2>2, <2>3 DEF SustainedSignalActs, Cap
<1> QED
    BY <1>1, ControllerInvInit, ControllerInvStep, PTL DEF Spec

(* Hysteresis and backoff: no action on fewer decisions than _required_streak*)
(* asks for, all since the last action and all in one direction; a turn      *)
(* waits longer with every turn before it, up to the cap.                    *)
THEOREM ActionsAreSustained == Spec => ActsOnSustainedSignal
<1> DEFINE Sustained ==
        \A a \in {"COMPOSE", "DECOMPOSE"} : decision' # decision /\ Acts(a) =>
            LET n == IF lastAction \in {"MAINTAIN", a} THEN W
                     ELSE Least(W * BackoffBase ^ changes', 3 * W)
            IN  held'.dir = a /\ held'.count >= n /\ since + 1 >= n
<1>1. ControllerInv /\ [Next]_vars => [Sustained]_vars
    <2> SUFFICES ASSUME ControllerInv, [Next]_vars, NEW a \in {"COMPOSE", "DECOMPOSE"},
                        decision' # decision, since' = 0, lastAction' = a,
                        NEW n, n = IF lastAction \in {"MAINTAIN", a} THEN W
                                   ELSE Least(W * BackoffBase ^ changes', Cap)
                 PROVE  held'.dir = a /\ held'.count >= n /\ since + 1 >= n
        BY Zenon DEF Acts, Cap
    <2>1. /\ HysteresisInv /\ ControlType
          /\ W \in Nat /\ Cap \in Nat /\ W <= Cap /\ Cap > 0 /\ W > 0
          /\ Required(a) \in 1 .. Cap
        BY CapType, RequiredType DEF ControllerInv, HysteresisInv
    <2>2. PICK recs \in Seq(Records) : ObserveAndDecide(recs) /\ changes < MaxFlips
        <3>1. ~UNCHANGED control
            BY DEF control
        <3>2. ~Renewed
            BY <2>1 DEF Renewed, Cap
        <3> QED
            BY <3>1, <3>2, StepKinds
    <2> DEFINE win == Observed(window, recs)
    <2>3. CASE win = <<>>
        <3>1. DecideNothing /\ window = <<>>
            BY <2>1, <2>2, <2>3, ObservedType DEF ObserveAndDecide, ControlType
        <3> QED
            BY <2>1, <3>1 DEF DecideNothing, HysteresisInv, ActsOnData
    <2>4. CASE win # <<>>
        <3>1. PICK found \in Actions : found = Found(win, thresholds)
            BY FoundType
        <3>2. Decide(found)
            BY <2>2, <2>4, <3>1 DEF ObserveAndDecide
        <3>3. since \in 0 .. Cap /\ since + 1 > 0 /\ Least(since + 1, Cap) # 0
            BY <2>1 DEF ControlType, Least
        <3>4. /\ found = a
              /\ changes' = IF IsFlip(a) THEN changes + 1 ELSE changes
              /\ a = "COMPOSE" => composeStreak + 1 >= Required("COMPOSE")
              /\ a = "DECOMPOSE" => decomposeStreak + 1 >= Required("DECOMPOSE")
            BY <2>1, <2>2, <3>2, <3>3, DecideOutcomes
        <3>5. n = Required(a)
            <4>1. W * 3 = Cap
                BY CapType DEF Cap
            <4>2. CASE IsFlip(a)
                BY <3>4, <4>1, <4>2 DEF Required, IsFlip
            <4>3. CASE ~IsFlip(a)
                BY <4>3 DEF Required, IsFlip
            <4> QED
                BY <4>2, <4>3
        <3>6. held' = [dir |-> a, count |-> IF a = held.dir
                                            THEN Least(held.count + 1, Cap) ELSE 1]
            BY <3>2, <3>4 DEF Decide, Cap
        <3>7. /\ held'.dir = a
              /\ held'.count = IF a = held.dir THEN Least(held.count + 1, Cap) ELSE 1
            BY <3>6
        <3> DEFINE streak == IF a = "COMPOSE" THEN composeStreak ELSE decomposeStreak
        <3>8. streak \in Nat /\ streak + 1 >= n /\ n \in 1 .. Cap
            BY <2>1, <3>4, <3>5 DEF ControlType
        <3>9. streak = IF a = held.dir THEN Least(held.count, since) ELSE 0
            BY DEF ControllerInv, HysteresisInv, StreakCounts
        <3>10. held.count \in Nat
            BY <2>1 DEF ControlType
        <3> HIDE DEF streak
        <3>11. held'.count >= n
            BY <2>1, <3>3, <3>7, <3>8, <3>9, <3>10 DEF Least
        <3>12. since + 1 >= n
            BY <2>1, <3>3, <3>8, <3>9, <3>10 DEF Least
        <3> QED
            BY <3>7, <3>11, <3>12
    <2> QED
        BY <2>3, <2>4
<1> QED
    BY <1>1, ControllerInvInit, ControllerInvStep, PTL DEF Spec, ActsOnSustainedSignal
-----------------------------------------------------------------------------
(* complete(): the conversation it sends, and the counters it leaves.        *)

NamesAsked == UNION {ToSet(asks) : asks \in Requests}

Roles    == {"assistant", "model", "tool", "user"}
Results  == [to : Nat, name : NamesAsked, content : {"result", "error"}]
Messages == [role : Roles, calls : Seq(NamesAsked), answers : Seq(Results)]
Counts   == [tokens : Nat, count : Nat, sequence : Seq(NamesAsked)]
Phases   == {"idle", "request", "backoff", "tools", "returned", "raised"}
Locals   == [phase : Phases, talk : Seq(Messages), attempt : Nat, asks : Seq(NamesAsked),
             at : Nat, results : Seq(Results)]

\* What the tools of a response give, and their names, up to the n-th.
ToolResults(asks, n) ==
    [k \in 1 .. n |-> [to |-> k, name |-> asks[k],
                       content |-> IF asks[k] \in Tools THEN "result" ELSE "error"]]
FirstOf(asks, n) == [k \in 1 .. n |-> asks[k]]

\* The m messages after the i-th answer its calls, and nothing else does.
AnsweredBy(talk, i, m) ==
    /\ i + m <= Len(talk)
    /\ \A k \in 1 .. m : talk[i + k].calls = <<>>
    /\ i + m < Len(talk) => talk[i + m + 1].calls # <<>>
    /\ FlattenSeq([k \in 1 .. m |-> talk[i + k].answers]) =
           ToolResults(talk[i].calls, Len(talk[i].calls))

Answering(talk) ==
    \A i \in 1 .. Len(talk) : talk[i].calls # <<>> => \E m \in Nat : AnsweredBy(talk, i, m)

AllAsked(talk) == FlattenSeq([i \in DOMAIN talk |-> talk[i].calls])
CountOf(n, asked) == [tokens |-> n, count |-> Len(asked), sequence |-> asked]

\* Of one thread: its locals c, its slot s, and the responses h it was told of.
CallInv(c, s, h) ==
    /\ c \in Locals /\ s \in Counts /\ h \in Nat
    /\ Answering(c.talk)
    /\ c.phase = "idle" => h = 0
    /\ c.phase \in {"request", "backoff", "returned"} => s = CountOf(h, AllAsked(c.talk))
    /\ c.phase = "tools" => /\ c.at < Len(c.asks) /\ c.results = ToolResults(c.asks, c.at)
                            /\ s = CountOf(h, AllAsked(c.talk) \o FirstOf(c.asks, c.at))

CallsInv ==
    /\ vendor \in Vendors
    /\ DOMAIN call = Threads /\ DOMAIN slots = Threads /\ DOMAIN heard = Threads
    /\ \A t \in Threads : CallInv(call[t], slots[t], heard[t])

(* What a response asks for are names of tools.                              *)
LEMMA AsksAreNames ==
    ASSUME NEW asks \in Requests
    PROVE  asks \in Seq(NamesAsked)
<1>1. asks \in Seq(ToSet(asks)) /\ ToSet(asks) \subseteq NamesAsked
    BY AdapterAssumption DEF NamesAsked
<1>2. Len(asks) \in Nat /\ DOMAIN asks = 1 .. Len(asks) /\ asks = [k \in 1 .. Len(asks) |-> asks[k]]
    BY <1>1, LenProperties
<1>3. \A k \in 1 .. Len(asks) : asks[k] \in NamesAsked
    BY <1>1, ElementOfSeq
<1>4. asks \in [1 .. Len(asks) -> NamesAsked]
    BY <1>2, <1>3
<1> QED
    BY <1>2, <1>4

(* One more tool of a response has run (the body of the loop over calls).    *)
LEMMA ToolsStepOn ==
    ASSUME NEW asks \in Seq(NamesAsked), NEW n \in Nat, n < Len(asks)
    PROVE  /\ ToolResults(asks, n) \in Seq(Results) /\ FirstOf(asks, n) \in Seq(NamesAsked)
           /\ n + 1 \in 1 .. Len(asks) /\ asks[n + 1] \in NamesAsked
           /\ Answered(ToolResults(asks, n), n + 1, asks[n + 1]) = ToolResults(asks, n + 1)
           /\ Append(FirstOf(asks, n), asks[n + 1]) = FirstOf(asks, n + 1)
           /\ FirstOf(asks, 0) = <<>> /\ FirstOf(asks, Len(asks)) = asks
           /\ ToolResults(asks, 0) = <<>>
           /\ ToolResults(asks, n + 1) \in Seq(Results) /\ Len(ToolResults(asks, n + 1)) = n + 1
<1> DEFINE R(k) == [to |-> k, name |-> asks[k],
                    content |-> IF asks[k] \in Tools THEN "result" ELSE "error"]
<1>1. Len(asks) \in Nat /\ DOMAIN asks = 1 .. Len(asks) /\ n + 1 \in 1 .. Len(asks)
    BY LenProperties
<1>2. \A k \in 1 .. Len(asks) : asks[k] \in NamesAsked /\ R(k) \in Results
    <2>1. \A k \in 1 .. Len(asks) : asks[k] \in NamesAsked
        BY ElementOfSeq
    <2> QED
        BY <1>1, <2>1 DEF Results
<1>3. /\ ToolResults(asks, n) = [k \in 1 .. n |-> R(k)]
      /\ ToolResults(asks, n + 1) = [k \in 1 .. n + 1 |-> R(k)]
      /\ ToolResults(asks, 0) = [k \in 1 .. 0 |-> R(k)]
    BY DEF ToolResults
<1>4. Answered(ToolResults(asks, n), n + 1, asks[n + 1]) = Append(ToolResults(asks, n), R(n + 1))
    BY DEF Answered
<1>5. \A k \in 1 .. n : k \in 1 .. Len(asks)
    BY <1>1
<1> HIDE DEF R
<1>6. [k \in 1 .. n |-> R(k)] \in Seq(Results) /\ Len([k \in 1 .. n |-> R(k)]) = n
    BY <1>2, <1>5
<1>7. Append([k \in 1 .. n |-> R(k)], R(n + 1)) = [k \in 1 .. n + 1 |-> R(k)]
    BY <1>6
<1>8. [k \in 1 .. n + 1 |-> R(k)] \in Seq(Results) /\ Len([k \in 1 .. n + 1 |-> R(k)]) = n + 1
    <2>1. \A k \in 1 .. n + 1 : k \in 1 .. Len(asks)
        BY <1>1
    <2> QED
        BY <1>2, <2>1
<1>9. [k \in 1 .. 0 |-> R(k)] = <<>>
    OBVIOUS
<1>10. FirstOf(asks, n) \in Seq(NamesAsked) /\ Len(FirstOf(asks, n)) = n
    BY <1>2, <1>5 DEF FirstOf
<1>11. Append(FirstOf(asks, n), asks[n + 1]) = FirstOf(asks, n + 1)
    BY <1>10 DEF FirstOf
<1>12. FirstOf(asks, 0) = <<>> /\ FirstOf(asks, Len(asks)) = asks
    BY <1>1 DEF FirstOf
<1> QED
    BY <1>1, <1>2, <1>3, <1>4, <1>6, <1>7, <1>8, <1>9, <1>10, <1>11, <1>12

\* The answers as Extended puts them into the conversation.
AnswersOf(results) ==
    LET answers == IF Adapter.together THEN <<results>> ELSE [i \in DOMAIN results |-> <<results[i]>>]
    IN  [i \in DOMAIN answers |-> Message(Adapter.answering, <<>>, answers[i])]

(* The answers, in one message or in one each, are the results in order.     *)
LEMMA AnswersFollow ==
    ASSUME vendor \in Vendors, NEW results \in Seq(Results), NEW asks \in Seq(NamesAsked)
    PROVE  /\ AnswersOf(results) \in Seq(Messages)
           /\ \A k \in 1 .. Len(AnswersOf(results)) : AnswersOf(results)[k].calls = <<>>
           /\ FlattenSeq([k \in 1 .. Len(AnswersOf(results)) |-> AnswersOf(results)[k].answers]) = results
           /\ Message(Adapter.asking, asks, <<>>) \in Messages
           /\ Message(Adapter.asking, asks, <<>>).calls = asks
<1>1. /\ Adapter \in {Anthropic, OpenAI, Gemini} /\ Adapter.together \in BOOLEAN
      /\ Adapter.asking \in Roles /\ Adapter.answering \in Roles
    BY AdapterAssumption DEF Adapter, Anthropic, OpenAI, Gemini, Roles
<1>2. << >> \in Seq(Results) /\ << >> \in Seq(NamesAsked)
    OBVIOUS
<1>3. Message(Adapter.asking, asks, <<>>) \in Messages /\ Message(Adapter.asking, asks, <<>>).calls = asks
    BY <1>1, <1>2 DEF Message, Messages
<1> DEFINE answers == IF Adapter.together THEN <<results>> ELSE [i \in DOMAIN results |-> <<results[i]>>]
           sent == [i \in DOMAIN answers |-> Message(Adapter.answering, <<>>, answers[i])]
<1>4. Len(results) \in Nat /\ DOMAIN results = 1 .. Len(results)
    BY LenProperties
<1>5. answers \in Seq(Seq(Results)) /\ FlattenSeq(answers) = results
    <2>1. CASE Adapter.together
        <3>1. answers = <<results>>
            BY <2>1
        <3>2. <<results>> \in Seq(Seq(Results)) /\ FlattenSeq(<<results>>) = results
            BY FlattenOne
        <3> QED
            BY <3>1, <3>2
    <2>2. CASE ~Adapter.together
        <3>1. answers = [i \in 1 .. Len(results) |-> <<results[i]>>]
            BY <1>4, <2>2
        <3>2. \A i \in 1 .. Len(results) : <<results[i]>> \in Seq(Results)
            <4>1. \A i \in 1 .. Len(results) : results[i] \in Results
                BY ElementOfSeq
            <4> QED
                BY <4>1
        <3>3. [i \in 1 .. Len(results) |-> <<results[i]>>] \in Seq(Seq(Results))
            BY <1>4, <3>2
        <3> QED
            BY <3>1, <3>3, FlattenSingles
    <2> QED
        BY <1>1, <2>1, <2>2
<1>6. AnswersOf(results) = sent
    BY DEF AnswersOf
<1> HIDE DEF answers
<1> DEFINE n == Len(answers)
<1>7. /\ n \in Nat /\ DOMAIN answers = 1 .. n /\ \A i \in 1 .. n : answers[i] \in Seq(Results)
      /\ answers = [i \in 1 .. n |-> answers[i]]
    BY <1>5, LenProperties, ElementOfSeq
<1>8. \A i \in 1 .. n : /\ sent[i] \in Messages /\ sent[i].calls = <<>> /\ sent[i].answers = answers[i]
    BY <1>1, <1>2, <1>7 DEF Message, Messages
<1>9. DOMAIN sent = 1 .. n /\ sent \in [1 .. n -> Messages]
    BY <1>7, <1>8
<1>10. sent \in Seq(Messages) /\ Len(sent) = n
    BY <1>7, <1>9
<1> HIDE DEF sent, n
<1>11. [k \in 1 .. n |-> sent[k].answers] = answers
    BY <1>7, <1>8
<1> QED
    BY <1>3, <1>5, <1>6, <1>8, <1>10, <1>11

(* A turn keeps every earlier response answered, answers the new one, and    *)
(* adds its calls to those asked for.                                        *)
LEMMA TalkGrows ==
    ASSUME vendor \in Vendors, NEW talk \in Seq(Messages), Answering(talk),
           NEW asks \in Seq(NamesAsked), asks # <<>>,
           NEW results, results = ToolResults(asks, Len(asks))
    PROVE  /\ Extended(talk, asks, results) \in Seq(Messages)
           /\ Answering(Extended(talk, asks, results))
           /\ AllAsked(Extended(talk, asks, results)) = AllAsked(talk) \o asks
<1> DEFINE m == Message(Adapter.asking, asks, <<>>)
           with == Append(talk, m)
           tail == AnswersOf(results)
           u == with \o tail
           N == Len(talk)
           n == Len(tail)
<1>1. results \in Seq(Results)
    <2>1. Len(asks) \in Nat /\ Len(asks) # 0
        BY LenProperties, EmptySeq
    <2>2. Len(asks) - 1 \in Nat /\ Len(asks) - 1 < Len(asks) /\ (Len(asks) - 1) + 1 = Len(asks)
        BY <2>1
    <2>3. ToolResults(asks, (Len(asks) - 1) + 1) \in Seq(Results)
        BY <2>2, ToolsStepOn
    <2> QED
        BY <2>2, <2>3
<1>2. /\ tail \in Seq(Messages) /\ m \in Messages /\ m.calls = asks
      /\ \A k \in 1 .. n : tail[k].calls = <<>>
      /\ FlattenSeq([k \in 1 .. n |-> tail[k].answers]) = results
    BY <1>1, AnswersFollow
<1>3. Extended(talk, asks, results) = u
    <2>1. Extended(talk, asks, results) = talk \o <<m>> \o tail
        BY DEF Extended, AnswersOf
    <2>2. talk \o <<m>> = Append(talk, m)
        BY <1>2, AppendIsConcat
    <2> QED
        BY <2>1, <2>2
<1> HIDE DEF m, tail
<1>4. /\ N \in Nat /\ with \in Seq(Messages) /\ Len(with) = N + 1
      /\ \A i \in 1 .. N : with[i] = talk[i]
      /\ with[N + 1] = m
    BY <1>2, LenProperties, AppendProperties
<1> HIDE DEF with, N
<1>5. n \in Nat
    BY <1>2, LenProperties
<1>6. /\ u \in Seq(Messages) /\ Len(u) = N + 1 + n
      /\ \A i \in 1 .. N + 1 : u[i] = with[i]
      /\ \A k \in 1 .. n : u[N + 1 + k] = tail[k]
    <2>1. /\ u \in Seq(Messages) /\ Len(u) = Len(with) + Len(tail)
          /\ \A i \in 1 .. Len(with) : u[i] = with[i]
          /\ \A k \in 1 .. Len(tail) : u[Len(with) + k] = tail[k]
        <3> HIDE DEF n
        <3>1. with \in Seq(Messages) /\ tail \in Seq(Messages)
            BY <1>2, <1>4
        <3>2. /\ with \o tail \in Seq(Messages) /\ Len(with \o tail) = Len(with) + Len(tail)
              /\ \A i \in 1 .. Len(with) : (with \o tail)[i] = with[i]
              /\ \A k \in 1 .. Len(tail) : (with \o tail)[Len(with) + k] = tail[k]
            BY <3>1, Joined
        <3> QED
            BY <3>2
    <2> HIDE DEF u
    <2> QED
        BY <1>4, <2>1
<1> HIDE DEF u, n
<1>7. /\ \A i \in 1 .. N : i \in 1 .. N + 1 + n /\ u[i] = talk[i]
      /\ N + 1 \in 1 .. N + 1 + n /\ u[N + 1] = m
    BY <1>4, <1>5, <1>6
<1>8. \A k \in 1 .. n : N + 1 + k \in 1 .. N + 1 + n /\ u[N + 1 + k] = tail[k]
    BY <1>4, <1>5, <1>6
<1>9. \A i \in 1 .. N + 1 + n : i \in 1 .. N \/ i = N + 1 \/ \E k \in 1 .. n : i = N + 1 + k
    <2>1. ASSUME NEW i \in 1 .. N + 1 + n, i \notin 1 .. N, i # N + 1
          PROVE  \E k \in 1 .. n : i = N + 1 + k
        <3>1. i - (N + 1) \in 1 .. n /\ i = N + 1 + (i - (N + 1))
            BY <1>4, <1>5, <2>1
        <3> QED
            BY <3>1
    <2> QED
        BY <2>1
<1>10. ASSUME NEW i \in 1 .. N, u[i].calls # <<>>
       PROVE  \E k \in Nat : AnsweredBy(u, i, k)
    <2>1. talk[i].calls # <<>> /\ i \in 1 .. Len(talk) /\ u[i] = talk[i]
        BY <1>7, <1>10 DEF N
    <2>2. PICK k \in Nat : AnsweredBy(talk, i, k)
        BY <2>1 DEF Answering
    <2>3. /\ i + k <= N
          /\ \A j \in 1 .. k : talk[i + j].calls = <<>>
          /\ i + k < N => talk[i + k + 1].calls # <<>>
          /\ FlattenSeq([j \in 1 .. k |-> talk[i + j].answers]) =
                 ToolResults(talk[i].calls, Len(talk[i].calls))
        BY <2>2 DEF AnsweredBy, N
    <2>4. \A j \in 1 .. k : i + j \in 1 .. N
        BY <1>4, <2>3
    <2>5. \A j \in 1 .. k : u[i + j] = talk[i + j]
        BY <1>7, <2>4
    <2>6. [j \in 1 .. k |-> u[i + j].answers] = [j \in 1 .. k |-> talk[i + j].answers]
        BY <2>5
    <2>7. u[i + k + 1].calls # <<>>
        <3>1. CASE i + k < N
            <4>1. i + k + 1 \in 1 .. N
                BY <1>4, <3>1
            <4> QED
                BY <1>7, <2>3, <3>1, <4>1
        <3>2. CASE i + k = N
            BY <1>2, <1>7, <3>2
        <3> QED
            BY <1>4, <2>3, <3>1, <3>2
    <2>8. i + k <= Len(u)
        BY <1>4, <1>5, <1>6, <2>3
    <2>9. AnsweredBy(u, i, k)
        BY <2>1, <2>3, <2>5, <2>6, <2>7, <2>8 DEF AnsweredBy
    <2> QED
        BY <2>9
<1>11. AnsweredBy(u, N + 1, n)
    <2>1. [j \in 1 .. n |-> u[N + 1 + j].answers] = [j \in 1 .. n |-> tail[j].answers]
        BY <1>8
    <2>2. \A j \in 1 .. n : u[N + 1 + j].calls = <<>>
        BY <1>2, <1>8 DEF n
    <2>3. N + 1 + n <= Len(u) /\ ~(N + 1 + n < Len(u))
        BY <1>4, <1>5, <1>6
    <2>4. FlattenSeq([j \in 1 .. n |-> tail[j].answers]) = ToolResults(u[N + 1].calls, Len(u[N + 1].calls))
        BY <1>2, <1>7 DEF n
    <2> QED
        BY <2>1, <2>2, <2>3, <2>4 DEF AnsweredBy
<1>12. Answering(u)
    <2>1. ASSUME NEW i \in 1 .. Len(u), u[i].calls # <<>> PROVE \E k \in Nat : AnsweredBy(u, i, k)
        <3>1. CASE i \in 1 .. N
            BY <1>10, <2>1, <3>1
        <3>2. CASE i = N + 1
            BY <1>5, <1>11, <3>2
        <3>3. CASE \E k \in 1 .. n : i = N + 1 + k
            <4>1. u[i].calls = <<>>
                BY <1>2, <1>8, <3>3 DEF n
            <4> QED
                BY <2>1, <4>1
        <3>4. i \in 1 .. N + 1 + n
            BY <1>6
        <3> QED
            BY <1>9, <3>1, <3>2, <3>3, <3>4
    <2> QED
        BY <2>1 DEF Answering
<1>13. AllAsked(u) = AllAsked(talk) \o asks
    <2> DEFINE old   == [i \in 1 .. N |-> talk[i].calls]
               none  == [k \in 1 .. n |-> <<>>]
               calls == [i \in 1 .. N + 1 + n |-> u[i].calls]
               with1 == Append(old, asks)
               A     == NamesAsked
    <2>1. \A i \in 1 .. N : talk[i].calls \in Seq(NamesAsked)
        <3>1. \A i \in 1 .. N : talk[i] \in Messages
            BY ElementOfSeq DEF N
        <3> QED
            BY <3>1 DEF Messages
    <2>2. old \in Seq(Seq(A)) /\ Len(old) = N
        BY <1>4, <2>1
    <2>3. /\ with1 \in Seq(Seq(A)) /\ Len(with1) = N + 1
          /\ \A i \in 1 .. N : with1[i] = old[i]
          /\ with1[N + 1] = asks
        <3>1. asks \in Seq(A)
            OBVIOUS
        <3>2. /\ with1 \in Seq(Seq(A)) /\ Len(with1) = Len(old) + 1
              /\ \A i \in 1 .. Len(old) : with1[i] = old[i]
              /\ with1[Len(old) + 1] = asks
            <4> HIDE DEF old, A
            <4>1. old \in Seq(Seq(A)) /\ asks \in Seq(A)
                BY <2>2, <3>1
            <4>2. /\ Append(old, asks) \in Seq(Seq(A)) /\ Len(Append(old, asks)) = Len(old) + 1
                  /\ \A i \in 1 .. Len(old) : Append(old, asks)[i] = old[i]
                  /\ Append(old, asks)[Len(old) + 1] = asks
                BY <4>1, AppendProperties
            <4> QED
                BY <4>2
        <3> HIDE DEF with1, old
        <3> QED
            BY <2>2, <3>2
    <2>4. none \in Seq(Seq(A)) /\ Len(none) = n /\ \A k \in 1 .. Len(none) : none[k] = <<>>
        <3>1. << >> \in Seq(A)
            OBVIOUS
        <3> HIDE DEF A
        <3> QED
            BY <1>5, <3>1
    <2> HIDE DEF with1, A
    <2>5. with1 \o none \in Seq(Seq(A)) /\ Len(with1 \o none) = N + 1 + n
        <3> HIDE DEF none
        <3>1. with1 \o none \in Seq(Seq(A)) /\ Len(with1 \o none) = Len(with1) + Len(none)
            BY <2>3, <2>4, Joined, Zenon
        <3> QED
            BY <2>3, <2>4, <3>1
    <2>6. /\ \A i \in 1 .. N + 1 : (with1 \o none)[i] = with1[i]
          /\ \A k \in 1 .. n : (with1 \o none)[N + 1 + k] = none[k]
        <3>1. /\ \A i \in 1 .. Len(with1) : (with1 \o none)[i] = with1[i]
              /\ \A k \in 1 .. Len(none) : (with1 \o none)[Len(with1) + k] = none[k]
            <4> HIDE DEF none, old
            <4>1. with1 \in Seq(Seq(A)) /\ none \in Seq(Seq(A))
                BY <2>3, <2>4
            <4> QED
                BY <4>1, Joined
        <3> HIDE DEF none, old
        <3> QED
            BY <2>3, <2>4, <3>1
    <2>7. ASSUME NEW i \in 1 .. N + 1 + n PROVE (with1 \o none)[i] = calls[i]
        <3>1. CASE i \in 1 .. N
            <4>1. i \in 1 .. N + 1
                BY <1>4, <3>1
            <4> QED
                BY <1>7, <2>3, <2>6, <3>1, <4>1
        <3>2. CASE i = N + 1
            <4>1. i \in 1 .. N + 1
                BY <1>4, <3>2
            <4> QED
                BY <1>2, <1>7, <2>3, <2>6, <3>2, <4>1
        <3>3. CASE \E k \in 1 .. n : i = N + 1 + k
            <4>1. PICK k \in 1 .. n : i = N + 1 + k
                BY <3>3
            <4>2. u[i].calls = <<>>
                BY <1>2, <1>8, <4>1 DEF n
            <4>3. (with1 \o none)[i] = <<>>
                BY <2>6, <4>1
            <4> QED
                BY <4>2, <4>3
        <3> QED
            BY <1>9, <3>1, <3>2, <3>3
    <2>8. with1 \o none = calls
        <3>1. DOMAIN (with1 \o none) = 1 .. N + 1 + n
            BY <2>5, LenProperties
        <3> DEFINE all == with1 \o none
        <3>2. all \in Seq(Seq(A)) /\ DOMAIN all = 1 .. N + 1 + n
            BY <2>5, <3>1
        <3>3. \A i \in 1 .. N + 1 + n : all[i] = u[i].calls
            BY <2>7
        <3> HIDE DEF all, none, old
        <3>4. all \in [1 .. N + 1 + n -> Seq(A)]
            <4>1. all \in [1 .. Len(all) -> Seq(A)] /\ DOMAIN all = 1 .. Len(all)
                BY <3>2, LenProperties
            <4> QED
                BY <3>2, <4>1
        <3>5. all = calls
            BY <3>3, <3>4
        <3> QED
            BY <3>5 DEF all
    <2>9. FlattenSeq(with1 \o none) = FlattenSeq(with1)
        BY <2>3, <2>4, FlattenEmpties
    <2>10. FlattenSeq(with1) = FlattenSeq(old) \o asks
        BY <2>2, FlattenAppend DEF with1, A
    <2>11. AllAsked(u) = FlattenSeq(calls)
        <3>1. DOMAIN u = 1 .. N + 1 + n
            BY <1>6, LenProperties
        <3> QED
            BY <3>1 DEF AllAsked
    <2>12. AllAsked(talk) = FlattenSeq(old)
        <3>1. DOMAIN talk = 1 .. N
            BY LenProperties DEF N
        <3> QED
            BY <3>1 DEF AllAsked
    <2> QED
        BY <2>8, <2>9, <2>10, <2>11, <2>12
<1> QED
    BY <1>3, <1>6, <1>12, <1>13

(* AnswersTo finds the messages that AnsweredBy names.                       *)
LEMMA AnswersAreResults ==
    ASSUME NEW talk \in Seq(Messages), NEW i \in 1 .. Len(talk), NEW m \in Nat,
           AnsweredBy(talk, i, m)
    PROVE  AnswersTo(talk, i) = ToolResults(talk[i].calls, Len(talk[i].calls))
<1> DEFINE later == {j \in (i + 1) .. Len(talk) : talk[j].calls # <<>>}
           end   == IF later = {} THEN Len(talk) ELSE Min(later) - 1
<1>1. /\ Len(talk) \in Nat /\ i \in Nat /\ i + m <= Len(talk)
      /\ \A k \in 1 .. m : talk[i + k].calls = <<>>
      /\ i + m < Len(talk) => talk[i + m + 1].calls # <<>>
      /\ FlattenSeq([k \in 1 .. m |-> talk[i + k].answers]) =
             ToolResults(talk[i].calls, Len(talk[i].calls))
    BY LenProperties DEF AnsweredBy
<1>2. ASSUME NEW j \in later PROVE j \in Nat /\ j >= i + m + 1 /\ j <= Len(talk)
    <2>1. j \in (i + 1) .. Len(talk) /\ talk[j].calls # <<>>
        OBVIOUS
    <2>2. ASSUME j < i + m + 1 PROVE FALSE
        <3>1. PICK k \in 1 .. m : j = i + k
            <4>1. j - i \in 1 .. m /\ j = i + (j - i)
                BY <1>1, <2>1, <2>2
            <4> QED
                BY <4>1
        <3> QED
            BY <1>1, <2>1, <3>1
    <2> QED
        BY <1>1, <2>1, <2>2
<1>3. end = i + m
    <2>1. CASE i + m = Len(talk)
        <3>1. later = {}
            <4>1. ~ \E j \in later : TRUE
                <5> HIDE DEF later
                <5> QED
                    BY <1>1, <1>2, <2>1
            <4> HIDE DEF later
            <4> QED
                BY <4>1
        <3> HIDE DEF later
        <3> QED
            BY <2>1, <3>1
    <2>2. CASE i + m < Len(talk)
        <3>1. i + m + 1 \in later
            <4>1. i + m + 1 \in (i + 1) .. Len(talk)
                BY <1>1, <2>2
            <4> QED
                BY <1>1, <2>2, <4>1
        <3> HIDE DEF later
        <3>2. Min(later) = i + m + 1
            BY <1>1, <1>2, <3>1 DEF Min
        <3>3. end = Min(later) - 1
            BY <3>1
        <3> HIDE DEF end
        <3> QED
            BY <1>1, <3>2, <3>3
    <2> HIDE DEF end, later
    <2> QED
        BY <1>1, <2>1, <2>2
<1>4. AnswersTo(talk, i) = FlattenSeq([k \in 1 .. (end - i) |-> talk[i + k].answers])
    BY DEF AnswersTo
<1> HIDE DEF end, later
<1>5. end - i = m
    BY <1>1, <1>3
<1> QED
    BY <1>1, <1>4, <1>5

(* The state before complete(), and right after its resets.                  *)
LEMMA FreshCall ==
    /\ Idle \in Locals /\ Zero \in Counts
    /\ \A s \in Counts : CallInv(Idle, s, 0)
    /\ CallInv([Idle EXCEPT !.phase = "request"], Zero, 0)
<1> DEFINE asking == [Idle EXCEPT !.phase = "request"]
<1>1. << >> \in Seq(NamesAsked) /\ << >> \in Seq(Messages) /\ << >> \in Seq(Results)
    OBVIOUS
<1>2. Idle \in Locals /\ Zero \in Counts /\ asking \in Locals
    BY <1>1 DEF Idle, Locals, Phases, Zero, Counts
<1>3. Answering(<< >>) /\ Len(<< >>) = 0
    <2>1. Len(<< >>) = 0 /\ 1 .. 0 = {}
        OBVIOUS
    <2> QED
        BY <2>1 DEF Answering
<1>4. AllAsked(<< >>) = << >>
    BY DEF AllAsked, FlattenSeq
<1>5. Zero = CountOf(0, AllAsked(<< >>))
    BY <1>3, <1>4 DEF Zero, CountOf
<1> QED
    BY <1>2, <1>3, <1>5 DEF CallInv, Idle

(* A step of one thread that leaves the others' locals and counters alone.   *)
LEMMA OneThread ==
    ASSUME CallsInv, vendor' = vendor, NEW t \in Threads,
           DOMAIN call' = Threads, DOMAIN slots' = Threads, DOMAIN heard' = Threads,
           \A u \in Threads \ {t} :
               call'[u] = call[u] /\ slots'[u] = slots[u] /\ heard'[u] = heard[u],
           CallInv(call'[t], slots'[t], heard'[t])
    PROVE  CallsInv'
<1>1. ASSUME NEW u \in Threads PROVE CallInv(call'[u], slots'[u], heard'[u])
    <2>1. CASE u = t
        BY <2>1
    <2>2. CASE u # t
        <3>1. call'[u] = call[u] /\ slots'[u] = slots[u] /\ heard'[u] = heard[u]
            BY <2>2
        <3> QED
            BY <3>1 DEF CallsInv
    <2> QED
        BY <2>1, <2>2
<1> QED
    BY <1>1 DEF CallsInv

(* CallsInv is inductive.                                                    *)
LEMMA CallsStart == CallsInit => CallsInv
    BY FreshCall DEF CallsInit, CallsInv

(* A phase of complete() ends in waiting, another request or an error.       *)
LEMMA PhaseMoves ==
    ASSUME NEW c, NEW s, NEW h, CallInv(c, s, h), NEW phase \in Phases, NEW attempt \in Nat,
           \/ phase = "raised"
           \/ c.phase \in {"request", "backoff"} /\ phase \in {"request", "backoff"}
    PROVE  CallInv([c EXCEPT !.phase = phase, !.attempt = attempt], s, h)
<1> DEFINE d == [c EXCEPT !.phase = phase, !.attempt = attempt]
<1>1. c \in Locals
    BY DEF CallInv
<1>2. /\ d \in Locals /\ d.phase = phase /\ d.talk = c.talk
    BY <1>1 DEF Locals
<1> HIDE DEF d
<1>3. s \in Counts /\ h \in Nat /\ Answering(d.talk)
    BY <1>2 DEF CallInv
<1>4. ASSUME phase = "raised" PROVE CallInv(d, s, h)
    BY <1>2, <1>3, <1>4 DEF CallInv
<1>5. ASSUME c.phase \in {"request", "backoff"}, phase \in {"request", "backoff"}
      PROVE  CallInv(d, s, h)
    <2>1. s = CountOf(h, AllAsked(d.talk))
        BY <1>2, <1>5 DEF CallInv
    <2> QED
        BY <1>2, <1>3, <1>5, <2>1 DEF CallInv
<1>6. CallInv(d, s, h)
    BY <1>4, <1>5
<1> QED
    BY <1>6 DEF d

(* A response has come: complete() returns, or the tools it asks for begin.  *)
LEMMA Replied ==
    ASSUME NEW c, NEW s, NEW h, CallInv(c, s, h), c.phase = "request",
           NEW asks \in Requests, NEW usage \in {0, 1}
    PROVE  CallInv(IF asks = <<>> THEN [c EXCEPT !.phase = "returned"]
                   ELSE [c EXCEPT !.phase = "tools", !.asks = asks, !.at = 0, !.results = <<>>],
                   [s EXCEPT !.tokens = @ + usage], h + usage)
<1> DEFINE z == [s EXCEPT !.tokens = @ + usage]
           asked == AllAsked(c.talk)
<1>1. /\ c \in Locals /\ s \in Counts /\ h \in Nat /\ Answering(c.talk)
      /\ s = CountOf(h, asked)
    BY DEF CallInv
<1>2. s.sequence = asked /\ asked \in Seq(NamesAsked)
    BY <1>1 DEF CountOf, Counts
<1>3. z \in Counts /\ z = CountOf(h + usage, asked) /\ h + usage \in Nat
    BY <1>1 DEF CountOf, Counts
<1> HIDE DEF z, asked
<1>4. CASE asks = <<>>
    <2> DEFINE d == [c EXCEPT !.phase = "returned"]
    <2>1. d \in Locals /\ d.phase = "returned" /\ d.talk = c.talk
        BY <1>1 DEF Locals, Phases
    <2> HIDE DEF d
    <2>2. CallInv(d, z, h + usage)
        BY <1>1, <1>3, <2>1 DEF CallInv, asked
    <2> QED
        BY <1>4, <2>2 DEF d, z
<1>5. CASE asks # <<>>
    <2> DEFINE d == [c EXCEPT !.phase = "tools", !.asks = asks, !.at = 0, !.results = <<>>]
    <2>1. asks \in Seq(NamesAsked) /\ Len(asks) \in Nat /\ Len(asks) # 0
        BY <1>5, AsksAreNames, LenProperties, EmptySeq
    <2>2. << >> \in Seq(Results)
        OBVIOUS
    <2>3. /\ d \in Locals /\ d.phase = "tools" /\ d.talk = c.talk /\ d.asks = asks
          /\ d.at = 0 /\ d.results = <<>>
        BY <1>1, <2>1, <2>2 DEF Locals, Phases
    <2> HIDE DEF d
    <2>4. FirstOf(asks, 0) = <<>> /\ ToolResults(asks, 0) = <<>> /\ 0 < Len(asks)
        BY <2>1, ToolsStepOn
    <2>5. asked \o FirstOf(asks, 0) = asked
        BY <1>2, <2>4, ConcatEmptySeq
    <2>6. CallInv(d, z, h + usage)
        BY <1>1, <1>3, <2>3, <2>4, <2>5 DEF CallInv, asked
    <2> QED
        BY <1>5, <2>6 DEF d, z
<1> QED
    BY <1>4, <1>5

(* Two counters of a record set at once.                                     *)
LEMMA CountsGrow ==
    ASSUME NEW S, NEW c \in [tokens : Nat, count : Nat, sequence : S], NEW n \in Nat, NEW x \in S
    PROVE  [c EXCEPT !.count = n, !.sequence = x] = [tokens |-> c.tokens, count |-> n, sequence |-> x]
<1> DEFINE d == [c EXCEPT !.count = n, !.sequence = x]
           e == [c EXCEPT !.count = n]
<1>1. e \in [tokens : Nat, count : Nat, sequence : S] /\ e.tokens = c.tokens /\ e.count = n
    OBVIOUS
<1>2. d = [e EXCEPT !.sequence = x]
    OBVIOUS
<1> HIDE DEF d, e
<1>3. /\ d \in [tokens : Nat, count : Nat, sequence : S]
      /\ d.tokens = c.tokens /\ d.count = n /\ d.sequence = x
    BY <1>1, <1>2
<1>4. d = [tokens |-> c.tokens, count |-> n, sequence |-> x]
    BY <1>3
<1> QED
    BY <1>4 DEF d

(* A tool has run: the next one's turn, or the conversation is extended.     *)
LEMMA Invoked ==
    ASSUME vendor \in Vendors, NEW c, NEW s, NEW h, CallInv(c, s, h), c.phase = "tools",
           NEW i, i = c.at + 1, NEW name, name = c.asks[i],
           NEW results, results = Answered(c.results, i, name)
    PROVE  CallInv(IF i < Len(c.asks) THEN [c EXCEPT !.at = i, !.results = results]
                   ELSE [Idle EXCEPT !.phase = "request",
                                     !.talk = Extended(c.talk, c.asks, results)],
                   [s EXCEPT !.count = @ + 1, !.sequence = Append(@, name)], h)
<1> DEFINE z == [s EXCEPT !.count = @ + 1, !.sequence = Append(@, name)]
           asked == AllAsked(c.talk)
           n == c.at
           first == FirstOf(c.asks, n)
<1>1. /\ c \in Locals /\ s \in Counts /\ h \in Nat /\ Answering(c.talk)
      /\ n < Len(c.asks) /\ c.results = ToolResults(c.asks, n)
      /\ s = CountOf(h, asked \o first)
    BY DEF CallInv
<1>2. /\ c.asks \in Seq(NamesAsked) /\ n \in Nat /\ c.talk \in Seq(Messages)
    BY <1>1 DEF Locals
<1>3. /\ i \in 1 .. Len(c.asks) /\ name \in NamesAsked /\ results = ToolResults(c.asks, i)
      /\ Append(first, name) = FirstOf(c.asks, i) /\ FirstOf(c.asks, Len(c.asks)) = c.asks
      /\ first \in Seq(NamesAsked) /\ results \in Seq(Results)
    <2> DEFINE asks == c.asks
    <2>1. asks \in Seq(NamesAsked) /\ n \in Nat /\ n < Len(asks)
        BY <1>1, <1>2
    <2> HIDE DEF asks, n
    <2>2. /\ FirstOf(asks, n) \in Seq(NamesAsked)
          /\ n + 1 \in 1 .. Len(asks) /\ asks[n + 1] \in NamesAsked
          /\ Answered(ToolResults(asks, n), n + 1, asks[n + 1]) = ToolResults(asks, n + 1)
          /\ Append(FirstOf(asks, n), asks[n + 1]) = FirstOf(asks, n + 1)
          /\ FirstOf(asks, Len(asks)) = asks
          /\ ToolResults(asks, n + 1) \in Seq(Results)
        BY <2>1, ToolsStepOn
    <2>3. i = n + 1 /\ name = asks[n + 1]
        BY DEF asks, n
    <2>4. results = Answered(ToolResults(asks, n), n + 1, asks[n + 1])
        BY <1>1, <2>3 DEF asks, n
    <2> QED
        BY <2>2, <2>3, <2>4 DEF asks
<1>4. asked \in Seq(NamesAsked)
    <2>1. [k \in DOMAIN c.talk |-> c.talk[k].calls] \in Seq(Seq(NamesAsked))
        <3>1. Len(c.talk) \in Nat /\ DOMAIN c.talk = 1 .. Len(c.talk)
            BY <1>2, LenProperties
        <3>2. \A k \in 1 .. Len(c.talk) : c.talk[k] \in Messages
            BY <1>2, ElementOfSeq
        <3>3. \A k \in 1 .. Len(c.talk) : c.talk[k].calls \in Seq(NamesAsked)
            BY <3>2 DEF Messages
        <3> QED
            BY <3>1, <3>3
    <2>2. << >> \in Seq(NamesAsked)
        OBVIOUS
    <2> QED
        BY <2>1, <2>2, FlattenAppend DEF AllAsked
<1> HIDE DEF n, asked, first
<1>5. Append(asked \o first, name) = asked \o FirstOf(c.asks, i)
    <2>1. Append(asked \o first, name) = asked \o Append(first, name)
        <3>1. /\ asked \in Seq(NamesAsked) /\ first \in Seq(NamesAsked)
              /\ name \in NamesAsked /\ << name >> \in Seq(NamesAsked)
            BY <1>3, <1>4
        <3>2. (asked \o first) \o << name >> = asked \o (first \o << name >>)
            BY <3>1, ConcatAssociative, SMTT(30)
        <3>3. /\ Append(first, name) = first \o << name >>
              /\ Append(asked \o first, name) = (asked \o first) \o << name >>
            BY <3>1, AppendIsConcat, ConcatProperties, SMTT(30)
        <3> QED
            BY <3>2, <3>3
    <2> QED
        BY <1>3, <2>1
<1>6. z \in Counts /\ z = CountOf(h, asked \o FirstOf(c.asks, i))
    <2>1. /\ asked \o first \in Seq(NamesAsked)
          /\ Append(asked \o first, name) \in Seq(NamesAsked)
          /\ Len(Append(asked \o first, name)) = Len(asked \o first) + 1
          /\ Len(asked \o first) \in Nat
        BY <1>3, <1>4
    <2> DEFINE both == asked \o first
               more == Append(both, name)
    <2>2. s = [tokens |-> h, count |-> Len(both), sequence |-> both]
        BY <1>1 DEF CountOf
    <2> HIDE DEF both
    <2>3. z = [tokens |-> h, count |-> Len(both) + 1, sequence |-> more]
        <3>1. z = [tokens |-> s.tokens, count |-> s.count + 1, sequence |-> Append(s.sequence, name)]
            <4>1. s \in [tokens : Nat, count : Nat, sequence : Seq(NamesAsked)]
                BY <1>1 DEF Counts
            <4>2. PICK x \in Seq(NamesAsked) : x = Append(s.sequence, name)
                <5>1. s.sequence \in Seq(NamesAsked)
                    BY <4>1
                <5>2. Append(s.sequence, name) \in Seq(NamesAsked)
                    BY <1>3, <5>1, AppendProperties
                <5> QED
                    BY <5>2
            <4>3. z = [s EXCEPT !.count = s.count + 1, !.sequence = x]
                BY <4>1, <4>2
            <4> HIDE DEF z
            <4>4. s.count + 1 \in Nat
                BY <4>1
            <4>5. z = [tokens |-> s.tokens, count |-> s.count + 1, sequence |-> x]
                BY <4>1, <4>3, <4>4, CountsGrow
            <4> QED
                BY <4>2, <4>5
        <3> HIDE DEF z
        <3> QED
            BY <2>2, <3>1
    <2>4. more \in Seq(NamesAsked) /\ Len(more) = Len(both) + 1 /\ Len(both) \in Nat
        BY <2>1 DEF both
    <2>5. more = asked \o FirstOf(c.asks, i)
        BY <1>5 DEF both
    <2> HIDE DEF more, z
    <2>6. z \in Counts
        BY <1>1, <2>3, <2>4 DEF Counts
    <2>7. z = CountOf(h, more)
        BY <2>3, <2>4 DEF CountOf
    <2> QED
        BY <2>5, <2>6, <2>7
<1> HIDE DEF z
<1>7. CASE i < Len(c.asks)
    <2> DEFINE d == [c EXCEPT !.at = i, !.results = results]
    <2>1. /\ d \in Locals /\ d.phase = "tools" /\ d.talk = c.talk /\ d.asks = c.asks
          /\ d.at = i /\ d.results = results
        <3>1. i \in Nat
            BY <1>3
        <3> QED
            BY <1>1, <1>3, <3>1 DEF Locals
    <2> HIDE DEF d
    <2>2. CallInv(d, z, h)
        BY <1>1, <1>3, <1>6, <1>7, <2>1 DEF CallInv, asked
    <2> QED
        BY <1>7, <2>2 DEF d, z
<1>8. CASE ~(i < Len(c.asks))
    <2> DEFINE talk == Extended(c.talk, c.asks, results)
               d == [Idle EXCEPT !.phase = "request", !.talk = talk]
    <2>1. i = Len(c.asks) /\ c.asks # <<>>
        <3>1. Len(c.asks) \in Nat /\ (c.asks = <<>> => Len(c.asks) = 0)
            BY <1>2, LenProperties, EmptySeq
        <3> QED
            BY <1>3, <1>8, <3>1
    <2>2. /\ talk \in Seq(Messages) /\ Answering(talk)
          /\ AllAsked(talk) = asked \o c.asks
        <3>1. results = ToolResults(c.asks, Len(c.asks))
            BY <1>3, <2>1
        <3> QED
            BY <1>1, <1>2, <2>1, <3>1, TalkGrows DEF asked
    <2> HIDE DEF talk
    <2>3. d \in Locals /\ d.phase = "request" /\ d.talk = talk
        BY <2>2, FreshCall DEF Idle, Locals, Phases
    <2> HIDE DEF d
    <2>4. z = CountOf(h, AllAsked(talk))
        BY <1>3, <1>6, <2>1, <2>2
    <2>5. CallInv(d, z, h)
        BY <1>1, <1>6, <2>2, <2>3, <2>4 DEF CallInv
    <2> QED
        BY <1>8, <2>5 DEF d, z, talk
<1> QED
    BY <1>7, <1>8

(* One thread's step leaves the other threads' parts alone.                  *)
LEMMA CallsGoOn == CallsInv /\ [CallsNext]_callVars => CallsInv'
<1> SUFFICES ASSUME CallsInv, [CallsNext]_callVars PROVE CallsInv'
    OBVIOUS
<1>1. CASE UNCHANGED callVars
    BY <1>1 DEF CallsInv, callVars
<1>2. CASE CallsNext
    <2>1. PICK t \in Threads : Start(t) \/ Step(t) \/ Leave(t)
        BY <1>2 DEF CallsNext
    <2>2. /\ vendor \in Vendors /\ CallInv(call[t], slots[t], heard[t])
          /\ DOMAIN call = Threads /\ DOMAIN slots = Threads /\ DOMAIN heard = Threads
          /\ call[t] \in Locals /\ slots[t] \in Counts
        BY DEF CallsInv, CallInv
    <2>3. CASE Start(t)
        <3>1. /\ call[t].phase = "idle" /\ vendor' = vendor /\ heard' = heard
              /\ call' = [call EXCEPT ![t] = [Idle EXCEPT !.phase = "request"]]
              /\ slots' = [slots EXCEPT ![t] = Zero]
            BY <2>3 DEF Start, Counted, Slot
        <3>2. heard'[t] = 0
            BY <2>2, <3>1 DEF CallInv
        <3>3. CallInv(call'[t], slots'[t], heard'[t])
            BY <2>2, <3>1, <3>2, FreshCall
        <3> QED
            BY <2>2, <3>1, <3>3, OneThread
    <2>4. ASSUME NEW error \in RequestErrors, Fail(t, error) PROVE CallsInv'
        <3> DEFINE phase == IF error \in Adapter.transient /\ call[t].attempt < MaxRetries
                            THEN "backoff" ELSE "raised"
        <3>1. /\ call[t].phase = "request" /\ call' = [call EXCEPT ![t].phase = phase]
              /\ UNCHANGED <<vendor, slots, heard>>
            BY <2>4 DEF Fail, Go
        <3>2. phase = "backoff" \/ phase = "raised"
            OBVIOUS
        <3> HIDE DEF phase
        <3>3. call'[t] = [call[t] EXCEPT !.phase = phase, !.attempt = call[t].attempt]
            BY <2>2, <3>1 DEF Locals
        <3>4. phase \in Phases /\ call[t].attempt \in Nat
            BY <2>2, <3>2 DEF Phases, Locals
        <3>5. CallInv(call'[t], slots'[t], heard'[t])
            <4>1. \/ phase = "raised"
                  \/ call[t].phase \in {"request", "backoff"} /\ phase \in {"request", "backoff"}
                BY <3>1, <3>2
            <4>2. CallInv([call[t] EXCEPT !.phase = phase, !.attempt = call[t].attempt], slots[t], heard[t])
                BY <2>2, <3>4, <4>1, PhaseMoves
            <4> QED
                BY <3>1, <3>3, <4>2
        <3> QED
            BY <2>2, <3>1, <3>5, OneThread
    <2>5. CASE Retry(t)
        <3>1. /\ call[t].phase = "backoff"
              /\ call'[t] = [call[t] EXCEPT !.phase = "request", !.attempt = call[t].attempt + 1]
              /\ DOMAIN call' = Threads /\ \A u \in Threads \ {t} : call'[u] = call[u]
              /\ UNCHANGED <<vendor, slots, heard>>
            BY <2>2, <2>5 DEF Retry, NextAttempt
        <3>2. "request" \in Phases /\ call[t].attempt + 1 \in Nat
            BY <2>2 DEF Phases, Locals
        <3>3. CallInv(call'[t], slots'[t], heard'[t])
            <4>1. CallInv([call[t] EXCEPT !.phase = "request", !.attempt = call[t].attempt + 1],
                          slots[t], heard[t])
                BY <2>2, <3>1, <3>2, PhaseMoves
            <4> QED
                BY <3>1, <4>1
        <3> QED
            BY <2>2, <3>1, <3>3, OneThread
    <2>6. ASSUME NEW asks \in Requests, NEW usage \in {0, 1}, Reply(t, asks, usage) PROVE CallsInv'
        <3>1. /\ call[t].phase = "request" /\ vendor' = vendor
              /\ slots' = [slots EXCEPT ![t] = [slots[t] EXCEPT !.tokens = @ + usage]]
              /\ heard' = [heard EXCEPT ![t] = heard[t] + usage]
              /\ call' = [call EXCEPT ![t] =
                    IF asks = <<>> THEN [call[t] EXCEPT !.phase = "returned"]
                    ELSE [call[t] EXCEPT !.phase = "tools", !.asks = asks, !.at = 0, !.results = <<>>]]
            BY <2>6 DEF Reply, Counted, Counters, Slot
        <3> DEFINE c == IF asks = <<>> THEN [call[t] EXCEPT !.phase = "returned"]
                        ELSE [call[t] EXCEPT !.phase = "tools", !.asks = asks, !.at = 0, !.results = <<>>]
                   s == [slots[t] EXCEPT !.tokens = @ + usage]
        <3>2. CallInv(c, s, heard[t] + usage)
            BY <2>2, <3>1, Replied
        <3> HIDE DEF c, s
        <3>3. call' = [call EXCEPT ![t] = c] /\ slots' = [slots EXCEPT ![t] = s]
            BY <3>1 DEF c, s
        <3>4. CallInv(call'[t], slots'[t], heard'[t])
            BY <2>2, <3>1, <3>2, <3>3
        <3> QED
            BY <2>2, <3>1, <3>3, <3>4, OneThread
    <2>7. CASE Invoke(t)
        <3> DEFINE i       == call[t].at + 1
                   name    == call[t].asks[i]
                   results == Answered(call[t].results, i, name)
                   c == IF i < Len(call[t].asks) THEN [call[t] EXCEPT !.at = i, !.results = results]
                        ELSE [Idle EXCEPT !.phase = "request",
                                          !.talk = Extended(call[t].talk, call[t].asks, results)]
                   s == [slots[t] EXCEPT !.count = @ + 1, !.sequence = Append(@, name)]
        <3>1. /\ call[t].phase = "tools" /\ UNCHANGED <<vendor, heard>>
              /\ call' = [call EXCEPT ![t] = c] /\ slots' = [slots EXCEPT ![t] = s]
            BY <2>7 DEF Invoke, Counted, Counters, Slot
        <3>2. CallInv(c, s, heard[t])
            BY <2>2, <3>1, Invoked
        <3> HIDE DEF c, s
        <3>3. CallInv(call'[t], slots'[t], heard'[t])
            BY <2>2, <3>1, <3>2
        <3> QED
            BY <2>2, <3>1, <3>3, OneThread
    <2>8. CASE InvokeRaises(t)
        <3>1. /\ call' = [call EXCEPT ![t].phase = "raised"] /\ UNCHANGED <<vendor, slots, heard>>
            BY <2>8 DEF InvokeRaises, Go
        <3>2. call'[t] = [call[t] EXCEPT !.phase = "raised", !.attempt = call[t].attempt]
            BY <2>2, <3>1 DEF Locals
        <3>3. "raised" \in Phases /\ call[t].attempt \in Nat
            BY <2>2 DEF Phases, Locals
        <3>4. CallInv(call'[t], slots'[t], heard'[t])
            <4>1. CallInv([call[t] EXCEPT !.phase = "raised", !.attempt = call[t].attempt],
                          slots[t], heard[t])
                BY <2>2, <3>3, PhaseMoves
            <4> QED
                BY <3>1, <3>2, <4>1
        <3> QED
            BY <2>2, <3>1, <3>4, OneThread
    <2>9. CASE Leave(t)
        <3>1. /\ UNCHANGED <<vendor, slots>> /\ call' = [call EXCEPT ![t] = Idle]
              /\ heard' = [heard EXCEPT ![t] = 0]
            BY <2>9 DEF Leave
        <3>2. CallInv(call'[t], slots'[t], heard'[t])
            BY <2>2, <3>1, FreshCall
        <3> QED
            BY <2>2, <3>1, <3>2, OneThread
    <2> QED
        BY <2>1, <2>3, <2>4, <2>5, <2>6, <2>7, <2>8, <2>9 DEF Step
<1> QED
    BY <1>1, <1>2 DEF callVars

AsAsked(answers, calls) ==
    /\ Len(answers) = Len(calls)
    /\ \A k \in DOMAIN calls :
           /\ answers[k].to = k /\ answers[k].name = calls[k]
           /\ answers[k].content = "error" <=> calls[k] \notin Tools

(* A conversation is only ever sent with every call of its responses         *)
(* answered once, in order and by name: complete() appends the whole of a    *)
(* turn's answers before its loop goes round, for each vendor's layout of    *)
(* them and for responses of any length.                                     *)
THEOREM AnswersAreComplete == CallsSpec => []RequestsAreAnswered
<1>1. CallsInv => RequestsAreAnswered
    <2> SUFFICES ASSUME CallsInv, NEW t \in Threads, NEW i \in DOMAIN call[t].talk,
                        call[t].talk[i].calls # <<>>
                 PROVE  AsAsked(AnswersTo(call[t].talk, i), call[t].talk[i].calls)
        BY Zenon DEF RequestsAreAnswered, AsAsked
    <2> DEFINE talk    == call[t].talk
               calls   == talk[i].calls
               answers == AnswersTo(talk, i)
    <2>1. talk \in Seq(Messages) /\ Answering(talk) /\ i \in 1 .. Len(talk)
        <3>1. call[t] \in Locals /\ Answering(talk)
            BY DEF CallsInv, CallInv
        <3>2. talk \in Seq(Messages)
            BY <3>1 DEF Locals
        <3> QED
            BY <3>1, <3>2, LenProperties
    <2>2. PICK m \in Nat : AnsweredBy(talk, i, m)
        BY <2>1 DEF Answering
    <2>3. answers = ToolResults(calls, Len(calls))
        BY <2>1, <2>2, AnswersAreResults
    <2>4. calls \in Seq(NamesAsked)
        <3>1. talk[i] \in Messages
            BY <2>1, ElementOfSeq
        <3> QED
            BY <3>1 DEF Messages
    <2>5. Len(calls) \in Nat /\ DOMAIN calls = 1 .. Len(calls)
        BY <2>4, LenProperties
    <2> HIDE DEF calls, answers
    <2>6. Len(answers) = Len(calls)
        BY <2>3, <2>5 DEF ToolResults
    <2>7. ASSUME NEW k \in DOMAIN calls
          PROVE  /\ answers[k].to = k /\ answers[k].name = calls[k]
                 /\ answers[k].content = "error" <=> calls[k] \notin Tools
        <3>1. answers[k] = [to |-> k, name |-> calls[k],
                            content |-> IF calls[k] \in Tools THEN "result" ELSE "error"]
            BY <2>3, <2>5 DEF ToolResults
        <3> QED
            BY <3>1
    <2> QED
        BY <2>6, <2>7 DEF AsAsked, answers, calls
<1> QED
    BY <1>1, CallsStart, CallsGoOn, PTL DEF CallsSpec

(* What a worker reads when its complete() has returned is what this call    *)
(* did, however many threads share the adapter: the thread-local store keeps *)
(* the others out, and the resets keep out the calls before.                 *)
THEOREM CountersAreTheCalls == CallsSpec => []CountersAreThisCall
<1>1. CallsInv => CountersAreThisCall
    <2> SUFFICES ASSUME CallsInv, NEW t \in Threads, call[t].phase = "returned"
                 PROVE  Counters(t) = CountOf(heard[t], AllAsked(call[t].talk))
        BY DEF CountersAreThisCall, CountOf, AllAsked
    <2> QED
        BY DEF CallsInv, CallInv, Counters, Slot
<1> QED
    BY <1>1, CallsStart, CallsGoOn, PTL DEF CallsSpec
=============================================================================
