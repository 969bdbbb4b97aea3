------------------------ MODULE GroupControllerProofs ------------------------
(***************************************************************************)
(* Proofs about GroupController, for every policy, every set of signals    *)
(* and quality scores, and any number of runs.                             *)
(*                                                                         *)
(* First the operations of PipelineState preserve the type of a group's    *)
(* state; then what each of them does to the fields the gates decide on    *)
(* gives the cooldown budget, the latency lockout and the gated switch;    *)
(* then what they do to the samples and to the escalation ladder gives the *)
(* rest.                                                                   *)
(***************************************************************************)
EXTENDS GroupController, SequenceTheorems, FiniteSetTheorems, TLAPS

\* The state part of TypeOK.
Legal(s) ==
    /\ s \in GroupControllerState
    /\ s.revert_obs_floor <= s.n_observations

-----------------------------------------------------------------------------
(* A suffix of a series of naturals is one (the series[-k:] of every rolling *)
(* window).                                                                  *)
LEMMA LastOfType ==
    ASSUME NEW series \in Seq(Nat), NEW k \in Nat
    PROVE  LastOf(series, k) \in Seq(Nat)
<1> DEFINE m == LargerOf(1, Len(series) - k + 1)
<1>1. Len(series) \in Nat /\ m \in Int /\ m >= 1
    BY DEF LargerOf
<1>2. \A i \in m .. Len(series) : series[i] \in Nat
    BY <1>1, ElementOfSeq
<1>3. SubSeq(series, m, Len(series)) \in Seq(Nat)
    BY <1>1, <1>2, SubSeqProperties
<1> QED
    BY <1>3 DEF LastOf

(* Appending a sample to a rolling list keeps it a list of samples.          *)
LEMMA ExtendType ==
    ASSUME NEW series \in Seq(Nat), NEW x \in Nat
    PROVE  Extend(series, x) \in Seq(Nat)
<1>1. Append(series, x) \in Seq(Nat)
    OBVIOUS
<1>2. Kept \in Nat
    BY PolicyAssumption DEF Kept, LargerOf
<1> QED
    BY <1>1, <1>2, LastOfType DEF Extend

(* The votes of a window are counted by a natural number, whichever          *)
(* threshold they meet.                                                      *)
LEMMA VotesType ==
    ASSUME NEW s \in GroupControllerState
    PROVE  ComposeVotes(s) \in Nat /\ DecomposeVotes(s) \in Nat
<1> DEFINE w == Window(s.observations)
<1>1. w \in Seq(Nat)
    BY PolicyAssumption, LastOfType DEF Window, GroupControllerState
<1>2. IsFiniteSet(DOMAIN w)
    BY <1>1, LenProperties, FS_Interval
<1>3. /\ IsFiniteSet({i \in DOMAIN w : w[i] >= ComposeAt})
      /\ IsFiniteSet({i \in DOMAIN w : w[i] <= DecomposeAt})
    BY <1>2, FS_Subset
<1> QED
    BY <1>3, FS_CardinalityType DEF ComposeVotes, DecomposeVotes

-----------------------------------------------------------------------------
(* Every operation of PipelineState preserves the type of the state.         *)

LEMMA RevertType ==
    ASSUME NEW s, Legal(s)
    PROVE  Legal(DoRevert(s))
<1>1. s.n_observations \in Nat /\ s.revert_count + 1 \in Nat
    BY DEF Legal, GroupControllerState
<1>2. \A n, k \in Nat :
          LET r == [s EXCEPT !.current_mode = "fine", !.confidence = 0,
                             !.revert_obs_floor = n, !.revert_count = k]
          IN  r \in GroupControllerState /\ r.revert_obs_floor = n
              /\ r.n_observations = s.n_observations
    BY DEF Legal, GroupControllerState, GroupMode
<1>3. /\ DoRevert(s) \in GroupControllerState
      /\ DoRevert(s).revert_obs_floor = s.n_observations
      /\ DoRevert(s).n_observations = s.n_observations
    BY <1>1, <1>2, Zenon DEF DoRevert
<1> QED
    BY <1>1, <1>3 DEF Legal

LEMMA RecordSignalType ==
    ASSUME NEW s, Legal(s), NEW sig \in SignalType
    PROVE  Legal(RecordSignal(s, sig))
<1> DEFINE a == RecordObservation(s, sig)
           b == RecordLatency(a, sig)
<1>1. sig.score \in Nat /\ sig.latency \in Nat /\ sig.tokens \in Nat
    BY DEF SignalType
<1>2. Legal(a)
    <2>1. PICK obs \in Seq(Nat) : obs = Extend(s.observations, sig.score)
        BY <1>1, ExtendType DEF Legal, GroupControllerState
    <2>2. PICK n \in Nat : n = s.n_observations + 1
        BY DEF Legal, GroupControllerState
    <2>3. a = [s EXCEPT !.observations = obs, !.n_observations = n]
        BY <2>1, <2>2 DEF RecordObservation
    <2>4. a \in GroupControllerState
        BY <2>3 DEF Legal, GroupControllerState
    <2>5. a.revert_obs_floor = s.revert_obs_floor /\ a.n_observations = n
        BY <2>3 DEF Legal, GroupControllerState
    <2>6. /\ s.revert_obs_floor \in Nat /\ s.n_observations \in Nat
          /\ s.revert_obs_floor <= s.n_observations
        BY DEF Legal, GroupControllerState
    <2> HIDE DEF a
    <2> QED
        BY <2>2, <2>4, <2>5, <2>6 DEF Legal
<1>3. Legal(b)
    <2>1. Extend(a.latency_compound_ms, sig.latency) \in Seq(Nat)
        BY <1>1, <1>2, ExtendType DEF Legal, GroupControllerState
    <2> HIDE DEF a
    <2> QED
        BY <1>2, <2>1 DEF Legal, RecordLatency, GroupControllerState
<1>4. Legal(RecordTokens(b, sig))
    <2>1. /\ Extend(b.tokens_compound, sig.tokens) \in Seq(Nat)
          /\ Extend(b.tokens_fine, sig.tokens) \in Seq(Nat)
        BY <1>1, <1>3, ExtendType DEF Legal, GroupControllerState
    <2> HIDE DEF b
    <2> QED
        BY <1>3, <2>1 DEF Legal, RecordTokens, GroupControllerState
<1> QED
    BY <1>4 DEF RecordSignal

LEMMA Gate1Type ==
    ASSUME NEW s, Legal(s), NEW apply \in BOOLEAN
    PROVE  Legal(Gate1(s, apply))
<1>1. ComposeVotes(s) \in Nat /\ DecomposeVotes(s) \in Nat
    BY VotesType DEF Legal
<1>2. Legal(DoRevert(s))
    BY RevertType
<1>3. Legal(Gate1Fine(s, apply))
    BY <1>1 DEF Legal, Gate1Fine, GroupControllerState, GroupMode
<1>4. Legal(Gate1Compound(s, apply))
    BY <1>1, <1>2 DEF Legal, Gate1Compound, GroupControllerState
<1>5. Legal([s EXCEPT !.confidence = 0])
    BY DEF Legal, GroupControllerState
<1> QED
    BY <1>3, <1>4, <1>5 DEF Gate1

LEMMA RecordAndMaybeSwitchType ==
    ASSUME NEW s, Legal(s), NEW sig \in SignalType, NEW apply \in BOOLEAN
    PROVE  Legal(RecordAndMaybeSwitch(s, sig, apply))
<1> DEFINE r == Gate1(RecordSignal(s, sig), apply)
<1>1. Legal(r)
    BY RecordSignalType, Gate1Type
<1>2. Legal(Gate3(r))
    BY <1>1, RevertType DEF Gate3
<1>3. Legal(Gate4(Gate3(r)))
    BY <1>2, RevertType DEF Gate4
<1> QED
    BY <1>1, <1>3 DEF RecordAndMaybeSwitch

LEMMA RecordFineBaselineType ==
    ASSUME NEW s, Legal(s), NEW sig \in SignalType
    PROVE  Legal(RecordFineBaseline(s, sig))
<1>1. LastOf(Append(s.avg_output_tokens_fine, sig.output), OutputWindow) \in Seq(Nat)
    <2>1. Append(s.avg_output_tokens_fine, sig.output) \in Seq(Nat)
        BY DEF Legal, GroupControllerState, SignalType
    <2> QED
        BY <2>1, LastOfType DEF OutputWindow
<1> QED
    BY <1>1 DEF Legal, RecordFineBaseline, GroupControllerState

LEMMA RecordQualityType ==
    ASSUME NEW s, Legal(s), NEW q \in Nat
    PROVE  Legal(RecordQuality(s, q))
<1>1. Extend(s.quality_scores, q) \in Seq(Nat)
    BY ExtendType DEF Legal, GroupControllerState
<1> QED
    BY <1>1 DEF Legal, RecordQuality, GroupControllerState

-----------------------------------------------------------------------------
(* Every rung has a place in the ladder.                                     *)
LEMMA LadderRungs ==
    /\ \A i \in 1..3 : Ladder[i] \in ExecutionModel
    /\ \A m \in ExecutionModel : Rung(m) \in 1..3 /\ Ladder[Rung(m)] = m
<1>1. Ladder[1] = "standard" /\ Ladder[2] = "two_phase" /\ Ladder[3] = "sequential"
    BY DEF Ladder
<1>2. \A i \in 1..3 : i = 1 \/ i = 2 \/ i = 3
    OBVIOUS
<1>3. \A i \in 1..3 : Ladder[i] \in ExecutionModel
    BY <1>1, <1>2 DEF ExecutionModel
<1>4. \A m \in ExecutionModel : \E i \in 1..3 : Ladder[i] = m
    <2> TAKE m \in ExecutionModel
    <2>1. CASE m = "standard"
        BY <1>1, <2>1
    <2>2. CASE m = "two_phase"
        BY <1>1, <2>2
    <2>3. CASE m = "sequential"
        BY <1>1, <2>3
    <2> QED
        BY <2>1, <2>2, <2>3 DEF ExecutionModel
<1>5. \A m \in ExecutionModel : Rung(m) \in 1..3 /\ Ladder[Rung(m)] = m
    BY <1>4, Zenon DEF Rung
<1> QED
    BY <1>3, <1>5

(* A COMPOUND run always resolves to a model of the ladder, and H2 has at    *)
(* least that one to try.                                                    *)
LEMMA ResolveModelType ==
    ASSUME NEW s, Legal(s), NEW withCompound \in BOOLEAN
    PROVE  ResolveModel(s, withCompound) \in ExecutionModel
<1>1. s.execution_model_override \in ExecutionModel \cup {None}
    BY DEF Legal, GroupControllerState
<1>2. VerbosityModel(s) \in ExecutionModel
    BY DEF VerbosityModel, ExecutionModel
<1> QED
    BY <1>1, <1>2, ControllerAssumption DEF ResolveModel, ExecutionModel

LEMMA ShadowCandidatesType ==
    ASSUME NEW s, Legal(s)
    PROVE  /\ ShadowCandidates(s) \in Seq(ExecutionModel)
           /\ Len(ShadowCandidates(s)) > 0
<1> DEFINE start == ResolveModel(s, FALSE)
<1>1. start \in ExecutionModel
    BY ResolveModelType
<1>2. Rung(start) \in 1..3
    BY <1>1, LadderRungs
<1>3. /\ SubSeq(Ladder, Rung(start), 3) \in Seq(ExecutionModel)
      /\ Len(SubSeq(Ladder, Rung(start), 3)) > 0
    <2>1. PICK r \in 1..3 : r = Rung(start)
        BY <1>2
    <2>2. \A i \in r .. 3 : Ladder[i] \in ExecutionModel
        BY <1>2, LadderRungs
    <2>3. /\ SubSeq(Ladder, r, 3) \in Seq(ExecutionModel)
          /\ Len(SubSeq(Ladder, r, 3)) = IF r <= 3 THEN 3 - r + 1 ELSE 0
        BY <2>2, SubSeqProperties
    <2>4. Len(SubSeq(Ladder, r, 3)) > 0
        <3>1. r <= 3 /\ 3 - r + 1 > 0
            OBVIOUS
        <3> QED
            BY <2>3, <3>1
    <2> QED
        BY <2>1, <2>3, <2>4, Zenon
<1>4. <<start>> \in Seq(ExecutionModel) /\ Len(<<start>>) > 0
    <2> HIDE DEF start
    <2> QED
        BY <1>1
<1> QED
    BY <1>3, <1>4 DEF ShadowCandidates

\* The fields the gates decide on.
SameGates(r, s) ==
    /\ r.current_mode = s.current_mode
    /\ r.n_observations = s.n_observations
    /\ r.revert_obs_floor = s.revert_obs_floor
    /\ r.revert_count = s.revert_count
    /\ r.latency_compound_ms = s.latency_compound_ms

(* Scoring a run, and moving along the ladder, keep the type of the state    *)
(* and touch none of the fields the gates decide on.                         *)
LEMMA RecordQualityKeeps ==
    ASSUME NEW s, Legal(s), NEW q \in Nat
    PROVE  Legal(RecordQuality(s, q)) /\ SameGates(RecordQuality(s, q), s)
<1>1. Legal(RecordQuality(s, q))
    BY RecordQualityType
<1>2. SameGates(RecordQuality(s, q), s)
    BY DEF SameGates, RecordQuality, Legal, GroupControllerState
<1> QED
    BY <1>1, <1>2

LEMMA StreaksKeep ==
    ASSUME NEW s, Legal(s), NEW f \in Nat, NEW e \in Nat,
           NEW m \in ExecutionModel \cup {None}
    PROVE  LET r == [s EXCEPT !.quality_failure_streak = f,
                              !.escalation_success_streak = e]
               o == [s EXCEPT !.quality_failure_streak = f,
                              !.escalation_success_streak = e,
                              !.execution_model_override = m]
           IN  Legal(r) /\ SameGates(r, s) /\ Legal(o) /\ SameGates(o, s)
BY DEF SameGates, Legal, GroupControllerState

LEMMA EscalateKeeps ==
    ASSUME NEW s, Legal(s)
    PROVE  Legal(Escalate(s)) /\ SameGates(Escalate(s), s)
<1> DEFINE failed  == [s EXCEPT !.quality_failure_streak = @ + 1,
                                !.escalation_success_streak = 0]
           current == IF s.execution_model_override # None
                      THEN s.execution_model_override ELSE PolicyModel
           next    == Ladder[Rung(current) + 1]
<1>1. s.quality_failure_streak + 1 \in Nat
    BY DEF Legal, GroupControllerState
<1>2. PICK f \in Nat : f = s.quality_failure_streak + 1
    BY <1>1
<1>3. failed = [s EXCEPT !.quality_failure_streak = f, !.escalation_success_streak = 0]
    BY <1>2
<1>4. Legal(failed) /\ SameGates(failed, s)
    BY <1>3, StreaksKeep
<1>5. CASE Escalate(s) = failed
    BY <1>4, <1>5
<1>6. CASE Escalate(s) # failed
    <2>1. /\ Ladders(current) /\ Rung(current) < 3
          /\ Escalate(s) = [failed EXCEPT !.execution_model_override = next,
                                          !.quality_failure_streak = 0]
        BY <1>6 DEF Escalate
    <2>2. next \in ExecutionModel
        <3>1. Rung(current) + 1 \in 1..3
            BY <2>1, LadderRungs DEF Ladders
        <3> QED
            BY <3>1, LadderRungs
    <2> HIDE DEF failed, next
    <2>3. /\ Legal([failed EXCEPT !.execution_model_override = next,
                                  !.quality_failure_streak = 0])
          /\ SameGates([failed EXCEPT !.execution_model_override = next,
                                      !.quality_failure_streak = 0], failed)
        BY <1>4, <2>2 DEF SameGates, Legal, GroupControllerState
    <2> QED
        BY <1>4, <2>1, <2>3 DEF SameGates
<1> QED
    BY <1>5, <1>6

LEMMA DeEscalateKeeps ==
    ASSUME NEW s, Legal(s)
    PROVE  Legal(DeEscalate(s)) /\ SameGates(DeEscalate(s), s)
<1> DEFINE passed  == [s EXCEPT !.quality_failure_streak = 0,
                                !.escalation_success_streak = @ + 1]
           current == s.execution_model_override
           next    == IF Rung(current) > 1 THEN Ladder[Rung(current) - 1] ELSE None
<1>1. PICK e \in Nat : e = s.escalation_success_streak + 1
    BY DEF Legal, GroupControllerState
<1>2. passed = [s EXCEPT !.quality_failure_streak = 0, !.escalation_success_streak = e]
    BY <1>1
<1>3. Legal(passed) /\ SameGates(passed, s)
    BY <1>2, StreaksKeep
<1>4. CASE DeEscalate(s) = passed
    BY <1>3, <1>4
<1>5. CASE DeEscalate(s) # passed
    <2>1. /\ current # None
          /\ DeEscalate(s) = [passed EXCEPT !.execution_model_override = next,
                                            !.escalation_success_streak = 0]
        BY <1>5 DEF DeEscalate
    <2>2. next \in ExecutionModel \cup {None}
        <3>1. current \in ExecutionModel
            BY <2>1 DEF Legal, GroupControllerState
        <3>2. Rung(current) \in 1..3
            BY <3>1, LadderRungs
        <3>3. Rung(current) > 1 => Rung(current) - 1 \in 1..3
            BY <3>2
        <3> QED
            BY <3>3, LadderRungs
    <2> HIDE DEF passed, next
    <2>3. /\ Legal([passed EXCEPT !.execution_model_override = next,
                                  !.escalation_success_streak = 0])
          /\ SameGates([passed EXCEPT !.execution_model_override = next,
                                      !.escalation_success_streak = 0], passed)
        BY <1>3, <2>2 DEF SameGates, Legal, GroupControllerState
    <2> QED
        BY <1>3, <2>1, <2>3 DEF SameGates
<1> QED
    BY <1>4, <1>5

LEMMA ReactiveGateKeeps ==
    ASSUME NEW s, Legal(s), NEW q \in Nat
    PROVE  Legal(ReactiveGate(s, q)) /\ SameGates(ReactiveGate(s, q), s)
<1> DEFINE r == RecordQuality(s, q)
<1>1. Legal(r) /\ SameGates(r, s)
    BY RecordQualityKeeps
<1>2. Legal(Escalate(r)) /\ SameGates(Escalate(r), r)
    BY <1>1, EscalateKeeps
<1>3. Legal(DeEscalate(r)) /\ SameGates(DeEscalate(r), r)
    BY <1>1, DeEscalateKeeps
<1> QED
    BY <1>1, <1>2, <1>3 DEF ReactiveGate, SameGates

-----------------------------------------------------------------------------
(* What the controller step leaves of a legal state is legal.                *)
LEMMA AfterRecordType ==
    ASSUME TypeOK, NEW sig \in Signals[level]
    PROVE  Legal(AfterRecord(sig))
<1>1. sig \in SignalType
    BY ControllerAssumption DEF TypeOK
<1>2. Legal(gs)
    BY DEF TypeOK, Legal
<1>3. Legal(RecordFineBaseline(gs, sig))
    BY <1>1, <1>2, RecordFineBaselineType
<1>4. (mode = "auto") \in BOOLEAN
    OBVIOUS
<1> QED
    BY <1>1, <1>2, <1>3, <1>4, RecordAndMaybeSwitchType DEF AfterRecord

(* The dataclass defaults are of the type, and every action keeps it.       *)
LEMMA TypeOKInit == Init => TypeOK
<1> SUFFICES ASSUME Init PROVE TypeOK
    OBVIOUS
<1>1. <<>> \in Seq(Nat) /\ <<>> \in Seq(ExecutionModel)
    OBVIOUS
<1>2. NewGroupState \in GroupControllerState
    BY <1>1 DEF NewGroupState, GroupControllerState, GroupMode
<1>3. NewGroupState.revert_obs_floor = 0 /\ NewGroupState.n_observations = 0
    BY DEF NewGroupState
<1> QED
    BY <1>1, <1>2, <1>3 DEF Init, TypeOK, GroupMode

LEMMA TypeOKStep == TypeOK /\ [Next]_vars => TypeOK'
<1> SUFFICES ASSUME TypeOK, [Next]_vars PROVE TypeOK'
    OBVIOUS
<1>1. Legal(gs)
    BY DEF TypeOK, Legal
<1>2. ASSUME NEW m \in RunModes, StartRun(m) PROVE TypeOK'
    <2>1. /\ m \in {"auto", "observe", "fine", "compound"}
          /\ ResolveMode(m) \in GroupMode
        BY ControllerAssumption DEF TypeOK, ResolveMode, GroupMode, GroupControllerState
    <2> QED
        BY <1>2, <2>1 DEF TypeOK, StartRun
<1>3. CASE DispatchFails
    BY <1>3 DEF TypeOK, DispatchFails
<1>4. ASSUME NEW sig \in Signals[level], ControllerStep(sig) PROVE TypeOK'
    <2>1. Legal(gs')
        BY <1>4, AfterRecordType DEF ControllerStep
    <2>2. /\ ShadowCandidates(gs') \in Seq(ExecutionModel)
          /\ Len(ShadowCandidates(gs')) > 0
        BY <2>1, ShadowCandidatesType
    <2> QED
        BY <1>4, <2>1, <2>2 DEF TypeOK, ControllerStep, Legal
<1>5. ASSUME NEW q \in Qualities, ShadowAccept(q) PROVE TypeOK'
    <2>1. q \in Nat
        BY ControllerAssumption
    <2>2. Legal(RecordQuality(gs, q))
        BY <1>1, <2>1, RecordQualityKeeps
    <2>3. Head(shadow) \in ExecutionModel
        BY <1>5 DEF TypeOK, ShadowAccept
    <2>4. Legal([RecordQuality(gs, q) EXCEPT !.execution_model_override = Head(shadow)])
        BY <2>2, <2>3 DEF Legal, GroupControllerState
    <2>5. Legal(gs')
        BY <1>5, <2>2, <2>4, Zenon DEF ShadowAccept
    <2>6. /\ pc' = "idle" /\ shadow' = <<>> /\ vetted' = Head(shadow)
          /\ mode' = mode /\ level' = level
        BY <1>5 DEF ShadowAccept
    <2> QED
        BY <2>3, <2>5, <2>6 DEF TypeOK, Legal
<1>6. ASSUME NEW q \in Qualities, ShadowRetry(q) PROVE TypeOK'
    <2>1. Legal(gs')
        BY <1>1, <1>6, ControllerAssumption, RecordQualityKeeps DEF ShadowRetry
    <2>2. shadow' \in Seq(ExecutionModel) /\ Len(shadow') > 0
        BY <1>6, HeadTailProperties DEF TypeOK, ShadowRetry
    <2> QED
        BY <1>6, <2>1, <2>2 DEF TypeOK, ShadowRetry, Legal
<1>7. ASSUME NEW q \in Qualities, ShadowReject(q) PROVE TypeOK'
    <2>1. Legal(RecordQuality(gs, q))
        BY <1>1, ControllerAssumption, RecordQualityKeeps
    <2>2. Legal(gs')
        BY <1>7, <2>1, RevertType DEF ShadowReject
    <2> QED
        BY <1>7, <2>2 DEF TypeOK, ShadowReject, Legal
<1>8. ASSUME NEW q \in Qualities, React(q) PROVE TypeOK'
    <2>1. Legal(gs')
        BY <1>1, <1>8, ControllerAssumption, ReactiveGateKeeps DEF React
    <2> QED
        BY <1>8, <2>1 DEF TypeOK, React, Legal
<1>9. CASE EvaluationFails
    BY <1>9 DEF TypeOK, EvaluationFails
<1>10. CASE UNCHANGED vars
    BY <1>10 DEF TypeOK, vars
<1> QED
    BY <1>2, <1>3, <1>4, <1>5, <1>6, <1>7, <1>8, <1>9, <1>10 DEF Next

(* Type correctness: whatever the runs report and the evaluator answers, the *)
(* fields keep their types and the cooldown never counts from beyond the     *)
(* observations there are.                                                   *)
THEOREM TypeCorrect == Spec => []TypeOK
BY TypeOKInit, TypeOKStep, PTL DEF Spec

-----------------------------------------------------------------------------
(* What each operation does to the fields the gates decide on.               *)

LEMMA RevertFields ==
    ASSUME NEW s, Legal(s)
    PROVE  /\ DoRevert(s).current_mode = "fine"
           /\ DoRevert(s).n_observations = s.n_observations
           /\ DoRevert(s).revert_obs_floor = s.n_observations
           /\ DoRevert(s).revert_count = s.revert_count + 1
           /\ DoRevert(s).latency_compound_ms = s.latency_compound_ms
BY DEF DoRevert, Legal, GroupControllerState

LEMMA RecordSignalFields ==
    ASSUME NEW s, Legal(s), NEW sig \in SignalType
    PROVE  LET r == RecordSignal(s, sig)
           IN  /\ r.current_mode = s.current_mode
               /\ r.n_observations = s.n_observations + 1
               /\ r.revert_obs_floor = s.revert_obs_floor
               /\ r.revert_count = s.revert_count
               /\ s.current_mode = "fine" =>
                      r.latency_compound_ms = s.latency_compound_ms
<1> DEFINE a == RecordObservation(s, sig)
           b == RecordLatency(a, sig)
<1>1. /\ a.n_observations = s.n_observations + 1
      /\ a.current_mode = s.current_mode
      /\ a.revert_obs_floor = s.revert_obs_floor
      /\ a.revert_count = s.revert_count
      /\ a.latency_compound_ms = s.latency_compound_ms
      /\ DOMAIN a = DOMAIN s
    BY DEF RecordObservation, Legal, GroupControllerState
<1>2. /\ b.n_observations = a.n_observations
      /\ b.current_mode = a.current_mode
      /\ b.revert_obs_floor = a.revert_obs_floor
      /\ b.revert_count = a.revert_count
      /\ a.current_mode = "fine" => b.latency_compound_ms = a.latency_compound_ms
      /\ DOMAIN b = DOMAIN a
    <2> HIDE DEF a
    <2> QED
        BY <1>1 DEF RecordLatency, Legal, GroupControllerState
<1>3. SameGates(RecordTokens(b, sig), b)
    <2> HIDE DEF b
    <2> QED
        BY <1>1, <1>2 DEF RecordTokens, SameGates, Legal, GroupControllerState
<1> HIDE DEF a, b
<1>4. RecordSignal(s, sig) = RecordTokens(b, sig)
    BY DEF RecordSignal, a, b
<1> QED
    BY <1>1, <1>2, <1>3, <1>4 DEF SameGates

LEMMA RecordFineBaselineFields ==
    ASSUME NEW s, Legal(s), NEW sig \in SignalType
    PROVE  SameGates(RecordFineBaseline(s, sig), s)
BY DEF SameGates, RecordFineBaseline, Legal, GroupControllerState

\* A gate sends a COMPOUND group back to FINE.
Reverts(r, s) == s.current_mode = "compound" /\ r = DoRevert(s)

\* Gate 1 switches a FINE group to COMPOUND.
Switches(r, s, apply) ==
    /\ apply
    /\ s.current_mode = "fine"
    /\ r.current_mode = "compound"
    /\ FreshObservations(s) >= RequiredObservations(s)
    /\ r.n_observations = s.n_observations
    /\ r.revert_obs_floor = s.revert_obs_floor
    /\ r.revert_count = s.revert_count
    /\ r.latency_compound_ms = s.latency_compound_ms

(* Gate 1 changes nothing the gates decide on, or it switches, or it reverts. *)
LEMMA Gate1Outcomes ==
    ASSUME NEW s, Legal(s), NEW apply \in BOOLEAN
    PROVE  LET r == Gate1(s, apply)
           IN  SameGates(r, s) \/ Switches(r, s, apply) \/ Reverts(r, s)
<1> DEFINE r == Gate1(s, apply)
<1>1. \A c : SameGates([s EXCEPT !.confidence = c], s)
    BY DEF SameGates, Legal, GroupControllerState
<1>2. /\ FreshObservations(s) \in Int /\ RequiredObservations(s) \in Int
      /\ s.current_mode \in {"fine", "compound"}
    BY PolicyAssumption
       DEF FreshObservations, RequiredObservations, SmallerOf, Legal,
           GroupControllerState, GroupMode
<1>3. CASE FreshObservations(s) < RequiredObservations(s)
    BY <1>1, <1>3 DEF Gate1
<1>4. CASE ~(FreshObservations(s) < RequiredObservations(s)) /\ s.current_mode = "fine"
    <2>1. r = Gate1Fine(s, apply)
        BY <1>4 DEF Gate1
    <2>2. FreshObservations(s) >= RequiredObservations(s)
        BY <1>2, <1>4
    <2>3. apply => Switches([s EXCEPT !.current_mode = "compound", !.confidence = 0],
                            s, apply)
        BY <1>4, <2>2 DEF Switches, Legal, GroupControllerState
    <2> QED
        BY <1>1, <2>1, <2>3, Zenon DEF Gate1Fine
<1>5. CASE ~(FreshObservations(s) < RequiredObservations(s)) /\ s.current_mode = "compound"
    <2>1. r = Gate1Compound(s, apply)
        BY <1>5 DEF Gate1
    <2> QED
        BY <1>1, <1>5, <2>1, Zenon DEF Gate1Compound, Reverts
<1> QED
    BY <1>2, <1>3, <1>4, <1>5

(* Gates 3 and 4 change nothing, or they revert a COMPOUND group.            *)
LEMMA LatencyAndTokenGateOutcomes ==
    ASSUME NEW s
    PROVE  /\ Gate3(s) = s \/ Reverts(Gate3(s), s)
           /\ Gate4(s) = s \/ Reverts(Gate4(s), s)
BY Zenon DEF Gate3, Gate4, Reverts

-----------------------------------------------------------------------------
(* One more attempt at COMPOUND costs the multiplier of the cooldown.        *)
LEMMA WarmupStep ==
    ASSUME NEW k \in Nat
    PROVE  /\ Warmup(k) \in Nat
           /\ Warmup(k + 1) = Warmup(k) + SmallerOf(1 + k, 5)
<1>1. CASE k = 0
    BY <1>1 DEF Warmup, SmallerOf
<1>2. CASE k = 1
    BY <1>2 DEF Warmup, SmallerOf
<1>3. CASE k = 2
    BY <1>3 DEF Warmup, SmallerOf
<1>4. CASE k = 3
    BY <1>4 DEF Warmup, SmallerOf
<1>5. CASE k = 4
    BY <1>5 DEF Warmup, SmallerOf
<1>6. CASE k > 4
    BY <1>6 DEF Warmup, SmallerOf
<1> QED
    BY <1>1, <1>2, <1>3, <1>4, <1>5, <1>6

(* The distributive law, for the multiples of MinObservations.               *)
LEMMA Distributes ==
    ASSUME NEW m \in Nat, NEW a \in Nat, NEW b \in Nat
    PROVE  m * (a + b) = m * a + m * b /\ m * a \in Nat /\ m * b \in Nat
OBVIOUS

(* The budget survives whatever leaves the gates' fields alone, another      *)
(* observation, a switch that Gate 1 allows, and a revert of a COMPOUND      *)
(* group.                                                                    *)
LEMMA BudgetKept ==
    ASSUME NEW s, NEW r, Budget(s), SameGates(r, s)
    PROVE  Budget(r)
BY DEF Budget, SameGates

LEMMA BudgetObserves ==
    ASSUME NEW s, Legal(s), NEW r, Budget(s),
           r.current_mode = s.current_mode,
           r.n_observations = s.n_observations + 1,
           r.revert_obs_floor = s.revert_obs_floor,
           r.revert_count = s.revert_count
    PROVE  Budget(r)
<1>1. s.n_observations \in Nat /\ s.revert_count \in Nat
    BY DEF Legal, GroupControllerState
<1>2. Warmup(s.revert_count + 1) \in Nat
    BY <1>1, WarmupStep
<1>3. MinObservations * Warmup(s.revert_count + 1) \in Nat
    BY <1>2, PolicyAssumption
<1> QED
    BY <1>1, <1>3 DEF Budget

LEMMA BudgetSwitches ==
    ASSUME NEW s, Legal(s), NEW r, NEW apply, Budget(s), Switches(r, s, apply)
    PROVE  Budget(r)
<1> DEFINE k == s.revert_count
           x == SmallerOf(1 + k, 5)
<1>1. /\ k \in Nat /\ s.n_observations \in Nat /\ s.revert_obs_floor \in Nat
      /\ MinObservations \in Nat
    BY PolicyAssumption DEF Legal, GroupControllerState
<1>2. /\ Warmup(k) \in Nat /\ x \in Nat
      /\ Warmup(k + 1) = Warmup(k) + x
    BY <1>1, WarmupStep DEF SmallerOf
<1>3. /\ MinObservations * Warmup(k + 1)
             = MinObservations * Warmup(k) + MinObservations * x
      /\ MinObservations * Warmup(k) \in Nat
      /\ MinObservations * x \in Nat
    BY <1>1, <1>2, Distributes
<1>4. s.n_observations - s.revert_obs_floor >= MinObservations * x
    BY DEF Switches, FreshObservations, RequiredObservations
<1>5. s.revert_obs_floor >= MinObservations * Warmup(k)
    BY DEF Budget
<1>6. s.n_observations >= MinObservations * Warmup(k + 1)
    <2> HIDE DEF k, x
    <2> QED
        BY <1>1, <1>3, <1>4, <1>5
<1> QED
    BY <1>5, <1>6 DEF Budget, Switches

LEMMA BudgetReverts ==
    ASSUME NEW s, Legal(s), NEW r, Budget(s), Reverts(r, s)
    PROVE  Budget(r)
BY RevertFields DEF Budget, Reverts

(* The whole of record_and_maybe_switch keeps the budget.                    *)
LEMMA BudgetRecord ==
    ASSUME NEW s, Legal(s), NEW sig \in SignalType, NEW apply \in BOOLEAN, Budget(s)
    PROVE  Budget(RecordAndMaybeSwitch(s, sig, apply))
<1> DEFINE a == RecordSignal(s, sig)
           b == Gate1(a, apply)
           c == Gate3(b)
           d == Gate4(c)
<1>1. Legal(a) /\ Budget(a)
    BY RecordSignalType, RecordSignalFields, BudgetObserves
<1>2. Legal(b) /\ Budget(b)
    <2> HIDE DEF a
    <2> QED
        BY <1>1, Gate1Type, Gate1Outcomes, BudgetKept, BudgetSwitches, BudgetReverts
<1>3. Legal(c) /\ Budget(c)
    <2> HIDE DEF b
    <2>1. Legal(c)
        BY <1>2, RevertType DEF Gate3
    <2> QED
        BY <1>2, <2>1, LatencyAndTokenGateOutcomes, BudgetReverts
<1>4. Budget(d)
    <2> HIDE DEF c
    <2> QED
        BY <1>3, LatencyAndTokenGateOutcomes, BudgetReverts
<1> QED
    BY <1>2, <1>4, Zenon DEF RecordAndMaybeSwitch

-----------------------------------------------------------------------------
\* The inductive invariant: H2 runs only for a group that has just switched,
\* so its revert is one from COMPOUND mode, and the budget is kept.
CooldownInv ==
    /\ TypeOK
    /\ pc = "shadow" => gs.current_mode = "compound"
    /\ Budget(gs)

(* The controller step in one piece: it keeps the state legal and in budget. *)
LEMMA AfterRecordInBudget ==
    ASSUME TypeOK, Budget(gs), NEW sig \in Signals[level]
    PROVE  Budget(AfterRecord(sig))
<1> DEFINE s == IF level = "fine" THEN RecordFineBaseline(gs, sig) ELSE gs
<1>1. sig \in SignalType /\ Legal(gs) /\ (mode = "auto") \in BOOLEAN
    BY ControllerAssumption DEF TypeOK, Legal
<1>2. Legal(s) /\ Budget(s)
    BY <1>1, RecordFineBaselineType, RecordFineBaselineFields, BudgetKept
<1>3. AfterRecord(sig) = RecordAndMaybeSwitch(s, sig, mode = "auto")
    BY Zenon DEF AfterRecord
<1> HIDE DEF s
<1> QED
    BY <1>1, <1>2, <1>3, BudgetRecord

(* Between a shadow score and its verdict the group stays in COMPOUND mode.  *)
LEMMA AcceptKeeps ==
    ASSUME NEW s, Legal(s), NEW q \in Nat, NEW m \in ExecutionModel
    PROVE  /\ SameGates(RecordQuality(s, q), s)
           /\ SameGates([RecordQuality(s, q) EXCEPT !.execution_model_override = m], s)
<1>1. Legal(RecordQuality(s, q)) /\ SameGates(RecordQuality(s, q), s)
    BY RecordQualityKeeps
<1>2. SameGates([RecordQuality(s, q) EXCEPT !.execution_model_override = m],
                RecordQuality(s, q))
    BY <1>1 DEF SameGates, Legal, GroupControllerState
<1> QED
    BY <1>1, <1>2 DEF SameGates

(* Every verdict of H2 and H3 leaves the gates' fields alone, but for the    *)
(* revert of a rejected switch.                                              *)
LEMMA VerdictsKeep ==
    ASSUME TypeOK, NEW q \in Qualities,
           ShadowAccept(q) \/ ShadowRetry(q) \/ React(q)
    PROVE  SameGates(gs', gs)
<1>1. q \in Nat /\ Legal(gs)
    BY ControllerAssumption DEF TypeOK, Legal
<1>2. CASE ShadowAccept(q)
    <2>1. Head(shadow) \in ExecutionModel
        BY <1>2 DEF TypeOK, ShadowAccept
    <2> QED
        BY <1>1, <1>2, <2>1, AcceptKeeps, Zenon DEF ShadowAccept
<1>3. CASE ShadowRetry(q)
    BY <1>1, <1>3, RecordQualityKeeps DEF ShadowRetry
<1>4. CASE React(q)
    BY <1>1, <1>4, ReactiveGateKeeps DEF React
<1> QED
    BY <1>2, <1>3, <1>4

(* A new group owes nothing, and every action keeps the invariant.           *)
LEMMA CooldownInvInit == Init => CooldownInv
<1> SUFFICES ASSUME Init PROVE CooldownInv
    OBVIOUS
<1>1. TypeOK
    BY TypeOKInit
<1>2. /\ gs.revert_obs_floor = 0 /\ gs.revert_count = 0
      /\ gs.current_mode = "fine" /\ pc = "idle"
    BY DEF Init, NewGroupState
<1>3. Warmup(0) = 0
    BY DEF Warmup
<1>4. MinObservations * 0 = 0
    BY PolicyAssumption
<1> QED
    BY <1>1, <1>2, <1>3, <1>4 DEF CooldownInv, Budget

LEMMA CooldownInvStep == CooldownInv /\ [Next]_vars => CooldownInv'
<1> SUFFICES ASSUME CooldownInv, [Next]_vars PROVE CooldownInv'
    OBVIOUS
<1>1. TypeOK /\ TypeOK' /\ Legal(gs)
    BY TypeOKStep DEF CooldownInv, TypeOK, Legal
<1>2. ASSUME SameGates(gs', gs), pc' = "shadow" => pc = "shadow" PROVE CooldownInv'
    <2>1. Budget(gs')
        BY <1>2, BudgetKept DEF CooldownInv
    <2> QED
        BY <1>1, <1>2, <2>1 DEF CooldownInv, SameGates
<1>3. ASSUME gs' = gs, pc' # "shadow" PROVE CooldownInv'
    BY <1>1, <1>3 DEF CooldownInv
<1>4. ASSUME NEW m \in RunModes, StartRun(m) PROVE CooldownInv'
    BY <1>3, <1>4 DEF StartRun
<1>5. CASE DispatchFails
    BY <1>3, <1>5 DEF DispatchFails
<1>6. ASSUME NEW sig \in Signals[level], ControllerStep(sig) PROVE CooldownInv'
    <2>1. Budget(gs')
        BY <1>1, <1>6, AfterRecordInBudget DEF CooldownInv, ControllerStep
    <2>2. pc' = "shadow" => gs'.current_mode = "compound"
        BY <1>6 DEF ControllerStep, NeedsShadow
    <2> QED
        BY <1>1, <2>1, <2>2 DEF CooldownInv
<1>7. ASSUME NEW q \in Qualities, ShadowAccept(q) \/ ShadowRetry(q) \/ React(q)
      PROVE  CooldownInv'
    <2>1. SameGates(gs', gs)
        BY <1>1, <1>7, VerdictsKeep
    <2>2. pc' = "shadow" => pc = "shadow"
        BY <1>7 DEF ShadowAccept, ShadowRetry, React
    <2> QED
        BY <1>2, <2>1, <2>2
<1>8. ASSUME NEW q \in Qualities, ShadowReject(q) PROVE CooldownInv'
    <2> DEFINE r == RecordQuality(gs, q)
    <2>1. q \in Nat
        BY ControllerAssumption
    <2>2. Legal(r) /\ SameGates(r, gs)
        BY <1>1, <2>1, RecordQualityKeeps
    <2>3. Reverts(gs', r)
        BY <1>8, <2>2 DEF CooldownInv, ShadowReject, Reverts, SameGates
    <2> HIDE DEF r
    <2>4. Budget(gs')
        BY <2>2, <2>3, BudgetKept, BudgetReverts DEF CooldownInv
    <2> QED
        BY <1>1, <1>8, <2>4 DEF CooldownInv, ShadowReject
<1>9. CASE EvaluationFails
    BY <1>3, <1>9 DEF EvaluationFails
<1>10. CASE UNCHANGED vars
    BY <1>1, <1>10 DEF CooldownInv, vars
<1> QED
    BY <1>4, <1>5, <1>6, <1>7, <1>8, <1>9, <1>10 DEF Next

(* The cooldown budget (T-049): for every policy and every stream of runs,   *)
(* the k-th revert comes no sooner than after                                *)
(* MinObservations * (1 + 2 + ... + k) observations, the multiplier capped   *)
(* at 5.                                                                     *)
THEOREM CooldownBudgetHolds == Spec => []CooldownBudget
<1>1. CooldownInv => CooldownBudget
    BY DEF CooldownInv, CooldownBudget
<1> QED
    BY <1>1, CooldownInvInit, CooldownInvStep, PTL DEF Spec

-----------------------------------------------------------------------------
(* Gate 3 reads the COMPOUND latencies and nothing else of the state.        *)
LEMMA TooSlowReadsLatencies ==
    ASSUME NEW s, NEW r, r.latency_compound_ms = s.latency_compound_ms
    PROVE  TooSlow(r) <=> TooSlow(s)
BY DEF TooSlow

(* One record_and_maybe_switch cannot leave a locked-out group in COMPOUND:  *)
(* Gate 1 may switch it, and then Gate 3 reads the same latencies.           *)
LEMMA LockoutRecord ==
    ASSUME NEW s, Legal(s), NEW sig \in SignalType, NEW apply \in BOOLEAN, LockedOut(s)
    PROVE  LockedOut(RecordAndMaybeSwitch(s, sig, apply))
<1> DEFINE a == RecordSignal(s, sig)
           b == Gate1(a, apply)
           c == Gate3(b)
           d == Gate4(c)
<1>1. Legal(a) /\ LockedOut(a)
    BY RecordSignalType, RecordSignalFields, TooSlowReadsLatencies DEF LockedOut
<1>2. /\ Legal(b) /\ TooSlow(b)
      /\ b.current_mode = "fine" \/ (apply /\ b.current_mode = "compound")
    <2> HIDE DEF a
    <2>1. SameGates(b, a) \/ Switches(b, a, apply)
        BY <1>1, Gate1Outcomes DEF LockedOut, Reverts
    <2> HIDE DEF b
    <2>2. b.latency_compound_ms = a.latency_compound_ms
        BY <2>1 DEF SameGates, Switches
    <2>3. b.current_mode = "fine" \/ (apply /\ b.current_mode = "compound")
        BY <1>1, <2>1, Zenon DEF SameGates, Switches, LockedOut
    <2>4. Legal(b)
        BY <1>1, Gate1Type DEF b
    <2> QED
        BY <1>1, <2>2, <2>3, <2>4, TooSlowReadsLatencies DEF LockedOut
<1>3. LockedOut(c)
    <2> HIDE DEF b
    <2>1. CASE b.current_mode = "fine"
        BY <1>2, <2>1 DEF Gate3, LockedOut
    <2>2. CASE b.current_mode = "compound"
        <3>1. c = DoRevert(b)
            BY <1>2, <2>2 DEF Gate3
        <3> QED
            BY <1>2, <3>1, RevertFields, TooSlowReadsLatencies DEF LockedOut
    <2> QED
        BY <1>2, <2>1, <2>2
<1>4. LockedOut(d)
    <2> HIDE DEF c
    <2> QED
        BY <1>3 DEF Gate4, LockedOut
<1>5. CASE apply
    <2>1. RecordAndMaybeSwitch(s, sig, apply) = d
        BY <1>5, Zenon DEF RecordAndMaybeSwitch
    <2> QED
        BY <1>4, <2>1
<1>6. CASE ~apply
    <2>1. RecordAndMaybeSwitch(s, sig, apply) = b
        BY <1>6, Zenon DEF RecordAndMaybeSwitch
    <2> HIDE DEF b
    <2> QED
        BY <1>2, <1>6, <2>1 DEF LockedOut
<1> QED
    BY <1>5, <1>6

(* Nor does anything that leaves the gates' fields alone.                    *)
LEMMA LockoutKept ==
    ASSUME NEW s, NEW r, SameGates(r, s), LockedOut(s)
    PROVE  LockedOut(r)
BY TooSlowReadsLatencies DEF LockedOut, SameGates

(* The latency lockout: once Gate 3 has closed on a group in FINE mode, no   *)
(* run and no score ever opens it again, whatever the policy.                *)
THEOREM LatencyLockoutHolds == Spec => LatencyLockout
<1>1. CooldownInv /\ [Next]_vars => [LockedOut(gs) => LockedOut(gs')]_vars
    <2> SUFFICES ASSUME CooldownInv, Next, LockedOut(gs) PROVE LockedOut(gs')
        BY DEF vars
    <2>1. TypeOK /\ Legal(gs)
        BY DEF CooldownInv, TypeOK, Legal
    <2>2. pc # "shadow"
        BY DEF CooldownInv, LockedOut
    <2>3. ASSUME NEW sig \in Signals[level], ControllerStep(sig) PROVE LockedOut(gs')
        <3> DEFINE s == IF level = "fine" THEN RecordFineBaseline(gs, sig) ELSE gs
        <3>1. sig \in SignalType /\ (mode = "auto") \in BOOLEAN
            BY <2>1, ControllerAssumption DEF TypeOK
        <3>2. Legal(s) /\ LockedOut(s)
            BY <2>1, <3>1, RecordFineBaselineType, RecordFineBaselineFields, LockoutKept
        <3>3. gs' = RecordAndMaybeSwitch(s, sig, mode = "auto")
            BY <2>3, Zenon DEF ControllerStep, AfterRecord
        <3> HIDE DEF s
        <3> QED
            BY <3>1, <3>2, <3>3, LockoutRecord
    <2>4. ASSUME NEW q \in Qualities, React(q) PROVE LockedOut(gs')
        BY <2>1, <2>4, VerdictsKeep, LockoutKept
    <2>5. ASSUME NEW q \in Qualities, ShadowAccept(q) \/ ShadowRetry(q) \/ ShadowReject(q)
          PROVE  LockedOut(gs')
        BY <2>2, <2>5 DEF ShadowAccept, ShadowRetry, ShadowReject
    <2>6. ASSUME gs' = gs PROVE LockedOut(gs')
        BY <2>6
    <2> QED
        BY <2>3, <2>4, <2>5, <2>6 DEF Next, StartRun, DispatchFails, EvaluationFails
<1> QED
    BY <1>1, CooldownInvInit, CooldownInvStep, PTL DEF Spec, LatencyLockout

-----------------------------------------------------------------------------
\* A COMPOUND group is one whose switch is being compared, or has passed.
GateInv ==
    /\ TypeOK
    /\ HasEvaluator /\ QualityFloor # None /\ gs.current_mode = "compound" =>
           pc = "shadow" \/ vetted # None

(* The reverts of Gates 3 and 4 and the observations of a locked run never   *)
(* move a FINE group to COMPOUND: a run does so only by a switch of Gate 1,  *)
(* and Gate 1 switches only where the run applies its decision.              *)
LEMMA OnlyAppliedRunsSwitch ==
    ASSUME NEW s, Legal(s), NEW sig \in SignalType, s.current_mode = "fine"
    PROVE  RecordAndMaybeSwitch(s, sig, FALSE).current_mode = "fine"
<1> DEFINE a == RecordSignal(s, sig)
<1>1. Legal(a) /\ a.current_mode = "fine"
    BY RecordSignalType, RecordSignalFields
<1> HIDE DEF a
<1>2. Gate1(a, FALSE).current_mode = "fine"
    BY <1>1, Gate1Outcomes DEF SameGates, Switches, Reverts
<1> QED
    BY <1>2, Zenon DEF RecordAndMaybeSwitch, a

(* H2 gates every switch: if no call of a run raises, a group that has an    *)
(* evaluator and a quality floor is in COMPOUND mode between runs only when  *)
(* a shadow run of its last switch scored at least the floor.  (With calls   *)
(* that raise, the switch is already stored and the property fails.)         *)
THEOREM SwitchPassedGateHolds == ~CallsMayFail => (Spec => []SwitchPassedGate)
<1> SUFFICES ASSUME ~CallsMayFail PROVE Spec => []SwitchPassedGate
    OBVIOUS
<1>1. Init => GateInv
    <2> SUFFICES ASSUME Init PROVE GateInv
        OBVIOUS
    <2>1. gs.current_mode = "fine"
        BY DEF Init, NewGroupState
    <2> QED
        BY <2>1, TypeOKInit DEF GateInv
<1>2. GateInv /\ [Next]_vars => GateInv'
    <2> SUFFICES ASSUME GateInv, [Next]_vars PROVE GateInv'
        OBVIOUS
    <2>1. TypeOK /\ TypeOK' /\ Legal(gs)
        BY TypeOKStep DEF GateInv, TypeOK, Legal
    <2>2. ASSUME gs'.current_mode = gs.current_mode, vetted' = vetted, pc # "shadow"
          PROVE  GateInv'
        BY <2>1, <2>2 DEF GateInv
    <2>3. ASSUME NEW m \in RunModes, StartRun(m) PROVE GateInv'
        BY <2>2, <2>3 DEF StartRun
    <2>4. CASE DispatchFails
        BY <2>2, <2>4 DEF DispatchFails
    <2>5. ASSUME NEW sig \in Signals[level], ControllerStep(sig) PROVE GateInv'
        <3>1. CASE NeedsShadow(gs')
            <4>1. pc' = "shadow"
                BY <2>5, <3>1 DEF ControllerStep, NeedsReaction
            <4> QED
                BY <2>1, <4>1 DEF GateInv
        <3>2. CASE ~NeedsShadow(gs')
            <4>1. pc = "run" /\ vetted' = vetted /\ gs' = AfterRecord(sig)
                BY <2>5, <3>2 DEF ControllerStep
            <4>2. CASE gs.current_mode = "compound"
                BY <2>1, <4>1, <4>2 DEF GateInv
            <4>3. CASE gs.current_mode = "fine" /\ mode = "auto"
                BY <2>1, <3>2, <4>3 DEF GateInv, NeedsShadow
            <4>4. CASE gs.current_mode = "fine" /\ mode # "auto"
                <5> DEFINE s == IF level = "fine" THEN RecordFineBaseline(gs, sig) ELSE gs
                <5>1. sig \in SignalType
                    BY <2>1, ControllerAssumption DEF TypeOK
                <5>2. Legal(s) /\ s.current_mode = "fine"
                    BY <2>1, <4>4, <5>1, RecordFineBaselineType, RecordFineBaselineFields
                       DEF SameGates
                <5>3. gs' = RecordAndMaybeSwitch(s, sig, FALSE)
                    <6>1. (mode = "auto") = FALSE
                        BY <4>4
                    <6> QED
                        BY <4>1, <6>1, Zenon DEF AfterRecord
                <5> HIDE DEF s
                <5>4. gs'.current_mode = "fine"
                    BY <5>1, <5>2, <5>3, OnlyAppliedRunsSwitch
                <5> QED
                    BY <2>1, <5>4 DEF GateInv
            <4> QED
                BY <2>1, <4>2, <4>3, <4>4 DEF Legal, GroupControllerState, GroupMode
        <3> QED
            BY <3>1, <3>2
    <2>6. ASSUME NEW q \in Qualities, ShadowAccept(q) PROVE GateInv'
        <3>1. vetted' \in ExecutionModel
            BY <2>1, <2>6 DEF TypeOK, ShadowAccept
        <3>2. vetted' # None
            BY <3>1, NoneAssumption DEF ExecutionModel
        <3> QED
            BY <2>1, <3>2 DEF GateInv
    <2>7. ASSUME NEW q \in Qualities, ShadowRetry(q) PROVE GateInv'
        BY <2>1, <2>7 DEF GateInv, ShadowRetry
    <2>8. ASSUME NEW q \in Qualities, ShadowReject(q) PROVE GateInv'
        <3>1. q \in Nat
            BY ControllerAssumption
        <3>2. gs'.current_mode = "fine"
            BY <2>1, <2>8, <3>1, RecordQualityType, RevertFields DEF ShadowReject
        <3> QED
            BY <2>1, <3>2 DEF GateInv
    <2>9. ASSUME NEW q \in Qualities, React(q) PROVE GateInv'
        <3>1. SameGates(gs', gs)
            BY <2>1, <2>9, VerdictsKeep
        <3> QED
            BY <2>2, <2>9, <3>1 DEF React, SameGates
    <2>10. CASE EvaluationFails
        BY <2>10 DEF EvaluationFails
    <2>11. CASE UNCHANGED vars
        BY <2>1, <2>11 DEF GateInv, vars
    <2> QED
        BY <2>3, <2>4, <2>5, <2>6, <2>7, <2>8, <2>9, <2>10, <2>11 DEF Next
<1>3. GateInv => SwitchPassedGate
    BY DEF GateInv, SwitchPassedGate, QualityGated
<1> QED
    BY <1>1, <1>2, <1>3, PTL DEF Spec

-----------------------------------------------------------------------------
\* The fields the resolution of a COMPOUND run's execution model reads and the
\* ladder moves, and the samples the gates average.
SameLadder(r, s) ==
    /\ r.execution_model_override = s.execution_model_override
    /\ r.quality_failure_streak = s.quality_failure_streak
    /\ r.escalation_success_streak = s.escalation_success_streak

SameSamples(r, s) ==
    /\ r.observations = s.observations
    /\ r.latency_compound_ms = s.latency_compound_ms
    /\ r.tokens_compound = s.tokens_compound
    /\ r.tokens_fine = s.tokens_fine
    /\ r.avg_output_tokens_fine = s.avg_output_tokens_fine

(* A revert and a score touch neither.                                       *)
LEMMA RevertKeepsRest ==
    ASSUME NEW s, Legal(s)
    PROVE  SameLadder(DoRevert(s), s) /\ SameSamples(DoRevert(s), s)
BY DEF DoRevert, SameLadder, SameSamples, Legal, GroupControllerState

LEMMA RecordQualityKeepsRest ==
    ASSUME NEW s, Legal(s), NEW q \in Nat
    PROVE  SameLadder(RecordQuality(s, q), s) /\ SameSamples(RecordQuality(s, q), s)
BY DEF RecordQuality, SameLadder, SameSamples, Legal, GroupControllerState

(* Nor do Gate 1, which writes the mode, the confidence and the revert        *)
(* fields, and Gates 3 and 4, which revert.                                   *)
LEMMA GatesKeepRest ==
    ASSUME NEW s, Legal(s), NEW apply \in BOOLEAN
    PROVE  LET r == Gate4(Gate3(Gate1(s, apply)))
           IN  /\ Legal(r) /\ SameLadder(r, s) /\ SameSamples(r, s)
               /\ SameLadder(Gate1(s, apply), s) /\ SameSamples(Gate1(s, apply), s)
<1> DEFINE a == Gate1(s, apply)
           b == Gate3(a)
           c == Gate4(b)
<1>1. \A n : /\ SameLadder([s EXCEPT !.confidence = n], s)
             /\ SameSamples([s EXCEPT !.confidence = n], s)
    BY DEF SameLadder, SameSamples, Legal, GroupControllerState
<1>2. LET r == [s EXCEPT !.current_mode = "compound", !.confidence = 0]
      IN  SameLadder(r, s) /\ SameSamples(r, s)
    BY DEF SameLadder, SameSamples, Legal, GroupControllerState
<1>3. SameLadder(a, s) /\ SameSamples(a, s)
    <2>1. /\ SameLadder(Gate1Fine(s, apply), s)
          /\ SameSamples(Gate1Fine(s, apply), s)
        BY <1>1, <1>2, Zenon DEF Gate1Fine
    <2>2. /\ SameLadder(Gate1Compound(s, apply), s)
          /\ SameSamples(Gate1Compound(s, apply), s)
        BY <1>1, RevertKeepsRest, Zenon DEF Gate1Compound
    <2> QED
        BY <1>1, <2>1, <2>2, Zenon DEF Gate1
<1>4. Legal(a)
    BY Gate1Type
<1>5. Legal(b) /\ SameLadder(b, a) /\ SameSamples(b, a)
    <2> HIDE DEF a
    <2> QED
        BY <1>4, RevertType, RevertKeepsRest DEF Gate3, SameLadder, SameSamples
<1>6. Legal(c) /\ SameLadder(c, b) /\ SameSamples(c, b)
    <2> HIDE DEF b
    <2> QED
        BY <1>5, RevertType, RevertKeepsRest DEF Gate4, SameLadder, SameSamples
<1>7. Legal(c) /\ SameLadder(c, s) /\ SameSamples(c, s)
    <2> HIDE DEF a, b, c
    <2> QED
        BY <1>3, <1>5, <1>6 DEF SameLadder, SameSamples
<1> QED
    BY <1>3, <1>7, Zenon

(* A run's report goes to the lists of the stored mode, and not to the       *)
(* ladder.                                                                   *)
LEMMA RecordSignalFiles ==
    ASSUME NEW s, Legal(s), NEW sig \in SignalType
    PROVE  LET r == RecordSignal(s, sig)
           IN  /\ SameLadder(r, s)
               /\ r.avg_output_tokens_fine = s.avg_output_tokens_fine
               /\ s.current_mode = "fine" =>
                      /\ r.latency_compound_ms = s.latency_compound_ms
                      /\ r.tokens_compound = s.tokens_compound
               /\ s.current_mode = "compound" => r.tokens_fine = s.tokens_fine
<1> DEFINE a == RecordObservation(s, sig)
           b == RecordLatency(a, sig)
           c == RecordTokens(b, sig)
           Files(r, t) ==
               /\ SameLadder(r, t)
               /\ r.current_mode = t.current_mode
               /\ r.avg_output_tokens_fine = t.avg_output_tokens_fine
               /\ t.current_mode = "fine" =>
                      /\ r.latency_compound_ms = t.latency_compound_ms
                      /\ r.tokens_compound = t.tokens_compound
               /\ t.current_mode = "compound" => r.tokens_fine = t.tokens_fine
               /\ DOMAIN r = DOMAIN t
<1>1. Files(a, s)
    BY DEF RecordObservation, SameLadder, Legal, GroupControllerState
<1>2. Files(b, a)
    <2>1. DOMAIN a = DOMAIN s
        BY <1>1
    <2> HIDE DEF a
    <2> QED
        BY <2>1 DEF RecordLatency, SameLadder, Legal, GroupControllerState
<1>3. Files(c, b)
    <2>1. DOMAIN b = DOMAIN s
        BY <1>1, <1>2
    <2> HIDE DEF b
    <2> QED
        BY <2>1 DEF RecordTokens, SameLadder, Legal, GroupControllerState
<1>4. RecordSignal(s, sig) = c
    BY DEF RecordSignal
<1> HIDE DEF a, b, c
<1> QED
    BY <1>1, <1>2, <1>3, <1>4 DEF SameLadder

(* The controller step as a whole: only a FINE run's output baseline moves   *)
(* what the execution model is resolved from.                                *)
LEMMA AfterRecordFiles ==
    ASSUME TypeOK, NEW sig \in Signals[level]
    PROVE  LET r == AfterRecord(sig)
           IN  /\ SameLadder(r, gs)
               /\ level = "compound" =>
                      r.avg_output_tokens_fine = gs.avg_output_tokens_fine
               /\ gs.current_mode = "fine" =>
                      /\ r.latency_compound_ms = gs.latency_compound_ms
                      /\ r.tokens_compound = gs.tokens_compound
               /\ gs.current_mode = "compound" => r.tokens_fine = gs.tokens_fine
<1> DEFINE s == IF level = "fine" THEN RecordFineBaseline(gs, sig) ELSE gs
           a == RecordSignal(s, sig)
           apply == mode = "auto"
<1>1. sig \in SignalType /\ Legal(gs) /\ apply \in BOOLEAN
    BY ControllerAssumption DEF TypeOK, Legal
<1>2. /\ SameLadder(s, gs)
      /\ s.current_mode = gs.current_mode
      /\ level = "compound" => s = gs
      /\ s.latency_compound_ms = gs.latency_compound_ms
      /\ s.tokens_compound = gs.tokens_compound
      /\ s.tokens_fine = gs.tokens_fine
    BY <1>1 DEF SameLadder, RecordFineBaseline, Legal, GroupControllerState
<1>3. Legal(s)
    BY <1>1, RecordFineBaselineType
<1>4. AfterRecord(sig) = RecordAndMaybeSwitch(s, sig, apply)
    BY Zenon DEF AfterRecord
<1> HIDE DEF s, apply
<1>5. /\ Legal(a)
      /\ SameLadder(a, s)
      /\ a.avg_output_tokens_fine = s.avg_output_tokens_fine
      /\ s.current_mode = "fine" =>
             /\ a.latency_compound_ms = s.latency_compound_ms
             /\ a.tokens_compound = s.tokens_compound
      /\ s.current_mode = "compound" => a.tokens_fine = s.tokens_fine
    BY <1>1, <1>3, RecordSignalType, RecordSignalFiles
<1> DEFINE r == RecordAndMaybeSwitch(s, sig, apply)
<1>6. SameLadder(r, a) /\ SameSamples(r, a)
    <2>1. r = Gate4(Gate3(Gate1(a, apply))) \/ r = Gate1(a, apply)
        BY Zenon DEF RecordAndMaybeSwitch
    <2> HIDE DEF a, r
    <2> QED
        BY <1>1, <1>5, <2>1, GatesKeepRest
<1> HIDE DEF a, r
<1>7. AfterRecord(sig) = r
    BY <1>4 DEF r
<1> QED
    BY <1>2, <1>5, <1>6, <1>7 DEF SameLadder, SameSamples

-----------------------------------------------------------------------------
\* A run whose level the client did not lock runs at the stored mode, and no
\* other step touches the stored mode until its report is filed.
LevelInv ==
    /\ TypeOK
    /\ pc = "run" /\ mode \in {"auto", "observe"} => level = gs.current_mode

LEMMA LevelInvStep == LevelInv /\ [Next]_vars => LevelInv'
<1> SUFFICES ASSUME LevelInv, [Next]_vars PROVE LevelInv'
    OBVIOUS
<1>1. TypeOK'
    BY TypeOKStep DEF LevelInv
<1>2. ASSUME pc' # "run" PROVE LevelInv'
    BY <1>1, <1>2 DEF LevelInv
<1>3. ASSUME NEW m \in RunModes, StartRun(m) PROVE LevelInv'
    BY <1>1, <1>3 DEF LevelInv, StartRun, ResolveMode
<1>4. CASE DispatchFails
    BY <1>2, <1>4 DEF DispatchFails
<1>5. ASSUME NEW sig \in Signals[level], ControllerStep(sig) PROVE LevelInv'
    BY <1>2, <1>5 DEF ControllerStep
<1>6. ASSUME NEW q \in Qualities,
             ShadowAccept(q) \/ ShadowRetry(q) \/ ShadowReject(q) \/ React(q)
      PROVE  LevelInv'
    BY <1>2, <1>6 DEF ShadowAccept, ShadowRetry, ShadowReject, React
<1>7. CASE EvaluationFails
    BY <1>2, <1>7 DEF EvaluationFails
<1>8. CASE UNCHANGED vars
    BY <1>1, <1>8 DEF LevelInv, vars
<1> QED
    BY <1>3, <1>4, <1>5, <1>6, <1>7, <1>8 DEF Next

(* No verdict of H2 or H3 files a sample, whatever it does to the ladder.    *)
LEMMA VerdictsFileNothing ==
    ASSUME TypeOK, NEW q \in Qualities,
           ShadowAccept(q) \/ ShadowRetry(q) \/ ShadowReject(q) \/ React(q)
    PROVE  SameSamples(gs', gs)
<1> DEFINE r == RecordQuality(gs, q)
<1>1. q \in Nat /\ Legal(gs)
    BY ControllerAssumption DEF TypeOK, Legal
<1>2. Legal(r) /\ SameSamples(r, gs)
    BY <1>1, RecordQualityType, RecordQualityKeepsRest
<1> HIDE DEF r
<1>3. CASE ShadowAccept(q)
    <2>1. SameSamples([r EXCEPT !.execution_model_override = Head(shadow)], r)
        BY <1>2 DEF SameSamples, Legal, GroupControllerState
    <2>2. gs' = r \/ gs' = [r EXCEPT !.execution_model_override = Head(shadow)]
        BY <1>3, Zenon DEF ShadowAccept, r
    <2> QED
        BY <1>2, <2>1, <2>2 DEF SameSamples
<1>4. CASE ShadowRetry(q)
    BY <1>2, <1>4 DEF ShadowRetry, r
<1>5. CASE ShadowReject(q)
    <2>1. gs' = DoRevert(r)
        BY <1>5 DEF ShadowReject, r
    <2> QED
        BY <1>2, <2>1, RevertKeepsRest DEF SameSamples
<1>6. CASE React(q)
    <2>1. SameSamples(Escalate(r), r)
        BY <1>2 DEF Escalate, SameSamples, Legal, GroupControllerState
    <2>2. SameSamples(DeEscalate(r), r)
        BY <1>2 DEF DeEscalate, SameSamples, Legal, GroupControllerState
    <2>3. gs' = r \/ gs' = Escalate(r) \/ gs' = DeEscalate(r)
        BY <1>6, Zenon DEF React, ReactiveGate, r
    <2> QED
        BY <1>2, <2>1, <2>2, <2>3 DEF SameSamples
<1> QED
    BY <1>3, <1>4, <1>5, <1>6

(* Latency and tokens are filed under the level that produced them: in a run *)
(* whose level the client did not lock, record_and_maybe_switch, which is    *)
(* not told the level, finds the stored mode the run resolved.               *)
THEOREM SamplesAreFiledRight == Spec => AutoSamplesFiledByRunLevel
<1>1. Init => LevelInv
    <2> SUFFICES ASSUME Init PROVE LevelInv
        OBVIOUS
    <2> QED
        BY TypeOKInit DEF Init, LevelInv
<1>2. LevelInv /\ [Next]_vars => [(mode \in {"auto", "observe"} => FiledByRunLevel)]_vars
    <2> SUFFICES ASSUME LevelInv, Next, mode \in {"auto", "observe"}
                 PROVE  FiledByRunLevel
        BY DEF vars
    <2>1. TypeOK
        BY DEF LevelInv
    <2>2. ASSUME gs' = gs PROVE FiledByRunLevel
        BY <2>2 DEF FiledByRunLevel
    <2>3. ASSUME NEW sig \in Signals[level], ControllerStep(sig) PROVE FiledByRunLevel
        <3>1. gs' = AfterRecord(sig) /\ level = gs.current_mode
            BY <2>3 DEF ControllerStep, LevelInv
        <3>2. level \in {"fine", "compound"}
            BY <2>1 DEF TypeOK, GroupMode
        <3> QED
            BY <2>1, <3>1, <3>2, AfterRecordFiles DEF FiledByRunLevel
    <2>4. ASSUME NEW q \in Qualities,
                 ShadowAccept(q) \/ ShadowRetry(q) \/ ShadowReject(q) \/ React(q)
          PROVE  FiledByRunLevel
        BY <2>1, <2>4, VerdictsFileNothing DEF FiledByRunLevel, SameSamples
    <2> QED
        BY <2>2, <2>3, <2>4 DEF Next, StartRun, DispatchFails, EvaluationFails
<1> QED
    BY <1>1, <1>2, LevelInvStep, PTL DEF Spec, AutoSamplesFiledByRunLevel

-----------------------------------------------------------------------------
\* The confidence a state carries would not pass Gate 1.
Settled(s) == ~Confident(s.confidence, Len(Window(s.observations)))

LEMMA WindowType ==
    ASSUME NEW s, Legal(s)
    PROVE  Len(Window(s.observations)) \in Nat
<1>1. Window(s.observations) \in Seq(Nat)
    BY PolicyAssumption, LastOfType DEF Window, Legal, GroupControllerState
<1> QED
    BY <1>1

LEMMA NoVotesSettle ==
    ASSUME NEW s, Legal(s), s.confidence = 0
    PROVE  Settled(s)
<1>1. PICK n \in Nat : n = Len(Window(s.observations))
    BY WindowType
<1>2. ~(n > 0 /\ 100 * 0 >= ConfidencePercent * n)
    <2>1. ConfidencePercent \in Nat /\ ConfidencePercent > 0
        BY PolicyAssumption
    <2> QED
        BY <2>1
<1> QED
    BY <1>1, <1>2 DEF Settled, Confident

LEMMA RevertSettles ==
    ASSUME NEW s, Legal(s)
    PROVE  Settled(DoRevert(s))
<1>1. DoRevert(s).confidence = 0
    BY DEF DoRevert, Legal, GroupControllerState
<1> QED
    BY <1>1, RevertType, NoVotesSettle

(* Gate 1 of a run that applies its decision leaves no confident vote behind *)
(* that it has not acted on.                                                 *)
LEMMA Gate1Settles ==
    ASSUME NEW s, Legal(s)
    PROVE  Settled(Gate1(s, TRUE))
<1> DEFINE n == Len(Window(s.observations))
<1>1. \A v : LET r == [s EXCEPT !.confidence = v]
             IN  r.confidence = v /\ r.observations = s.observations
    BY DEF Legal, GroupControllerState
<1>2. Settled([s EXCEPT !.confidence = 0])
    <2>1. Legal([s EXCEPT !.confidence = 0])
        BY DEF Legal, GroupControllerState
    <2> QED
        BY <1>1, <2>1, NoVotesSettle
<1>3. Settled([s EXCEPT !.current_mode = "compound", !.confidence = 0])
    <2> DEFINE r == [s EXCEPT !.current_mode = "compound", !.confidence = 0]
    <2>1. Legal(r) /\ r.confidence = 0
        BY DEF Legal, GroupControllerState, GroupMode
    <2> QED
        BY <2>1, NoVotesSettle
<1>4. \A v : ~Confident(v, n) => Settled([s EXCEPT !.confidence = v])
    BY <1>1 DEF Settled
<1>5. Settled(Gate1Fine(s, TRUE))
    BY <1>3, <1>4, Zenon DEF Gate1Fine
<1>6. Settled(Gate1Compound(s, TRUE))
    BY <1>4, RevertSettles, Zenon DEF Gate1Compound
<1> QED
    BY <1>2, <1>5, <1>6, Zenon DEF Gate1

(* Nor do the gates after it.                                                *)
LEMMA RecordSettles ==
    ASSUME NEW s, Legal(s), NEW sig \in SignalType
    PROVE  Settled(RecordAndMaybeSwitch(s, sig, TRUE))
<1> DEFINE a == Gate1(RecordSignal(s, sig), TRUE)
           b == Gate3(a)
           c == Gate4(b)
<1>1. Legal(a) /\ Settled(a)
    BY RecordSignalType, Gate1Type, Gate1Settles
<1>2. Legal(b) /\ Settled(b)
    <2> HIDE DEF a
    <2> QED
        BY <1>1, RevertType, RevertSettles DEF Gate3
<1>3. Settled(c)
    <2> HIDE DEF b
    <2> QED
        BY <1>2, RevertSettles DEF Gate4
<1>4. RecordAndMaybeSwitch(s, sig, TRUE) = c
    BY Zenon DEF RecordAndMaybeSwitch
<1> HIDE DEF c
<1> QED
    BY <1>3, <1>4

(* record_and_maybe_switch and get_recommendation agree: after the step of a *)
(* run that applies its decision, get_recommendation finds no switch that    *)
(* was due, unless the quality scores ask for FINE.                          *)
THEOREM ConfidenceIsActedOn == Spec => AutoActsOnConfidence
<1> DEFINE Acts == pc = "run" /\ mode = "auto" /\ gs' # gs =>
                       \/ Recommendation(gs') = "MAINTAIN"
                       \/ Len(gs'.quality_scores) >= 2 /\ QualityBelowFloor(gs')
<1>1. TypeOK /\ [Next]_vars => [Acts]_vars
    <2> SUFFICES ASSUME TypeOK, Next, pc = "run", mode = "auto", gs' # gs
                 PROVE  \/ Recommendation(gs') = "MAINTAIN"
                        \/ Len(gs'.quality_scores) >= 2 /\ QualityBelowFloor(gs')
        BY DEF vars
    <2>1. PICK sig \in Signals[level] : ControllerStep(sig)
        BY DEF Next, StartRun, DispatchFails, ShadowAccept, ShadowRetry, ShadowReject,
               React, EvaluationFails
    <2> DEFINE s == IF level = "fine" THEN RecordFineBaseline(gs, sig) ELSE gs
    <2>2. sig \in SignalType /\ Legal(s)
        BY ControllerAssumption, RecordFineBaselineType DEF TypeOK, Legal
    <2>3. gs' = RecordAndMaybeSwitch(s, sig, TRUE)
        <3>1. (mode = "auto") = TRUE
            OBVIOUS
        <3> QED
            BY <2>1, <3>1, Zenon DEF ControllerStep, AfterRecord
    <2> HIDE DEF s
    <2>4. Settled(gs')
        BY <2>2, <2>3, RecordSettles
    <2> QED
        BY <2>4 DEF Settled, Recommendation
<1> QED
    BY <1>1, TypeCorrect, PTL DEF Spec, AutoActsOnConfidence

-----------------------------------------------------------------------------
\* A failure streak at the limit stands on the top rung, in every state.
StreakAtTop(s) ==
    EscalationEnabled /\ s.quality_failure_streak >= EscalationMinFailures =>
        RunModel(s) = "sequential"

FailureInv == TypeOK /\ StreakAtTop(gs)

(* Where the model does not depend on the FINE runs, it is the ladder's.     *)
LEMMA StreakKept ==
    ASSUME NEW s, NEW r, SameLadder(r, s), StreakAtTop(s), PolicyModel # "auto"
    PROVE  StreakAtTop(r)
BY DEF StreakAtTop, SameLadder, RunModel, ResolveModel

(* E-1 climbs as soon as the streak reaches the limit and there is a rung    *)
(* left; a success clears the streak.                                        *)
LEMMA LadderStep ==
    ASSUME NEW s, Legal(s), StreakAtTop(s), PolicyModel # "auto"
    PROVE  StreakAtTop(Escalate(s)) /\ StreakAtTop(DeEscalate(s))
<1> DEFINE failed  == [s EXCEPT !.quality_failure_streak = @ + 1,
                                !.escalation_success_streak = 0]
           current == IF s.execution_model_override # None
                      THEN s.execution_model_override ELSE PolicyModel
           climbs  == /\ failed.quality_failure_streak >= EscalationMinFailures
                      /\ Ladders(current) /\ Rung(current) < 3
<1>1. /\ current \in ExecutionModel
      /\ current = RunModel(s)
    BY ControllerAssumption DEF Legal, GroupControllerState, RunModel, ResolveModel
<1>2. RunModel(failed) = current
    <2>1. failed.execution_model_override = s.execution_model_override
        BY DEF Legal, GroupControllerState
    <2> HIDE DEF failed
    <2> QED
        BY <2>1 DEF RunModel, ResolveModel
<1>3. StreakAtTop(Escalate(s))
    <2>1. CASE climbs
        <3>1. Escalate(s).quality_failure_streak = 0
            BY <2>1 DEF Escalate, Legal, GroupControllerState
        <3> QED
            BY <3>1, ControllerAssumption DEF StreakAtTop
    <2>2. CASE ~climbs
        <3>1. Escalate(s) = failed
            BY <2>2 DEF Escalate
        <3>2. failed.quality_failure_streak >= EscalationMinFailures => current = "sequential"
            <4> HIDE DEF failed, current
            <4>1. current \in ExecutionModel /\ Rung(current) \in 1..3
                  /\ Ladder[Rung(current)] = current
                BY <1>1, LadderRungs
            <4>2. ~(Rung(current) < 3) => Rung(current) = 3
                BY <4>1
            <4>3. Ladder[3] = "sequential"
                BY DEF Ladder
            <4> QED
                BY <2>2, <4>1, <4>2, <4>3 DEF Ladders
        <3> HIDE DEF failed, current
        <3> QED
            BY <1>2, <3>1, <3>2 DEF StreakAtTop
    <2> QED
        BY <2>1, <2>2
<1>4. StreakAtTop(DeEscalate(s))
    <2>1. DeEscalate(s).quality_failure_streak = 0
        BY DEF DeEscalate, Legal, GroupControllerState
    <2> QED
        BY <2>1, ControllerAssumption DEF StreakAtTop
<1> QED
    BY <1>3, <1>4

LEMMA FailureInvStep ==
    ASSUME PolicyModel # "auto"
    PROVE  FailureInv /\ [Next]_vars => FailureInv'
<1> SUFFICES ASSUME FailureInv, [Next]_vars PROVE FailureInv'
    OBVIOUS
<1>1. TypeOK /\ TypeOK' /\ Legal(gs) /\ StreakAtTop(gs)
    BY TypeOKStep DEF FailureInv, TypeOK, Legal
<1>2. ASSUME SameLadder(gs', gs) PROVE FailureInv'
    BY <1>1, <1>2, StreakKept DEF FailureInv
<1>3. SameLadder(gs, gs)
    BY DEF SameLadder
<1>4. ASSUME NEW sig \in Signals[level], ControllerStep(sig) PROVE FailureInv'
    BY <1>1, <1>2, <1>4, AfterRecordFiles DEF ControllerStep
<1>5. ASSUME NEW q \in Qualities, ShadowAccept(q) \/ ShadowRetry(q) \/ ShadowReject(q)
      PROVE  FailureInv'
    <2> DEFINE r == RecordQuality(gs, q)
    <2>1. q \in Nat
        BY ControllerAssumption
    <2>2. Legal(r) /\ SameLadder(r, gs)
        BY <1>1, <2>1, RecordQualityType, RecordQualityKeepsRest
    <2>3. gs' = r \/ gs' = DoRevert(r)
        BY <1>5 DEF ShadowAccept, ShadowRetry, ShadowReject
    <2> HIDE DEF r
    <2> QED
        BY <1>2, <2>2, <2>3, RevertKeepsRest DEF SameLadder
<1>6. ASSUME NEW q \in Qualities, React(q) PROVE FailureInv'
    <2> DEFINE r == RecordQuality(gs, q)
    <2>1. q \in Nat
        BY ControllerAssumption
    <2>2. Legal(r) /\ SameLadder(r, gs)
        BY <1>1, <2>1, RecordQualityType, RecordQualityKeepsRest
    <2>3. gs' = r \/ gs' = Escalate(r) \/ gs' = DeEscalate(r)
        BY <1>6, Zenon DEF React, ReactiveGate
    <2> HIDE DEF r
    <2>4. StreakAtTop(r)
        BY <1>1, <2>2, StreakKept
    <2>5. StreakAtTop(gs')
        BY <2>2, <2>3, <2>4, LadderStep
    <2> QED
        BY <1>1, <2>5 DEF FailureInv
<1>7. ASSUME gs' = gs PROVE FailureInv'
    BY <1>2, <1>3, <1>7
<1> QED
    BY <1>4, <1>5, <1>6, <1>7 DEF Next, StartRun, DispatchFails, EvaluationFails, vars

(* E-1 (policy.py): with a configured execution model, a failure streak that *)
(* has reached escalation_min_failures is always on the top rung, whatever   *)
(* reverts, switches and raising calls come between the failures.  ("auto"   *)
(* is no rung: there the reactive ladder starts only from an override.)      *)
THEOREM FailuresEscalate ==
    ASSUME PolicyModel # "auto"
    PROVE  Spec => []EscalatesOnFailures
<1>1. Init => FailureInv
    <2> SUFFICES ASSUME Init PROVE FailureInv
        OBVIOUS
    <2>1. gs.quality_failure_streak = 0
        BY DEF Init, NewGroupState
    <2> QED
        BY <2>1, TypeOKInit, ControllerAssumption DEF FailureInv, StreakAtTop
<1>2. FailureInv => EscalatesOnFailures
    BY DEF FailureInv, StreakAtTop, EscalatesOnFailures
<1> QED
    BY <1>1, <1>2, FailureInvStep, PTL DEF Spec

-----------------------------------------------------------------------------
\* From the switch to the end of its comparison a group is in COMPOUND mode
\* without a vetted model; from then on its runs are COMPOUND ones, which
\* move nothing that the model is resolved from.
VettedInv ==
    /\ TypeOK
    /\ pc = "run" /\ level = "fine" => gs.current_mode = "fine"
    /\ QualityGated /\ ~EscalationEnabled =>
          /\ pc # "shadow" /\ gs.current_mode = "compound" => RunModel(gs) = vetted
          /\ pc = "shadow" /\ PolicyModel # "auto" =>
                 shadow = <<ResolveModel(gs, FALSE)>>

(* The resolved model is a function of these two fields.                     *)
LEMMA SameResolution ==
    ASSUME NEW s, NEW r,
           r.execution_model_override = s.execution_model_override,
           r.avg_output_tokens_fine = s.avg_output_tokens_fine,
           NEW withCompound \in BOOLEAN
    PROVE  ResolveModel(r, withCompound) = ResolveModel(s, withCompound)
BY DEF ResolveModel, VerbosityModel

LEMMA SwitchesNeedShadow ==
    ASSUME TypeOK, QualityGated, NEW sig \in Signals[level], ControllerStep(sig),
           gs.current_mode = "fine", ~NeedsShadow(gs')
    PROVE  gs'.current_mode = "fine"
<1>1. gs' = AfterRecord(sig)
    BY DEF ControllerStep
<1>2. gs'.current_mode \in {"fine", "compound"}
    BY <1>1, AfterRecordType DEF Legal, GroupControllerState, GroupMode
<1>3. CASE mode = "auto"
    BY <1>2, <1>3 DEF NeedsShadow, QualityGated
<1>4. CASE mode # "auto"
    <2> DEFINE s == IF level = "fine" THEN RecordFineBaseline(gs, sig) ELSE gs
    <2>1. sig \in SignalType /\ Legal(gs)
        BY ControllerAssumption DEF TypeOK, Legal
    <2>2. Legal(s) /\ s.current_mode = "fine"
        BY <2>1, RecordFineBaselineType, RecordFineBaselineFields DEF SameGates
    <2>3. gs' = RecordAndMaybeSwitch(s, sig, FALSE)
        <3>1. (mode = "auto") = FALSE
            BY <1>4
        <3> QED
            BY <1>1, <3>1, Zenon DEF AfterRecord
    <2> HIDE DEF s
    <2> QED
        BY <2>1, <2>2, <2>3, OnlyAppliedRunsSwitch
<1> QED
    BY <1>3, <1>4

(* The verdict that accepts a switch leaves the accepted model resolved.     *)
LEMMA AcceptedModelResolves ==
    ASSUME VettedInv, QualityGated, ~EscalationEnabled,
           PolicyModel = "auto" => ~TopologyDeps,
           NEW q \in Qualities, ShadowAccept(q)
    PROVE  RunModel(gs') = vetted'
<1> DEFINE r == RecordQuality(gs, q)
           model == Head(shadow)
           resolved == ResolveModel(gs, FALSE)
<1>1. q \in Nat /\ Legal(gs) /\ pc = "shadow" /\ vetted' = model
    BY ControllerAssumption DEF VettedInv, TypeOK, Legal, ShadowAccept
<1>2. Legal(r) /\ SameLadder(r, gs) /\ SameSamples(r, gs)
    BY <1>1, RecordQualityType, RecordQualityKeepsRest
<1>3. RunModel(r) = ResolveModel(gs, TRUE)
    <2> HIDE DEF r
    <2> QED
        BY <1>2, SameResolution DEF RunModel, SameLadder, SameSamples
<1>4. ResolveModel(gs, TRUE) = resolved
    BY DEF ResolveModel
<1>5. CASE PolicyModel = "auto" /\ model # resolved
    <2>1. gs' = [r EXCEPT !.execution_model_override = model]
        BY <1>5 DEF ShadowAccept
    <2>2. gs'.execution_model_override = model
        BY <1>2, <2>1 DEF Legal, GroupControllerState
    <2>3. model \in ExecutionModel
        BY <1>1 DEF VettedInv, TypeOK
    <2> HIDE DEF model
    <2> QED
        BY <1>1, <2>2, <2>3, NoneAssumption DEF RunModel, ResolveModel, ExecutionModel
<1>6. CASE ~(PolicyModel = "auto" /\ model # resolved)
    <2>1. gs' = r
        BY <1>6 DEF ShadowAccept
    <2>2. PolicyModel # "auto" => model = resolved
        <3> HIDE DEF resolved
        <3>1. PolicyModel # "auto" => shadow = <<resolved>>
            BY <1>1 DEF VettedInv, resolved
        <3> QED
            BY <3>1
    <2> HIDE DEF r, model, resolved
    <2> QED
        BY <1>1, <1>3, <1>4, <1>6, <2>1, <2>2
<1> QED
    BY <1>5, <1>6

LEMMA VettedInvStep ==
    ASSUME ~CallsMayFail, "fine" \notin RunModes,
           PolicyModel = "auto" => ~TopologyDeps
    PROVE  VettedInv /\ [Next]_vars => VettedInv'
<1> SUFFICES ASSUME VettedInv, [Next]_vars PROVE VettedInv'
    OBVIOUS
<1>1. TypeOK /\ TypeOK' /\ Legal(gs)
    BY TypeOKStep DEF VettedInv, TypeOK, Legal
<1>2. gs.current_mode \in {"fine", "compound"} /\ level \in {"fine", "compound"}
    BY <1>1 DEF Legal, GroupControllerState, TypeOK, GroupMode
<1>3. ASSUME NEW m \in RunModes, StartRun(m) PROVE VettedInv'
    <2>1. /\ pc = "idle" /\ pc' = "run" /\ gs' = gs /\ vetted' = vetted
          /\ level' = "fine" => gs.current_mode = "fine"
        BY <1>3 DEF StartRun, ResolveMode
    <2> QED
        BY <1>1, <2>1 DEF VettedInv
<1>4. CASE DispatchFails \/ EvaluationFails
    BY <1>4 DEF DispatchFails, EvaluationFails
<1>5. ASSUME NEW sig \in Signals[level], ControllerStep(sig) PROVE VettedInv'
    <2>1. pc = "run" /\ pc' # "run" /\ gs' = AfterRecord(sig)
        BY <1>5 DEF ControllerStep
    <2>2. CASE NeedsShadow(gs')
        <3>1. pc' = "shadow" /\ shadow' = ShadowCandidates(gs')
            BY <1>5, <2>2 DEF ControllerStep, NeedsReaction
        <3>2. PolicyModel # "auto" => ShadowCandidates(gs') = <<ResolveModel(gs', FALSE)>>
            BY DEF ShadowCandidates
        <3> QED
            BY <1>1, <2>1, <3>1, <3>2 DEF VettedInv
    <2>3. CASE ~NeedsShadow(gs')
        <3>1. pc' # "shadow" /\ vetted' = vetted
            BY <1>5, <2>3 DEF ControllerStep
        <3>2. ASSUME QualityGated, ~EscalationEnabled, gs'.current_mode = "compound"
              PROVE  RunModel(gs') = vetted'
            <4>1. gs.current_mode = "compound"
                BY <1>1, <1>2, <1>5, <2>3, <3>2, SwitchesNeedShadow
            <4>2. level = "compound"
                BY <1>2, <2>1, <4>1 DEF VettedInv
            <4>3. RunModel(gs') = RunModel(gs)
                BY <1>1, <2>1, <4>2, AfterRecordFiles, SameResolution
                   DEF RunModel, SameLadder
            <4> QED
                BY <2>1, <3>1, <3>2, <4>1, <4>3 DEF VettedInv
        <3> QED
            BY <1>1, <2>1, <3>1, <3>2 DEF VettedInv
    <2> QED
        BY <2>2, <2>3
<1>6. ASSUME NEW q \in Qualities, ShadowAccept(q) PROVE VettedInv'
    <2>1. pc' = "idle"
        BY <1>6 DEF ShadowAccept
    <2>2. QualityGated /\ ~EscalationEnabled => RunModel(gs') = vetted'
        BY <1>6, AcceptedModelResolves
    <2> QED
        BY <1>1, <2>1, <2>2 DEF VettedInv
<1>7. ASSUME NEW q \in Qualities, ShadowRetry(q) PROVE VettedInv'
    <2>1. pc = "shadow" /\ pc' = "shadow" /\ Len(shadow) > 1
        BY <1>7 DEF ShadowRetry
    <2>2. QualityGated /\ ~EscalationEnabled => PolicyModel = "auto"
        <3>1. Len(<<ResolveModel(gs, FALSE)>>) = 1
            OBVIOUS
        <3>2. Len(shadow) # 1
            <4>1. PICK n \in Nat : n = Len(shadow)
                BY <1>1 DEF TypeOK
            <4> QED
                BY <2>1, <4>1
        <3>3. shadow # <<ResolveModel(gs, FALSE)>>
            BY <3>1, <3>2, Zenon
        <3> QED
            BY <2>1, <3>3 DEF VettedInv
    <2> QED
        BY <1>1, <2>1, <2>2 DEF VettedInv
<1>8. ASSUME NEW q \in Qualities, ShadowReject(q) PROVE VettedInv'
    <2>1. q \in Nat
        BY ControllerAssumption
    <2>2. pc' = "idle" /\ gs'.current_mode = "fine"
        BY <1>1, <1>8, <2>1, RecordQualityType, RevertFields DEF ShadowReject
    <2> QED
        BY <1>1, <2>2 DEF VettedInv
<1>9. ASSUME NEW q \in Qualities, React(q) PROVE VettedInv'
    <2>1. q \in Nat
        BY ControllerAssumption
    <2>2. pc = "react" /\ pc' = "idle" /\ vetted' = vetted
        BY <1>9 DEF React
    <2>3. gs'.current_mode = gs.current_mode
        BY <1>1, <1>9, VerdictsKeep DEF SameGates
    <2>4. ASSUME ~EscalationEnabled PROVE RunModel(gs') = RunModel(gs)
        <3>1. gs' = RecordQuality(gs, q)
            BY <1>9, <2>4, Zenon DEF React, ReactiveGate
        <3> QED
            BY <1>1, <2>1, <3>1, RecordQualityKeepsRest, SameResolution
               DEF RunModel, SameLadder, SameSamples
    <2> QED
        BY <1>1, <2>2, <2>3, <2>4 DEF VettedInv
<1>10. CASE UNCHANGED vars
    BY <1>1, <1>10 DEF VettedInv, vars, RunModel
<1> QED
    BY <1>3, <1>4, <1>5, <1>6, <1>7, <1>8, <1>9, <1>10 DEF Next

(* The model that the evaluator passed is the one that runs: _run_group      *)
(* resolves it again for every run, from an override H2 writes only when it  *)
(* differs, and gets the same answer.  The hypotheses are needed: a call     *)
(* that raises leaves the switch unvetted, a locked FINE run moves the       *)
(* verbosity, and with the "deps" strategy H2 resolves without the gate that *)
(* _run_group applies.                                                       *)
THEOREM VettedModelIsRun ==
    ASSUME ~CallsMayFail, "fine" \notin RunModes,
           PolicyModel = "auto" => ~TopologyDeps
    PROVE  Spec => []VettedModelRuns
<1>1. Init => VettedInv
    <2> SUFFICES ASSUME Init PROVE VettedInv
        OBVIOUS
    <2>1. gs.current_mode = "fine"
        BY DEF Init, NewGroupState
    <2> QED
        BY <2>1, TypeOKInit DEF VettedInv, Init
<1>2. VettedInv => VettedModelRuns
    BY DEF VettedInv, VettedModelRuns
<1> QED
    BY <1>1, <1>2, VettedInvStep, PTL DEF Spec

=============================================================================
