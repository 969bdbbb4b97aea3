--------------------------- MODULE GroupController ---------------------------
(***************************************************************************)
(* The composition controller of one group over a series of pipeline runs: *)
(* mode resolution, the post-run controller step (Phases H, H1, H2, H3 of  *)
(* _PipelineCompiler._post_run_controller_step), the shadow comparison     *)
(* that gates a switch to COMPOUND, and the reactive quality gate with its *)
(* escalation ladder.  A run of the group goes through                     *)
(*                                                                         *)
(*     idle -> run -> (shadow | react) -> idle                             *)
(*                                                                         *)
(* The steps are those between which the code calls out (the group's LLM   *)
(* calls, the shadow run, the evaluator): each of those calls may raise,   *)
(* which ends the run with whatever the controller has saved so far.       *)
(***************************************************************************)
EXTENDS PipelineState

CONSTANTS
    PolicyModel,             \* policy.compound_execution_model
    EscalationEnabled,       \* policy.escalation_enabled
    EscalationMinFailures,   \* policy.escalation_min_failures
    EscalationDecayWindow,   \* policy.escalation_decay_window
    TwoPhaseThreshold,       \* policy.verbosity_two_phase_threshold
    SequentialThreshold,     \* policy.verbosity_sequential_threshold
    HasTools,                \* some agent of the group has tools
    TopologyDeps,            \* the compound's injection strategy is "deps"
    HasEvaluator,            \* run(evaluator=...) is given
    RunModes,                \* the modes the client passes to run()
    Signals,                 \* level -> the signals its runs may report
    Qualities,               \* the scores the evaluator may give
    CallsMayFail,            \* LLM and evaluator calls may raise
    MaxObservations          \* bound: the client stops after this many runs

ASSUME ControllerAssumption ==
    /\ PolicyModel \in ExecutionModel \cup {"auto"}
    /\ EscalationEnabled \in BOOLEAN
    /\ EscalationMinFailures \in Nat \ {0}
    /\ EscalationDecayWindow \in Nat \ {0}
    /\ TwoPhaseThreshold \in Nat \ {0}
    /\ SequentialThreshold \in Nat
    /\ TwoPhaseThreshold < SequentialThreshold
    /\ HasTools \in BOOLEAN
    /\ TopologyDeps \in BOOLEAN
    /\ HasEvaluator \in BOOLEAN
    /\ RunModes \subseteq {"auto", "observe", "fine", "compound"}
    /\ Signals \in [GroupMode -> SUBSET SignalType]
    /\ Qualities \subseteq Nat
    /\ CallsMayFail \in BOOLEAN
    /\ MaxObservations \in Nat

VARIABLES
    gs,      \* the group's GroupControllerState
    pc,      \* where the run of the group is
    mode,    \* the mode of the current or last run
    level,   \* the level that run resolved
    shadow,  \* H2: the execution models still to try, the next one first
    vetted   \* history: the model whose shadow run admitted the last switch

vars == <<gs, pc, mode, level, shadow, vetted>>

-----------------------------------------------------------------------------
\* The compound execution model of a run.

\* Position in the ladder; "auto" is not in it, and .index() raises.
Rung(model) == CHOOSE i \in 1..3 : Ladder[i] = model
Ladders(model) == model \in ExecutionModel

\* Gates 1 and 2 of _resolve_compound_execution_model: the verbosity of the
\* FINE runs, known from three runs on, then the tools.
VerbosityModel(s) ==
    LET outputs == s.avg_output_tokens_fine
        known   == Len(outputs) >= 3
    IN  IF known /\ ~MeanBelow(outputs, SequentialThreshold) THEN "sequential"
        ELSE IF \/ known /\ ~MeanBelow(outputs, TwoPhaseThreshold)
                \/ HasTools
             THEN "two_phase"
        ELSE "standard"

\* The model of a COMPOUND run.  The topology gate needs the compiled
\* compound, which _run_group passes and H2 does not.
ResolveModel(s, withCompound) ==
    IF s.execution_model_override # None THEN s.execution_model_override
    ELSE IF PolicyModel # "auto" THEN PolicyModel
    ELSE IF withCompound /\ TopologyDeps THEN "sequential"
    ELSE VerbosityModel(s)

RunModel(s) == ResolveModel(s, TRUE)

\* H2: the models to try, from the resolved one up the ladder.
ShadowCandidates(s) ==
    LET start == ResolveModel(s, FALSE)
    IN  IF PolicyModel = "auto" THEN SubSeq(Ladder, Rung(start), 3) ELSE <<start>>

-----------------------------------------------------------------------------
\* H3 on a COMPOUND run whose output scored q against the FINE baseline.

\* E-1: one rung up after enough failures.
MutEscalateLate(s) ==
    LET failed  == [s EXCEPT !.quality_failure_streak = @ + 1,
                             !.escalation_success_streak = 0]
        current == IF s.execution_model_override # None
                   THEN s.execution_model_override ELSE PolicyModel
    IN  IF /\ failed.quality_failure_streak > EscalationMinFailures
           /\ Ladders(current) /\ Rung(current) < 3
        THEN [failed EXCEPT !.execution_model_override = Ladder[Rung(current) + 1],
                            !.quality_failure_streak = 0]
        ELSE failed

Escalate(s) ==
    LET failed  == [s EXCEPT !.quality_failure_streak = @ + 1,
                             !.escalation_success_streak = 0]
        current == IF s.execution_model_override # None
                   THEN s.execution_model_override ELSE PolicyModel
    IN  IF /\ failed.quality_failure_streak >= EscalationMinFailures
           /\ Ladders(current)
           /\ Rung(current) < 3
        THEN [failed EXCEPT !.execution_model_override = Ladder[Rung(current) + 1],
                            !.quality_failure_streak = 0]
        ELSE failed

\* E-1: one rung down after a window of successes; below the first rung the
\* override is cleared.
DeEscalate(s) ==
    LET passed  == [s EXCEPT !.quality_failure_streak = 0,
                             !.escalation_success_streak = @ + 1]
        current == s.execution_model_override
    IN  IF current # None /\ passed.escalation_success_streak >= EscalationDecayWindow
        THEN [passed EXCEPT !.execution_model_override =
                                 IF Rung(current) > 1 THEN Ladder[Rung(current) - 1] ELSE None,
                            !.escalation_success_streak = 0]
        ELSE passed

ReactiveGate(s, q) ==
    LET r == RecordQuality(s, q)
    IN  IF ~(EscalationEnabled /\ QualityFloor # None) THEN r
        ELSE IF QualityBelowFloor(r) THEN Escalate(r)
        ELSE DeEscalate(r)

-----------------------------------------------------------------------------
Init ==
    /\ gs = NewGroupState
    /\ pc = "idle"
    /\ mode = "auto"
    /\ level = "fine"
    /\ shadow = <<>>
    /\ vetted = None

\* _resolve_mode: a locked mode, or the stored one.
ResolveMode(m) == IF m \in {"fine", "compound"} THEN m ELSE gs.current_mode

StartRun(m) ==
    /\ pc = "idle"
    /\ gs.n_observations < MaxObservations
    /\ pc' = "run"
    /\ mode' = m
    /\ level' = ResolveMode(m)
    /\ UNCHANGED <<gs, shadow, vetted>>

\* _run_group raises: the controller step does not happen.
DispatchFails ==
    /\ CallsMayFail
    /\ pc = "run"
    /\ pc' = "idle"
    /\ UNCHANGED <<gs, mode, level, shadow, vetted>>

\* H1 and H, and the state they leave.
AfterRecord(sig) ==
    RecordAndMaybeSwitch(
        IF level = "fine" THEN RecordFineBaseline(gs, sig) ELSE gs,
        sig, mode = "auto")

\* The run switched the group, and a shadow comparison has to confirm it.
NeedsShadow(s) ==
    /\ mode = "auto"
    /\ HasEvaluator
    /\ QualityFloor # None
    /\ gs.current_mode = "fine"
    /\ s.current_mode = "compound"

NeedsReaction(s) ==
    /\ ~NeedsShadow(s)
    /\ mode = "auto"
    /\ HasEvaluator
    /\ level = "compound"
    /\ s.last_fine_output

ControllerStep(sig) ==
    /\ pc = "run"
    /\ gs' = AfterRecord(sig)
    /\ \/ /\ NeedsShadow(gs')
          /\ pc' = "shadow"
          /\ shadow' = ShadowCandidates(gs')
          /\ vetted' = None
       \/ /\ NeedsReaction(gs')
          /\ pc' = "react"
          /\ UNCHANGED <<shadow, vetted>>
       \/ /\ ~NeedsShadow(gs') /\ ~NeedsReaction(gs')
          /\ pc' = "idle"
          /\ UNCHANGED <<shadow, vetted>>
    /\ UNCHANGED <<mode, level>>

\* H2: the candidate's output is good enough; a model that is not the
\* resolved one becomes the override.
MutAcceptWithoutOverride(q) ==
    /\ pc = "shadow"
    /\ q >= QualityFloor
    /\ gs' = RecordQuality(gs, q)
    /\ pc' = "idle"
    /\ shadow' = <<>>
    /\ vetted' = Head(shadow)
    /\ UNCHANGED <<mode, level>>

ShadowAccept(q) ==
    /\ pc = "shadow"
    /\ q >= QualityFloor
    /\ LET scored == RecordQuality(gs, q)
           model  == Head(shadow)
       IN  gs' = IF PolicyModel = "auto" /\ model # ResolveModel(gs, FALSE)
                 THEN [scored EXCEPT !.execution_model_override = model]
                 ELSE scored
    /\ pc' = "idle"
    /\ shadow' = <<>>
    /\ vetted' = Head(shadow)
    /\ UNCHANGED <<mode, level>>

\* H2: not good enough, and there is a next rung to try.
ShadowRetry(q) ==
    /\ pc = "shadow"
    /\ q < QualityFloor
    /\ Len(shadow) > 1
    /\ gs' = RecordQuality(gs, q)
    /\ shadow' = Tail(shadow)
    /\ UNCHANGED <<pc, mode, level, vetted>>

\* H2: no rung is left; the switch is taken back.
MutRejectKeepsSwitch(q) ==
    /\ pc = "shadow"
    /\ q < QualityFloor
    /\ Len(shadow) = 1
    /\ gs' = RecordQuality(gs, q)
    /\ pc' = "idle"
    /\ shadow' = <<>>
    /\ UNCHANGED <<mode, level, vetted>>

ShadowReject(q) ==
    /\ pc = "shadow"
    /\ q < QualityFloor
    /\ Len(shadow) = 1
    /\ gs' = DoRevert(RecordQuality(gs, q))
    /\ pc' = "idle"
    /\ shadow' = <<>>
    /\ UNCHANGED <<mode, level, vetted>>

React(q) ==
    /\ pc = "react"
    /\ gs' = ReactiveGate(gs, q)
    /\ pc' = "idle"
    /\ UNCHANGED <<mode, level, shadow, vetted>>

\* The shadow run or the evaluator raises out of the controller step.
EvaluationFails ==
    /\ CallsMayFail
    /\ pc \in {"shadow", "react"}
    /\ pc' = "idle"
    /\ shadow' = <<>>
    /\ UNCHANGED <<gs, mode, level, vetted>>

Next ==
    \/ \E m \in RunModes : StartRun(m)
    \/ DispatchFails
    \/ \E sig \in Signals[level] : ControllerStep(sig)
    \/ \E q \in Qualities : ShadowAccept(q)
    \/ \E q \in Qualities : ShadowRetry(q)
    \/ \E q \in Qualities : ShadowReject(q)
    \/ \E q \in Qualities : React(q)
    \/ EvaluationFails

Spec == Init /\ [][Next]_vars
-----------------------------------------------------------------------------
(* Type correctness: the fields keep their types, and the revert floor is   *)
(* never beyond the observations, so the count of fresh ones is natural.    *)
TypeOK ==
    /\ gs \in GroupControllerState
    /\ gs.revert_obs_floor <= gs.n_observations
    /\ pc \in {"idle", "run", "shadow", "react"}
    /\ mode \in {"auto", "observe", "fine", "compound"}
    /\ level \in GroupMode
    /\ shadow \in Seq(ExecutionModel)
    /\ pc = "shadow" => Len(shadow) > 0
    /\ vetted \in ExecutionModel \cup {None}

\* The observations k attempts at COMPOUND take, in multiples of
\* MinObservations: 1 + 2 + ... with the multiplier capped at 5.
Warmup(k) ==
    CASE k = 0 -> 0
      [] k = 1 -> 1
      [] k = 2 -> 3
      [] k = 3 -> 6
      [] k = 4 -> 10
      [] OTHER -> 5 * k - 10

Budget(s) ==
    /\ s.revert_obs_floor >= MinObservations * Warmup(s.revert_count)
    /\ s.current_mode = "compound" =>
           s.n_observations >= MinObservations * Warmup(s.revert_count + 1)

(* T-049 (state.py): the revert cooldown prevents indefinite oscillation.   *)
(* However observations, latencies, tokens and quality scores arrive, and   *)
(* whichever gate reverts the group, its k-th revert cannot come before     *)
(* MinObservations * (1 + 2 + ... + k) observations, and it is in COMPOUND  *)
(* mode only once the next attempt has been paid for too.                   *)
CooldownBudget == Budget(gs)

\* A group in FINE mode whose window of COMPOUND latencies is too slow.
LockedOut(s) == s.current_mode = "fine" /\ TooSlow(s)

(* Gate 3 reads a latency window that only COMPOUND runs refill, and a      *)
(* revert does not clear it: once the latency gate has sent a group back to *)
(* FINE, no later run, in any mode and with any observation, leaves it in   *)
(* COMPOUND mode again; every attempt is reverted in the step that makes it.*)
LatencyLockout == [][LockedOut(gs) => LockedOut(gs')]_vars

\* The latency and tokens that the gates compare are filed under the level
\* that produced them.
FiledByRunLevel ==
    /\ gs'.latency_compound_ms # gs.latency_compound_ms => level = "compound"
    /\ gs'.tokens_compound # gs.tokens_compound => level = "compound"
    /\ gs'.tokens_fine # gs.tokens_fine => level = "fine"

(* state.py, "record latency and tokens keyed by the mode just executed":   *)
(* true of the runs whose level is not locked.  record_and_maybe_switch is  *)
(* not told the level and files under the stored mode, which must still be  *)
(* the one the run resolved when it started, although runs of every mode    *)
(* switch, revert and fail around it.                                       *)
AutoSamplesFiledByRunLevel ==
    [][(mode \in {"auto", "observe"}) => FiledByRunLevel]_vars

(* record_and_maybe_switch and get_recommendation read the same thresholds  *)
(* at different times: after the controller step of an "auto" run there is  *)
(* no switch left to recommend, unless the quality scores ask for FINE.     *)
AutoActsOnConfidence ==
    [][ pc = "run" /\ mode = "auto" /\ gs' # gs =>
          \/ Recommendation(gs') = "MAINTAIN"
          \/ Len(gs'.quality_scores) >= 2 /\ QualityBelowFloor(gs') ]_vars

\* H2 applies to the switches of this client's "auto" runs.
QualityGated == HasEvaluator /\ QualityFloor # None

(* state.py, "only commits the switch if quality_score >= quality_floor":   *)
(* between runs a group is in COMPOUND mode only if a shadow run of its     *)
(* last switch passed the evaluator.                                        *)
SwitchPassedGate ==
    QualityGated /\ pc = "idle" /\ gs.current_mode = "compound" => vetted # None

(* The model the next COMPOUND run will use is the one whose shadow run     *)
(* passed, until the reactive ladder moves it (_run_group resolves the      *)
(* model again, and H2 persists it only when it is not the resolved one).   *)
VettedModelRuns ==
    /\ QualityGated /\ ~EscalationEnabled
    /\ pc = "idle" /\ gs.current_mode = "compound"
    => RunModel(gs) = vetted

(* policy.py, escalation: a group whose failure streak has reached          *)
(* escalation_min_failures is never left on a rung it could still climb     *)
(* from.                                                                    *)
EscalatesOnFailures ==
    /\ pc = "idle"
    /\ EscalationEnabled
    /\ gs.quality_failure_streak >= EscalationMinFailures
    => RunModel(gs) = "sequential"

=============================================================================
