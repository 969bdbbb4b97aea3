---------------------------- MODULE PipelineState ----------------------------
(***************************************************************************)
(* The persisted controller state of one group (GroupControllerState) and  *)
(* the operations of PipelineState on it, as operators from a state to a   *)
(* state.  Every operation of the class runs under one RLock, so an        *)
(* operator is one atomic step of the modules that use it.                 *)
(*                                                                         *)
(* Floats are integers here: an observation, a quality score, a latency    *)
(* and a token count are natural numbers, `confidence` is the number of    *)
(* observations of the window that meet the threshold (the code divides it *)
(* by the window's length), and means are compared by cross-multiplying.   *)
(* A list of samples keeps only the suffix its readers look at.            *)
(***************************************************************************)
EXTENDS Integers, Sequences, FiniteSets, Functions

CONSTANTS
    None,               \* Python's None
    ComposeAt,          \* policy.compose_at
    DecomposeAt,        \* policy.decompose_at
    ConfidencePercent,  \* policy.confidence, in percent
    MinObservations,    \* policy.min_observations
    WindowSize,         \* policy.window_size
    LatencyThreshold,   \* policy.latency_threshold_ms, or None
    QualityFloor        \* policy.quality_floor, or None

\* ControllerPolicy.__post_init__ rejects anything else.
ASSUME PolicyAssumption ==
    /\ ComposeAt \in Nat \ {0}
    /\ DecomposeAt \in Nat
    /\ DecomposeAt < ComposeAt
    /\ ConfidencePercent \in 1..100
    /\ MinObservations \in Nat \ {0}
    /\ WindowSize \in Nat \ {0}
    /\ LatencyThreshold \in (Nat \ {0}) \cup {None}
    /\ QualityFloor \in Nat \cup {None}

ASSUME NoneAssumption == None \notin {"standard", "two_phase", "sequential"}

-----------------------------------------------------------------------------
\* The values of the fields.

GroupMode == {"fine", "compound"}

\* _PipelineCompiler._ESCALATION_LADDER
Ladder == <<"standard", "two_phase", "sequential">>
ExecutionModel == {"standard", "two_phase", "sequential"}

\* What Phase H reports of a run: the observation (the composition score, or
\* the raw overhead ratio, after the context and error overrides), the
\* group's wall-clock, its tokens and its output tokens per agent.  A field
\* is 0 when the run left no telemetry.
SignalType == [score : Nat, latency : Nat, tokens : Nat, output : Nat]

GroupControllerState ==
    [observations              : Seq(Nat),
     n_observations            : Nat,
     current_mode              : GroupMode,
     confidence                : Nat,
     latency_compound_ms       : Seq(Nat),
     tokens_fine               : Seq(Nat),
     tokens_compound           : Seq(Nat),
     quality_scores            : Seq(Nat),
     avg_output_tokens_fine    : Seq(Nat),
     execution_model_override  : ExecutionModel \cup {None},
     revert_obs_floor          : Nat,
     revert_count              : Nat,
     quality_failure_streak    : Nat,
     escalation_success_streak : Nat,
     last_fine_output          : BOOLEAN]

\* The dataclass defaults, which _load gives a group it has not seen.
NewGroupState ==
    [observations              |-> <<>>,
     n_observations            |-> 0,
     current_mode              |-> "fine",
     confidence                |-> 0,
     latency_compound_ms       |-> <<>>,
     tokens_fine               |-> <<>>,
     tokens_compound           |-> <<>>,
     quality_scores            |-> <<>>,
     avg_output_tokens_fine    |-> <<>>,
     execution_model_override  |-> None,
     revert_obs_floor          |-> 0,
     revert_count              |-> 0,
     quality_failure_streak    |-> 0,
     escalation_success_streak |-> 0,
     last_fine_output          |-> FALSE]

-----------------------------------------------------------------------------
\* Rolling windows.

SmallerOf(a, b) == IF a < b THEN a ELSE b
LargerOf(a, b)  == IF a < b THEN b ELSE a

\* series[-k:]
LastOf(series, k) == SubSeq(series, LargerOf(1, Len(series) - k + 1), Len(series))

\* Gate 4 and the quality gate ask for two samples even when the window is 1.
Kept == LargerOf(WindowSize, 2)

\* series.append(x)
Extend(series, x) == LastOf(Append(series, x), Kept)

\* The window of the policy.
Window(series) == LastOf(series, WindowSize)

\* mean(window) > bound, mean(window) < bound; FALSE when there is no sample.
MeanAbove(window, bound) ==
    Len(window) > 0 /\ SumFunction(window) > bound * Len(window)
MeanBelow(window, bound) ==
    Len(window) > 0 /\ SumFunction(window) < bound * Len(window)

\* mean(a) >= mean(b), of two windows with samples.
MeanAtLeast(a, b) ==
    SumFunction(a) * Len(b) >= SumFunction(b) * Len(a)

\* confidence >= policy.confidence for `votes` of a window of length n.
Confident(votes, n) == n > 0 /\ 100 * votes >= ConfidencePercent * n

-----------------------------------------------------------------------------
\* _do_revert (T-049).  The mutants after each operator are bugs of the kind
\* the properties must catch; no specification uses them.

MutRevertFloorAhead(s) ==
    [s EXCEPT !.current_mode = "fine", !.confidence = 0,
              !.revert_obs_floor = s.n_observations + 1, !.revert_count = @ + 1]

MutRevertForgetsFloor(s) ==
    [s EXCEPT !.current_mode = "fine", !.confidence = 0,
              !.revert_count = @ + 1]

DoRevert(s) ==
    [s EXCEPT !.current_mode     = "fine",
              !.confidence       = 0,
              !.revert_obs_floor = s.n_observations,
              !.revert_count     = @ + 1]

-----------------------------------------------------------------------------
\* record_and_maybe_switch.

RecordObservation(s, sig) ==
    [s EXCEPT !.observations   = Extend(@, sig.score),
              !.n_observations = @ + 1]

\* The latency and the tokens of the run are filed under the stored mode.
RecordLatency(s, sig) ==
    IF sig.latency > 0 /\ s.current_mode = "compound"
    THEN [s EXCEPT !.latency_compound_ms = Extend(@, sig.latency)]
    ELSE s

MutTokensFiledAsFine(s, sig) ==
    IF sig.tokens > 0 THEN [s EXCEPT !.tokens_fine = Extend(@, sig.tokens)] ELSE s

RecordTokens(s, sig) ==
    IF sig.tokens = 0 THEN s
    ELSE IF s.current_mode = "compound"
    THEN [s EXCEPT !.tokens_compound = Extend(@, sig.tokens)]
    ELSE [s EXCEPT !.tokens_fine = Extend(@, sig.tokens)]

RecordSignal(s, sig) ==
    RecordTokens(RecordLatency(RecordObservation(s, sig), sig), sig)

\* T-049: observations since the last revert, and how many of them the next
\* switch needs.
FreshObservations(s) == s.n_observations - s.revert_obs_floor

RequiredObservations(s) == MinObservations * SmallerOf(1 + s.revert_count, 5)

ComposeVotes(s) ==
    Cardinality({i \in DOMAIN Window(s.observations) :
                    Window(s.observations)[i] >= ComposeAt})
DecomposeVotes(s) ==
    Cardinality({i \in DOMAIN Window(s.observations) :
                    Window(s.observations)[i] <= DecomposeAt})

\* Gate 1, in FINE mode: switch to COMPOUND, or note the confidence.
MutGate1KeepsConfidence(s, apply) ==
    IF apply /\ Confident(ComposeVotes(s), Len(Window(s.observations)))
    THEN [s EXCEPT !.current_mode = "compound", !.confidence = ComposeVotes(s)]
    ELSE [s EXCEPT !.confidence = ComposeVotes(s)]

Gate1Fine(s, apply) ==
    IF apply /\ Confident(ComposeVotes(s), Len(Window(s.observations)))
    THEN [s EXCEPT !.current_mode = "compound", !.confidence = 0]
    ELSE [s EXCEPT !.confidence = ComposeVotes(s)]

\* Gate 1, in COMPOUND mode: revert, or note the confidence.
Gate1Compound(s, apply) ==
    IF apply /\ Confident(DecomposeVotes(s), Len(Window(s.observations)))
    THEN DoRevert(s)
    ELSE [s EXCEPT !.confidence = DecomposeVotes(s)]

Gate1(s, apply) ==
    IF FreshObservations(s) < RequiredObservations(s)
    THEN [s EXCEPT !.confidence = 0]
    ELSE IF s.current_mode = "fine" THEN Gate1Fine(s, apply) ELSE Gate1Compound(s, apply)

\* Gate 3: the window of COMPOUND latencies is too slow.
TooSlow(s) ==
    /\ LatencyThreshold # None
    /\ MeanAbove(Window(s.latency_compound_ms), LatencyThreshold)

MutGate3ClearsHistory(s) ==
    IF s.current_mode = "compound" /\ TooSlow(s)
    THEN DoRevert([s EXCEPT !.latency_compound_ms = <<>>])
    ELSE s

Gate3(s) == IF s.current_mode = "compound" /\ TooSlow(s) THEN DoRevert(s) ELSE s

\* Gate 4: COMPOUND costs at least as many tokens as FINE.
NoTokenGain(s) ==
    /\ Len(s.tokens_fine) >= 2
    /\ Len(s.tokens_compound) >= 2
    /\ MeanAtLeast(Window(s.tokens_compound), Window(s.tokens_fine))

Gate4(s) == IF s.current_mode = "compound" /\ NoTokenGain(s) THEN DoRevert(s) ELSE s

RecordAndMaybeSwitch(s, sig, apply) ==
    LET r == Gate1(RecordSignal(s, sig), apply)
    IN  IF apply THEN Gate4(Gate3(r)) ELSE r

-----------------------------------------------------------------------------
\* Quality.

\* record_quality
RecordQuality(s, q) == [s EXCEPT !.quality_scores = Extend(@, q)]

\* mean_quality(window) < quality_floor, where a floor is set.
QualityBelowFloor(s) ==
    /\ QualityFloor # None
    /\ MeanBelow(Window(s.quality_scores), QualityFloor)

\* get_recommendation
Recommendation(s) ==
    IF Len(s.quality_scores) >= 2 /\ QualityBelowFloor(s) THEN "DECOMPOSE"
    ELSE IF /\ Confident(s.confidence, Len(Window(s.observations)))
            /\ s.n_observations >= MinObservations
         THEN IF s.current_mode = "fine" THEN "COMPOSE" ELSE "DECOMPOSE"
         ELSE "MAINTAIN"

\* H1: keep the FINE output as the quality baseline, and the output tokens of
\* the run (record_avg_output_tokens_fine; its readers look at the last ten).
OutputWindow == 10

RecordFineBaseline(s, sig) ==
    [s EXCEPT !.last_fine_output       = TRUE,
              !.avg_output_tokens_fine =
                  IF sig.output > 0
                  THEN LastOf(Append(@, sig.output), OutputWindow) ELSE @]
=============================================================================
