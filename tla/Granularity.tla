----------------------------- MODULE Granularity -----------------------------
(***************************************************************************)
(* GranularityController with its window of telemetry, as CapsuleExecutor  *)
(* and GranularityProfiler drive it: a run of the executor observes one    *)
(* record per call it makes and then decides once; a run that raises       *)
(* decides nothing; a run that replays its checkpoint observes nothing and *)
(* decides all the same.  The profiler's runs are runs of the executor,    *)
(* and feed the same controller.                                           *)
(*                                                                         *)
(* Ratios are percentages.  A record is [tokens, coord, errors, batch,     *)
(* context]: the total and the coordination tokens of a call, its errors   *)
(* and items, and how much of the context window it filled.                *)
(***************************************************************************)
EXTENDS Integers, Sequences, SequencesExt, Lists

CONSTANTS
    Records,         \* what one call may be measured at
    Default,         \* ControllerThresholds(): [high, low, error, context]
    W,               \* hysteresis_window
    BackoffBase,     \* backoff_base
    Parallelism,     \* parallelism_available > parallelism_factor * 1
    Levels,          \* the profiler's levels, in order
    Calls,           \* level -> the most calls a run at it makes
    MaxFlips, MaxProfiles    \* bounds on the client

\* ControllerThresholds.__post_init__.
Valid(t) == /\ 0 <= t.low /\ t.low < t.high /\ t.high <= 100
            /\ t.error \in 0..100 /\ t.context \in 1..100

ASSUME GranularityAssumption ==
    /\ W \in Nat \ {0} /\ BackoffBase \in Nat \ {0} /\ Parallelism \in BOOLEAN
    /\ MaxFlips \in Nat /\ MaxProfiles \in Nat
    /\ \A n \in 0..MaxFlips : BackoffBase ^ (n + 1) \in Nat \ {0}
    /\ Levels \in Seq(ToSet(Levels)) /\ Calls \in [ToSet(Levels) -> Nat]
    /\ Valid(Default)

VARIABLES
    window,            \* WindowedCollector: the last W records
    composeStreak, decomposeStreak,
    changes,           \* _direction_changes
    lastAction,        \* the last action that was not MAINTAIN, or MAINTAIN
    decision,          \* the last DecisionReason: [action, consecutive], or None
    thresholds,
    profile,           \* the profiler's run: [left, entries], or None
    profiles,          \* profiler runs started
    held,              \* history: the direction the last decisions found
                       \* signalled, and how many in a row (at most 3 * W)
    since              \* history: decisions since the last action (same)

vars == <<window, composeStreak, decomposeStreak, changes, lastAction, decision,
          thresholds, profile, profiles, held, since>>
control == <<composeStreak, decomposeStreak, changes, lastAction, decision, held, since>>

Actions == {"COMPOSE", "DECOMPOSE", "MAINTAIN"}

Least(a, b) == IF a <= b THEN a ELSE b

-----------------------------------------------------------------------------
(* Telemetry *)

Total(field(_), recs) == FoldLeft(LAMBDA sum, r : sum + field(r), 0, recs)

Tokens(r)  == r.tokens
Coord(r)   == r.coord
Errors(r)  == r.errors
Batch(r)   == r.batch
Context(r) == r.context

\* WindowedCollector.add: a deque of W records.
Observed(win, recs) ==
    LET all == win \o recs
    IN  SubSeq(all, IF Len(all) > W THEN Len(all) - W + 1 ELSE 1, Len(all))

\* Sum over sum, zero over zero; "above" is a strict comparison with a limit.
Above(part, whole, limit) == whole > 0 /\ part * 100 > limit * whole
Under(part, whole, limit) == IF whole > 0 THEN part * 100 < limit * whole ELSE 0 < limit

\* The COMPOSE signals: overhead, or errors per item.
ComposeSignal(win, t) ==
    \/ Above(Total(Coord, win), Total(Tokens, win), t.high)
    \/ Above(Total(Errors, win), Total(Batch, win), t.error)

\* The DECOMPOSE signals: a full context window, or idle parallelism.
DecomposeSignal(win, t) ==
    \/ Total(Context, win) > t.context * Len(win)
    \/ Parallelism /\ Under(Total(Coord, win), Total(Tokens, win), t.low)

\* What decide() finds: a COMPOSE signal hides a DECOMPOSE one.
Found(win, t) ==
    CASE ComposeSignal(win, t) -> "COMPOSE"
      [] ~ComposeSignal(win, t) /\ DecomposeSignal(win, t) -> "DECOMPOSE"
      [] OTHER -> "MAINTAIN"

-----------------------------------------------------------------------------
(* Hysteresis and backoff *)

IsFlip(candidate) == lastAction # "MAINTAIN" /\ candidate # lastAction

MutRequired(candidate) ==
    IF ~IsFlip(candidate) THEN W ELSE Least(W * BackoffBase ^ changes, W * 3)

MutUncapped(candidate) ==
    IF ~IsFlip(candidate) THEN W ELSE W * BackoffBase ^ (changes + 1)

\* _required_streak.
Required(candidate) ==
    IF ~IsFlip(candidate) THEN W ELSE Least(W * BackoffBase ^ (changes + 1), W * 3)

\* decide() without data.
DecideNothing ==
    /\ decision' = [action |-> "MAINTAIN", consecutive |-> 0]
    /\ UNCHANGED <<composeStreak, decomposeStreak, changes, lastAction, held, since>>

\* A streak after the decision: an action starts it again.
After(streak, fires) == IF fires THEN 0 ELSE streak

\* decide() with data, in which direction "found" was signalled.
Decide(found) ==
    LET compose   == IF found = "COMPOSE" THEN composeStreak + 1 ELSE 0
        decompose == IF found = "DECOMPOSE" THEN decomposeStreak + 1 ELSE 0
        fires     == \/ found = "COMPOSE"   /\ compose   >= Required("COMPOSE")
                     \/ found = "DECOMPOSE" /\ decompose >= Required("DECOMPOSE")
    IN  /\ composeStreak'   = After(compose, fires)
        /\ decomposeStreak' = After(decompose, fires)
        /\ changes'    = IF fires /\ IsFlip(found) THEN changes + 1 ELSE changes
        /\ lastAction' = IF fires THEN found ELSE lastAction
        /\ decision'   = IF fires THEN [action |-> found, consecutive |-> compose + decompose]
                         ELSE [action |-> "MAINTAIN", consecutive |-> 0]
        /\ held'  = [dir |-> found, count |-> IF found = held.dir
                                              THEN Least(held.count + 1, 3 * W) ELSE 1]
        /\ since' = IF fires THEN 0 ELSE Least(since + 1, 3 * W)

\* What CapsuleExecutor's run does: observe the records, then decide.
ObserveAndDecide(recs) ==
    LET win == Observed(window, recs)
    IN  /\ window' = win
        /\ IF win = <<>> THEN DecideNothing ELSE Decide(Found(win, thresholds))

Measured(level) == UNION {[1..n -> Records] : n \in 0..Calls[level]}

-----------------------------------------------------------------------------

Fresh ==
    /\ window = <<>> /\ composeStreak = 0 /\ decomposeStreak = 0
    /\ changes = 0 /\ lastAction = "MAINTAIN" /\ decision = None
    /\ held = [dir |-> "MAINTAIN", count |-> 0] /\ since = 3 * W

Init == Fresh /\ thresholds = Default /\ profile = None /\ profiles = 0

Run(recs) ==
    /\ profile = None /\ changes < MaxFlips
    /\ ObserveAndDecide(recs)
    /\ UNCHANGED <<thresholds, profile, profiles>>

\* A run raises after some of its calls.
FailedRun(recs) ==
    /\ profile = None
    /\ window' = Observed(window, recs)
    /\ UNCHANGED <<control, thresholds, profile, profiles>>

Renewed ==
    /\ window' = <<>> /\ composeStreak' = 0 /\ decomposeStreak' = 0
    /\ changes' = 0 /\ lastAction' = "MAINTAIN" /\ decision' = None
    /\ held' = [dir |-> "MAINTAIN", count |-> 0] /\ since' = 3 * W

\* reset().
Reset ==
    /\ profile = None
    /\ Renewed
    /\ UNCHANGED <<thresholds, profile, profiles>>

-----------------------------------------------------------------------------
(* GranularityProfiler *)

StartProfile ==
    /\ profile = None /\ profiles < MaxProfiles
    /\ profiles' = profiles + 1
    /\ profile' = [left |-> Levels, entries |-> <<>>]
    /\ UNCHANGED <<window, control, thresholds>>

\* summary(): the overhead ratio of the level's own collector.
Overhead(recs) ==
    IF Total(Tokens, recs) = 0 THEN 0 ELSE (Total(Coord, recs) * 100) \div Total(Tokens, recs)

ProfileLevel(recs) ==
    /\ profile # None /\ profile.left # <<>> /\ changes < MaxFlips
    /\ ObserveAndDecide(recs)
    /\ profile' = [left |-> Tail(profile.left), entries |-> Append(profile.entries, Overhead(recs))]
    /\ UNCHANGED <<thresholds, profiles>>

\* A level whose run raises is passed over; a sweep without entries raises.
ProfileLevelFails(recs) ==
    /\ profile # None /\ profile.left # <<>>
    /\ window' = Observed(window, recs)
    /\ profile' = IF Len(profile.left) = 1 /\ profile.entries = <<>> THEN None
                  ELSE [profile EXCEPT !.left = Tail(@)]
    /\ UNCHANGED <<control, thresholds, profiles>>

\* _suggest_thresholds: the midpoint of the curve, unless it is flat.
Suggested(entries) ==
    LET ratios == ToSet(entries)
        min  == CHOOSE r \in ratios : \A q \in ratios : r <= q
        max  == CHOOSE r \in ratios : \A q \in ratios : r >= q
        mid  == (min + max) \div 2 + 5
        high == IF mid < 20 THEN 20 ELSE IF mid > 70 THEN 70 ELSE mid
        low  == (high * 40) \div 100
    IN  IF max - min < 5 THEN Default
        ELSE [Default EXCEPT !.high = high, !.low = IF low < 5 THEN 5 ELSE low]

\* The report's thresholds, in a new controller or not.
FinishProfile(adopt) ==
    /\ profile # None /\ profile.left = <<>>
    /\ profile' = None
    /\ thresholds' = IF adopt THEN Suggested(profile.entries) ELSE thresholds
    /\ IF adopt THEN Renewed ELSE UNCHANGED <<window, control>>
    /\ UNCHANGED profiles

Next ==
    \/ \E level \in ToSet(Levels) : \E recs \in Measured(level) : Run(recs) \/ FailedRun(recs)
    \/ Reset
    \/ StartProfile
    \/ \E recs \in IF profile = None \/ profile.left = <<>> THEN {} ELSE Measured(Head(profile.left)) :
           ProfileLevel(recs) \/ ProfileLevelFails(recs)
    \/ \E adopt \in BOOLEAN : FinishProfile(adopt)

Spec == Init /\ [][Next]_vars

-----------------------------------------------------------------------------

Acts(action) == since' = 0 /\ lastAction' = action

\* Hysteresis and backoff: an action is taken only when its direction was the
\* one found by at least W decisions in a row, none of which led to an action
\* already; to turn round for the n-th time it takes W * BackoffBase^n of
\* them, at most 3 * W (decide, _required_streak, _on_action).
ActsOnSustainedSignal ==
    [][\A a \in {"COMPOSE", "DECOMPOSE"} : decision' # decision /\ Acts(a) =>
           LET n == IF lastAction \in {"MAINTAIN", a} THEN W
                    ELSE Least(W * BackoffBase ^ changes', 3 * W)
           IN  held'.dir = a /\ held'.count >= n /\ since + 1 >= n]_vars

\* The cap keeps the controller responsive: a direction found by 3 * W
\* decisions in a row has been acted on within them, however often the
\* controller turned round before, and no streak outlives an action.
SustainedSignalActs ==
    /\ held.count = 3 * W /\ held.dir # "MAINTAIN" => lastAction = held.dir /\ since < W
    /\ composeStreak \in 0..(3 * W - 1) /\ decomposeStreak \in 0..(3 * W - 1)
    /\ composeStreak = 0 \/ decomposeStreak = 0
=============================================================================
