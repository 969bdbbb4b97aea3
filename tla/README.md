# Agent Capsules: TLA+ models, checks and proofs

Agent Capsules runs pipelines of LLM agents. Agents are declared in groups; a
group runs FINE (one call per agent) or COMPOUND (merged), and a controller
decides which from what the runs cost. This directory models that machinery in
TLA+, model-checks it with TLC and proves with TLAPS what the checks say of
safety. Paths below
are relative to `src/src/agentic_capsules/`.

## 1. Inventory

| Component | State it keeps | Operations | What makes it hard |
|---|---|---|---|
| Composition controller (`api/state.py`, `api/compiler.py` `_post_run_controller_step`, `controller/policy.py`) | per group: mode, observation window, latency and token windows, quality scores, revert floor and count, model override, streaks | record, Gates 1/3/4, revert, shadow gate H2, reactive gate H3 with the escalation ladder | long histories; windows that outlive the mode that filled them; calls that raise between two saves; a model resolved twice |
| Checkpoints (`runtime/checkpoint.py`) | cache and one JSON file per `task_id`, of groups or of leaves | save, load, clear | in-place rewrite, swallowed I/O errors, cache and file that disagree |
| Parallel executor (`api/parallel_compiler.py`) | results, task inputs, thread pool, the checkpoint | levels, replay, fan-out expansion, dispatch, collect, clear | threads, completion order, a failed level, retry, crash |
| Serial executor (`api/compiler.py` `execute`) | results, the augmented task | the same, group by group | a task input built up over replayed, skipped and silent groups |
| Pipeline builder (`api/builder.py`) | declared groups, policies | group, agent, fanout_group, subpipeline, run, calibrate | client order of calls, renaming of edges, half-done embeddings |
| Capsule executor (`runtime/executor.py`) | outputs by key, capsule states, cached orders, leaf checkpoint, boundary items | FINE, COMPOUND in three models and nested, ITERATION, skip, short circuit, tool leaves | seven paths that inject, skip, store and evict by different rules; resume |
| Scheduler and topology (`runtime/scheduler.py`, `topology.py`), capsule rules (`core/`) | in-degrees and a queue | sort, classify, validate | three readers of the same edges |
| Prompt compiler (`runtime/prompt_compiler.py`) | none | compile, parse | who is told to read what; headings out of order |
| Boundary sync manager and backends (`runtime/sync_manager.py`, `backends/`) | entries by tag, events, a shared backend | put, get with timeout, evict; synchronous and asynchronous | waiters against eviction, backend calls outside the lock |
| Granularity controller (`controller/granularity.py`, `profiler.py`, `telemetry.py`, `thresholds.py`) | streaks, flips, window, thresholds | observe, decide, reset, profile | long decision sequences |
| Adapters (`adapters/`) | conversation, per-thread counters | complete with tools and retries | one adapter on many threads; unbounded turns |
| Tools (`tools/`) | registry, schema cache, context of a chain | validate, run a chain | keys written twice; timeout after the effect |
| Model router (`runtime/model_router.py`) | the current capsule | complete | shared by concurrent groups |
| Evaluation, Pareto analysis, result | none that evolves | pure functions of text or floats | not for TLC |

Interaction. `Pipeline.run` builds an executor. The executor resolves the mode
of each group from the controller's state, runs the group through the capsule
executor, saves it in the checkpoint, then calls the post-run controller step,
which reads the run's telemetry, may call the capsule executor again (shadow
runs) and the evaluator, and writes the controller's state. The capsule
executor orders the leaves, compiles prompts, calls the adapter through the
router, and puts outputs into the sync manager. In the parallel executor groups
run on pool threads, so that adapter, router and controller state are shared:
the controller's state is guarded by one `RLock`, the checkpoint by one `Lock`,
the adapter's counters by a thread-local store, the router by nothing.

Properties that make each part correct:

* controller: a switch is vetted and stays vetted; every gate reverts with the
  cooldown; samples are filed under the level that produced them; quality
  failures have a consequence; recommendations and actions agree;
* checkpoints: what was saved is found again, and only for the task it was
  saved for, through failed writes and crashes;
* pipeline executors: a group starts after its dependencies with their outputs
  in its input, every run ends, nothing of a run outlives it;
* capsule executor: an agent is shown what it declared, whichever path calls
  it; no work is paid for twice; the final output and the boundary item are
  those of the agents that count;
* scheduling and building: what the builder accepts compiles and is scheduled
  in an order that respects every edge, embedded or not;
* sync manager: no wake-up is lost, no evicted text returns, errors are true;
* granularity: no action without a sustained signal, no sustained signal
  without an action;
* adapters: every tool call is answered, counters are those of the call, calls
  end.

`PROJECT.json` lists the hazards line by line with the properties that cover
them, and a note where none does.

## 2. Modules

| Module | Models |
|---|---|
| `PipelineState` | the persisted state of a group and PipelineState's operations on it, as operators |
| `GroupController` | the runs of one group: mode, run, post-run step, shadow gate, reactive gate. EXTENDS PipelineState |
| `PipelineCheckpoint` | cache and file of one `task_id`, as operators |
| `ParallelExecutor` | orchestrator, pool threads, client and crashes over it. EXTENDS PipelineCheckpoint |
| `SerialExecutor` | the serial loop, client and crashes over it. EXTENDS PipelineCheckpoint |
| `DagExecution` | abstract: what an executor promises of a task; both executors refine it |
| `Lists` | pure: a comprehension with a filter, and the keys of a dict, as recursive functions |
| `CapsuleGraph` | pure: hierarchies, edges, Kahn's order, topology and injection strategy, terminals, composition rules, tag partition |
| `Scheduler` | `compute_order` one dequeue at a time, over every declaration. EXTENDS CapsuleGraph |
| `Prompts` | pure: who a prompt asks, what it shows, how an answer is parsed. EXTENDS CapsuleGraph |
| `ToolChain` | pure: tool capsules, schema matching, the orchestrator's context. EXTENDS CapsuleGraph |
| `CapsuleExecutor` | run() of the capsule executor with its client, leaf checkpoint and crashes. EXTENDS Prompts, ToolChain |
| `LlmAdapter` | complete() of the three vendors, shared by threads |
| `SyncManager` | threads and processes over one backend |
| `Granularity` | the granularity controller and the profiler |
| `PipelineBuilder` | the builder's calls. EXTENDS CapsuleGraph |
| `MC...` | instances for TLC |
| `...Proofs` | theorems about the module of the name, with their lemmas: GroupController, ParallelExecutor, SerialExecutor, CapsuleExecutor, SyncManager |
| `DeclarationProofs` | the same for PipelineBuilder and Scheduler: what is declared, and its order |
| `TelemetryProofs` | the same for LlmAdapter and Granularity: what a call is measured at, and what is made of it |
| `RecursionLemmas` | lemmas: induction, functions defined by recursion, what the operators of `Lists` and the recursions of `CapsuleGraph` return, and the community modules' `FlattenSeq` |

Operators whose names begin with `Mut` are mutants: the code with a plausible
bug. No specification uses them; `PROJECT.json` says which property each must
break in which run.

### GroupController

One group and one client. `pc` walks `idle -> run -> (shadow | react) -> idle`.
The steps are cut where the code calls out, because those calls may raise
(`CallsMayFail`) and what was saved before stays:

| Code | Action |
|---|---|
| `execute`: `_resolve_mode`, start of a group | `StartRun` |
| `_run_group` raises | `DispatchFails` |
| H, H1 and `record_and_maybe_switch` | `ControllerStep` (operators `RecordFineBaseline`, `RecordAndMaybeSwitch`) |
| H2, one candidate: passes / next rung / ladder exhausted | `ShadowAccept`, `ShadowRetry`, `ShadowReject` |
| H3 with E-1 | `React` (operators `Escalate`, `DeEscalate`) |
| shadow run or evaluator raises | `EvaluationFails` |

H, H1 and the switch are one action: for one group they are consecutive locked
sections of one thread with no call out between them. Two clients of one
pipeline are a later module.

Abstraction of the data. Observations, scores, latencies and tokens are small
naturals; means are compared by cross-multiplication, so no rounding enters;
`confidence` is a count of votes. `confidence` against the threshold is
compared with the length of the current window. A list keeps the suffix that
its readers read: `window_size` samples, and at least two because Gate 4 and
the quality gate ask for two; ten output samples. `len(observations)` is the
counter `n_observations`. `latency_fine_ms` is read by no gate and left out.
The fine baseline is "there is one". A run's telemetry is a member of
`Signals[level]`, with all fields 0 for a run that left none. The composition
score and its hard overrides are abstracted to the resulting observation.

`vetted` is a history variable: the model whose shadow run admitted the last
switch.

### PipelineCheckpoint, ParallelExecutor, DagExecution

The record of a group is the number of the task that produced it, which is what
"stale" needs. A file is a set of records, `Missing` or `Corrupt`. `save_group`
is two steps under its lock, because the file is truncated when it is opened
and complete only when it is closed: a crash in between leaves `Corrupt`.
`SaveGroup(g, FALSE)` is an open that fails (file untouched), `WriteEnds(g,
FALSE)` a write that fails.

| Code | Action |
|---|---|
| `Pipeline.run`, again after a failure or for the next task | `StartRun` |
| resume loop, one group | `LoadNext` |
| fan-out expansion and submission of a level | `Dispatch`, `ExpansionFails` |
| pool thread takes a future (library) | `TakeNext` |
| `_run_and_record_group` | `RunGroup`, `SaveGroup`, `WriteEnds`, `ControllerStep`, `WorkerFails` |
| `as_completed` loop | `Collect`, `CollectFailure`, `LevelDone` |
| end of the `with` block on an exception | `Drained` |
| clearing, assembling the result | `Finish`, `Return` |
| process death | `Crash` |

A group that ran has an output; the empty text is a case of SerialExecutor, where
it matters. The controller step is atomic here: it completes or raises. Levels are computed by the recursive function
`LevelsUpTo`, in declaration order, as `_topological_levels` does.

`PipelineAssumption` is what the builder's validation leaves possible:
dependencies and fan-out sources are declared earlier, so there is no cycle.
It also assumes distinct group names, which the builder does not check. It does
not assume that a fan-out group depends on its source; then `ExpansionFails`.

`written` (records of this task that reached the disk) and `torn` (a write of
this task was cut off) are history variables.

The refinement maps a group to "done" when it has a result, "running" while its
future is open, "waiting" otherwise; a run that raised or crashed has given its
attempt up. `ImplementsDag` checks that every step of the executor is a step of
`DagExecution` or a stutter.

### SerialExecutor

One thread, so an action is what lies between two calls out: `Load` (replay),
`Expand`, `RunGroup`, `Save` and `WriteEnds` (the file is opened, then
written), `ControllerStep`, `Finish`, `Return`; `Fails` is what a call out
raises, `Crash` the process. A record says whose task it is of and whether its
final output is empty, because an empty one does not enter `current_task`
(`Chained`). `fed` remembers what a group was given. Its refinement of
`DagExecution` has every earlier group as a dependency: `depends_on` can only
name earlier groups, so the serial executor keeps the parallel one's promise.

### CapsuleGraph, Scheduler

`CompileEdges` is what `_compile_group` makes of `depends_on`; `KahnOrder` is
the sort, as a recursive function of the turns (`KahnTurn`, `KahnTurns`), and
`Scheduler` runs it again one turn of the loop at a time, where the invariants
see the queue. A name has at most `Len(children)` turns and its rule 4 at most
as many rounds (`Reached`), so both functions stop there.

### CapsuleExecutor, Prompts, ToolChain

`stack` holds the active `_run_*` calls, innermost last, and a frame's `path`
says which method it is:

| Code | Action |
|---|---|
| `run` at FINE, COMPOUND, ITERATION | `Run` |
| `_run_compound`: short circuit; a condition that raises; the choice of path | `ShortCircuit`, `EnterRaises`, `Enter` |
| `_run_compound_two_phase`: Phase A, one agent | `Gather` |
| the merged call: too long; raises; answered, parsed, stored, evicted | `OverBudget`, `MergedFails`, `MergedAnswers` |
| one agent of `_run_fine`, `_run_compound_sequential`, `_run_compound_mixed` | `CallAgent`, `RestoreAgent`, `SkipAgent` |
| `_dispatch_tool_leaf`, one step of its capsule | `CallTool` |
| a child of a mixed compound | `EnterChild`, `PassToolChild` |
| the end of these loops | `FinishLeaves` |
| `_run_iteration`, one batch; its end | `BatchCall`, `BatchOverBudget`, `FinishBatches` |
| the client; the process | `NextTask`, `Crash` |

A text is the set of sections it holds, a section is (who was asked, in which
task). A model may leave a section out or swap two (`Answers`); `Parsed` is
`parse_outputs`. Whether a merged prompt fits the window is a choice, counted
as a failure. `CheckpointStore` is `memory` and `file`; its failing reads and
removals are those of `PipelineCheckpoint` and not repeated here. A skip
condition reads one leaf's output and wants it non-empty, or raises where there
is none. `route` is the router's `current_capsule`. A tool step that raises,
times out, or returns no dict is one outcome: it ends the run.

### LlmAdapter

A thread's `complete()` is in phase request, backoff, tools, returned or
raised. The vendors differ in the records `Anthropic`, `OpenAI`, `Gemini`: which
errors they retry, and in which messages the results of the tools go back. A
message of the conversation is the calls it makes or the answers it carries.
`slots` is the thread-local store (`Slot`). `heard` counts the responses that
reported their usage, each of which is one token. Backoff times and request
formats are left out.

### SyncManager

A step is a critical section of the manager's lock or one backend call outside
it: `Put` then `Mirror`; `Evict`, `List`, then `Delete` per key; `Get`, then
`TimeOut` or `Fetch`. A waiter holds the event object it registered: when
`evict` pops the event from the dictionary the waiter keeps it, which `wait.on`
records. An entry says whether it is a producer's item or the stub that
`get_sync` makes of a backend's text. A key has one owner that puts and evicts it, one call after another,
and is used through one of the two interfaces.

### Granularity

Ratios are percentages over integer token counts, compared by
cross-multiplication. `Run` is what the capsule executor does with the
controller: observe each call's record, decide once; `FailedRun` observes and
decides nothing. `held` and `since` are history variables: how many decisions in
a row found the same direction, and how many since the last action, each capped
at `3 * W`, the longest the code ever waits.

### PipelineBuilder

A name is a sequence of `Parts`, so that a prefixed name is `Prefix \o name`;
`PathNames`, `Dependences` and `Declaration` are what a client may pass.
Group, Agent, FanoutGroup and Subpipeline carry the methods' checks as guards;
`Subpipeline` embeds as many groups as pass the loop's checks and is `spoilt`
if one does not. A pipeline that is spoilt or embedded is built no further.
Options that only change a prompt are left out.

## 3. Runs

Each run takes from seconds to two minutes with two workers.

| Run | Shows | Bounds |
|---|---|---|
| `GC_gates` | `TypeOK`, `CooldownBudget`, `EscalatesOnFailures`, `LatencyLockout`, `AutoSamplesFiledByRunLevel`, `AutoActsOnConfidence` | runs of all four modes, window 2, confidence 60 %, every gate on, failing calls, runs without telemetry, 6 runs |
| `GC_quality` | `SwitchPassedGate`, `VettedModelRuns` | auto runs, model "auto" with tools, terse and verbose FINE runs, calls that return, 8 runs |
| `GC_v_ungated_switch` | a counterexample, see below | the same with calls that raise |
| `PE_dag` | `TypeOK`, `InputsReady`, `ResultsOfThisTask`, `ImplementsDag` | 4 groups with a fan-out, 2 threads, shared checkpoint with path, failing reads, 1 failure, 1 crash, 2 tasks |
| `PE_resume` | `QuietBetweenRuns`, `WrittenIsReplayed`, `RunEnds` | 3 groups, 2 concurrent, failing writes and removals, 2 failures, 2 crashes, 2 tasks, fairness |
| `SE_serial` | `ChainedInput`, `ImplementsDag` | 4 groups with a fan-out, failing reads and writes, 2 failures, 1 crash, 2 tasks |
| `EX_models` | `InputsAsDeclared`, `ReturnsThisTask`, `SinksSpeak`, `OnlyTheLastCrosses`, `ToolStepsAreFed`, `NoRepaidCall` | 9 hierarchies and all tool chains of 2 steps with some of 3; every level, model and context they admit |
| `SC_orders` | `OrderRespectsDeps`, `RaisesOnCycles`, `RulesPredictSchedule`, `PredecessorIsEnough` | 4 agents, each with any dependency set of up to two names, itself included, a stranger, or none |
| `SM_sync` | `TypeOK`, `EventsMatchStore`, `EvictedIsGone`, `ErrorsAreTrue`, `WaitersWake` | 2 processes, 1 producer, 2 readers beside it and 1 in the other process, 2 keys, expiry, 3 puts, 3 gets, 1 restart, fairness |
| `GR_backoff` | `SustainedSignalActs`, `ActsOnSustainedSignal` | 4 kinds of record, up to 2 per run, window 2, backoff base 2, 3 turns, resets, a profiler sweep |
| `PB_build` | `TypeOK`, `AcceptedPipelinesCompile`, `EmbeddingKeepsOrder` | a library of 2 groups and 2 agents, a parent of 2 groups and 1 agent, all dependency sets, repeated names |
| `LA_calls` | `RequestsAreAnswered`, `CountersAreThisCall`, `CallsEnd` | 3 vendors, 2 threads, 2 calls each, 2 retries, 2 tool turns, one tool nobody registered, fairness |

Why the bounds are enough. In GroupController nothing but the windows, the
cooldown multiplier, the streaks (2) and the ladder (3 rungs) depends on how
long the history is. Six runs of `GC_gates` fill a window of 2, switch, revert,
pay the cooldown and switch again (1 + 2 observations with
`min_observations = 1`), or fail twice, escalate, and succeed; eight runs of
`GC_quality` walk the whole ladder, are rejected, pay 2 + 4 observations and
switch again. The cap of the multiplier at 5 is not reached by a run: it is in
the proof of `CooldownBudget`, which holds for every length. Low and high
observations (and one between, for FINE runs, in `GC_quality`) are what the two
thresholds tell apart, two values of a latency or of a score what one does.

In the pipeline executors two tasks are needed for a stale record, two crashes
to die again during a resume, four groups for a level of two between two
others (or, serially, a silent group between a source and a reader), and two
threads for two writers at the lock. `WrittenIsReplayed` is checked with reads
that succeed: a read that fails is a miss, and the group is dispatched again.
`ResultsOfThisTask` and `ChainedInput` are checked with removals that succeed.

In CapsuleExecutor the hierarchies are those the API compiles (a chain, a
diamond with tools, independent agents, unsatisfiable and strict conditions)
and those a caller of the runtime layer can build (nested compounds before and
after their siblings, tool leaves, a single leaf over three items in batches of
two): three agents tell a predecessor from a dependency from everything before.
A conversation of `LlmAdapter` needs two tool turns for an answer to be taken
for an earlier turn's, two calls for a counter to be an earlier call's. In
SyncManager a lost wake-up needs a put, an evict and a put, and two readers in
one process, one woken and one that comes later; the second process is the one
whose store is empty. `Granularity` is driven through two
turns, where the backoff reaches its cap. Four agents in `SC_orders` hold every
shape of up to two dependencies, cycles of two to four included.

Names that begin with `Max` bound counters, and sit in the guards of the
client's, the failures' and the crash's actions; `MaxTurns` is the one that
stands for an assumption about a model. Deadlock is not checked where the
client stops at its bound; that nothing gets stuck before is `RunEnds`,
`WaitersWake` and `CallsEnd`. Symmetry is not used: groups and agents are
ordered by declaration, and the other sets have two members.

Fairness.

* `ParallelExecutor.FairSpec` (`PE_resume` alone): weak fairness of the
  orchestrator's steps, of the pool taking a future and of each worker: threads
  of one process that the operating system schedules. A call to a model returns
  or raises in the end. Nothing is assumed of the client, of failures or of
  crashes, so `RunEnds` says that a run ends whatever fails.
* `SyncManager.Spec`: weak fairness of `Fetch` for each reader: a thread whose
  event is set is scheduled and gets the lock, which is never held over
  anything that blocks. Nothing is assumed of producers or the backend.
* `LlmAdapter.CallsSpec`: weak fairness of each thread's `Step`: the vendors' clients
  have timeouts of their own, so a request is answered or fails; sleeps end;
  tools return. Nothing says that a request ever succeeds.

### Disagreements between code and text

One is a run: `GC_v_ungated_switch` violates `SwitchPassedGate`. The switch is
saved (`api/state.py:504`) before the shadow run; when that run or the evaluator
raises, the switch stays committed and ungated, and later runs skip the gate.

The others are read off the code and need no run; the models follow the code.

* The quality floor never reverts a group: H3 records and may escalate
  (`compiler.py:784`), while `policy.py:81-83` says it reverts.
* For a "deps" topology under auto, H2 resolves the model without the compound
  (`compiler.py:734`) and vets one that no later run uses.
* `auto` is not in the ladder, so with no override failures never escalate
  (`compiler.py:806` against `policy.py:109-112`); de-escalation may pass below
  the policy's own model (`compiler.py:833` against `state.py:191-192`).
* A run in locked mode files its samples under the stored mode
  (`state.py:438-440`), and `calibrate`, which says it never writes to the
  controller's state (`builder.py:952`), makes such runs.
* A crash during the in-place rewrite loses every group saved before
  (`checkpoint.py:269` against `builder.py:893-895`); after a failed write a
  cache miss replaces the cache by the older file (`checkpoint.py:291` against
  146-148); a failed removal is swallowed (`checkpoint.py:252`), and the next
  task under the `task_id` is given the old task's outputs.
* `decide` acts on a window that is not full (`granularity.py:145` says not). A
  FINE run restored entirely from its checkpoint observes nothing and decides.
* A reader in another process times out although the backend has the value: it
  waits for an event that only its own manager sets (`sync_manager.py:143`
  against 83-86).
* `put_sync` promises to unblock any waiting `get_sync` (`sync_manager.py:111`).
  There is a waiter it cannot reach: a reader is woken, its entry is evicted from
  the store but not yet from the backend, a second reader registers an event,
  the first one fetches the backend's text and stores it as a stub without
  setting that event (line 167), and the stub is evicted, and the event with it.
  The second reader then waits on an event nobody can set, through every later
  put; without a timeout, for ever. `EventsMatchStore`, `ErrorsAreTrue` and
  `WaitersWake` hold of every other waiter and name this one (`Stranded`).
  The stub itself stays in the store after the eviction is over.
* A merged phase is told to read the phase before it even when it declared
  other dependencies (`prompt_compiler.py:415`).
* `validate_chain` accepts a field of any earlier step, where its docstring says
  the prior step's (`schema_cache.py:53-55` and 83): a third step may lack it,
  which is why `ToolStepsAreFed` says it of the second.

And behaviours no text speaks of, which a maintainer may want to know:

* `LatencyLockout` holds: a group once found too slow is never COMPOUND again at
  the end of a step, since only COMPOUND runs refresh the window the gate reads.
  The retry with a cooldown of T-049 cannot succeed after Gate 3.
* In the capsule executor a FINE run drops the leaves of nested compounds; a
  mixed compound passes tool children over, and one that ends with an agent
  returns an empty final output if its root was never ordered; ITERATION's
  output keys repeat in every batch; a tool leaf runs again after a restore; a
  tool leaf in a COMPOUND run raises AttributeError.
* `subpipeline` drops per-group policies, hooks a first group with an implicit
  edge to the parent's last group, and leaves what it has embedded when it
  raises; group names may be repeated.
* Gemini does not retry rate limits, the others do not retry internal errors;
  what a tool's callable raises ends the call; the usage of a request that
  timed out is not counted.

## 4. Proofs

The theorems hold for every value of the constants that the named assumptions
admit (`PolicyAssumption`, `ControllerAssumption`, `PipelineAssumption`,
`SerialAssumption`, `ExecutorAssumption`, `TreesAssumption`,
`SchedulerAssumption`, `BuilderAssumption`, `AdapterAssumption`,
`SyncAssumption`, `GranularityAssumption`, the `NoneAssumption`s, ...). TLC
evaluates each of them on the runs. These say what constructors and the builder
check, what the literals of the code are, and the types of the parameters.
`tlapm M.tla` checks a module; each property below is checked by TLC on the run of its module too. A theorem with a
further hypothesis says so, and why.

### RecursionLemmas

The provers instantiate no operator parameter, so induction is stated over
sets: `Induction` and `BoundedInduction` (a set with 0 and the successors of
its members has every number) follow from `LeastNumber`, which follows from the
well-foundedness of inclusion on finite sets. `Recursion` gives a function on
`0 .. N` from a value at 0 and a step that is a function. With it,
`KeepProperties`, `DictKeysInjective`, `KahnIsComputed`, `ReachedIsComputed`,
`FlattenIsComputed` and, in ParallelExecutorProofs, `LevelsAreLayered` say of
recursive functions what they compute on every input. `TakeFirstOf`,
`AppendOneTo`, `ConcatTwo` and `InjectiveLength` are about lists without
repetition, `Joined` and `FlattenAppend`, `FlattenEmpties`, `FlattenSingles`
about lists put together. `PartitionCovers` says that the batches of an
iteration are not empty, not too long, and have every item (`Quotient` and
`Product` are the arithmetic of the division). `KahnOrderIsSorted`, `KahnFirst`
and `ChainsAreOrdered` say of Kahn's order that it comes after what it waits
for, that its first name waits for nothing, and that a chain is its own order.

### GroupController

* `TypeCorrect`. One lemma per operator gives the type of its result; `TypeOK`
  is inductive, because it holds the one relation the subtraction in
  `FreshObservations` needs (`revert_obs_floor <= n_observations`).
* `CooldownBudgetHolds`. `CooldownBudget` alone is not inductive: the shadow
  gate reverts, and its revert is within the budget only if the group is
  COMPOUND, so `CooldownInv` adds that the group is COMPOUND while
  `pc = "shadow"`. Lemmas: an observation keeps the budget, a switch needs the
  next attempt's share, a revert turns that share into the past (`WarmupStep`
  is the arithmetic of the capped multiplier).
* `LatencyLockoutHolds`, an action property: no step files a COMPOUND latency
  while the group is FINE, and a switch meets Gate 3 in the same step.
* `SwitchPassedGateHolds`, if no call raises, by `GateInv`: while a gated group
  is COMPOUND, either its shadow gate is running or a model has passed. The run
  `GC_v_ungated_switch` is the counterexample without the hypothesis.
* `SamplesAreFiledRight`, by `LevelInv`: from the moment a run the client did
  not lock has resolved its level until its samples are filed, the stored mode
  is that level.
* `ConfidenceIsActedOn`. The step is followed operator by operator: each way
  through `record_and_maybe_switch` leaves the state `Settled`, in which the
  recommendation is MAINTAIN.
* `FailuresEscalate`, if the policy's model is not "auto", by `StreakAtTop`:
  a streak of `escalation_min_failures` or more is on the top rung. E-1 climbs,
  and starts a new streak, as soon as the limit is reached and a rung is left;
  only a success, which ends the streak, climbs down. "auto" is no rung, and
  there the ladder starts only from an override.
* `VettedModelIsRun`, if no call raises, no run is locked to FINE and the model
  is not "auto" on a "deps" topology, by `VettedInv`: outside the shadow gate a
  COMPOUND group resolves to the vetted model, the first candidate of the gate
  is that resolution, and a FINE run, which moves the measured verbosity, is
  one of a group in FINE mode. Each hypothesis is one of
  the disagreements of section 3 or a kin of it: an ungated switch; a FINE run
  that moves the measured verbosity; H2 resolving without the compound.

### ParallelExecutor, SerialExecutor

* `LevelsAreLayered`: for every pipeline the builder accepts,
  `_topological_levels` emits every group once, after its dependencies. By
  induction on the number of levels: the first group in declaration order that
  is not emitted is ready, because its dependencies are declared before it.
* `TypeCorrect`, `InputsAreReady` and `RunsEndQuiet`. `InputsReady` is not
  inductive: that a dependency has its result when a group is dispatched comes
  from the levels, and that it still has it from the fact that results are
  only reset when no worker is left. `SchedInv` says so: what the orchestrator's
  phases leave empty (`Phases`, `QuietBetweenRuns`), where each group of the
  level is (`Lists`, `OpenFutures`, `Scanning`), and which levels have results
  (`ResultsByLevel`).
* `DagImplemented`, step by step: under `SchedInv` each action maps to a step
  of `DagExecution` (start, finish, give up, begin, return) or to a stutter.
* `ResultsAreOfThisTask`, if removals never fail, by `TaskInv`: cache and file
  hold records of the current task only, because a run that has returned left
  both empty.
* `WrittenIsNotRedone`, if reads never fail, by `DurableInv`: one writer at a
  time, and unless a write was cut off (`torn`) every group of `written` is in
  the file while nobody writes it, and in the cache from the first look-up of a
  run on (`RecordsSafe`). The conclusion is an action property about
  dispatching.
* SerialExecutor: `InputsAreChained`, if removals never fail, by `FedInv` (each
  group was fed the chain of the groups before it) and `RecordsInv`;
  `SerialDagImplemented`, by `LoopInv` (the groups with results are those the
  loop has passed).

### CapsuleExecutor

The hypotheses on a hierarchy are `TreesAssumption`: what
`validate_hierarchy` refuses otherwise (a tree with one name per node, each
compound ordered), leaves at the root of a FINE run, and a capsule for each of
its tool leaves. The theorems hold for hierarchies of any size and depth, all
levels and contexts, and all answers, failures and crashes.

`ExecutorInv` is inductive. Its parts:

* `CallsNest`: only compounds are entered from one another, a FINE run and an
  iteration are one call, and a run is open exactly while a call is active;
  `Tables` and `Settled` say what the dicts are about and that the settings are
  some caller's.
* `FineGoesOn`, `BatchesGoOn`: what a loop has passed has its output, and what
  it has not passed is still ahead of it; for an iteration by `PartitionCovers`.
* `SavedIsKnown`: the file is no newer than the dict, and a run that saves has
  restored every leaf that either of them has.
* `ContextKept`: the context of a tool chain has the latest step of each key.
* `StackMarked`, `StoreMarked`: each text in a frame, in the result and in the
  leaf checkpoint was written for the current task.

From it follow

* `TasksAreNotMixed` (`ReturnsThisTask`): what a level returns, a compound
  inside a compound included, is of this task. The client's `store.clear` takes
  effect here; a removal that fails is a case of ParallelExecutor, and a
  hypothesis of its `ResultsAreOfThisTask`;
* `ToolStepsFollow` (`ToolStepsAreFed`), for all chains that can be built;
* `SavedCallsStay` (`NoRepaidCall`), an action property: the leaf that is
  called is the next of the loop, and `SavedIsKnown` says it is not saved.

Flat hierarchies, which are all that a pipeline's groups compile to, have one
active call over one order. `FlatGoesOn` says what is behind and ahead of it
on each path, `FirstIsThere` that what is saved begins with the first leaf.

* `FlatRunsSpeak`: `SinksSpeak` of flat hierarchies. The terminals are in the
  order, the order has been walked, and the aggregation joins their outputs.
* `LastOutputCrosses`: `OnlyTheLastCrosses`, which is about flat hierarchies.
* `AgentsSeeTheirInputs`: `InputsAsDeclared`, if the strategy of the root fits
  its edges (`InputsFit`): with "deps" no agent but the first declares nothing,
  and otherwise "predecessor_only" comes with a chain. A caller of the runtime
  layer could break that by hand. `DeclaredInputsAreShown` shows that nobody
  who declares a group can: for `CompiledGroup`, the edges, strategy and order
  that `_compile_group` makes of a declaration, `InputsFit` is a lemma.

### PipelineBuilder

`BuilderInv` is inductive, and is about all pipelines at once, because
`subpipeline` copies one into another. `BuilderType`; `LooksBack`: groups and
agents depend on what was declared before them, and a fan-out is over an agent
of an earlier group; `Matched`: the controller's policies are those of the
groups; `CurrentIsLast`: agents go into the group opened last.

* `RecordsMatch` (`TypeOK`).
* `AcceptedCompile` (`AcceptedPipelinesCompile`). `BackwardCompiles` is the
  argument: a list whose declarations look back, with distinct names, is
  ordered whole, because the first name that is not waits only for earlier ones.
* `EmbeddingKept` (`EmbeddingKeepsOrder`, an action property): prefixing is
  injective, so the edges `CompileEdges` makes of the copies are the prefixed
  ones. It is stated under `NoneIsNoSet` (None is no set of names), which
  Python's `None` is not; TLA+ does not say so of an arbitrary constant.

### LlmAdapter

`CallsInv` says of each thread alone that its locals have their types, every
response in its conversation is followed by as many messages as answer it
(`Answering`), its slot counts what the conversation asked for and, while tools
run, those that have run (`CountOf`). A step changes one thread's locals and
that thread's slot (`OneThread`), which is what `Slot(t) = t` is for.

* `AnswersAreComplete` (`RequestsAreAnswered`): `TalkGrows` adds a turn in any
  vendor's layout, with one message for all results or one for each;
  `AnswersAreResults` reads it back.
* `CountersAreTheCalls` (`CountersAreThisCall`): `Replied` and `Invoked` count,
  `FlattenAppend` adds the turn's names to those of the turns before.

### Scheduler, CapsuleGraph

`KahnInv` is the invariant of one turn of Kahn's sort, over any list of names
and any edges: order and queue have no name twice and none in common; a name is
in one of them exactly when all it waits for is ordered; each name comes after
what it waits for. `KahnTurnKeeps` proves it of the function and
`SortIsKahns` of `compute_order`, whose counters (`Degrees`) and whose steps
(`Turned`: after n dequeues it is where `KahnTurns` is at n) follow from it.

* `DepsComeFirst` is a part of `KahnInv`.
* `RaisesOnlyOnCycles`: with the queue empty, a name that is left waits for one
  that is left. A cached order is `KahnOrder`'s, since turns with an empty queue
  change nothing.
* `RulesPredict`: rule 3 compares the length `compute_order` compares. If it
  passes, the order itself shows rule 4: its k-th name is reached in k rounds
  (`OrdersReach`). `EdgesAreDeclared` gives each agent's edges from its
  declaration, so that only an outsider can fail rule 3 without a cycle.
* `PredecessorSuffices`: strategy "full" means that nobody declared anything;
  then the edges are a chain and the order is the declaration order
  (`ChainsStay`, from `ChainsAreOrdered`).

### SyncManager, Granularity

* `TypeCorrect` and `EventsMatch` of SyncManager, by `SyncInv`. Neither is
  inductive alone: that `evict` pops an event its waiter can keep needs
  `EventsMatchStore`, which in turn needs that stubs exist only for keys of the
  synchronous interface with a backend (`StubsAreMirrored`) and that a reader
  that does not wait holds no event (`NoIdleWait`).
* `EvictionHolds`, by `WorkInv`: a pending mirror or delete is of its owner's
  keys (`WorkIsOwned`), and a put that is not mirrored yet has taken its key
  out of `gone` (`PutsAreBack`).
* `ErrorsHold`: an action property from `SyncInv`.
* `SustainedSignalIsActedOn` and `ActionsAreSustained` of Granularity, by
  `HysteresisInv`: the streak of a direction is how long it has been held, or
  how long since the last action, whichever is less (`StreakCounts`); it stays
  below what `_required_streak` asks (`StreaksRequired`); a direction other
  than that of the last action has been held only since (`TurnsAreRecent`); and
  a controller without data has not acted (`ActsOnData`). What the signals are
  computed from does not matter, so the theorems hold for every telemetry.

### Model-checked only

Every safety property that a run checks is stated by a theorem, except where a
theorem above is narrower than the property:

* `SinksSpeak` and `InputsAsDeclared` of nested hierarchies: a compound below
  the root is ordered, and its strategy chosen, by the same code, but its
  outputs reach the result through its parent's frames, and the invariant that
  says what each frame has gathered from the frames above it is not written;
* `InputsAsDeclared` of a flat hierarchy built by hand whose strategy does not
  fit its edges;
* the properties with a hypothesis (`SwitchPassedGate`, `VettedModelRuns`,
  `EscalatesOnFailures`, `ResultsOfThisTask`, `WrittenIsReplayed`,
  `ChainedInput`) are true under it only, and the runs that check them choose
  their constants so.

Liveness under fairness (`RunEnds`, `WaitersWake`, `CallsEnd`) and ENABLED are
outside what TLAPS proves. No module declares a RECURSIVE operator.

## 5. What is not modelled

* The store behind PipelineState, two processes on one group or one `task_id`,
  and two concurrent runs of one pipeline: the post-run step reads the live
  state between its locked sections, and a faithful model has a step per access.
* `get_auto_min_output_words`, prompt options, wording, cache-aligned layout and
  token counts: they change the text of a prompt, not the control.
* Observe mode beyond `apply_switch = False`.
* The controller step inside the executors is one step that completes or
  raises; GroupController is its detail. The capsule executor inside them is
  `RunGroup`; CapsuleExecutor is its detail.
* Two executors on one router; time, so that a tool that is late is one that
  raises; keys of the sync manager with two owners.
* The composition rules that compare strings or budgets of one record (1, 5, 6),
  the tool registry and the mock adapter: dictionaries.
* Evaluators, Pareto arithmetic, result assembly: inputs or pure functions.

## 6. Plan

The modules planned are written, and their safety properties proved as section
4 says. Left to prove: the nested half of `SinksSpeak` and `InputsAsDeclared`,
with an invariant that relates each frame of `stack` to the one below it.

To model, if it is wanted: the shared controller state with a step per access,
and a store with two processes.
