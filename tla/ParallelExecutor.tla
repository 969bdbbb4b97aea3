-------------------------- MODULE ParallelExecutor --------------------------
(***************************************************************************)
(* _ParallelPipelineCompiler.execute over a group-level checkpoint: the    *)
(* orchestrator walks the topological levels of the group graph, replays   *)
(* the groups the checkpoint has, expands fan-out groups, hands the rest   *)
(* of a level to a thread pool and collects them as they complete; each    *)
(* worker runs its group, saves it, and runs the controller step.          *)
(*                                                                         *)
(* A client runs one task_id: it retries it while the run raises or the    *)
(* process crashes, and uses it for its next task once a run has returned. *)
(* A group's output is the number of the task that was being run.          *)
(*                                                                         *)
(* The controller step is GroupController's; here it completes or raises.  *)
(***************************************************************************)
EXTENDS Sequences, FiniteSets, Functions, Lists, PipelineCheckpoint

CONSTANTS
    Declared,          \* the groups in declaration order
    DeclaredDeps,      \* group -> its depends_on, or None
    FanoutSource,      \* fan-out group -> the group of its source agent; else None
    Skipped,           \* the result of a fan-out group with no items
    MaxWorkers,        \* size of the thread pool
    SharedCheckpoint,  \* run(checkpoint=obj) rather than run(checkpoint_path=...)
    ReadsMayFail,      \* OSError on reading the task file
    WritesMayFail,     \* OSError on opening or on writing it
    UnlinksMayFail,    \* OSError on removing it
    MaxTasks, MaxFailures, MaxCrashes   \* bounds of the client and its luck

\* Pipeline.group and Pipeline.fanout_group reject anything else; that group
\* names are distinct they leave to the client, and so, for a fan-out group,
\* that its source is among the groups it waits for.
ASSUME PipelineAssumption ==
    /\ IsFiniteSet(Groups) /\ Groups # {}
    /\ Declared \in [1..Cardinality(Groups) -> Groups]
    /\ \A g \in Groups : \E i \in DOMAIN Declared : Declared[i] = g
    /\ DeclaredDeps \in [Groups -> (SUBSET Groups) \cup {None}]
    /\ \A i \in DOMAIN Declared :
           DeclaredDeps[Declared[i]] \in (SUBSET {Declared[j] : j \in 1..(i - 1)}) \cup {None}
    /\ FanoutSource \in [Groups -> Groups \cup {None}]
    /\ \A i \in DOMAIN Declared : LET source == FanoutSource[Declared[i]]
                                IN  source # None =>
                                      /\ FanoutSource[source] = None
                                      /\ \E j \in 1..(i - 1) : Declared[j] = source
    /\ MaxWorkers \in Nat \ {0}
    /\ SharedCheckpoint \in BOOLEAN
    /\ ReadsMayFail \in BOOLEAN /\ WritesMayFail \in BOOLEAN /\ UnlinksMayFail \in BOOLEAN
    /\ MaxTasks \in Nat \ {0} /\ MaxFailures \in Nat /\ MaxCrashes \in Nat
    /\ Skipped \notin Nat \cup {None}

VARIABLES
    pc,        \* the orchestrator: "idle", "scan", "collect", "drain", "finish"
               \* or "assemble"
    last,      \* how the previous run ended: "none", "returned", "raised", "crashed"
    task,      \* the number of the task
    lvl,       \* the level being run
    todo,      \* its groups whose checkpoint is still to be looked up
    pend,      \* its groups to dispatch (dispatch_level)
    queue,     \* submitted futures no worker has taken
    work,      \* group -> where its future is
    seen,      \* group -> the dependencies whose output is in its task input
    results,   \* group_results: group -> the task of its output, Skipped or None
    ckpt,      \* the checkpoint
    written,   \* history: groups of this task whose record reached the disk,
               \* and was not cleared since
    torn,      \* history: a write of this task was cut off
    failures,  \* calls that raised so far
    crashes    \* crashes so far

level  == <<lvl, todo, pend>>
luck   == <<failures, crashes>>
vars   == <<pc, last, task, level, queue, work, seen, results, ckpt, written, torn, luck>>

-----------------------------------------------------------------------------
\* _build_group_deps: with no depends_on a group follows the one before it.
GroupDeps ==
    [g \in Groups |->
        IF DeclaredDeps[g] # None THEN DeclaredDeps[g]
        ELSE {Declared[i] : i \in {j \in 1..(Len(Declared) - 1) : Declared[j + 1] = g}}]

\* _topological_levels: the groups, in declaration order, none of whose
\* dependencies remains once the groups `emitted` are removed.
MutReadyGroups(emitted) ==
    Keep(Declared, {g \in Groups : /\ g \notin emitted
                                   /\ GroupDeps[g] = {} \/ GroupDeps[g] \cap emitted # {}})

ReadyGroups(emitted) ==
    Keep(Declared, {g \in Groups : g \notin emitted /\ GroupDeps[g] \subseteq emitted})

Emitted(levels) == UNION {Range(levels[i]) : i \in DOMAIN levels}

AddLevel(levels) ==
    LET ready == ReadyGroups(Emitted(levels))
    IN  IF ready = <<>> THEN levels ELSE Append(levels, ready)

LevelsUpTo[n \in 0..Cardinality(Groups)] ==
    IF n = 0 THEN <<>> ELSE AddLevel(LevelsUpTo[n - 1])

Levels == LevelsUpTo[Cardinality(Groups)]

HasOutput(g) == results[g] \notin {None, Skipped}

\* _build_group_task
TaskInputs(g) == {d \in GroupDeps[g] : HasOutput(d)}

Outcomes(mayFail) == IF mayFail THEN BOOLEAN ELSE {TRUE}

-----------------------------------------------------------------------------
Init ==
    /\ pc = "idle"
    /\ last = "none"
    /\ task = 1
    /\ lvl = 0 /\ todo = <<>> /\ pend = <<>>
    /\ queue = <<>>
    /\ work = [g \in Groups |-> "none"]
    /\ seen = [g \in Groups |-> {}]
    /\ results = NoRecords
    /\ ckpt = [cache |-> NoRecords, file |-> Missing]
    /\ written = {} /\ torn = FALSE
    /\ failures = 0 /\ crashes = 0

\* Pipeline.run: a retry, or the next task under the same task_id.
StartRun ==
    /\ pc = "idle"
    /\ IF last = "returned"
       THEN task < MaxTasks /\ task' = task + 1 /\ torn' = FALSE
       ELSE UNCHANGED <<task, torn>>
    /\ ckpt' = IF SharedCheckpoint THEN ckpt ELSE NewCheckpoint(ckpt)
    /\ pc' = "scan"
    /\ lvl' = 1 /\ todo' = Levels[1] /\ pend' = <<>>
    /\ queue' = <<>>
    /\ work' = [g \in Groups |-> "none"]
    /\ seen' = [g \in Groups |-> {}]
    /\ results' = NoRecords
    /\ UNCHANGED <<last, written, luck>>

\* _load_group_checkpoint on the next group of the level.
LoadNext(readable) ==
    /\ pc = "scan" /\ todo # <<>>
    /\ LET g == Head(todo)
       IN  /\ ckpt' = LoadGroup(ckpt, g, readable)
           /\ results' = [results EXCEPT ![g] = ckpt'.cache[g]]
           /\ pend' = IF ckpt'.cache[g] = None THEN Append(pend, g) ELSE pend
    /\ todo' = Tail(todo)
    /\ UNCHANGED <<pc, last, task, lvl, queue, work, seen, written, torn, luck>>

\* The next level, or the end of the pipeline.
MutLevelKeepsPend(n) ==
    IF n <= Len(Levels)
    THEN pc' = "scan" /\ lvl' = n /\ todo' = Levels[n] /\ pend' = pend
    ELSE pc' = "finish" /\ UNCHANGED level

EnterLevel(n) ==
    IF n <= Len(Levels)
    THEN pc' = "scan" /\ lvl' = n /\ todo' = Levels[n] /\ pend' = <<>>
    ELSE pc' = "finish" /\ UNCHANGED level

FanoutsToExpand == {g \in Range(pend) : FanoutSource[g] # None}

\* The fan-out groups are expanded, those in `empty` to no items, and the
\* rest of the level is submitted in declaration order.
Dispatch(empty) ==
    /\ pc = "scan" /\ todo = <<>>
    /\ \A g \in FanoutsToExpand : HasOutput(FanoutSource[g])
    /\ results' = [g \in Groups |-> IF g \in empty THEN Skipped ELSE results[g]]
    /\ LET runnable == Keep(pend, Groups \ empty)
           sent     == Range(runnable)
       IN  IF runnable = <<>>
           THEN EnterLevel(lvl + 1) /\ UNCHANGED <<queue, work, seen>>
           ELSE /\ pc' = "collect"
                /\ queue' = runnable
                /\ work' = [g \in Groups |-> IF g \in sent THEN "queued" ELSE work[g]]
                /\ seen' = [g \in Groups |-> IF g \in sent THEN TaskInputs(g) ELSE seen[g]]
                /\ UNCHANGED level
    /\ UNCHANGED <<last, task, ckpt, written, torn, luck>>

\* _expand_fanout_group raises: its source has no output, or the extractor
\* raised.
ExpansionFails(g) ==
    /\ pc = "scan" /\ todo = <<>>
    /\ g \in FanoutsToExpand
    /\ HasOutput(FanoutSource[g]) => failures < MaxFailures
    /\ failures' = IF failures < MaxFailures THEN failures + 1 ELSE failures
    /\ pc' = "idle"
    /\ last' = "raised"
    /\ UNCHANGED <<task, level, queue, work, seen, results, ckpt, written, torn, crashes>>

-----------------------------------------------------------------------------
\* _run_and_record_group, on a worker thread.

AtWork  == {g \in Groups : work[g] \in {"running", "ran", "writing", "saved"}}
Writing == {g \in Groups : work[g] = "writing"}

Settle(g, state) == work' = [work EXCEPT ![g] = state]

TakeNext ==
    /\ queue # <<>>
    /\ Cardinality(AtWork) < MaxWorkers
    /\ Settle(Head(queue), "running")
    /\ queue' = Tail(queue)
    /\ UNCHANGED <<pc, last, task, level, seen, results, ckpt, written, torn, luck>>

RunGroup(g) ==
    /\ work[g] = "running"
    /\ Settle(g, "ran")
    /\ UNCHANGED <<pc, last, task, level, queue, seen, results, ckpt, written, torn, luck>>

\* save_group: the lock is taken, the record cached, the file opened.
SaveGroup(g, opened) ==
    /\ work[g] = "ran"
    /\ Writing = {}
    /\ LET cached == CacheGroup(ckpt, g, task)
       IN  ckpt' = IF HasPath /\ opened THEN OpenTaskFile(cached) ELSE cached
    /\ Settle(g, IF HasPath /\ opened THEN "writing" ELSE "saved")
    /\ UNCHANGED <<pc, last, task, level, queue, seen, results, written, torn, luck>>

\* ... written, and the lock released; an OSError is logged and swallowed.
WriteEnds(g, complete) ==
    /\ work[g] = "writing"
    /\ IF complete
       THEN /\ ckpt' = WriteTaskFile(ckpt)
            /\ written' = written \cup {h \in Groups : ckpt.cache[h] # None}
            /\ UNCHANGED torn
       ELSE torn' = TRUE /\ UNCHANGED <<ckpt, written>>
    /\ Settle(g, "saved")
    /\ UNCHANGED <<pc, last, task, level, queue, seen, results, luck>>

ControllerStep(g) ==
    /\ work[g] = "saved"
    /\ Settle(g, "ok")
    /\ UNCHANGED <<pc, last, task, level, queue, seen, results, ckpt, written, torn, luck>>

\* The group's run or its controller step raises; the future holds it.
WorkerFails(g) ==
    /\ work[g] \in {"running", "saved"}
    /\ failures < MaxFailures
    /\ failures' = failures + 1
    /\ Settle(g, "failed")
    /\ UNCHANGED <<pc, last, task, level, queue, seen, results, ckpt, written, torn, crashes>>

-----------------------------------------------------------------------------
\* The as_completed loop, and the end of the pool's with block.

Collect(g) ==
    /\ pc = "collect"
    /\ work[g] = "ok" /\ results[g] = None
    /\ results' = [results EXCEPT ![g] = task]
    /\ UNCHANGED <<pc, last, task, level, queue, work, seen, ckpt, written, torn, luck>>

MutAwaitsReplayed ==
    /\ pc = "collect"
    /\ \A g \in Range(Levels[lvl]) : results[g] # None /\ work[g] = "ok"
    /\ EnterLevel(lvl + 1)
    /\ UNCHANGED <<last, task, queue, work, seen, results, ckpt, written, torn, luck>>

LevelDone ==
    /\ pc = "collect"
    /\ \A g \in Range(Levels[lvl]) : results[g] # None
    /\ EnterLevel(lvl + 1)
    /\ UNCHANGED <<last, task, queue, work, seen, results, ckpt, written, torn, luck>>

\* future.result() raises: leaving the with block waits for every future of
\* the level, the queued ones too, and only then does the run raise.
CollectFailure(g) ==
    /\ pc = "collect"
    /\ work[g] = "failed"
    /\ pc' = "drain"
    /\ UNCHANGED <<last, task, level, queue, work, seen, results, ckpt, written, torn, luck>>

MutRaiseAtOnce ==
    /\ pc = "drain"
    /\ pc' = "idle"
    /\ last' = "raised"
    /\ UNCHANGED <<task, level, queue, work, seen, results, ckpt, written, torn, luck>>

Drained ==
    /\ pc = "drain"
    /\ queue = <<>> /\ AtWork = {}
    /\ pc' = "idle"
    /\ last' = "raised"
    /\ UNCHANGED <<task, level, queue, work, seen, results, ckpt, written, torn, luck>>

\* The whole pipeline succeeded: the checkpoint is dropped, then the result
\* assembled.
Finish(unlinked) ==
    /\ pc = "finish"
    /\ ckpt' = Clear(ckpt, unlinked)
    /\ written' = {}
    /\ pc' = "assemble"
    /\ UNCHANGED <<last, task, level, queue, work, seen, results, torn, luck>>

Return ==
    /\ pc = "assemble"
    /\ pc' = "idle"
    /\ last' = "returned"
    /\ UNCHANGED <<task, level, queue, work, seen, results, ckpt, written, torn, luck>>

\* The process dies at any point of a run; the file is what is left of it.
Crash ==
    /\ pc # "idle"
    /\ crashes < MaxCrashes
    /\ crashes' = crashes + 1
    /\ pc' = "idle"
    /\ last' = "crashed"
    /\ queue' = <<>>
    /\ work' = [g \in Groups |-> "none"]
    /\ ckpt' = NewCheckpoint(ckpt)
    /\ torn' = (torn \/ Writing # {})
    /\ UNCHANGED <<task, level, seen, results, written, failures>>

Worker(g) ==
    \/ RunGroup(g)
    \/ \E opened \in Outcomes(WritesMayFail) : SaveGroup(g, opened)
    \/ \E complete \in Outcomes(WritesMayFail) : WriteEnds(g, complete)
    \/ ControllerStep(g)

Orchestrator ==
    \/ \E readable \in Outcomes(ReadsMayFail) : LoadNext(readable)
    \/ \E empty \in SUBSET FanoutsToExpand : Dispatch(empty)
    \/ \E g \in Groups : ExpansionFails(g)
    \/ \E g \in Groups : Collect(g)
    \/ LevelDone
    \/ \E g \in Groups : CollectFailure(g)
    \/ Drained
    \/ \E unlinked \in Outcomes(UnlinksMayFail) : Finish(unlinked)
    \/ Return

Next ==
    \/ StartRun
    \/ Orchestrator
    \/ TakeNext
    \/ \E g \in Groups : Worker(g) \/ WorkerFails(g)
    \/ Crash

Spec == Init /\ [][Next]_vars

\* The orchestrator's thread and the pool's threads are scheduled.  Nothing
\* is assumed of the client, of failures or of crashes.
Fairness ==
    /\ WF_vars(Orchestrator)
    /\ WF_vars(TakeNext)
    /\ \A g \in Groups : WF_vars(Worker(g))

FairSpec == Spec /\ Fairness
-----------------------------------------------------------------------------
(* Type correctness; the loop's group lists are those of the current level. *)
TypeOK ==
    /\ pc \in {"idle", "scan", "collect", "drain", "finish", "assemble"}
    /\ last \in {"none", "returned", "raised", "crashed"}
    /\ task \in 1..MaxTasks
    /\ lvl \in 0..Len(Levels)
    /\ todo \in Seq(Groups) /\ pend \in Seq(Groups) /\ queue \in Seq(Groups)
    /\ \A g \in Range(todo) \cup Range(pend) : g \in Range(Levels[lvl])
    /\ work \in [Groups -> {"none", "queued", "running", "ran", "writing", "saved",
                            "ok", "failed"}]
    /\ seen \in [Groups -> SUBSET Groups]
    /\ results \in [Groups -> Nat \cup {None, Skipped}]
    /\ ckpt \in Checkpoint
    /\ written \subseteq Groups /\ torn \in BOOLEAN
    /\ failures \in 0..MaxFailures /\ crashes \in 0..MaxCrashes

(* parallel_compiler.py, "DAG-aware task chaining": a group is handed to    *)
(* the pool only when each of its dependencies has run, been replayed or    *)
(* been skipped, and its task input holds the output of every one of them   *)
(* that has an output.                                                      *)
InputsReady ==
    \A g \in Groups : pc # "idle" /\ work[g] # "none" =>
        /\ \A d \in GroupDeps[g] : results[d] # None
        /\ seen[g] = TaskInputs(g)

(* _run_and_record_group, "each group runs exactly once per pipeline        *)
(* execution": no worker outlives its run, so a retry never runs a group    *)
(* that a worker of the failed run is still running.                        *)
QuietBetweenRuns == pc = "idle" => queue = <<>> /\ AtWork = {}

(* compiler.py, "drop the checkpoint so the next run with the same task_id  *)
(* starts fresh": every output of a run belongs to the task it was given.   *)
ResultsOfThisTask == \A g \in Groups : results[g] \in {None, Skipped, task}

(* builder.py, checkpoint_path: a group whose record reached the disk is    *)
(* not dispatched again for its task, through any number of failed runs and *)
(* crashes, unless a write was cut off.                                     *)
Redispatched(g) == work[g] = "none" /\ work'[g] = "queued" /\ g \in written

WrittenIsReplayed == [][\A g \in Groups : Redispatched(g) => torn]_vars

(* Every run of the pipeline ends: it returns or raises (or the process     *)
(* dies), whatever its groups, its writes and its expansions do.            *)
RunEnds == pc # "idle" ~> pc = "idle"

\* The refinement: a group is done for the orchestrator when it has a result,
\* running while its future is open, and a run that ended otherwise than by
\* returning has done nothing.
Ended == pc = "idle" /\ last # "returned"

Dag == INSTANCE DagExecution WITH
    DependsOn <- GroupDeps,
    status    <- [g \in Groups |->
                     IF Ended THEN "waiting"
                     ELSE IF results[g] # None THEN "done"
                     ELSE IF work[g] # "none" THEN "running" ELSE "waiting"],
    verdict   <- IF pc # "idle" THEN "open"
                 ELSE IF last = "returned" THEN "returned" ELSE "given up"

(* The executor implements DagExecution, whichever groups are replayed,     *)
(* skipped or dispatched, in whatever order their futures complete.         *)
ImplementsDag == Dag!Spec
=============================================================================
