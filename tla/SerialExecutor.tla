--------------------------- MODULE SerialExecutor ---------------------------
(***************************************************************************)
(* _PipelineCompiler.execute over a group-level checkpoint: the groups in  *)
(* declaration order, each replayed from the checkpoint, skipped (a        *)
(* fan-out group without items), or run, saved and given its controller    *)
(* step.  A group's task input is the pipeline's task and the final output *)
(* of the last group before it that had one.                               *)
(*                                                                         *)
(* The client retries a task_id and reuses it as in ParallelExecutor.  A   *)
(* group's record holds the task it was produced for and whether its final *)
(* output is non-empty: Record(t, spoke).  The controller step is          *)
(* GroupController's; here it completes or raises.                         *)
(***************************************************************************)
EXTENDS Sequences, FiniteSets, FiniteSetsExt, Functions, PipelineCheckpoint

CONSTANTS
    Declared,          \* the groups in declaration order
    FanoutSource,      \* fan-out group -> the group of its source agent; else None
    Skipped,           \* the result of a fan-out group with no items
    SharedCheckpoint,  \* run(checkpoint=obj) rather than run(checkpoint_path=...)
    ReadsMayFail, WritesMayFail, UnlinksMayFail,   \* OSErrors of the task file
    MaxTasks, MaxFailures, MaxCrashes              \* bounds of the client and its luck

\* The builder sees to it (PipelineBuilder), that names are distinct the client.
ASSUME SerialAssumption ==
    /\ Declared \in Seq(Groups) /\ IsInjective(Declared) /\ Range(Declared) = Groups
    /\ FanoutSource \in [Groups -> Groups \cup {None}]
    /\ \A i \in DOMAIN Declared : LET source == FanoutSource[Declared[i]]
                                IN  source # None => /\ \E j \in 1..(i - 1) : Declared[j] = source
                                                     /\ FanoutSource[source] = None
    /\ {SharedCheckpoint, ReadsMayFail, WritesMayFail, UnlinksMayFail} \subseteq BOOLEAN
    /\ MaxTasks \in Nat \ {0} /\ MaxFailures \in Nat /\ MaxCrashes \in Nat
    /\ Skipped \notin Nat \cup {None}

VARIABLES
    pc,        \* "idle", "load", "expand", "run", "save", "writing", "control"
               \* or "assemble"
    last,      \* how the previous run ended: "none", "returned", "raised", "crashed"
    task,      \* the number of the task
    next,      \* the index of the group the loop is at
    chain,     \* whose final output current_task carries: [from, record], or None
    fed,       \* group -> chain as it was when the group was run, or Skipped
    results,   \* group -> its record, Skipped or None
    output,    \* the record whose final output the last run returned, or None
    ckpt,      \* the checkpoint
    failures,  \* calls that raised so far
    crashes    \* crashes so far

vars == <<pc, last, task, next, chain, fed, results, output, ckpt, failures, crashes>>

Record(t, spoke) == IF spoke THEN 2 * t + 1 ELSE 2 * t
Speaks(r)        == r \in Nat /\ r % 2 = 1
TaskOf(r)        == r \div 2

Here == Declared[next]

HasOutput(g)      == results[g] \notin {None, Skipped}
Outcomes(mayFail) == IF mayFail THEN BOOLEAN ELSE {TRUE}

Init ==
    /\ pc = "idle" /\ last = "none"
    /\ task = 1 /\ next = 1
    /\ chain = None
    /\ fed = [g \in Groups |-> Skipped]
    /\ results = NoRecords
    /\ output = None
    /\ ckpt = [cache |-> NoRecords, file |-> Missing]
    /\ failures = 0 /\ crashes = 0

\* Pipeline.run: a retry, or the next task under the same task_id.
StartRun ==
    /\ pc = "idle"
    /\ IF last = "returned" THEN task < MaxTasks /\ task' = task + 1 ELSE UNCHANGED task
    /\ ckpt' = IF SharedCheckpoint THEN ckpt ELSE NewCheckpoint(ckpt)
    /\ pc' = "load" /\ next' = 1
    /\ chain' = None
    /\ fed' = [g \in Groups |-> Skipped]
    /\ results' = NoRecords
    /\ output' = None
    /\ UNCHANGED <<last, failures, crashes>>

-----------------------------------------------------------------------------
(* One group *)

\* current_task after group g: an empty final output leaves it alone.
MutChained(g, record) == [from |-> g, record |-> record]

Chained(g, record) ==
    IF Speaks(record) THEN [from |-> g, record |-> record] ELSE chain

\* _load_group_checkpoint: a saved group is replayed.
Load(readable) ==
    /\ pc = "load" /\ next <= Len(Declared)
    /\ ckpt' = LoadGroup(ckpt, Here, readable)
    /\ LET saved == ckpt'.cache[Here]
       IN  IF saved # None
           THEN /\ results' = [results EXCEPT ![Here] = saved]
                /\ chain' = Chained(Here, saved)
                /\ next' = next + 1
                /\ UNCHANGED pc
           ELSE /\ pc' = IF FanoutSource[Here] = None THEN "run" ELSE "expand"
                /\ UNCHANGED <<results, chain, next>>
    /\ UNCHANGED <<last, task, fed, output, failures, crashes>>

\* _expand_fanout_group: without items the group is skipped.
MutExpand(empty) ==
    /\ pc = "expand" /\ HasOutput(FanoutSource[Here])
    /\ IF empty
       THEN /\ results' = [results EXCEPT ![Here] = Skipped]
            /\ next' = Len(Declared) + 1
            /\ pc' = "load"
       ELSE pc' = "run" /\ UNCHANGED <<results, next>>
    /\ UNCHANGED <<last, task, chain, fed, output, ckpt, failures, crashes>>

Expand(empty) ==
    /\ pc = "expand" /\ HasOutput(FanoutSource[Here])
    /\ IF empty
       THEN /\ results' = [results EXCEPT ![Here] = Skipped]
            /\ next' = next + 1
            /\ pc' = "load"
       ELSE pc' = "run" /\ UNCHANGED <<results, next>>
    /\ UNCHANGED <<last, task, chain, fed, output, ckpt, failures, crashes>>

\* _run_group, with the task as it has been chained; the next task is chained
\* before the group is saved.
RunGroup(spoke) ==
    /\ pc = "run"
    /\ LET record == Record(task, spoke)
       IN  /\ results' = [results EXCEPT ![Here] = record]
           /\ chain' = Chained(Here, record)
    /\ fed' = [fed EXCEPT ![Here] = chain]
    /\ pc' = "save"
    /\ UNCHANGED <<last, task, next, output, ckpt, failures, crashes>>

\* _save_group_checkpoint: an OSError of the file is logged and swallowed.
Save(opened) ==
    /\ pc = "save"
    /\ LET cached == CacheGroup(ckpt, Here, results[Here])
       IN  ckpt' = IF HasPath /\ opened THEN OpenTaskFile(cached) ELSE cached
    /\ pc' = IF HasPath /\ opened THEN "writing" ELSE "control"
    /\ UNCHANGED <<last, task, next, chain, fed, results, output, failures, crashes>>

WriteEnds(complete) ==
    /\ pc = "writing"
    /\ ckpt' = IF complete THEN WriteTaskFile(ckpt) ELSE ckpt
    /\ pc' = "control"
    /\ UNCHANGED <<last, task, next, chain, fed, results, output, failures, crashes>>

ControllerStep ==
    /\ pc = "control"
    /\ pc' = "load" /\ next' = next + 1
    /\ UNCHANGED <<last, task, chain, fed, results, output, ckpt, failures, crashes>>

-----------------------------------------------------------------------------
(* The end of a run *)

\* Expansion, the group or its controller step raises.  That the source agent
\* has no output, the other reason to raise, is excluded by SerialAssumption.
Fails ==
    /\ pc \in {"expand", "run", "control"}
    /\ failures < MaxFailures /\ failures' = failures + 1
    /\ pc' = "idle" /\ last' = "raised"
    /\ UNCHANGED <<task, next, chain, fed, results, output, ckpt, crashes>>

\* The checkpoint is dropped, then the result assembled.
Finish(unlinked) ==
    /\ pc = "load" /\ next > Len(Declared)
    /\ ckpt' = Clear(ckpt, unlinked)
    /\ pc' = "assemble"
    /\ UNCHANGED <<last, task, next, chain, fed, results, output, failures, crashes>>

\* last_group_result: that of the last group not skipped.
Answering == {i \in DOMAIN Declared : HasOutput(Declared[i])}

Return ==
    /\ pc = "assemble"
    /\ pc' = "idle" /\ last' = "returned"
    /\ output' = IF Answering = {} THEN None ELSE results[Declared[Max(Answering)]]
    /\ UNCHANGED <<task, next, chain, fed, results, ckpt, failures, crashes>>

\* The process dies; the file is what is left.
Crash ==
    /\ pc # "idle"
    /\ crashes < MaxCrashes /\ crashes' = crashes + 1
    /\ pc' = "idle" /\ last' = "crashed"
    /\ ckpt' = NewCheckpoint(ckpt)
    /\ UNCHANGED <<task, next, chain, fed, results, output, failures>>

Next ==
    \/ StartRun
    \/ \E readable \in Outcomes(ReadsMayFail) : Load(readable)
    \/ \E empty \in BOOLEAN : Expand(empty)
    \/ \E spoke \in BOOLEAN : RunGroup(spoke)
    \/ \E opened \in Outcomes(WritesMayFail) : Save(opened)
    \/ \E complete \in Outcomes(WritesMayFail) : WriteEnds(complete)
    \/ ControllerStep
    \/ Fails
    \/ \E unlinked \in Outcomes(UnlinksMayFail) : Finish(unlinked)
    \/ Return
    \/ Crash

Spec == Init /\ [][Next]_vars
-----------------------------------------------------------------------------
(* compiler.py, "pass prior group outputs into subsequent groups via task   *)
(* augmentation": the task input of a group that is run holds the final     *)
(* output of the last group before it that has one, whether that group was  *)
(* run, or replayed after a failure or a crash, and of no other group; and  *)
(* every record of a run, and the one it returns, is of the run's task.     *)
ChainedInput ==
    /\ \A i \in DOMAIN Declared :
        LET spoken == {j \in 1..(i - 1) : Speaks(results[Declared[j]])}
            before == Declared[Max(spoken)]
        IN  fed[Declared[i]] # Skipped =>
                fed[Declared[i]] = IF spoken = {} THEN None
                                   ELSE [from |-> before, record |-> results[before]]
    /\ \A r \in Range(results) \cup {output} : r \in {None, Skipped} \/ TaskOf(r) = task

(* Every group waits for all groups declared before it.                     *)
Earlier == [g \in Groups |-> {h \in Groups : \E i, j \in DOMAIN Declared :
                                  i < j /\ Declared[i] = h /\ Declared[j] = g}]

Ended == pc = "idle" /\ last # "returned"

Dag == INSTANCE DagExecution WITH
    DependsOn <- Earlier,
    status    <- [g \in Groups |->
                     IF Ended THEN "waiting"
                     ELSE IF results[g] # None THEN "done"
                     ELSE IF pc = "run" /\ Here = g THEN "running" ELSE "waiting"],
    verdict   <- IF pc # "idle" THEN "open"
                 ELSE IF last = "returned" THEN "returned" ELSE "given up"

(* The serial executor keeps the promise ParallelExecutor keeps, with every *)
(* earlier group as a dependency: depends_on can only name earlier groups.  *)
ImplementsDag == Dag!Spec
=============================================================================
