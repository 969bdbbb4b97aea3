--------------------------- MODULE CapsuleExecutor ---------------------------
(***************************************************************************)
(* CapsuleExecutor.run over one hierarchy: FINE (a call per leaf, with the *)
(* leaf checkpoint), COMPOUND (one merged call, a gathering call per agent *)
(* with tools before it, a call per agent, or child by child where         *)
(* compounds are nested) and ITERATION (a call per batch of items).        *)
(*                                                                         *)
(* A client makes runs on one executor, at the settings its hierarchy is   *)
(* used with.  It retries a task while runs raise or the process crashes,  *)
(* and clears the checkpoint of a task that has returned before it goes on *)
(* to its next one under the same task_id.  What an LLM writes for task t  *)
(* is in sections marked t.                                                *)
(***************************************************************************)
EXTENDS Prompts, ToolChain

CONSTANTS
    Trees,         \* the hierarchies; see CapsuleGraph.  A tree also has
                   \*   tools     agents with tools the registry knows
                   \*   chain     tool leaf -> the steps of its capsule
                   \*   cond      agent -> its skip_condition, or None
                   \*   settings  the run settings its caller uses
                   \*   items     its tag space, a sequence
    BatchSize,     \* items per call of an iteration
    ItemKeys,      \* its output keys: ITEM_1_OUTPUT, ITEM_2_OUTPUT, ...
    HasPath,       \* CheckpointStore(path=...)
    Missing, Corrupt,   \* no task file; a file json.loads rejects
    MaxRuns, MaxTasks, MaxFailures, MaxCrashes   \* the client and its luck

ASSUME ExecutorAssumption ==
    /\ BatchSize \in Nat \ {0} /\ Len(ItemKeys) >= BatchSize
    /\ MaxTasks # 0
    /\ HasPath \in BOOLEAN
    /\ {MaxRuns, MaxTasks, MaxFailures, MaxCrashes} \subseteq Nat

\* The hierarchies are trees whose nodes have one parent and one name, each
\* compound has an order (validate_hierarchy, rules 2 to 4), and FINE is for
\* roots with leaves of their own, whose tool leaves have their capsule.  A
\* text is not None.
ASSUME TreesAssumption ==
    \A t \in Trees :
        /\ t.root \in Compounds(t)
        /\ \A n \in DOMAIN t.kind : t.kind[n] \in {"agent", "tool", "compound"}
        /\ \A c \in Compounds(t) : /\ t.children[c] \in Seq(DOMAIN t.kind \ {t.root})
                                  /\ IsInjective(t.children[c])
                                  /\ ComputeOrder(t, c) # None
        /\ \A n \in DOMAIN t.kind \ {t.root} :
               \E c \in Compounds(t) : n \in ToSet(t.children[c])
        /\ DOMAIN t.kind \ Compounds(t) \subseteq ToSet(Leaves(t))
        /\ (\E s \in t.settings : s.level = "FINE") =>
               /\ ~(ToSet(t.children[t.root]) \subseteq Compounds(t))
               /\ \A n \in DOMAIN t.kind : t.kind[n] = "tool" => n \in DOMAIN t.chain
        /\ \A n \in DOMAIN t.chain : t.chain[n] \in Seq(ToSet(t.chain[n]))
        /\ t.items \in Seq(ToSet(t.items))
        /\ \A text \in SUBSET (ToSet(t.items) \X (1..MaxTasks)) : text # None

VARIABLES
    tree,     \* the hierarchy
    order,    \* compound -> its serialization_order, or None
    state,    \* agent -> its CapsuleState
    stack,    \* the active _run_* calls, innermost last
    set,      \* the settings of the run: [level, model, context, saves]
    task,     \* the task being run
    result,   \* of the last run: its status ("none" before the first, "open"
              \* while it runs) and, when it has returned, its outputs
    memory,   \* CheckpointStore's dict for the task_id: outputs, or None
    file,     \* its task file: outputs, Missing or Corrupt
    sync,     \* the sync manager: leaf or item -> text, or None
    route,    \* the ModelRouter's current_capsule
    call,     \* the last compiled prompt the adapter was given, or None
    tally     \* [runs, failures, crashes] so far

vars == <<tree, order, state, stack, set, task, result, memory, file, sync, route,
          call, tally>>
world == <<tree, task, memory, file>>

Ended(status) == [status |-> status, outputs |-> NoOutputs, final |-> NoText]

Section(n) == {<<n, task>>}
Top        == stack[Len(stack)]
Below      == SubSeq(stack, 1, Len(stack) - 1)
Caller     == stack[Len(stack) - 1]
Running    == stack # <<>>
Item(i)    == tree.items[i]
AgentsOf(s) == {n \in ToSet(s) : tree.kind[n] = "agent"}

Frame(path, node, todo, prior) ==
    [path |-> path, node |-> node, todo |-> todo, prior |-> prior, acc |-> prior,
     gathered |-> {}, inner |-> NoText, step |-> 0, context |-> << >>]

\* The innermost call goes on as `frame`.
Becomes(frame) == stack' = Append(Below, frame)

\* _aggregate_terminal_outputs over a serialization order.
MutAggregated(c, ord, outputs, fallback) ==
    LET leaves == AgentLeaves(ord, tree)
    IN  IF leaves = <<>> THEN fallback ELSE outputs[leaves[Len(leaves)]]

Aggregated(c, ord, outputs, fallback) ==
    LET ends == Terminals(AgentLeaves(ord, tree), tree.edges[c]) \cap DOMAIN outputs
        text == UNION {outputs[n] : n \in ends}
    IN  IF text = NoText THEN fallback ELSE text

OrderOf(c) == IF order[c] = None THEN <<>> ELSE order[c]

-----------------------------------------------------------------------------
(* CheckpointStore *)

MutLoad(mem, f) == mem

Load(mem, f) ==
    IF mem # None THEN mem
    ELSE IF HasPath /\ f \notin {Missing, Corrupt} THEN f ELSE None

Restored == IF Load(memory, file) = None THEN NoOutputs ELSE Load(memory, file)

\* save: the dict always, the file unless it cannot be opened.
Save(outputs) ==
    /\ memory' = outputs
    /\ file' \in IF HasPath THEN {outputs, file} ELSE {file}

\* clear, by the client.  A file that cannot be read or removed, which load
\* and clear pass over, is left to PipelineCheckpoint.
MutClear == memory' = memory /\ file' = IF HasPath THEN Missing ELSE file

Clear == /\ memory' = None
         /\ file' = IF HasPath THEN Missing ELSE file

-----------------------------------------------------------------------------
(* Returning and raising *)

\* A _run_* call returns its outputs and final output to its caller.
Return(outputs, final) ==
    IF Len(stack) = 1
    THEN /\ stack' = <<>>
         /\ result' = [status |-> "returned", outputs |-> outputs, final |-> final]
    ELSE /\ stack' = Append(SubSeq(stack, 1, Len(stack) - 2),
                            [Caller EXCEPT !.acc   = Over(outputs, @),
                                           !.todo  = Tail(@),
                                           !.inner = final])
         /\ UNCHANGED result

\* A CapsuleExecutionError, CompositionError or AttributeError leaves run().
Raise == stack' = <<>> /\ result' = Ended("raised")

Fails == /\ tally.failures < MaxFailures
         /\ tally' = [tally EXCEPT !.failures = @ + 1]

SetState(agents, s) == state' = [a \in DOMAIN state |-> IF a \in agents THEN s ELSE state[a]]

-----------------------------------------------------------------------------
(* The client *)

Init ==
    /\ tree \in {t \in Trees : \A n \in DOMAIN t.chain : Valid(t.chain[n])}
    /\ order = [c \in Compounds(tree) |->
                   IF c \in tree.ordered THEN ComputeOrder(tree, c) ELSE None]
    /\ state = [a \in Agents(tree) |-> "PENDING"]
    /\ stack = <<>> /\ set = None /\ task = 1 /\ result = Ended("none")
    /\ memory = None /\ file = Missing
    /\ sync = [n \in ToSet(Leaves(tree)) \cup ToSet(tree.items) |-> None]
    /\ route = None /\ call = None
    /\ tally = [runs |-> 0, failures |-> 0, crashes |-> 0]

\* run(): FINE sorts the root's own leaves and loads the checkpoint,
\* ITERATION partitions the tag space, COMPOUND enters the root.
Run(s) ==
    /\ ~Running /\ tally.runs < MaxRuns
    /\ tally' = [tally EXCEPT !.runs = @ + 1]
    /\ set' = s /\ result' = Ended("open") /\ call' = None
    /\ \/ /\ s.level = "FINE"
          /\ order' = [order EXCEPT ![tree.root] = ComputeOrder(tree, tree.root)]
          /\ stack' = <<Frame("fine", tree.root, ComputeOrder(tree, tree.root),
                              IF s.saves THEN Restored ELSE NoOutputs)>>
          /\ memory' = IF s.saves THEN Load(memory, file) ELSE memory
       \/ /\ s.level = "COMPOUND"
          /\ stack' = <<Frame("enter", tree.root, <<>>, NoOutputs)>>
          /\ UNCHANGED <<order, memory>>
       \/ /\ s.level = "ITERATION"
          /\ stack' = <<Frame("batches", tree.root,
                              Partition(Len(tree.items), BatchSize), NoOutputs)>>
          /\ UNCHANGED <<order, memory>>
    /\ UNCHANGED <<tree, task, file, state, sync, route>>

\* The client's next task under this task_id, after store.clear(task_id).
NextTask ==
    /\ result.status = "returned" /\ task < MaxTasks
    /\ task' = task + 1 /\ result' = Ended("none")
    /\ Clear
    /\ UNCHANGED <<tree, order, state, stack, set, sync, route, call, tally>>

\* The process dies, perhaps while it was writing the task file; a new one
\* builds the hierarchy, the executor and the store again.
Crash ==
    /\ Running /\ tally.crashes < MaxCrashes
    /\ tally' = [tally EXCEPT !.crashes = @ + 1]
    /\ state' = [a \in DOMAIN state |-> "PENDING"]
    /\ stack' = <<>> /\ result' = Ended("crashed")
    /\ order' = [c \in DOMAIN order |->
                    IF c \in tree.ordered THEN ComputeOrder(tree, c) ELSE None]
    /\ memory' = None
    /\ file' \in {file} \cup IF set.saves /\ HasPath /\ call # None THEN {Corrupt} ELSE {}
    /\ sync' = [n \in DOMAIN sync |-> None]
    /\ route' = None /\ call' = None
    /\ UNCHANGED <<tree, set, task>>

-----------------------------------------------------------------------------
(* Skip conditions: a condition reads one leaf's output and wants it       *)
(* non-empty; a strict one raises KeyError where there is none.            *)

Verdict(a, outputs) ==
    LET cond == tree.cond[a]
    IN  IF cond.reads \notin DOMAIN outputs
        THEN IF cond.strict THEN "raises" ELSE "skip"
        ELSE IF outputs[cond.reads] = NoText THEN "skip" ELSE "run"

\* _g2_compound_short_circuit looks at the serialization order there is, and
\* only if all its agents have a condition.
Conditioned(c) ==
    LET leaves == AgentLeaves(OrderOf(c), tree)
    IN  IF leaves # <<>> /\ \A a \in ToSet(leaves) : tree.cond[a] # None THEN leaves ELSE <<>>

UnanimousSkip(c, prior) ==
    /\ Conditioned(c) # <<>>
    /\ \A a \in ToSet(Conditioned(c)) : Verdict(a, prior) = "skip"

ConditionRaises(c, prior) ==
    \E i \in DOMAIN Conditioned(c) :
        /\ Verdict(Conditioned(c)[i], prior) = "raises"
        /\ \A j \in 1..(i - 1) : Verdict(Conditioned(c)[j], prior) = "skip"

-----------------------------------------------------------------------------
(* Entering a compound: _run_compound *)

Entering == Running /\ Top.path = "enter"

ShortCircuit ==
    /\ Entering /\ UnanimousSkip(Top.node, Top.prior)
    /\ LET skipped == ToSet(Conditioned(Top.node))
           outputs == Over([a \in skipped |-> NoText], Top.prior)
       IN  /\ SetState(skipped, "SKIPPED")
           /\ Return(outputs, Aggregated(Top.node, order[Top.node], outputs, NoText))
    /\ UNCHANGED <<world, order, set, sync, route, call, tally>>

EnterRaises ==
    /\ Entering /\ ConditionRaises(Top.node, Top.prior)
    /\ Raise
    /\ UNCHANGED <<world, order, state, set, sync, route, call, tally>>

Nested(c) == \E n \in ToSet(tree.children[c]) : tree.kind[n] = "compound"

\* Where the call goes: child by child if a child is a compound, else by the
\* execution model over the (now cached) order.  A ToolLeaf has no capsule to
\* merge or call, and raises.
Enter ==
    /\ Entering
    /\ ~UnanimousSkip(Top.node, Top.prior) /\ ~ConditionRaises(Top.node, Top.prior)
    /\ LET c   == Top.node
           ord == IF OrderOf(c) = <<>> THEN ComputeOrder(tree, c) ELSE order[c]
           Go(path, todo) == Becomes(Frame(path, c, todo, Top.prior)) /\ UNCHANGED result
       IN  IF Nested(c)
           THEN Go("mixed", TopoOrderChildren(tree, c)) /\ UNCHANGED order
           ELSE /\ order' = [order EXCEPT ![c] = ord]
                /\ IF AgentsOf(ord) # ToSet(ord) THEN Raise
                   ELSE IF set.model = "sequential" THEN Go("sequential", ord)
                   ELSE Go("merged", IF set.model = "two_phase" THEN Keep(ord, tree.tools)
                                     ELSE <<>>)
    /\ UNCHANGED <<world, state, set, sync, route, call, tally>>

-----------------------------------------------------------------------------
(* One merged call: _run_compound_standard, _run_compound_two_phase *)

Merging == Running /\ Top.path = "merged"

\* Phase A: one call per agent with tools; a failure leaves all states alone.
Gather(ok) ==
    /\ Merging /\ Top.todo # <<>>
    /\ IF ok THEN /\ Becomes([Top EXCEPT !.todo     = Tail(@),
                                         !.gathered = @ \cup {Head(Top.todo)}])
                  /\ UNCHANGED <<result, tally>>
             ELSE Raise /\ Fails
    /\ UNCHANGED <<world, order, state, set, sync, route, call>>

Merged == CompileCompound(order[Top.node], tree.edges[Top.node], Top.prior, Top.gathered)

Given(path, prompt) ==
    [path |-> path, of |-> Top.node, to |-> prompt.to, priors |-> prompt.priors,
     reads |-> prompt.reads, known |-> Top.acc]

\* Rule 6: the merged prompt exceeds the window, and no call is made.
OverBudget ==
    /\ Merging /\ Top.todo = <<>>
    /\ Len(Merged.to) > 1 \/ Top.gathered # {}
    /\ Fails
    /\ Raise
    /\ UNCHANGED <<world, order, state, set, sync, route, call>>

MergedFails ==
    /\ Merging /\ Top.todo = <<>>
    /\ Fails /\ Raise
    /\ SetState(ToSet(order[Top.node]), "FAILED")
    /\ UNCHANGED <<world, order, set, sync, route>>
    /\ call' = Given("merged", Merged)

\* The answer is parsed, every output put into the sync manager, and all but
\* the last evicted again: only the last crosses the boundary.
MutStored(ord, text) ==
    [n \in DOMAIN sync |-> IF n \in ToSet(ord) THEN text[n] ELSE sync[n]]

Stored(ord, text) ==
    [n \in DOMAIN sync |-> IF n \notin ToSet(ord) THEN sync[n]
                           ELSE IF n = ord[Len(ord)] THEN text[n] ELSE None]

MergedAnswers(answer) ==
    /\ Merging /\ Top.todo = <<>>
    /\ LET ord  == order[Top.node]
           Text(heads) == UNION {Section(ord[i]) : i \in heads}
           outputs == [n \in ToSet(ord) |->
                          Text(Parsed(answer, CHOOSE i \in DOMAIN ord : ord[i] = n))]
       IN  /\ SetState(ToSet(ord), "COMPLETE")
           /\ sync' = Stored(ord, outputs)
           /\ Return(outputs, Aggregated(Top.node, ord, outputs, Text(ToSet(answer))))
    /\ UNCHANGED <<world, order, set, route, tally>>
    /\ call' = Given("merged", Merged)

-----------------------------------------------------------------------------
(* One call per agent: FINE, the sequential model, and the agents among    *)
(* the children of a mixed compound.                                       *)

\* What is injected into the prompt of a leaf.
MutSequentialPriors(leaf) ==
    LET ord  == order[Top.node]
        i    == CHOOSE i \in DOMAIN ord : ord[i] = leaf
    IN  IF i = 1 THEN Top.prior ELSE With(Top.prior, ord[i - 1], Top.acc[ord[i - 1]])

SequentialPriors(leaf) ==
    LET ord  == order[Top.node]
        i    == CHOOSE i \in DOMAIN ord : ord[i] = leaf
        deps == DepsOf(tree.edges[Top.node], leaf) \cap ToSet(ord)
    IN  CASE tree.strategy[Top.node] = "deps"   -> Over(Only(Top.acc, deps), Top.prior)
          [] tree.strategy[Top.node] # "deps" /\ set.context = "predecessor_only" ->
                 IF i = 1 \/ Top.acc[ord[i - 1]] = NoText THEN Top.prior
                 ELSE With(Top.prior, ord[i - 1], Top.acc[ord[i - 1]])
          [] OTHER                              -> Top.acc

FinePriors(leaf) ==
    IF leaf \in DOMAIN FineDeps(tree) THEN Only(Top.acc, FineDeps(tree)[leaf]) ELSE Top.acc

Priors(leaf) ==
    CASE Top.path = "sequential" -> SequentialPriors(leaf)
      [] Top.path = "fine"       -> FinePriors(leaf)
      [] Top.path = "mixed"      -> Top.acc

AtLeaf(paths, kind) ==
    /\ Running /\ Top.path \in paths /\ Top.todo # <<>>
    /\ tree.kind[Head(Top.todo)] = kind

\* FINE calls an agent only if no output is there for it and no condition
\* holds it back.
Callable(leaf) ==
    Top.path = "fine" => /\ leaf \notin DOMAIN Top.acc
                         /\ tree.cond[leaf] # None => Verdict(leaf, Top.acc) = "run"

Proceed(leaf, text) ==
    Becomes([Top EXCEPT !.todo = Tail(@), !.acc = With(@, leaf, text)])

CallAgent(ok, text) ==
    /\ AtLeaf({"fine", "sequential", "mixed"}, "agent")
    /\ LET leaf == Head(Top.todo)
       IN  /\ Callable(leaf)
           /\ route' = IF Top.path \in {"fine", "mixed"} THEN leaf ELSE route
           /\ call' = Given(Top.path, CompileSingle(leaf, Priors(leaf)))
           /\ IF ok
              THEN /\ Proceed(leaf, text)
                   /\ sync' = [sync EXCEPT ![leaf] = text]
                   /\ SetState({leaf}, "COMPLETE")
                   /\ IF Top.path = "fine" /\ set.saves
                      THEN Save(With(Top.acc, leaf, text)) ELSE UNCHANGED <<memory, file>>
                   /\ UNCHANGED <<result, tally>>
              ELSE /\ Raise /\ Fails
                   /\ SetState({leaf}, "FAILED")
                   /\ UNCHANGED <<sync, memory, file>>
    /\ UNCHANGED <<tree, order, set, task>>

\* FINE: the checkpoint has the leaf's output.
RestoreAgent ==
    /\ AtLeaf({"fine"}, "agent")
    /\ LET leaf == Head(Top.todo)
       IN  /\ leaf \in DOMAIN Top.acc
           /\ SetState({leaf}, "COMPLETE")
           /\ sync' = [sync EXCEPT ![leaf] = Top.acc[leaf]]
           /\ Proceed(leaf, Top.acc[leaf])
    /\ UNCHANGED <<world, order, set, result, route, call, tally>>

\* FINE: the leaf's condition says no; its output is empty, and not saved.
SkipAgent ==
    /\ AtLeaf({"fine"}, "agent")
    /\ LET leaf == Head(Top.todo)
       IN  /\ leaf \notin DOMAIN Top.acc /\ tree.cond[leaf] # None
           /\ \/ /\ Verdict(leaf, Top.acc) = "skip"
                 /\ SetState({leaf}, "SKIPPED")
                 /\ sync' = [sync EXCEPT ![leaf] = NoText]
                 /\ Proceed(leaf, NoText)
                 /\ UNCHANGED result
              \/ /\ Verdict(leaf, Top.acc) = "raises"
                 /\ Raise
                 /\ UNCHANGED <<state, sync>>
    /\ UNCHANGED <<world, order, set, route, call, tally>>

\* The last step's dict as text: nothing, if it has no fields.
ToolText(leaf) ==
    IF tree.chain[leaf][Len(tree.chain[leaf])].fields = {} THEN NoText ELSE Section(leaf)

\* FINE: a tool chain runs, step by step, whatever the checkpoint has; the
\* output of its last step is the leaf's.
CallTool(ok) ==
    /\ AtLeaf({"fine"}, "tool")
    /\ LET leaf  == Head(Top.todo)
           steps == tree.chain[leaf]
           i     == Top.step + 1
       IN  IF ~Fed(Top.context, steps, i) THEN Raise /\ UNCHANGED <<sync, tally>>
           ELSE IF ~ok THEN Raise /\ Fails /\ UNCHANGED sync
           ELSE IF i < Len(steps)
                THEN /\ Becomes([Top EXCEPT !.step = i, !.context = Kept(@, steps, i)])
                     /\ UNCHANGED <<result, sync, tally>>
                ELSE /\ Becomes([Top EXCEPT !.todo = Tail(@),
                                            !.acc  = With(@, leaf, ToolText(leaf)),
                                            !.step = 0, !.context = << >>])
                     /\ sync' = [sync EXCEPT ![leaf] = ToolText(leaf)]
                     /\ UNCHANGED <<result, tally>>
    /\ UNCHANGED <<world, order, state, set, route, call>>

\* A mixed compound: a compound child is entered with all there is so far,
\* and a tool child is passed over.
EnterChild ==
    /\ AtLeaf({"mixed"}, "compound")
    /\ LET c == Head(Top.todo)
       IN  /\ order' = [order EXCEPT ![c] = IF OrderOf(c) = <<>> THEN ComputeOrder(tree, c) ELSE @]
           /\ stack' = Append(stack, Frame("enter", c, <<>>, Top.acc))
    /\ UNCHANGED <<world, state, set, result, sync, route, call, tally>>

PassToolChild ==
    /\ AtLeaf({"mixed"}, "tool")
    /\ Becomes([Top EXCEPT !.todo = Tail(@)])
    /\ UNCHANGED <<world, order, state, set, result, sync, route, call, tally>>

\* The end of a compound run leaf by leaf; sequential evicts as merged does.
FinishLeaves ==
    /\ Running /\ Top.path \in {"fine", "sequential", "mixed"} /\ Top.todo = <<>>
    /\ LET c    == Top.node
           ord  == OrderOf(c)
           last == ord[Len(ord)]
           kids == TopoOrderChildren(tree, c)
           final == CASE Top.path = "fine" -> Aggregated(c, ord, Top.acc, Top.acc[last])
                      [] Top.path = "sequential" -> Aggregated(c, ord, Top.acc, NoText)
                      [] Top.path = "mixed" ->
                             IF tree.kind[kids[Len(kids)]] = "compound" THEN Top.inner
                             ELSE Aggregated(c, ord, Top.acc, NoText)
       IN  /\ Return(Top.acc, final)
           /\ sync' = IF Top.path = "sequential" THEN Stored(ord, Top.acc) ELSE sync
    /\ UNCHANGED <<world, order, state, set, route, call, tally>>

-----------------------------------------------------------------------------
(* _run_iteration: one call per batch, by the hierarchy's first leaf *)

Batching == Running /\ Top.path = "batches"
Worker   == Leaves(tree)[1]

BatchCall(ok, answer) ==
    /\ Batching /\ Top.todo # <<>>
    /\ LET batch == Head(Top.todo)
           Text(heads) == UNION {Section(Item(batch[i])) : i \in heads}
           outputs == [k \in {ItemKeys[i] : i \in DOMAIN batch} |->
                          Text(Parsed(answer, CHOOSE i \in DOMAIN batch : ItemKeys[i] = k))]
       IN  IF ok
           THEN /\ SetState({Worker}, "RUNNING")
                /\ sync' = [n \in DOMAIN sync |->
                              IF \E i \in DOMAIN batch : Item(batch[i]) = n
                              THEN outputs[ItemKeys[CHOOSE i \in DOMAIN batch : Item(batch[i]) = n]]
                              ELSE sync[n]]
                /\ Becomes([Top EXCEPT !.todo  = Tail(@), !.acc = Over(outputs, @),
                                       !.inner = outputs[ItemKeys[Len(batch)]]])
                /\ UNCHANGED <<result, tally>>
           ELSE Raise /\ Fails /\ SetState({Worker}, "FAILED") /\ UNCHANGED sync
    /\ call' = Given("batches", CompileBatch([i \in DOMAIN Head(Top.todo) |-> Item(Head(Top.todo)[i])]))
    /\ UNCHANGED <<world, order, set, route>>

BatchOverBudget ==
    /\ Batching /\ Top.todo # <<>>
    /\ Fails
    /\ Raise
    /\ UNCHANGED <<world, order, state, set, sync, route, call>>

FinishBatches ==
    /\ Batching /\ Top.todo = <<>>
    /\ SetState({Worker}, "COMPLETE")
    /\ Return(Top.acc, Top.inner)
    /\ UNCHANGED <<world, order, set, sync, route, call, tally>>

-----------------------------------------------------------------------------

\* What comes back from the model.
Merge  == /\ Merging
          /\ \E answer \in Answers(Len(order[Top.node])) : MergedAnswers(answer)
Single == /\ AtLeaf({"fine", "sequential", "mixed"}, "agent")
          /\ \/ CallAgent(FALSE, NoText)
             \/ \E text \in {NoText, Section(Head(Top.todo))} : CallAgent(TRUE, text)
Batch  == /\ Batching /\ Top.todo # <<>>
          /\ \/ BatchCall(FALSE, <<>>)
             \/ \E answer \in Answers(Len(Head(Top.todo))) : BatchCall(TRUE, answer)

Next ==
    \/ \E s \in tree.settings : Run(s)
    \/ NextTask
    \/ Crash
    \/ ShortCircuit \/ EnterRaises \/ Enter
    \/ \E ok \in BOOLEAN : Gather(ok)
    \/ OverBudget \/ MergedFails \/ Merge
    \/ Single
    \/ RestoreAgent \/ SkipAgent
    \/ \E ok \in BOOLEAN : CallTool(ok)
    \/ EnterChild \/ PassToolChild \/ FinishLeaves
    \/ Batch
    \/ BatchOverBudget \/ FinishBatches

Spec == Init /\ [][Next]_vars

-----------------------------------------------------------------------------

Returned == result.status = "returned"
Flat     == Compounds(tree) = {tree.root}

\* What leaf n of a call is shown of d: its section of the same prompt comes
\* first, or its output, unless that is empty, is among the prior outputs.
ShownOf(d, i) ==
    \/ \E j \in 1..(i - 1) : call.to[j] = d
    \/ \A n \in LeavesOf(tree, d) :
           /\ n \in DOMAIN call.known
           /\ \/ call.known[n] = NoText
              \/ n \in DOMAIN call.priors /\ call.priors[n] = call.known[n]

\* At every call of every execution model an agent is shown the outputs it
\* declared a dependency on, all produced before; and where dependencies are
\* explicit, a call of its own shows it no other sibling's output (the
\* injection strategies of _run_fine, _run_compound_sequential, the mixed
\* and the merged compound, after any restart from a checkpoint).  A phase
\* that needs the one before it is told to read it, independent ones are not.
InputsAsDeclared ==
    call # None /\ call.path # "batches" =>
        LET edges    == tree.edges[call.of]
            siblings == ToSet(tree.children[call.of])
        IN  \A i \in DOMAIN call.to :
                /\ \A d \in DepsOf(edges, call.to[i]) \cap siblings : ShownOf(d, i)
                /\ call.path \in {"fine", "sequential"} /\ tree.strategy[call.of] = "deps" =>
                       DOMAIN call.priors \cap siblings \subseteq DepsOf(edges, call.to[i])
                /\ call.path = "merged" /\ i > 1 =>
                       IF call.to[i - 1] \in DepsOf(edges, call.to[i])
                       THEN call.reads[i] = call.to[i - 1]
                       ELSE (\A n \in siblings : n \in DOMAIN edges /\ edges[n] = {})
                                => call.reads[i] = None

\* A leaf whose output is in the checkpoint, in memory or in a readable file,
\* is never called again under that task_id: not by a retry after a failure,
\* nor after a crash (_run_fine with CheckpointStore).
NoRepaidCall ==
    [][call' # call /\ call' # None /\ call'.path = "fine" /\ set.saves
           => \A outputs \in {memory, file} \ {None, Missing, Corrupt} :
                  call'.to[1] \notin DOMAIN outputs]_vars

\* What run() returns was written for the task it was given, restored leaves
\* included; an iteration has stored a text for every item, of this task too.
ReturnsThisTask ==
    Returned =>
        /\ \A k \in DOMAIN result.outputs : \A s \in result.outputs[k] : s[2] = task
        /\ \A s \in result.final : s[2] = task
        /\ set.level = "ITERATION" => \A n \in ToSet(tree.items) :
               sync[n] # None /\ \A s \in sync[n] : s[2] = task

\* What run() returns at FINE or COMPOUND has an output for every agent, and
\* the final output of a flat hierarchy has all that its terminal agents said,
\* not only the last one's (_aggregate_terminal_outputs).
SinksSpeak ==
    Returned /\ set.level # "ITERATION" =>
        /\ Agents(tree) \subseteq DOMAIN result.outputs
        /\ Flat => \A n \in Terminals(AgentLeaves(order[tree.root], tree), tree.edges[tree.root]) :
               result.outputs[n] \subseteq result.final

\* When a flat compound has been called, its last output is in the sync
\* manager and no other of its outputs is, whatever earlier runs left there.
OnlyTheLastCrosses ==
    Returned /\ Flat /\ set.level = "COMPOUND" /\ (\A a \in Agents(tree) : state[a] = "COMPLETE")
        => \A a \in Agents(tree) :
               sync[a] = IF a = order[tree.root][Len(order[tree.root])]
                         THEN result.outputs[a] ELSE None

\* A tool step of a capsule that could be built finds the dict it reads: the
\* output of the latest step before it with that key.  When the schemas of
\* the chain were validated too, each field it expects was output by a step
\* before it; and the dict it is handed has them all, if no output key is
\* written twice and the step before is the only one (ToolCapsule.validate,
\* validate_chain, ToolOrchestrator.run).
ToolStepsAreFed ==
    AtLeaf({"fine"}, "tool") =>
        LET steps == tree.chain[Head(Top.todo)]
            i     == Top.step + 1
            key   == steps[i].input_from
        IN  key # None =>
                /\ key \in DOMAIN Top.context
                /\ Top.context[key] = Max({j \in 1..(i - 1) : steps[j].output_key = key})
                /\ SchemasMatch(steps) =>
                       /\ steps[i].input_keys \subseteq UNION {steps[j].fields : j \in 1..(i - 1)}
                       /\ i = 2 => steps[i].input_keys \subseteq Handed(Top.context, steps, i)
=============================================================================
