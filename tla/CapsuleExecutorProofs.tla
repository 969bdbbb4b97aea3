------------------------ MODULE CapsuleExecutorProofs ------------------------
(***************************************************************************)
(* Proofs about CapsuleExecutor, for all hierarchies, settings, answers    *)
(* and luck.                                                               *)
(***************************************************************************)
EXTENDS CapsuleExecutor, RecursionLemmas

\* The active calls, and what a call is.
Active == Range(stack)

IsFrame(f) ==
    f \in [path : {f.path}, node : {f.node}, todo : {f.todo}, prior : {f.prior}, acc : {f.acc},
           gathered : {f.gathered}, inner : {f.inner}, step : {f.step}, context : {f.context}]

PathsOf(level) == IF level = "FINE" THEN {"fine"}
                  ELSE IF level = "ITERATION" THEN {"batches"}
                  ELSE {"enter", "merged", "sequential", "mixed"}

\* Only compounds are entered from one another; a run is open while calls are
\* active.
CallsNest ==
    /\ stack \in Seq(Active)
    /\ \A f \in Active : IsFrame(f) /\ f.path \in PathsOf(set.level)
    /\ Running /\ set.level \in {"FINE", "ITERATION"} => Len(stack) = 1
    /\ Running <=> result.status = "open"
    /\ tree \in Trees

\* A run has settings its caller uses, and the tool capsules could be built.
Settled ==
    /\ Running => set \in tree.settings
    /\ \A n \in DOMAIN tree.chain : Valid(tree.chain[n])

\* The leaves of the root are called in its order.
Done(ord, todo, acc) ==
    \E k \in 0 .. Len(ord) : /\ todo = SubSeq(ord, k + 1, Len(ord))
                             /\ \A j \in 1 .. k : ord[j] \in DOMAIN acc

FineGoesOn ==
    Running /\ set.level = "FINE" =>
        /\ Top.node = tree.root
        /\ order[tree.root] = ComputeOrder(tree, tree.root)
        /\ Done(order[tree.root], Top.todo, Top.acc)

\* What there is was written for this task.
OfTask(outputs) == \A k \in DOMAIN outputs : \A s \in outputs[k] : s[2] = task
Written(text)   == \A s \in text : s[2] = task

FrameMarked(f) == OfTask(f.prior) /\ OfTask(f.acc) /\ Written(f.inner)

StackMarked ==
    /\ \A f \in Active : FrameMarked(f)
    /\ OfTask(result.outputs) /\ Written(result.final)

StoreMarked ==
    /\ memory # None => OfTask(memory)
    /\ file \notin {Missing, Corrupt} => OfTask(file)

\* The batches ahead have all the items that nothing was stored for.
Stocked(i) == sync[Item(i)] # None /\ Written(sync[Item(i)])

BatchesGoOn ==
    (Running \/ Returned) /\ set.level = "ITERATION" =>
        /\ Running => /\ Top.todo \in Seq(Range(Top.todo))
                      /\ \A batch \in Range(Top.todo) :
                             /\ batch \in Seq(1 .. Len(tree.items)) /\ batch # <<>>
                             /\ Len(batch) <= BatchSize
        /\ \A i \in 1 .. Len(tree.items) :
               Stocked(i) \/ (Running /\ \E batch \in Range(Top.todo) : i \in Range(batch))

\* In a flat hierarchy one compound is run, and over its order: agent by
\* agent, or in one call.
RootOrder == ComputeOrder(tree, tree.root)

Upto(ord, todo, acc) ==
    \E k \in 0 .. Len(ord) : /\ todo = SubSeq(ord, k + 1, Len(ord))
                             /\ DOMAIN acc = {ord[j] : j \in 1 .. k}

FlatFrame(f) ==
    /\ f.node = tree.root /\ f.path # "mixed"
    /\ f.path \in {"fine", "sequential", "merged"} => order[tree.root] = RootOrder
    /\ set.level # "FINE" => f.prior = NoOutputs
    /\ f.path \in {"sequential", "merged"} => AgentsOf(RootOrder) = ToSet(RootOrder)
    /\ f.path = "sequential" => Upto(RootOrder, f.todo, f.acc)
    /\ f.path = "merged" => f.acc = NoOutputs

FlatGoesOn ==
    Flat => /\ order[tree.root] \in {None, RootOrder}
            /\ Running => Len(stack) = 1 /\ FlatFrame(Top)
            /\ Returned /\ set.level # "ITERATION" => order[tree.root] = RootOrder

\* The file is no newer than the dict, nor the dict than the run that saves.
Readable(outputs) == outputs \notin {None, Missing, Corrupt}

SavedIsKnown ==
    /\ ~HasPath => file = Missing
    /\ memory # None /\ Readable(file) => DOMAIN file \subseteq DOMAIN memory
    /\ Running /\ set.level = "FINE" /\ set.saves =>
           \A outputs \in {memory, file} : Readable(outputs) => DOMAIN outputs \subseteq DOMAIN Top.acc

\* What is saved or restored has the output of the first leaf.
FirstIsThere ==
    /\ memory # None => RootOrder[1] \in DOMAIN memory
    /\ Readable(file) => RootOrder[1] \in DOMAIN file
    /\ Running /\ set.level = "FINE" =>
           DOMAIN Top.acc = {} \/ RootOrder[1] \in DOMAIN Top.acc

\* The context of a tool chain has the latest step of each key.
Follows(steps, step, context) ==
    /\ step \in 1 .. Len(steps) - 1
    /\ DOMAIN context = {steps[j].output_key : j \in 1 .. step}
    /\ \A key \in DOMAIN context :
           /\ context[key] \in 1 .. step
           /\ steps[context[key]].output_key = key
           /\ \A j \in 1 .. step : steps[j].output_key = key => j <= context[key]

ContextKept ==
    Running /\ set.level = "FINE" =>
        \/ Top.step = 0 /\ DOMAIN Top.context = {}
        \/ /\ Top.todo # <<>> /\ tree.kind[Head(Top.todo)] = "tool"
           /\ Follows(tree.chain[Head(Top.todo)], Top.step, Top.context)

-----------------------------------------------------------------------------
(* Dicts, frames and the stack.                                              *)

LEMMA WithOne ==
    ASSUME NEW d, NEW key, NEW value
    PROVE  /\ DOMAIN With(d, key, value) = DOMAIN d \cup {key}
           /\ With(d, key, value)[key] = value
           /\ \A k \in DOMAIN d : k # key => With(d, key, value)[k] = d[k]
BY DEF With

LEMMA OverAll ==
    ASSUME NEW new, NEW d
    PROVE  /\ DOMAIN Over(new, d) = DOMAIN new \cup DOMAIN d
           /\ \A k \in DOMAIN new : Over(new, d)[k] = new[k]
           /\ \A k \in DOMAIN d \ DOMAIN new : Over(new, d)[k] = d[k]
BY DEF Over

LEMMA NothingYet == DOMAIN NoOutputs = {} /\ NoText = {} /\ Len(<<>>) = 0
BY DEF NoOutputs, NoText

LEMMA FrameIsFrame ==
    ASSUME NEW path, NEW node, NEW todo, NEW prior
    PROVE  LET f == Frame(path, node, todo, prior)
           IN  /\ IsFrame(f) /\ f.path = path /\ f.node = node /\ f.todo = todo
               /\ f.prior = prior /\ f.acc = prior /\ f.inner = NoText
               /\ f.step = 0 /\ f.context = << >> /\ f.gathered = {}
BY DEF Frame, IsFrame

(* A frame that goes on: one of the ways its fields are replaced.            *)
GoesOn(f, new, todo, acc, gathered, inner, step, context) ==
    new \in [path : {f.path}, node : {f.node}, todo : {todo}, prior : {f.prior}, acc : {acc},
             gathered : {gathered}, inner : {inner}, step : {step}, context : {context}]

LEMMA GoneOn ==
    ASSUME NEW f, NEW new, NEW todo, NEW acc, NEW gathered, NEW inner, NEW step, NEW context,
           GoesOn(f, new, todo, acc, gathered, inner, step, context)
    PROVE  /\ IsFrame(new) /\ new.path = f.path /\ new.node = f.node /\ new.todo = todo
           /\ new.prior = f.prior /\ new.acc = acc /\ new.gathered = gathered
           /\ new.inner = inner /\ new.step = step /\ new.context = context
BY DEF GoesOn, IsFrame

LEMMA FrameUpdates ==
    ASSUME NEW f, IsFrame(f), NEW t, NEW a, NEW g, NEW i, NEW s, NEW c
    PROVE  /\ GoesOn(f, [f EXCEPT !.todo = t],
                     t, f.acc, f.gathered, f.inner, f.step, f.context)
           /\ GoesOn(f, [f EXCEPT !.todo = t, !.acc = a],
                     t, a, f.gathered, f.inner, f.step, f.context)
           /\ GoesOn(f, [f EXCEPT !.acc = a, !.todo = t, !.inner = i],
                     t, a, f.gathered, i, f.step, f.context)
           /\ GoesOn(f, [f EXCEPT !.todo = t, !.acc = a, !.inner = i],
                     t, a, f.gathered, i, f.step, f.context)
           /\ GoesOn(f, [f EXCEPT !.todo = t, !.gathered = g],
                     t, f.acc, g, f.inner, f.step, f.context)
           /\ GoesOn(f, [f EXCEPT !.step = s, !.context = c],
                     f.todo, f.acc, f.gathered, f.inner, s, c)
           /\ GoesOn(f, [f EXCEPT !.todo = t, !.acc = a, !.step = s, !.context = c],
                     t, a, f.gathered, f.inner, s, c)
<1>1. GoesOn(f, [f EXCEPT !.todo = t],
           t, f.acc, f.gathered, f.inner, f.step, f.context)
    BY DEF GoesOn, IsFrame
<1>2. GoesOn(f, [f EXCEPT !.todo = t, !.acc = a],
           t, a, f.gathered, f.inner, f.step, f.context)
    BY DEF GoesOn, IsFrame
<1>3. GoesOn(f, [f EXCEPT !.acc = a, !.todo = t, !.inner = i],
           t, a, f.gathered, i, f.step, f.context)
    BY DEF GoesOn, IsFrame
<1>4. GoesOn(f, [f EXCEPT !.todo = t, !.acc = a, !.inner = i],
           t, a, f.gathered, i, f.step, f.context)
    BY DEF GoesOn, IsFrame
<1>5. GoesOn(f, [f EXCEPT !.todo = t, !.gathered = g],
           t, f.acc, g, f.inner, f.step, f.context)
    BY DEF GoesOn, IsFrame
<1>6. GoesOn(f, [f EXCEPT !.step = s, !.context = c],
           f.todo, f.acc, f.gathered, f.inner, s, c)
    BY DEF GoesOn, IsFrame
<1>7. GoesOn(f, [f EXCEPT !.todo = t, !.acc = a, !.step = s, !.context = c],
           t, a, f.gathered, f.inner, s, c)
    BY DEF GoesOn, IsFrame
<1> QED
    BY <1>1, <1>2, <1>3, <1>4, <1>5, <1>6, <1>7

LEMMA StackShape ==
    ASSUME NEW S, stack \in Seq(S), Running
    PROVE  /\ Len(stack) \in Nat /\ Len(stack) >= 1 /\ DOMAIN stack = 1 .. Len(stack)
           /\ Top \in Active /\ Len(stack) \in 1 .. Len(stack)
           /\ Active \subseteq S
           /\ Below \in Seq(Active) /\ Len(Below) = Len(stack) - 1
           /\ \A i \in 1 .. Len(stack) - 1 : Below[i] = stack[i]
           /\ Len(stack) # 1 => Caller \in Active
<1>1. Len(stack) \in Nat /\ DOMAIN stack = 1 .. Len(stack) /\ Len(stack) # 0
    BY EmptySeq, LenProperties DEF Running
<1>2. Top \in Active /\ (Len(stack) # 1 => Caller \in Active)
    BY <1>1 DEF Top, Caller, Active, Range
<1>3. stack \in Seq(Active) /\ Active \subseteq S
    BY SeqOfRange, RangeOfSeq DEF Active
<1>4. Below \in Seq(Active) /\ Len(Below) = Len(stack) - 1
      /\ \A i \in 1 .. Len(stack) - 1 : Below[i] = stack[i]
    BY <1>1, <1>3, SubSeqProperties DEF Below
<1> QED
    BY <1>1, <1>2, <1>3, <1>4

LEMMA Becoming ==
    ASSUME NEW S, stack \in Seq(S), Running, NEW f, Becomes(f)
    PROVE  /\ Active' \subseteq Active \cup {f} /\ stack' \in Seq(Active')
           /\ Running' /\ Top' = f /\ Len(stack') = Len(stack)
<1>1. /\ Len(stack) \in Nat /\ Len(stack) >= 1 /\ Below \in Seq(Active)
      /\ Len(Below) = Len(stack) - 1
    BY StackShape
<1>2. Below \in Seq(Active \cup {f})
    BY <1>1, SeqMonotonic
<1>3. /\ stack' \in Seq(Active \cup {f}) /\ Len(stack') = Len(Below) + 1
      /\ stack'[Len(Below) + 1] = f
    BY <1>2, AppendProperties DEF Becomes
<1>4. Active' \subseteq Active \cup {f} /\ stack' \in Seq(Active')
    BY <1>3, RangeOfSeq, SeqOfRange DEF Active
<1>5. Running'
    BY <1>1, <1>3, EmptySeq DEF Running
<1> QED
    BY <1>1, <1>3, <1>4, <1>5 DEF Top
LEMMA Returning ==
    ASSUME NEW S, stack \in Seq(S), Running, NEW outputs, NEW final, Return(outputs, final),
           \A f \in Active : IsFrame(f)
    PROVE  \/ /\ Len(stack) = 1 /\ stack' = <<>> /\ Active' = {} /\ ~Running'
              /\ result' = [status |-> "returned", outputs |-> outputs, final |-> final]
           \/ \E new : /\ Len(stack) # 1
                      /\ GoesOn(Caller, new, Tail(Caller.todo), Over(outputs, Caller.acc),
                                Caller.gathered, final, Caller.step, Caller.context)
                      /\ Active' \subseteq Active \cup {new} /\ stack' \in Seq(Active')
                      /\ Running' /\ Top' = new /\ Caller \in Active
                      /\ result' = result
<1>1. CASE Len(stack) = 1
    <2>1. Range(<<>>) = {}
        BY DEF Range
    <2> QED
        BY <1>1, <2>1 DEF Return, Active, Running
<1>2. CASE Len(stack) # 1
    <2> DEFINE new == [Caller EXCEPT !.acc = Over(outputs, @), !.todo = Tail(@), !.inner = final]
               rest == SubSeq(stack, 1, Len(stack) - 2)
    <2>1. Len(stack) \in Nat /\ Len(stack) >= 1 /\ DOMAIN stack = 1 .. Len(stack) /\ Caller \in Active
        BY <1>2, StackShape
    <2>2. stack \in Seq(Active)
        BY SeqOfRange DEF Active
    <2>3. rest \in Seq(Active) /\ Len(rest) = Len(stack) - 2
        BY <1>2, <2>1, <2>2, SubSeqProperties
    <2>4. new = [Caller EXCEPT !.acc = Over(outputs, Caller.acc), !.todo = Tail(Caller.todo),
                               !.inner = final]
        OBVIOUS
    <2>5. GoesOn(Caller, new, Tail(Caller.todo), Over(outputs, Caller.acc),
                 Caller.gathered, final, Caller.step, Caller.context)
        BY <2>1, <2>4, FrameUpdates
    <2>6. stack' = Append(rest, new) /\ result' = result
        BY <1>2 DEF Return
    <2> HIDE DEF new, rest
    <2>7. rest \in Seq(Active \cup {new})
        BY <2>3, SeqMonotonic
    <2>8. /\ stack' \in Seq(Active \cup {new}) /\ Len(stack') = Len(rest) + 1
          /\ stack'[Len(rest) + 1] = new /\ stack' # <<>>
        BY <2>6, <2>7, AppendProperties
    <2>9. Active' \subseteq Active \cup {new} /\ stack' \in Seq(Active')
        BY <2>8, RangeOfSeq, SeqOfRange DEF Active
    <2> QED
        BY <1>2, <2>1, <2>5, <2>6, <2>8, <2>9 DEF Top, Running
<1> QED
    BY <1>1, <1>2

(* The ways a step changes the stack keep CallsNest.                         *)
LEMMA NestAdvance ==
    ASSUME CallsNest, Running, NEW f, Becomes(f), IsFrame(f), f.path \in PathsOf(set.level),
           UNCHANGED <<result, set, tree>>
    PROVE  CallsNest'
<1>1. /\ Active' \subseteq Active \cup {f} /\ stack' \in Seq(Active')
      /\ Running' /\ Len(stack') = Len(stack)
    BY Becoming DEF CallsNest
<1>2. \A g \in Active' : IsFrame(g) /\ g.path \in PathsOf(set'.level)
    BY <1>1 DEF CallsNest
<1> QED
    BY <1>1, <1>2 DEF CallsNest

LEMMA NestReturn ==
    ASSUME CallsNest, Running, NEW outputs, NEW final, Return(outputs, final),
           UNCHANGED <<set, tree>>
    PROVE  CallsNest'
<1>1. CASE Len(stack) = 1
    <2>1. stack' = <<>> /\ Active' = {} /\ ~Running' /\ result'.status = "returned"
        BY <1>1, Returning DEF CallsNest
    <2> QED
        BY <2>1, EmptySeq DEF CallsNest
<1>2. CASE Len(stack) # 1
    <2>1. PICK new : /\ GoesOn(Caller, new, Tail(Caller.todo), Over(outputs, Caller.acc),
                               Caller.gathered, final, Caller.step, Caller.context)
                     /\ Active' \subseteq Active \cup {new} /\ stack' \in Seq(Active')
                     /\ Running' /\ Caller \in Active /\ result' = result
        BY <1>2, Returning DEF CallsNest
    <2>2. IsFrame(new) /\ new.path = Caller.path
        BY <2>1, GoneOn
    <2>3. \A g \in Active' : IsFrame(g) /\ g.path \in PathsOf(set'.level)
        BY <2>1, <2>2 DEF CallsNest
    <2>4. set'.level \notin {"FINE", "ITERATION"}
        BY <1>2 DEF CallsNest
    <2> QED
        BY <2>1, <2>3, <2>4 DEF CallsNest
<1> QED
    BY <1>1, <1>2

LEMMA NestQuit ==
    ASSUME CallsNest, stack' = <<>>, result'.status # "open", UNCHANGED tree
    PROVE  CallsNest'
<1>1. Active' = {} /\ ~Running'
    BY DEF Active, Running, Range
<1> QED
    BY <1>1, EmptySeq DEF CallsNest

LEMMA Raising == Raise => stack' = <<>> /\ result' = Ended("raised") /\ result'.status = "raised"
BY DEF Raise, Ended

-----------------------------------------------------------------------------
(* The calls are nested as the executor's methods call one another.          *)

LEMMA CallsStart == Init => CallsNest
<1> SUFFICES ASSUME Init PROVE CallsNest
    OBVIOUS
<1>1. stack = <<>> /\ result.status = "none" /\ tree \in Trees
    BY DEF Init, Ended
<1>2. Active = {} /\ ~Running
    BY <1>1 DEF Active, Running, Range
<1> QED
    BY <1>1, <1>2, EmptySeq DEF CallsNest

LEMMA RunBegins ==
    ASSUME CallsNest, NEW s, Run(s)
    PROVE  /\ CallsNest' /\ Running' /\ Len(stack') = 1 /\ Active' = {Top'}
           /\ set' = s /\ result' = Ended("open") /\ call' = None /\ UNCHANGED <<tree, task, file, sync>>
           /\ \/ /\ s.level = "FINE"
                 /\ Top' = Frame("fine", tree.root, ComputeOrder(tree, tree.root),
                                 IF s.saves THEN Restored ELSE NoOutputs)
                 /\ memory' = IF s.saves THEN Load(memory, file) ELSE memory
                 /\ order' = [order EXCEPT ![tree.root] = ComputeOrder(tree, tree.root)]
              \/ /\ s.level = "COMPOUND" /\ memory' = memory /\ order' = order
                 /\ Top' = Frame("enter", tree.root, <<>>, NoOutputs)
              \/ /\ s.level = "ITERATION" /\ memory' = memory /\ order' = order
                 /\ Top' = Frame("batches", tree.root, Partition(Len(tree.items), BatchSize), NoOutputs)
<1>1. /\ set' = s /\ result' = Ended("open") /\ call' = None /\ UNCHANGED <<tree, task, file, sync>>
      /\ result'.status = "open"
    BY DEF Run, Ended
<1>2. ASSUME NEW f, stack' = <<f>>, IsFrame(f), f.path \in PathsOf(s.level)
      PROVE  CallsNest' /\ Running' /\ Len(stack') = 1 /\ Active' = {Top'} /\ Top' = f
    <2>1. Len(stack') = 1 /\ Active' = {f} /\ Top' = f /\ Running' /\ stack' \in Seq({f})
        BY <1>2 DEF Active, Top, Running, Range
    <2> QED
        BY <1>1, <1>2, <2>1 DEF CallsNest
<1>3. CASE /\ s.level = "FINE"
           /\ order' = [order EXCEPT ![tree.root] = ComputeOrder(tree, tree.root)]
           /\ stack' = <<Frame("fine", tree.root, ComputeOrder(tree, tree.root),
                               IF s.saves THEN Restored ELSE NoOutputs)>>
           /\ memory' = IF s.saves THEN Load(memory, file) ELSE memory
    <2> DEFINE f == Frame("fine", tree.root, ComputeOrder(tree, tree.root),
                          IF s.saves THEN Restored ELSE NoOutputs)
    <2>1. IsFrame(f) /\ f.path \in PathsOf(s.level)
        BY <1>3, FrameIsFrame DEF PathsOf
    <2>2. stack' = <<f>>
        BY <1>3
    <2> HIDE DEF f
    <2>3. CallsNest' /\ Running' /\ Len(stack') = 1 /\ Active' = {Top'} /\ Top' = f
        BY <1>2, <2>1, <2>2
    <2> QED
        BY <1>1, <1>3, <2>3 DEF f
<1>4. CASE /\ s.level = "COMPOUND"
           /\ stack' = <<Frame("enter", tree.root, <<>>, NoOutputs)>>
           /\ UNCHANGED <<order, memory>>
    <2> DEFINE f == Frame("enter", tree.root, <<>>, NoOutputs)
    <2>1. IsFrame(f) /\ f.path \in PathsOf(s.level)
        BY <1>4, FrameIsFrame DEF PathsOf
    <2>2. stack' = <<f>>
        BY <1>4
    <2> HIDE DEF f
    <2>3. CallsNest' /\ Running' /\ Len(stack') = 1 /\ Active' = {Top'} /\ Top' = f
        BY <1>2, <2>1, <2>2
    <2> QED
        BY <1>1, <1>4, <2>3 DEF f
<1>5. CASE /\ s.level = "ITERATION"
           /\ stack' = <<Frame("batches", tree.root,
                               Partition(Len(tree.items), BatchSize), NoOutputs)>>
           /\ UNCHANGED <<order, memory>>
    <2> DEFINE f == Frame("batches", tree.root, Partition(Len(tree.items), BatchSize), NoOutputs)
    <2>1. IsFrame(f) /\ f.path \in PathsOf(s.level)
        BY <1>5, FrameIsFrame DEF PathsOf
    <2>2. stack' = <<f>>
        BY <1>5
    <2> HIDE DEF f
    <2>3. CallsNest' /\ Running' /\ Len(stack') = 1 /\ Active' = {Top'} /\ Top' = f
        BY <1>2, <2>1, <2>2
    <2> QED
        BY <1>1, <1>5, <2>3 DEF f
<1> QED
    BY <1>3, <1>4, <1>5 DEF Run

(* How a call goes on in each of the actions that take it further.           *)
LEMMA Proceeding ==
    ASSUME CallsNest, Running, NEW leaf, NEW text, Proceed(leaf, text)
    PROVE  \E f : /\ Becomes(f)
                  /\ GoesOn(Top, f, Tail(Top.todo), With(Top.acc, leaf, text),
                            Top.gathered, Top.inner, Top.step, Top.context)
<1>1. IsFrame(Top)
    BY StackShape DEF CallsNest
<1>2. Becomes([Top EXCEPT !.todo = Tail(Top.todo), !.acc = With(Top.acc, leaf, text)])
    BY DEF Proceed
<1>3. GoesOn(Top, [Top EXCEPT !.todo = Tail(Top.todo), !.acc = With(Top.acc, leaf, text)],
             Tail(Top.todo), With(Top.acc, leaf, text),
             Top.gathered, Top.inner, Top.step, Top.context)
    BY <1>1, FrameUpdates
<1> QED
    BY <1>2, <1>3

LEMMA Gathering ==
    ASSUME CallsNest, Gather(TRUE)
    PROVE  /\ \E f : /\ Becomes(f)
                     /\ GoesOn(Top, f, Tail(Top.todo), Top.acc, Top.gathered \cup {Head(Top.todo)},
                               Top.inner, Top.step, Top.context)
           /\ UNCHANGED <<result, tally>> /\ Running
<1>1. IsFrame(Top) /\ Running
    BY StackShape DEF CallsNest, Gather, Merging
<1>2. /\ Becomes([Top EXCEPT !.todo = Tail(Top.todo), !.gathered = Top.gathered \cup {Head(Top.todo)}])
      /\ UNCHANGED <<result, tally>>
    BY DEF Gather
<1> QED
    BY <1>1, <1>2, FrameUpdates

LEMMA ToolStepping ==
    ASSUME CallsNest, CallTool(TRUE), Fed(Top.context, tree.chain[Head(Top.todo)], Top.step + 1)
    PROVE  LET leaf  == Head(Top.todo)
               steps == tree.chain[leaf]
               i     == Top.step + 1
           IN  /\ Running /\ UNCHANGED result
               /\ \/ /\ i < Len(steps) /\ UNCHANGED sync
                     /\ \E f : /\ Becomes(f)
                               /\ GoesOn(Top, f, Top.todo, Top.acc, Top.gathered, Top.inner,
                                         i, Kept(Top.context, steps, i))
                  \/ /\ ~(i < Len(steps)) /\ sync' = [sync EXCEPT ![leaf] = ToolText(leaf)]
                     /\ \E f : /\ Becomes(f)
                               /\ GoesOn(Top, f, Tail(Top.todo), With(Top.acc, leaf, ToolText(leaf)),
                                         Top.gathered, Top.inner, 0, << >>)
<1> DEFINE leaf  == Head(Top.todo)
           steps == tree.chain[leaf]
           i     == Top.step + 1
<1>1. IsFrame(Top) /\ Running
    BY StackShape DEF CallsNest, CallTool, AtLeaf
<1>2. CASE i < Len(steps)
    <2>1. /\ Becomes([Top EXCEPT !.step = i, !.context = Kept(Top.context, steps, i)])
          /\ UNCHANGED <<result, sync>>
        BY <1>2 DEF CallTool
    <2> HIDE DEF i, steps
    <2> QED
        BY <1>1, <1>2, <2>1, FrameUpdates DEF i, steps
<1>3. CASE ~(i < Len(steps))
    <2>1. /\ Becomes([Top EXCEPT !.todo = Tail(Top.todo), !.acc = With(Top.acc, leaf, ToolText(leaf)),
                                 !.step = 0, !.context = << >>])
          /\ UNCHANGED result /\ sync' = [sync EXCEPT ![leaf] = ToolText(leaf)]
        BY <1>3 DEF CallTool
    <2> QED
        BY <1>1, <1>3, <2>1, FrameUpdates
<1> QED
    BY <1>2, <1>3

LEMMA PassingTools ==
    ASSUME CallsNest, PassToolChild
    PROVE  /\ \E f : /\ Becomes(f)
                     /\ GoesOn(Top, f, Tail(Top.todo), Top.acc, Top.gathered, Top.inner,
                               Top.step, Top.context)
           /\ Running
<1>1. IsFrame(Top) /\ Running
    BY StackShape DEF CallsNest, PassToolChild, AtLeaf
<1>2. Becomes([Top EXCEPT !.todo = Tail(Top.todo)])
    BY DEF PassToolChild
<1> QED
    BY <1>1, <1>2, FrameUpdates

\* What a batch's keys get from an answer.
BatchText(batch, heads) == UNION {Section(Item(batch[i])) : i \in heads}
BatchOutputs(batch, answer) ==
    [k \in {ItemKeys[i] : i \in DOMAIN batch} |->
        BatchText(batch, Parsed(answer, CHOOSE i \in DOMAIN batch : ItemKeys[i] = k))]

LEMMA BatchAnswered ==
    ASSUME CallsNest, NEW answer, BatchCall(TRUE, answer)
    PROVE  LET batch   == Head(Top.todo)
               outputs == BatchOutputs(batch, answer)
           IN  /\ Running /\ Batching /\ Top.todo # <<>> /\ UNCHANGED result
               /\ sync' = [n \in DOMAIN sync |->
                              IF \E i \in DOMAIN batch : Item(batch[i]) = n
                              THEN outputs[ItemKeys[CHOOSE i \in DOMAIN batch : Item(batch[i]) = n]]
                              ELSE sync[n]]
               /\ \E f : /\ Becomes(f)
                         /\ GoesOn(Top, f, Tail(Top.todo), Over(outputs, Top.acc), Top.gathered,
                                   outputs[ItemKeys[Len(batch)]], Top.step, Top.context)
<1> DEFINE batch   == Head(Top.todo)
           outputs == BatchOutputs(batch, answer)
<1>1. IsFrame(Top) /\ Running /\ Batching /\ Top.todo # <<>>
    BY StackShape DEF CallsNest, BatchCall, Batching
<1>2. /\ Becomes([Top EXCEPT !.todo = Tail(Top.todo), !.acc = Over(outputs, Top.acc),
                             !.inner = outputs[ItemKeys[Len(batch)]]])
      /\ UNCHANGED result
      /\ sync' = [n \in DOMAIN sync |->
                              IF \E i \in DOMAIN batch : Item(batch[i]) = n
                              THEN outputs[ItemKeys[CHOOSE i \in DOMAIN batch : Item(batch[i]) = n]]
                              ELSE sync[n]]
    BY DEF BatchCall, BatchOutputs, BatchText
<1> HIDE DEF outputs
<1> QED
    BY <1>1, <1>2, FrameUpdates DEF outputs

LEMMA CallsGoOn == CallsNest /\ [Next]_vars => CallsNest'
<1> SUFFICES ASSUME CallsNest, [Next]_vars PROVE CallsNest'
    OBVIOUS
<1>a. Running => Top \in Active /\ IsFrame(Top) /\ Top.path \in PathsOf(set.level)
    BY StackShape DEF CallsNest
<1>b. ASSUME Raise, UNCHANGED tree PROVE CallsNest'
    BY <1>b, Raising, NestQuit
<1>c. ASSUME Running, UNCHANGED <<result, set, tree>>, NEW f, Becomes(f), NEW todo, NEW acc,
             NEW gathered, NEW inner, NEW step, NEW context,
             GoesOn(Top, f, todo, acc, gathered, inner, step, context)
      PROVE  CallsNest'
    <2>1. IsFrame(f) /\ f.path = Top.path
        BY <1>c, GoneOn
    <2> QED
        BY <1>a, <1>c, <2>1, NestAdvance
<1>d. world' = world => UNCHANGED tree
    BY DEF world
<1>1. ASSUME NEW s, Run(s) PROVE CallsNest'
    BY <1>1, RunBegins
<1>2. CASE NextTask
    <2>1. ~Running /\ UNCHANGED <<tree, stack, set>> /\ result'.status = "none"
        BY <1>2 DEF NextTask, CallsNest, Ended
    <2>2. Active' = Active /\ ~Running'
        BY <2>1 DEF Active, Running
    <2> QED
        BY <2>1, <2>2 DEF CallsNest, Running
<1>3. CASE Crash
    <2>1. stack' = <<>> /\ result'.status = "crashed" /\ UNCHANGED tree
        BY <1>3 DEF Crash, Ended
    <2> QED
        BY <2>1, NestQuit
<1>4. CASE ShortCircuit
    <2>1. Running /\ UNCHANGED <<set, tree>> /\ \E outputs, final : Return(outputs, final)
        BY <1>4, <1>d DEF ShortCircuit, Entering
    <2> QED
        BY <2>1, NestReturn
<1>5. CASE EnterRaises
    BY <1>5, <1>b, <1>d DEF EnterRaises
<1>6. CASE Enter
    <2>1. Running /\ Top.path = "enter" /\ UNCHANGED <<set, tree>>
        BY <1>6, <1>d DEF Enter, Entering
    <2>2. PathsOf(set.level) = {"enter", "merged", "sequential", "mixed"}
        BY <1>a, <2>1 DEF PathsOf
    <2>3. \/ Raise
          \/ UNCHANGED result /\ \E path \in {"mixed", "sequential", "merged"} : \E todo :
                                     Becomes(Frame(path, Top.node, todo, Top.prior))
        BY <1>6 DEF Enter
    <2>4. ASSUME UNCHANGED result, NEW path \in {"mixed", "sequential", "merged"}, NEW todo,
                 Becomes(Frame(path, Top.node, todo, Top.prior))
          PROVE  CallsNest'
        <3> DEFINE f == Frame(path, Top.node, todo, Top.prior)
        <3>1. IsFrame(f) /\ f.path = path
            BY FrameIsFrame
        <3> HIDE DEF f
        <3> QED
            BY <2>1, <2>2, <2>4, <3>1, NestAdvance DEF f
    <2> QED
        BY <1>b, <2>1, <2>3, <2>4
<1>7. ASSUME NEW ok \in BOOLEAN, Gather(ok) PROVE CallsNest'
    <2>1. UNCHANGED <<set, tree>>
        BY <1>7, <1>d DEF Gather
    <2>2. CASE ok
        <3>1. Gather(TRUE)
            BY <1>7, <2>2
        <3> QED
            BY <1>c, <2>1, <3>1, Gathering
    <2>3. CASE ~ok
        <3>1. Raise
            BY <1>7, <2>3 DEF Gather
        <3> QED
            BY <1>b, <2>1, <3>1
    <2> QED
        BY <2>2, <2>3
<1>8. CASE OverBudget
    BY <1>8, <1>b, <1>d DEF OverBudget
<1>9. CASE MergedFails
    BY <1>9, <1>b, <1>d DEF MergedFails
<1>10. CASE Merge
    <2>1. Running /\ UNCHANGED <<set, tree>> /\ \E outputs, final : Return(outputs, final)
        BY <1>10, <1>d DEF Merge, MergedAnswers, Merging
    <2> QED
        BY <2>1, NestReturn
<1>11. CASE Single
    <2>1. PICK ok, text : CallAgent(ok, text)
        BY <1>11 DEF Single
    <2>2. Running /\ UNCHANGED <<set, tree>>
        BY <2>1 DEF CallAgent, AtLeaf
    <2>3. Raise \/ (UNCHANGED result /\ Proceed(Head(Top.todo), text))
        BY <2>1 DEF CallAgent
    <2> QED
        BY <1>b, <1>c, <2>2, <2>3, Proceeding
<1>12. CASE RestoreAgent
    <2>1. Running /\ UNCHANGED <<result, set, tree>> /\ \E leaf, text : Proceed(leaf, text)
        BY <1>12, <1>d DEF RestoreAgent, AtLeaf
    <2> QED
        BY <1>c, <2>1, Proceeding
<1>13. CASE SkipAgent
    <2>1. Running /\ UNCHANGED <<set, tree>>
        BY <1>13, <1>d DEF SkipAgent, AtLeaf
    <2>2. Raise \/ (UNCHANGED result /\ \E leaf, text : Proceed(leaf, text))
        BY <1>13 DEF SkipAgent
    <2> QED
        BY <1>b, <1>c, <2>1, <2>2, Proceeding
<1>14. ASSUME NEW ok \in BOOLEAN, CallTool(ok) PROVE CallsNest'
    <2>1. UNCHANGED <<set, tree>>
        BY <1>14, <1>d DEF CallTool
    <2>2. CASE Raise
        BY <1>b, <2>1, <2>2
    <2>3. CASE ~Raise
        <3>1. ok /\ Fed(Top.context, tree.chain[Head(Top.todo)], Top.step + 1)
            BY <1>14, <2>3 DEF CallTool
        <3>2. CallTool(TRUE)
            BY <1>14, <3>1
        <3> QED
            BY <1>c, <2>1, <3>1, <3>2, ToolStepping
    <2> QED
        BY <2>2, <2>3
<1>15. CASE EnterChild
    <2> DEFINE f == Frame("enter", Head(Top.todo), <<>>, Top.acc)
    <2>1. Running /\ Top.path = "mixed" /\ UNCHANGED <<set, tree, result>> /\ stack' = Append(stack, f)
        BY <1>15, <1>d DEF EnterChild, AtLeaf
    <2>2. IsFrame(f) /\ f.path = "enter"
        BY FrameIsFrame
    <2>3. PathsOf(set.level) = {"enter", "merged", "sequential", "mixed"}
          /\ set.level \notin {"FINE", "ITERATION"}
        BY <1>a, <2>1 DEF PathsOf
    <2> HIDE DEF f
    <2>4. stack \in Seq(Active \cup {f})
        BY SeqMonotonic DEF CallsNest
    <2>5. stack' \in Seq(Active \cup {f}) /\ stack' # <<>>
        BY <2>1, <2>4, AppendProperties
    <2>6. stack' \in Seq(Active') /\ Active' \subseteq Active \cup {f} /\ Running'
        BY <2>5, SeqOfRange, RangeOfSeq DEF Active, Running
    <2>7. \A g \in Active' : IsFrame(g) /\ g.path \in PathsOf(set'.level)
        BY <2>1, <2>2, <2>3, <2>6 DEF CallsNest
    <2> QED
        BY <2>1, <2>3, <2>6, <2>7 DEF CallsNest
<1>16. CASE PassToolChild
    <2>1. UNCHANGED <<result, set, tree>>
        BY <1>16, <1>d DEF PassToolChild
    <2> QED
        BY <1>16, <1>c, <2>1, PassingTools
<1>17. CASE FinishLeaves
    <2>1. Running /\ UNCHANGED <<set, tree>> /\ \E outputs, final : Return(outputs, final)
        BY <1>17, <1>d DEF FinishLeaves
    <2> QED
        BY <2>1, NestReturn
<1>18. CASE Batch
    <2>0. PICK ok \in BOOLEAN : \E answer : BatchCall(ok, answer)
        BY <1>18 DEF Batch
    <2>1. PICK answer : BatchCall(ok, answer)
        BY <2>0
    <2>2. UNCHANGED <<set, tree>>
        BY <2>1, <1>d DEF BatchCall
    <2>3. CASE ok
        <3>1. BatchCall(TRUE, answer)
            BY <2>1, <2>3
        <3> QED
            BY <1>c, <2>2, <3>1, BatchAnswered
    <2>4. CASE ~ok
        <3>1. Raise
            BY <2>1, <2>4 DEF BatchCall
        <3> QED
            BY <1>b, <2>2, <3>1
    <2> QED
        BY <2>3, <2>4
<1>19. CASE BatchOverBudget
    BY <1>19, <1>b, <1>d DEF BatchOverBudget
<1>20. CASE FinishBatches
    <2>1. Running /\ UNCHANGED <<set, tree>> /\ \E outputs, final : Return(outputs, final)
        BY <1>20, <1>d DEF FinishBatches, Batching
    <2> QED
        BY <2>1, NestReturn
<1>21. CASE UNCHANGED vars
    <2>1. UNCHANGED <<stack, set, result, tree>>
        BY <1>21 DEF vars
    <2>2. Active' = Active /\ (Running' <=> Running)
        BY <2>1 DEF Active, Running
    <2> QED
        BY <2>1, <2>2 DEF CallsNest
<1> QED
    BY <1>1, <1>2, <1>3, <1>4, <1>5, <1>6, <1>7, <1>8, <1>9, <1>10, <1>11, <1>12, <1>13, <1>14,
       <1>15, <1>16, <1>17, <1>18, <1>19, <1>20, <1>21 DEF Next

-----------------------------------------------------------------------------
(* What every step leaves alone, and how a run goes on at each level.        *)

\* The tables have an entry for every node they are about.
Tables ==
    /\ DOMAIN sync = ToSet(Leaves(tree)) \cup ToSet(tree.items)
    /\ DOMAIN state = Agents(tree) /\ DOMAIN order = Compounds(tree)
    /\ task \in 1 .. MaxTasks

LEMMA TablesStand == Init => Tables
<1> SUFFICES ASSUME Init PROVE Tables
    OBVIOUS
<1>1. 1 \in 1 .. MaxTasks
    BY ExecutorAssumption
<1> QED
    BY <1>1 DEF Init, Tables

LEMMA TablesStay == Tables /\ [Next]_vars => Tables'
<1> SUFFICES ASSUME Tables, [Next]_vars PROVE Tables'
    OBVIOUS
<1>a. world' = world => UNCHANGED <<tree, task>>
    BY DEF world
<1>b. ASSUME NEW agents, NEW s, SetState(agents, s) PROVE DOMAIN state' = DOMAIN state
    BY <1>b DEF SetState
<1>c. ASSUME NEW ord, NEW text PROVE DOMAIN Stored(ord, text) = DOMAIN sync
    BY DEF Stored
<1>d. ASSUME UNCHANGED <<tree, task>>, DOMAIN sync' = DOMAIN sync, DOMAIN state' = DOMAIN state,
             DOMAIN order' = DOMAIN order
      PROVE  Tables'
    <2>1. /\ Leaves(tree') = Leaves(tree) /\ tree'.items = tree.items /\ task' = task
          /\ Agents(tree') = Agents(tree) /\ Compounds(tree') = Compounds(tree)
        BY <1>d
    <2> QED
        BY <1>d, <2>1 DEF Tables
<1>1. ASSUME NEW s, Run(s) PROVE Tables'
    <2>1. UNCHANGED <<tree, task, state, sync>> /\ DOMAIN order' = DOMAIN order
        BY <1>1 DEF Run
    <2> QED
        BY <2>1, <1>d
<1>2. CASE NextTask
    <2>1. UNCHANGED <<tree, state, sync, order>> /\ task' \in 1 .. MaxTasks
        BY <1>2, ExecutorAssumption DEF NextTask, Tables
    <2> QED
        BY <2>1 DEF Tables, Agents, Compounds, Leaves
<1>3. CASE Crash
    <2>1. UNCHANGED <<tree, task>> /\ DOMAIN sync' = DOMAIN sync /\ DOMAIN state' = DOMAIN state
          /\ DOMAIN order' = DOMAIN order
        BY <1>3 DEF Crash
    <2> QED
        BY <2>1, <1>d
<1>4. CASE ShortCircuit
    <2>1. UNCHANGED <<tree, task, sync, order>> /\ DOMAIN state' = DOMAIN state
        BY <1>4, <1>a, <1>b DEF ShortCircuit
    <2> QED
        BY <2>1, <1>d
<1>5. CASE EnterRaises
    BY <1>5, <1>a, <1>d DEF EnterRaises
<1>6. CASE Enter
    <2>1. UNCHANGED <<tree, task, sync, state>> /\ DOMAIN order' = DOMAIN order
        BY <1>6, <1>a DEF Enter
    <2> QED
        BY <2>1, <1>d
<1>7. ASSUME NEW ok \in BOOLEAN, Gather(ok) PROVE Tables'
    BY <1>7, <1>a, <1>d DEF Gather
<1>8. CASE OverBudget
    BY <1>8, <1>a, <1>d DEF OverBudget
<1>9. CASE MergedFails
    <2>1. UNCHANGED <<tree, task, sync, order>> /\ DOMAIN state' = DOMAIN state
        BY <1>9, <1>a, <1>b DEF MergedFails
    <2> QED
        BY <2>1, <1>d
<1>10. CASE Merge
    <2>1. PICK answer : MergedAnswers(answer)
        BY <1>10 DEF Merge
    <2>2. UNCHANGED <<tree, task, order>> /\ DOMAIN state' = DOMAIN state /\ DOMAIN sync' = DOMAIN sync
        BY <2>1, <1>a, <1>b, <1>c DEF MergedAnswers
    <2> QED
        BY <2>2, <1>d
<1>11. CASE Single
    <2>1. PICK ok, text : CallAgent(ok, text)
        BY <1>11 DEF Single
    <2>2. UNCHANGED <<tree, task, order>> /\ DOMAIN state' = DOMAIN state /\ DOMAIN sync' = DOMAIN sync
        BY <2>1, <1>b DEF CallAgent
    <2> QED
        BY <2>2, <1>d
<1>12. CASE RestoreAgent
    <2>1. UNCHANGED <<tree, task, order>> /\ DOMAIN state' = DOMAIN state /\ DOMAIN sync' = DOMAIN sync
        BY <1>12, <1>a, <1>b DEF RestoreAgent
    <2> QED
        BY <2>1, <1>d
<1>13. CASE SkipAgent
    <2>1. UNCHANGED <<tree, task, order>> /\ DOMAIN state' = DOMAIN state /\ DOMAIN sync' = DOMAIN sync
        BY <1>13, <1>a, <1>b DEF SkipAgent
    <2> QED
        BY <2>1, <1>d
<1>14. ASSUME NEW ok \in BOOLEAN, CallTool(ok) PROVE Tables'
    <2>1. UNCHANGED <<tree, task, order, state>> /\ DOMAIN sync' = DOMAIN sync
        BY <1>14, <1>a DEF CallTool
    <2> QED
        BY <2>1, <1>d
<1>15. CASE EnterChild
    <2>1. UNCHANGED <<tree, task, state, sync>> /\ DOMAIN order' = DOMAIN order
        BY <1>15, <1>a DEF EnterChild
    <2> QED
        BY <2>1, <1>d
<1>16. CASE PassToolChild
    BY <1>16, <1>a, <1>d DEF PassToolChild
<1>17. CASE FinishLeaves
    <2>1. UNCHANGED <<tree, task, order, state>> /\ DOMAIN sync' = DOMAIN sync
        BY <1>17, <1>a, <1>c DEF FinishLeaves
    <2> QED
        BY <2>1, <1>d
<1>18. CASE Batch
    <2>1. PICK ok, answer : BatchCall(ok, answer)
        BY <1>18 DEF Batch
    <2>2. UNCHANGED <<tree, task, order>> /\ DOMAIN state' = DOMAIN state /\ DOMAIN sync' = DOMAIN sync
        BY <2>1, <1>a, <1>b DEF BatchCall
    <2> QED
        BY <2>2, <1>d
<1>19. CASE BatchOverBudget
    BY <1>19, <1>a, <1>d DEF BatchOverBudget
<1>20. CASE FinishBatches
    <2>1. UNCHANGED <<tree, task, order, sync>> /\ DOMAIN state' = DOMAIN state
        BY <1>20, <1>a, <1>b DEF FinishBatches
    <2> QED
        BY <2>1, <1>d
<1>21. CASE UNCHANGED vars
    BY <1>21, <1>d DEF vars
<1> QED
    BY <1>1, <1>2, <1>3, <1>4, <1>5, <1>6, <1>7, <1>8, <1>9, <1>10, <1>11, <1>12, <1>13, <1>14,
       <1>15, <1>16, <1>17, <1>18, <1>19, <1>20, <1>21 DEF Next

(* Only Run starts a run, and chooses its settings.                          *)
LEMMA OnlyRunStarts ==
    ASSUME [Next]_vars, ~(\E s \in tree.settings : Run(s))
    PROVE  UNCHANGED <<set, tree>> /\ (Running' => Running)
<1>1. CASE Running
    BY <1>1 DEF Next, vars, world, NextTask, Crash, ShortCircuit, EnterRaises, Enter, Gather,
                OverBudget, MergedFails, Merge, MergedAnswers, Single, CallAgent, RestoreAgent,
                SkipAgent, CallTool, EnterChild, PassToolChild, FinishLeaves, Batch, BatchCall,
                BatchOverBudget, FinishBatches
<1>2. CASE ~Running
    <2>1. NextTask \/ UNCHANGED vars
        BY <1>2 DEF Next, Crash, ShortCircuit, Entering, EnterRaises, Enter, Gather, Merging,
                    OverBudget, MergedFails, Merge, Single, AtLeaf, RestoreAgent,
                    SkipAgent, CallTool, EnterChild, PassToolChild, FinishLeaves, Batch, Batching,
                    BatchOverBudget, FinishBatches
    <2> QED
        BY <1>2, <2>1 DEF NextTask, vars, Running
<1> QED
    BY <1>1, <1>2

LEMMA OneCall ==
    ASSUME CallsNest, Running, set.level \in {"FINE", "ITERATION"}
    PROVE  /\ Len(stack) = 1 /\ Active = {Top} /\ IsFrame(Top)
           /\ Top.path = IF set.level = "FINE" THEN "fine" ELSE "batches"
<1>1. Len(stack) = 1 /\ DOMAIN stack = 1 .. Len(stack) /\ Top \in Active
    BY StackShape DEF CallsNest
<1>2. Active = {Top}
    BY <1>1 DEF Active, Range, Top
<1> QED
    BY <1>1, <1>2 DEF CallsNest, PathsOf

(* At FINE, an agent's output is added, or a tool chain makes a step.        *)
FineAgent(text) ==
    LET leaf == Head(Top.todo)
    IN  /\ Top.todo # <<>> /\ tree.kind[leaf] = "agent"
        /\ GoesOn(Top, Top', Tail(Top.todo), With(Top.acc, leaf, text),
                  Top.gathered, Top.inner, Top.step, Top.context)
        /\ UNCHANGED <<memory, file>> \/ (set.saves /\ Save(With(Top.acc, leaf, text)))

FineTool ==
    LET leaf  == Head(Top.todo)
        steps == tree.chain[leaf]
        i     == Top.step + 1
    IN  /\ Top.todo # <<>> /\ tree.kind[leaf] = "tool" /\ Fed(Top.context, steps, i)
        /\ UNCHANGED <<memory, file>>
        /\ \/ /\ i < Len(steps)
              /\ GoesOn(Top, Top', Top.todo, Top.acc, Top.gathered, Top.inner,
                        i, Kept(Top.context, steps, i))
           \/ /\ ~(i < Len(steps))
              /\ GoesOn(Top, Top', Tail(Top.todo), With(Top.acc, leaf, ToolText(leaf)),
                        Top.gathered, Top.inner, 0, << >>)

\* The texts written in this task, or restored.
FineText(text) ==
    \/ text \in {NoText, Section(Head(Top.todo))}
    \/ Head(Top.todo) \in DOMAIN Top.acc /\ text = Top.acc[Head(Top.todo)]

LEMMA FineSteps ==
    ASSUME CallsNest, Running, set.level = "FINE", [Next]_vars, Running'
    PROVE  /\ UNCHANGED <<tree, order, set, task, result>>
           /\ \/ Top' = Top /\ UNCHANGED <<memory, file>>
              \/ \E text : FineAgent(text) /\ FineText(text)
              \/ FineTool
<1>1. Len(stack) = 1 /\ Active = {Top} /\ IsFrame(Top) /\ Top.path = "fine" /\ stack \in Seq(Active)
    BY OneCall DEF CallsNest
<1>a. Raise => ~Running'
    BY DEF Raise, Running
<1>b. ASSUME NEW outputs, NEW final, Return(outputs, final) PROVE ~Running'
    BY <1>1, <1>b DEF Return, Running
<1>c. ASSUME NEW leaf, NEW text, Proceed(leaf, text)
      PROVE  GoesOn(Top, Top', Tail(Top.todo), With(Top.acc, leaf, text),
                    Top.gathered, Top.inner, Top.step, Top.context)
    <2>1. PICK f : /\ Becomes(f)
                   /\ GoesOn(Top, f, Tail(Top.todo), With(Top.acc, leaf, text),
                             Top.gathered, Top.inner, Top.step, Top.context)
        BY <1>c, Proceeding
    <2> QED
        BY <1>1, <2>1, Becoming
<1>2. \/ UNCHANGED vars \/ Single \/ RestoreAgent \/ SkipAgent
      \/ (\E ok \in BOOLEAN : CallTool(ok)) \/ FinishLeaves
    <2>1. ~(\E s \in tree.settings : Run(s)) /\ ~NextTask /\ ~Crash
        BY DEF CallsNest, Run, NextTask, Crash, Running
    <2>2. /\ ~ShortCircuit /\ ~EnterRaises /\ ~Enter /\ ~(\E ok \in BOOLEAN : Gather(ok))
          /\ ~OverBudget /\ ~MergedFails /\ ~Merge /\ ~EnterChild /\ ~PassToolChild
          /\ ~Batch /\ ~BatchOverBudget /\ ~FinishBatches
        BY <1>1 DEF ShortCircuit, Entering, EnterRaises, Enter, Gather, Merging, OverBudget,
                    MergedFails, Merge, AtLeaf, EnterChild, PassToolChild, Batch, Batching,
                    BatchOverBudget, FinishBatches
    <2> QED
        BY <2>1, <2>2 DEF Next
<1>3. CASE UNCHANGED vars
    BY <1>3 DEF vars, Top
<1>4. CASE Single
    <2>1. PICK ok, text : CallAgent(ok, text) /\ (~ok \/ text \in {NoText, Section(Head(Top.todo))})
        BY <1>4 DEF Single
    <2>2. /\ ok /\ UNCHANGED <<tree, order, set, task, result>> /\ Top.todo # <<>>
          /\ tree.kind[Head(Top.todo)] = "agent" /\ Proceed(Head(Top.todo), text)
          /\ UNCHANGED <<memory, file>> \/ (set.saves /\ Save(With(Top.acc, Head(Top.todo), text)))
        BY <2>1, <1>a DEF CallAgent, AtLeaf
    <2> QED
        BY <2>1, <2>2, <1>c DEF FineAgent, FineText
<1>5. CASE RestoreAgent
    <2>1. /\ UNCHANGED <<tree, order, set, task, result, memory, file>> /\ Top.todo # <<>>
          /\ tree.kind[Head(Top.todo)] = "agent" /\ Proceed(Head(Top.todo), Top.acc[Head(Top.todo)])
          /\ Head(Top.todo) \in DOMAIN Top.acc
        BY <1>5 DEF RestoreAgent, AtLeaf, world
    <2> QED
        BY <2>1, <1>c DEF FineAgent, FineText
<1>6. CASE SkipAgent
    <2>1. /\ UNCHANGED <<tree, order, set, task, memory, file>> /\ Top.todo # <<>>
          /\ tree.kind[Head(Top.todo)] = "agent"
        BY <1>6 DEF SkipAgent, AtLeaf, world
    <2>2. Proceed(Head(Top.todo), NoText) /\ UNCHANGED result
        BY <1>6, <1>a DEF SkipAgent
    <2> QED
        BY <2>1, <2>2, <1>c DEF FineAgent, FineText
<1>7. ASSUME NEW ok \in BOOLEAN, CallTool(ok)
      PROVE  UNCHANGED <<tree, order, set, task, result>> /\ FineTool
    <2>1. /\ UNCHANGED <<tree, order, set, task, memory, file>> /\ Top.todo # <<>>
          /\ tree.kind[Head(Top.todo)] = "tool"
        BY <1>7 DEF CallTool, AtLeaf, world
    <2>2. ok /\ Fed(Top.context, tree.chain[Head(Top.todo)], Top.step + 1)
        BY <1>7, <1>a DEF CallTool
    <2>3. CallTool(TRUE)
        BY <1>7, <2>2
    <2> DEFINE leaf  == Head(Top.todo)
               steps == tree.chain[leaf]
               i     == Top.step + 1
    <2>4. \/ i < Len(steps) /\ \E f : /\ Becomes(f)
                                      /\ GoesOn(Top, f, Top.todo, Top.acc, Top.gathered, Top.inner,
                                                i, Kept(Top.context, steps, i))
          \/ ~(i < Len(steps)) /\
             \E f : /\ Becomes(f)
                    /\ GoesOn(Top, f, Tail(Top.todo), With(Top.acc, leaf, ToolText(leaf)),
                              Top.gathered, Top.inner, 0, << >>)
        BY <2>2, <2>3, ToolStepping
    <2>5. UNCHANGED result
        BY <2>2, <2>3, ToolStepping
    <2>6. \A f : Becomes(f) => Top' = f
        BY <1>1, Becoming
    <2> QED
        BY <2>1, <2>2, <2>4, <2>5, <2>6 DEF FineTool
<1>8. CASE FinishLeaves
    <2>1. \E outputs, final : Return(outputs, final)
        BY <1>8 DEF FinishLeaves
    <2> QED
        BY <2>1, <1>b
<1> QED
    BY <1>2, <1>3, <1>4, <1>5, <1>6, <1>7, <1>8

-----------------------------------------------------------------------------
(* The order of a compound: its own leaves, each after those it waits for.   *)

LEMMA OrderIsSorted ==
    ASSUME NEW t \in Trees, NEW c \in Compounds(t)
    PROVE  LET ord == ComputeOrder(t, c)
           IN  /\ ord \in Seq(Range(ord)) /\ IsInjective(ord)
               /\ Range(ord) = {n \in Range(t.children[c]) : t.kind[n] # "compound"}
               /\ Range(ord) \subseteq DOMAIN t.kind \ {t.root}
               /\ \A i \in 1 .. Len(ord) : DepsOf(t.edges[c], ord[i]) \cap Range(ord)
                                               \subseteq {ord[j] : j \in 1 .. i - 1}
<1> DEFINE leaves == Keep(t.children[c], {n \in DOMAIN t.kind : t.kind[n] # "compound"})
           ord    == KahnOrder(leaves, t.edges[c])
           A      == DOMAIN t.kind \ {t.root}
<1>1. t.children[c] \in Seq(A) /\ IsInjective(t.children[c]) /\ ComputeOrder(t, c) # None
    BY TreesAssumption
<1>2. ComputeOrder(t, c) = ord /\ Len(ord) = Len(leaves)
    BY <1>1 DEF ComputeOrder
<1>3. /\ leaves \in Seq(A) /\ IsInjective(leaves)
      /\ \A x : x \in Range(leaves) <=>
                    x \in Range(t.children[c]) /\ x \in {n \in DOMAIN t.kind : t.kind[n] # "compound"}
    BY <1>1, KeepProperties
<1>4. Range(t.children[c]) \subseteq A
    BY <1>1, RangeOfSeq
<1> HIDE DEF leaves
<1>5. /\ ord \in Seq(Range(leaves)) /\ IsInjective(ord)
      /\ Range(ord) = Range(leaves)
      /\ \A i \in 1 .. Len(ord) :
             Waiting(leaves, t.edges[c], ord[i]) \subseteq {ord[j] : j \in 1 .. i - 1}
    BY <1>2, <1>3, KahnOrderIsSorted
<1> HIDE DEF ord
<1>6. Range(ord) = {n \in Range(t.children[c]) : t.kind[n] # "compound"}
    BY <1>3, <1>4, <1>5
<1>7. \A i \in 1 .. Len(ord) : DepsOf(t.edges[c], ord[i]) \cap Range(ord)
                                   \subseteq {ord[j] : j \in 1 .. i - 1}
    BY <1>5 DEF Waiting
<1> QED
    BY <1>2, <1>4, <1>5, <1>6, <1>7

LEMMA FineOrder ==
    ASSUME CallsNest, Settled, Running, set.level = "FINE"
    PROVE  LET ord == ComputeOrder(tree, tree.root)
           IN  /\ ord \in Seq(Range(ord)) /\ IsInjective(ord) /\ Len(ord) \in Nat \ {0}
               /\ \A i \in 1 .. Len(ord) : ord[i] \in DOMAIN tree.kind /\ tree.kind[ord[i]] # "compound"
<1> DEFINE ord == ComputeOrder(tree, tree.root)
<1>1. tree \in Trees /\ tree.root \in Compounds(tree) /\ set \in tree.settings
    BY TreesAssumption DEF CallsNest, Settled
<1>2. ~(ToSet(tree.children[tree.root]) \subseteq Compounds(tree))
      /\ tree.children[tree.root] \in Seq(DOMAIN tree.kind \ {tree.root})
    BY <1>1, TreesAssumption
<1>3. /\ ord \in Seq(Range(ord)) /\ IsInjective(ord)
      /\ Range(ord) = {n \in Range(tree.children[tree.root]) : tree.kind[n] # "compound"}
      /\ Range(ord) \subseteq DOMAIN tree.kind
    BY <1>1, OrderIsSorted
<1> HIDE DEF ord
<1>4. Range(tree.children[tree.root]) \subseteq DOMAIN tree.kind
    BY <1>2, RangeOfSeq
<1>5. Range(ord) # {}
    BY <1>2, <1>3, <1>4, ToSetIsRange DEF Compounds
<1>6. Len(ord) \in Nat /\ DOMAIN ord = 1 .. Len(ord) /\ \A i \in 1 .. Len(ord) : ord[i] \in Range(ord)
    BY <1>3, LenProperties, ElementOfSeq
<1>7. Len(ord) # 0
    BY <1>5, <1>6 DEF Range
<1> QED
    BY <1>3, <1>6, <1>7 DEF ord

LEMMA SettledStarts == Init => Settled
<1> SUFFICES ASSUME Init PROVE Settled
    OBVIOUS
<1>1. tree \in {t \in Trees : \A n \in DOMAIN t.chain : Valid(t.chain[n])} /\ ~Running
    BY DEF Init, Running
<1> QED
    BY <1>1 DEF Settled

LEMMA SettledStays == CallsNest /\ Settled /\ [Next]_vars => Settled'
<1> SUFFICES ASSUME CallsNest, Settled, [Next]_vars PROVE Settled'
    OBVIOUS
<1>1. CASE \E s \in tree.settings : Run(s)
    <2>1. \E s \in tree.settings : set' = s /\ UNCHANGED tree
        BY <1>1, RunBegins
    <2> QED
        BY <2>1 DEF Settled, Valid
<1>2. CASE ~(\E s \in tree.settings : Run(s))
    <2>1. UNCHANGED <<set, tree>> /\ (Running' => Running)
        BY <1>2, OnlyRunStarts
    <2> QED
        BY <2>1 DEF Settled, Valid
<1> QED
    BY <1>1, <1>2

(* The head and tail of the rest of an order.                                *)
LEMMA RestOfOrder ==
    ASSUME NEW ord, ord \in Seq(Range(ord)), NEW k \in 0 .. Len(ord), NEW todo,
           todo = SubSeq(ord, k + 1, Len(ord)), todo # <<>>
    PROVE  /\ Len(ord) \in Nat /\ k < Len(ord) /\ k + 1 \in 1 .. Len(ord)
           /\ Head(todo) = ord[k + 1] /\ Tail(todo) = SubSeq(ord, (k + 1) + 1, Len(ord))
<1>1. Len(ord) \in Nat
    BY LenProperties
<1>2. /\ todo \in Seq(Range(ord)) /\ Len(todo) = Len(ord) - k
      /\ \A i \in 1 .. Len(ord) - k : todo[i] = ord[k + i]
    BY <1>1, SubSeqProperties
<1>3. k < Len(ord)
    BY <1>1, <1>2, EmptySeq
<1>4. Head(todo) = ord[k + 1]
    BY <1>2, <1>3, HeadTailProperties
<1>5. Tail(todo) = SubSeq(ord, k + 2, Len(ord))
    <2> DEFINE t == Tail(todo)
               u == SubSeq(ord, k + 2, Len(ord))
    <2>1. /\ t \in Seq(Range(ord)) /\ Len(t) = Len(ord) - k - 1
          /\ \A i \in 1 .. Len(ord) - k - 1 : t[i] = todo[i + 1]
        BY <1>1, <1>2, <1>3, HeadTailProperties
    <2>2. /\ u \in Seq(Range(ord)) /\ Len(u) = Len(ord) - k - 1
          /\ \A i \in 1 .. Len(ord) - k - 1 : u[i] = ord[k + 1 + i]
        BY <1>1, <1>3, SubSeqProperties
    <2> HIDE DEF t, u
    <2>3. \A i \in 1 .. Len(t) : t[i] = u[i]
        <3> SUFFICES ASSUME NEW i \in 1 .. Len(t) PROVE t[i] = u[i]
            OBVIOUS
        <3>1. k \in Int /\ i \in Int /\ i \in 1 .. Len(ord) - k - 1 /\ i + 1 \in 1 .. Len(ord) - k
              /\ k + (i + 1) = k + 1 + i
            BY <1>1, <2>1
        <3>2. t[i] = todo[i + 1] /\ u[i] = ord[k + 1 + i] /\ todo[i + 1] = ord[k + (i + 1)]
            BY <1>2, <2>1, <2>2, <3>1
        <3> QED
            BY <3>1, <3>2
    <2> QED
        BY <2>1, <2>2, <2>3, SeqEqual DEF t, u
<1> QED
    BY <1>1, <1>3, <1>4, <1>5

LEMMA EmptyRest ==
    ASSUME NEW ord, ord \in Seq(Range(ord)), NEW k \in 0 .. Len(ord),
           <<>> = SubSeq(ord, k + 1, Len(ord))
    PROVE  k = Len(ord)
<1>1. Len(ord) \in Nat
    BY LenProperties
<1> DEFINE rest == SubSeq(ord, k + 1, Len(ord))
<1>2. Len(rest) = Len(ord) - k
    BY <1>1, SubSeqProperties
<1>3. rest = <<>>
    OBVIOUS
<1> HIDE DEF rest
<1> QED
    BY <1>1, <1>2, <1>3, NothingYet

LEMMA Onward ==
    ASSUME NEW ord, ord \in Seq(Range(ord)), NEW todo, NEW acc, Done(ord, todo, acc), todo # <<>>
    PROVE  /\ \A new : DOMAIN acc \cup {Head(todo)} \subseteq DOMAIN new => Done(ord, Tail(todo), new)
           /\ \E i \in 1 .. Len(ord) : Head(todo) = ord[i] /\ \A j \in 1 .. i - 1 : ord[j] \in DOMAIN acc
<1>1. PICK k \in 0 .. Len(ord) : /\ todo = SubSeq(ord, k + 1, Len(ord))
                                 /\ \A j \in 1 .. k : ord[j] \in DOMAIN acc
    BY DEF Done
<1>2. /\ Len(ord) \in Nat /\ k < Len(ord) /\ k + 1 \in 1 .. Len(ord)
      /\ Head(todo) = ord[k + 1] /\ Tail(todo) = SubSeq(ord, (k + 1) + 1, Len(ord))
    <2>1. todo = SubSeq(ord, k + 1, Len(ord))
        BY <1>1
    <2> QED
        BY <2>1, RestOfOrder
<1>3. ASSUME NEW new, DOMAIN acc \cup {Head(todo)} \subseteq DOMAIN new
      PROVE  Done(ord, Tail(todo), new)
    <2>1. k + 1 \in 0 .. Len(ord) /\ \A j \in 1 .. k + 1 : ord[j] \in DOMAIN new
        BY <1>1, <1>2, <1>3
    <2> QED
        BY <1>2, <2>1 DEF Done
<1>4. (k + 1) - 1 = k
    BY <1>2
<1>5. \A j \in 1 .. (k + 1) - 1 : ord[j] \in DOMAIN acc
    BY <1>1, <1>4
<1> QED
    BY <1>2, <1>3, <1>5

-----------------------------------------------------------------------------
(* FINE: the leaves are called in order, each tool chain step by step.       *)

LEMMA AllOfAnOrder ==
    ASSUME NEW ord, ord \in Seq(Range(ord)), NEW acc
    PROVE  /\ Done(ord, ord, acc)
           /\ Done(ord, <<>>, acc) => \A j \in 1 .. Len(ord) : ord[j] \in DOMAIN acc
<1>1. Len(ord) \in Nat
    BY LenProperties
<1>2. SubSeq(ord, 0 + 1, Len(ord)) = ord
    <2> DEFINE t == SubSeq(ord, 1, Len(ord))
    <2>1. t \in Seq(Range(ord)) /\ Len(t) = Len(ord) /\ \A i \in 1 .. Len(ord) : t[i] = ord[i]
        BY <1>1, SubSeqProperties
    <2> HIDE DEF t
    <2>2. t = ord
        BY <2>1, SeqEqual
    <2> QED
        BY <2>2 DEF t
<1>3. 0 \in 0 .. Len(ord) /\ \A j \in 1 .. 0 : ord[j] \in DOMAIN acc
    BY <1>1
<1>4. Done(ord, ord, acc)
    BY <1>2, <1>3 DEF Done
<1>5. ASSUME Done(ord, <<>>, acc) PROVE \A j \in 1 .. Len(ord) : ord[j] \in DOMAIN acc
    <2>1. PICK k \in 0 .. Len(ord) : /\ <<>> = SubSeq(ord, k + 1, Len(ord))
                                     /\ \A j \in 1 .. k : ord[j] \in DOMAIN acc
        BY <1>5 DEF Done
    <2>4. k = Len(ord)
        BY <2>1, EmptyRest
    <2> QED
        BY <2>1, <2>4
<1> QED
    BY <1>4, <1>5

LEMMA FineStarts == Init => FineGoesOn /\ ContextKept /\ SavedIsKnown
<1> SUFFICES ASSUME Init PROVE FineGoesOn /\ ContextKept /\ SavedIsKnown
    OBVIOUS
<1>1. ~Running /\ memory = None /\ file = Missing
    BY DEF Init, Running
<1> QED
    BY <1>1 DEF FineGoesOn, ContextKept, SavedIsKnown

LEMMA FineStays == CallsNest /\ Settled /\ Tables /\ FineGoesOn /\ [Next]_vars => FineGoesOn'
<1> SUFFICES ASSUME CallsNest, Settled, Tables, FineGoesOn, [Next]_vars,
                    Running', set'.level = "FINE"
             PROVE  /\ Top'.node = tree'.root
                    /\ order'[tree'.root] = ComputeOrder(tree', tree'.root)
                    /\ Done(order'[tree'.root], Top'.todo, Top'.acc)
    BY DEF FineGoesOn
<1> DEFINE ord == ComputeOrder(tree, tree.root)
<1>0. CallsNest' /\ Settled'
    BY CallsGoOn, SettledStays
<1>1. CASE \E s \in tree.settings : Run(s)
    <2>1. PICK s \in tree.settings : Run(s)
        BY <1>1
    <2> DEFINE prior == IF s.saves THEN Restored ELSE NoOutputs
    <2>2. /\ s.level = "FINE" /\ UNCHANGED tree
          /\ Top' = Frame("fine", tree.root, ord, prior)
          /\ order' = [order EXCEPT ![tree.root] = ord]
        BY <2>1, RunBegins
    <2>3. tree \in Trees /\ tree.root \in Compounds(tree)
        BY TreesAssumption DEF CallsNest
    <2>4. order'[tree.root] = ord
        BY <2>2, <2>3 DEF Tables
    <2>5. Top'.node = tree.root /\ Top'.todo = ord /\ Top'.acc = prior
        BY <2>2, FrameIsFrame
    <2>6. ord \in Seq(Range(ord))
        BY <2>3, OrderIsSorted
    <2> HIDE DEF ord, prior
    <2>7. Done(ord, ord, Top'.acc)
        BY <2>6, AllOfAnOrder
    <2> QED
        BY <2>2, <2>4, <2>5, <2>7 DEF ord
<1>2. CASE ~(\E s \in tree.settings : Run(s))
    <2>1. Running /\ UNCHANGED <<set, tree>>
        BY <1>2, OnlyRunStarts
    <2>2. /\ Top.node = tree.root /\ order[tree.root] = ord
          /\ Done(ord, Top.todo, Top.acc)
        BY <2>1 DEF FineGoesOn
    <2>3. /\ UNCHANGED order
          /\ \/ Top' = Top \/ (\E text : FineAgent(text)) \/ FineTool
        BY <2>1, FineSteps
    <2>4. ord \in Seq(Range(ord))
        BY <2>1, FineOrder
    <2> HIDE DEF ord
    <2>5. CASE Top' = Top
        BY <2>1, <2>2, <2>3, <2>5 DEF ord
    <2>6. ASSUME NEW text, GoesOn(Top, Top', Tail(Top.todo), With(Top.acc, Head(Top.todo), text),
                                  Top'.gathered, Top'.inner, Top'.step, Top'.context),
                 Top.todo # <<>>
          PROVE  Top'.node = tree.root /\ Done(ord, Top'.todo, Top'.acc)
        <3>1. /\ Top'.node = Top.node /\ Top'.todo = Tail(Top.todo)
              /\ Top'.acc = With(Top.acc, Head(Top.todo), text)
            BY <2>6, GoneOn
        <3>2. DOMAIN With(Top.acc, Head(Top.todo), text) = DOMAIN Top.acc \cup {Head(Top.todo)}
            BY WithOne
        <3>3. \A new : DOMAIN Top.acc \cup {Head(Top.todo)} \subseteq DOMAIN new
                           => Done(ord, Tail(Top.todo), new)
            BY <2>2, <2>4, <2>6, Onward
        <3>4. Done(ord, Tail(Top.todo), With(Top.acc, Head(Top.todo), text))
            BY <3>2, <3>3
        <3> QED
            BY <2>2, <3>1, <3>4
    <2>7. CASE \E text : FineAgent(text)
        <3>1. PICK text : FineAgent(text)
            BY <2>7
        <3>2. /\ Top.todo # <<>>
              /\ GoesOn(Top, Top', Tail(Top.todo), With(Top.acc, Head(Top.todo), text),
                        Top.gathered, Top.inner, Top.step, Top.context)
            BY <3>1 DEF FineAgent
        <3>3. /\ Top.gathered = Top'.gathered /\ Top.inner = Top'.inner /\ Top.step = Top'.step
              /\ Top.context = Top'.context
            BY <3>2, GoneOn
        <3>4. Top'.node = tree.root /\ Done(ord, Top'.todo, Top'.acc)
            BY <2>6, <3>2, <3>3
        <3> QED
            BY <2>1, <2>2, <2>3, <3>4 DEF ord
    <2>8. CASE FineTool
        <3>1. Top.todo # <<>>
            BY <2>8 DEF FineTool
        <3> DEFINE steps == tree.chain[Head(Top.todo)]
                   i     == Top.step + 1
        <3>2. CASE GoesOn(Top, Top', Top.todo, Top.acc, Top.gathered, Top.inner,
                          i, Kept(Top.context, steps, i))
            <4>1. Top'.node = Top.node /\ Top'.todo = Top.todo /\ Top'.acc = Top.acc
                BY <3>2, GoneOn
            <4> QED
                BY <2>1, <2>2, <2>3, <4>1 DEF ord
        <3>3. CASE GoesOn(Top, Top', Tail(Top.todo),
                          With(Top.acc, Head(Top.todo), ToolText(Head(Top.todo))),
                          Top.gathered, Top.inner, 0, << >>)
            <4>1. Top.gathered = Top'.gathered /\ Top.inner = Top'.inner /\ 0 = Top'.step
                  /\ << >> = Top'.context
                BY <3>3, GoneOn
            <4>2. Top'.node = tree.root /\ Done(ord, Top'.todo, Top'.acc)
                BY <2>6, <3>1, <3>3, <4>1
            <4> QED
                BY <2>1, <2>2, <2>3, <4>2 DEF ord
        <3> QED
            BY <2>8, <3>2, <3>3 DEF FineTool
    <2> QED
        BY <2>3, <2>5, <2>7, <2>8
<1> QED
    BY <1>1, <1>2

LEMMA ContextStays == CallsNest /\ Settled /\ FineGoesOn /\ ContextKept /\ [Next]_vars => ContextKept'
<1> SUFFICES ASSUME CallsNest, Settled, FineGoesOn, ContextKept, [Next]_vars,
                    Running', set'.level = "FINE"
             PROVE  ContextKept'
    BY DEF ContextKept
<1>1. CASE \E s \in tree.settings : Run(s)
    <2>1. PICK s \in tree.settings : Run(s)
        BY <1>1
    <2>2. s.level = "FINE" /\ \E node, todo, prior : Top' = Frame("fine", node, todo, prior)
        BY <2>1, RunBegins
    <2>3. Top'.step = 0 /\ DOMAIN Top'.context = {}
        BY <2>2, FrameIsFrame
    <2> QED
        BY <2>3 DEF ContextKept
<1>2. CASE ~(\E s \in tree.settings : Run(s))
    <2>1. Running /\ UNCHANGED <<set, tree>>
        BY <1>2, OnlyRunStarts
    <2> DEFINE leaf  == Head(Top.todo)
               steps == tree.chain[leaf]
               i     == Top.step + 1
    <2>2. Top' = Top \/ (\E text : FineAgent(text)) \/ FineTool
        BY <2>1, FineSteps
    <2>3. CASE Top' = Top
        BY <2>1, <2>3 DEF ContextKept
    <2>4. CASE \E text : FineAgent(text)
        <3>1. PICK text : FineAgent(text)
            BY <2>4
        <3>2. /\ Top.todo # <<>> /\ tree.kind[leaf] = "agent"
              /\ GoesOn(Top, Top', Tail(Top.todo), With(Top.acc, leaf, text),
                        Top.gathered, Top.inner, Top.step, Top.context)
            BY <3>1 DEF FineAgent
        <3>3. Top'.step = Top.step /\ Top'.context = Top.context
            BY <3>2, GoneOn
        <3>4. Top.step = 0 /\ DOMAIN Top.context = {}
            BY <2>1, <3>2 DEF ContextKept
        <3> QED
            BY <3>3, <3>4 DEF ContextKept
    <2>5. CASE FineTool
        <3>1. Top.todo # <<>> /\ tree.kind[leaf] = "tool"
            BY <2>5 DEF FineTool
        <3>2. CASE /\ i < Len(steps)
                   /\ GoesOn(Top, Top', Top.todo, Top.acc, Top.gathered, Top.inner,
                             i, Kept(Top.context, steps, i))
            <4>1. Top'.todo = Top.todo /\ Top'.step = i /\ Top'.context = Kept(Top.context, steps, i)
                BY <3>2, GoneOn
            <4>2. /\ DOMAIN Top'.context = DOMAIN Top.context \cup {steps[i].output_key}
                  /\ Top'.context[steps[i].output_key] = i
                  /\ \A key \in DOMAIN Top.context :
                         key # steps[i].output_key => Top'.context[key] = Top.context[key]
                <5> DEFINE k == steps[i].output_key
                <5>1. Top'.context = With(Top.context, k, i)
                    BY <4>1 DEF Kept
                <5> HIDE DEF k, i
                <5>2. /\ DOMAIN Top'.context = DOMAIN Top.context \cup {k} /\ Top'.context[k] = i
                      /\ \A key \in DOMAIN Top.context : key # k => Top'.context[key] = Top.context[key]
                    BY <5>1 DEF With
                <5> QED
                    BY <5>2 DEF k
            <4>3. Len(steps) \in Nat
                <5>1. leaf \in DOMAIN tree.kind
                    <6> DEFINE ord == ComputeOrder(tree, tree.root)
                    <6>1. /\ ord \in Seq(Range(ord))
                          /\ \A j \in 1 .. Len(ord) : ord[j] \in DOMAIN tree.kind
                        BY <2>1, FineOrder
                    <6>2. Done(ord, Top.todo, Top.acc)
                        BY <2>1 DEF FineGoesOn
                    <6> HIDE DEF ord
                    <6> QED
                        BY <3>1, <6>1, <6>2, Onward
                <5>2. tree \in Trees /\ set \in tree.settings
                    BY <2>1 DEF CallsNest, Settled
                <5>3. leaf \in DOMAIN tree.chain
                    BY <2>1, <3>1, <5>1, <5>2, TreesAssumption
                <5>4. steps \in Seq(ToSet(steps))
                    BY <5>2, <5>3, TreesAssumption
                <5> HIDE DEF steps
                <5> QED
                    BY <5>4, LenProperties
            <4> HIDE DEF steps
            <4>4. CASE Top.step = 0 /\ DOMAIN Top.context = {}
                <5>1. i = 1 /\ i \in 1 .. Len(steps) - 1 /\ 1 .. i = {1}
                    BY <3>2, <4>3, <4>4
                <5>2. DOMAIN Top'.context = {steps[j].output_key : j \in 1 .. i}
                    BY <4>2, <4>4, <5>1
                <5>3. Follows(steps, i, Top'.context)
                    BY <4>2, <4>4, <5>1, <5>2 DEF Follows
                <5> HIDE DEF i
                <5> QED
                    BY <2>1, <3>1, <4>1, <5>3 DEF ContextKept, steps
            <4>5. CASE ~(Top.step = 0 /\ DOMAIN Top.context = {})
                <5>1. /\ Top.step \in 1 .. Len(steps) - 1
                      /\ DOMAIN Top.context = {steps[j].output_key : j \in 1 .. Top.step}
                      /\ \A key \in DOMAIN Top.context :
                             /\ Top.context[key] \in 1 .. Top.step
                             /\ steps[Top.context[key]].output_key = key
                             /\ \A j \in 1 .. Top.step :
                                    steps[j].output_key = key => j <= Top.context[key]
                    BY <2>1, <4>5 DEF ContextKept, Follows, steps
                <5>2. i \in 1 .. Len(steps) - 1 /\ 1 .. i = 1 .. Top.step \cup {i} /\ i > Top.step
                    BY <3>2, <4>3, <5>1
                <5>3. DOMAIN Top'.context = {steps[j].output_key : j \in 1 .. i}
                    BY <4>2, <5>1, <5>2
                <5>4. ASSUME NEW key \in DOMAIN Top'.context
                      PROVE  /\ Top'.context[key] \in 1 .. i
                             /\ steps[Top'.context[key]].output_key = key
                             /\ \A j \in 1 .. i :
                                    steps[j].output_key = key => j <= Top'.context[key]
                    <6>1. CASE key = steps[i].output_key
                        BY <4>2, <5>2, <6>1
                    <6>2. CASE key # steps[i].output_key
                        <7>1. key \in DOMAIN Top.context /\ Top'.context[key] = Top.context[key]
                            BY <4>2, <6>2
                        <7> QED
                            BY <5>1, <5>2, <6>2, <7>1
                    <6> QED
                        BY <6>1, <6>2
                <5>5. Follows(steps, i, Top'.context)
                    BY <5>2, <5>3, <5>4 DEF Follows
                <5> HIDE DEF i
                <5> QED
                    BY <2>1, <3>1, <4>1, <5>5 DEF ContextKept, steps
            <4> QED
                BY <4>4, <4>5
        <3>3. CASE GoesOn(Top, Top', Tail(Top.todo), With(Top.acc, leaf, ToolText(leaf)),
                          Top.gathered, Top.inner, 0, << >>)
            <4>1. Top'.step = 0 /\ Top'.context = << >>
                BY <3>3, GoneOn
            <4> QED
                BY <4>1 DEF ContextKept
        <3> QED
            BY <2>5, <3>2, <3>3 DEF FineTool
    <2> QED
        BY <2>2, <2>3, <2>4, <2>5
<1> QED
    BY <1>1, <1>2

(* What is given to a tool step.                                             *)
LEMMA ContextFeeds ==
    CallsNest /\ Settled /\ FineGoesOn /\ ContextKept => ToolStepsAreFed
<1> DEFINE leaf  == Head(Top.todo)
           steps == tree.chain[leaf]
           i     == Top.step + 1
           key   == steps[i].input_from
<1> SUFFICES ASSUME CallsNest, Settled, FineGoesOn, ContextKept, AtLeaf({"fine"}, "tool"), key # None
             PROVE  /\ key \in DOMAIN Top.context
                    /\ Top.context[key] = Max({j \in 1..(i - 1) : steps[j].output_key = key})
                    /\ SchemasMatch(steps) =>
                           /\ steps[i].input_keys \subseteq UNION {steps[j].fields : j \in 1..(i - 1)}
                           /\ i = 2 => steps[i].input_keys \subseteq Handed(Top.context, steps, i)
    BY DEF ToolStepsAreFed
<1>1. Running /\ Top.path = "fine" /\ Top.todo # <<>> /\ tree.kind[leaf] = "tool"
    BY DEF AtLeaf
<1>2. set.level = "FINE"
    <2>1. Top.path \in PathsOf(set.level)
        BY <1>1, StackShape DEF CallsNest
    <2> QED
        BY <1>1, <2>1 DEF PathsOf
<1>3. leaf \in DOMAIN tree.kind
    <2> DEFINE ord == ComputeOrder(tree, tree.root)
    <2>1. /\ ord \in Seq(Range(ord))
          /\ \A j \in 1 .. Len(ord) : ord[j] \in DOMAIN tree.kind
        BY <1>1, <1>2, FineOrder
    <2>2. Done(ord, Top.todo, Top.acc)
        BY <1>1, <1>2 DEF FineGoesOn
    <2> HIDE DEF ord
    <2> QED
        BY <1>1, <2>1, <2>2, Onward
<1>4. leaf \in DOMAIN tree.chain /\ steps \in Seq(ToSet(steps)) /\ Valid(steps)
    <2>1. tree \in Trees /\ set \in tree.settings
        BY <1>1 DEF CallsNest, Settled
    <2>2. leaf \in DOMAIN tree.chain
        BY <1>1, <1>2, <1>3, <2>1, TreesAssumption
    <2> QED
        BY <2>1, <2>2, TreesAssumption DEF Settled
<1> HIDE DEF leaf, steps
<1>5. Len(steps) \in Nat \ {0} /\ DOMAIN steps = 1 .. Len(steps)
    BY <1>4, LenProperties, EmptySeq DEF Valid
<1>6. /\ Top.step \in 0 .. Len(steps) - 1
      /\ DOMAIN Top.context = {steps[j].output_key : j \in 1 .. Top.step}
      /\ \A k \in DOMAIN Top.context :
             /\ Top.context[k] \in 1 .. Top.step
             /\ steps[Top.context[k]].output_key = k
             /\ \A j \in 1 .. Top.step : steps[j].output_key = k => j <= Top.context[k]
    <2>1. (Top.step = 0 /\ DOMAIN Top.context = {}) \/ Follows(steps, Top.step, Top.context)
        BY <1>1, <1>2 DEF ContextKept, leaf, steps
    <2>2. CASE Top.step = 0 /\ DOMAIN Top.context = {}
        BY <1>5, <2>2
    <2>3. CASE Follows(steps, Top.step, Top.context)
        BY <1>5, <2>3 DEF Follows
    <2> QED
        BY <2>1, <2>2, <2>3
<1>7. i \in DOMAIN steps /\ i - 1 = Top.step
    BY <1>5, <1>6
<1>8. PICK j \in 1 .. (i - 1) : steps[j].output_key = key
    BY <1>4, <1>7 DEF Valid
<1>9. key \in DOMAIN Top.context
    BY <1>6, <1>7, <1>8
<1> DEFINE writers == {k \in 1..(i - 1) : steps[k].output_key = key}
<1>10. Top.context[key] \in writers /\ \A k \in writers : k <= Top.context[key] /\ k \in Nat
    <2>1. /\ Top.context[key] \in 1 .. Top.step
          /\ steps[Top.context[key]].output_key = key
          /\ \A m \in 1 .. Top.step : steps[m].output_key = key => m <= Top.context[key]
        BY <1>6, <1>9
    <2> QED
        BY <1>7, <2>1
<1>11. Top.context[key] = Max(writers)
    <2>1. \A m \in writers : (\A k \in writers : m >= k) <=> m = Top.context[key]
        BY <1>10
    <2> HIDE DEF writers
    <2> QED
        BY <1>10, <2>1 DEF Max
<1>12. ASSUME SchemasMatch(steps)
       PROVE  steps[i].input_keys \subseteq UNION {steps[k].fields : k \in 1..(i - 1)}
    <2>1. steps[i].input_keys \subseteq
              steps[Min(writers)].fields \cup UNION {steps[k].fields : k \in 1..(i - 1)}
        BY <1>7, <1>12 DEF SchemasMatch
    <2>2. Min(writers) \in writers
        <3>1. writers \in SUBSET Nat /\ writers # {}
            BY <1>10
        <3> HIDE DEF writers
        <3>2. PICK m \in writers : \A k \in writers : m <= k
            BY <3>1, LeastNumber
        <3> QED
            BY <3>2 DEF Min
    <2> QED
        BY <2>1, <2>2
<1>13. ASSUME SchemasMatch(steps), i = 2
       PROVE  steps[i].input_keys \subseteq Handed(Top.context, steps, i)
    <2>1. 1 .. (i - 1) = {1}
        BY <1>13
    <2>2. steps[i].input_keys \subseteq steps[1].fields
        BY <1>12, <1>13, <2>1
    <2>3. Top.context[key] = 1
        BY <1>10, <2>1
    <2> QED
        BY <2>2, <2>3 DEF Handed
<1> QED
    BY <1>9, <1>11, <1>12, <1>13

-----------------------------------------------------------------------------
(* The checkpoint: what it has, the run that saves has too.                  *)

LEMMA StoreStands ==
    ASSUME CallsNest, [Next]_vars, ~(\E s \in tree.settings : Run(s)),
           ~(Running /\ Running' /\ set.level = "FINE")
    PROVE  \/ UNCHANGED <<memory, file>>
           \/ NextTask
           \/ memory' = None /\ (file' = file \/ (file' = Corrupt /\ HasPath))
<1>a. world' = world => UNCHANGED <<memory, file>>
    BY DEF world
<1>1. CASE Crash
    BY <1>1 DEF Crash
<1>2. CASE Single
    <2>1. PICK ok, text : CallAgent(ok, text)
        BY <1>2 DEF Single
    <2>2. CASE ~ok
        BY <2>1, <2>2 DEF CallAgent
    <2>3. CASE ok
        <3>1. Running /\ Proceed(Head(Top.todo), text)
            BY <2>1, <2>3 DEF CallAgent, AtLeaf
        <3>2. Running'
            BY <3>1, Proceeding, Becoming DEF CallsNest
        <3>3. Top.path \in PathsOf(set.level)
            BY <3>1, StackShape DEF CallsNest
        <3>4. Top.path # "fine"
            BY <3>1, <3>2, <3>3 DEF PathsOf
        <3> QED
            BY <2>1, <2>3, <3>4 DEF CallAgent
    <2> QED
        BY <2>2, <2>3
<1>3. CASE \/ ShortCircuit \/ EnterRaises \/ Enter \/ OverBudget \/ MergedFails
           \/ Merge \/ EnterChild \/ PassToolChild \/ FinishLeaves \/ RestoreAgent \/ SkipAgent
    BY <1>3, <1>a DEF ShortCircuit, EnterRaises, Enter, OverBudget, MergedFails, Merge,
                      MergedAnswers, EnterChild, PassToolChild, FinishLeaves, RestoreAgent, SkipAgent
<1>4. CASE \/ \E ok \in BOOLEAN : Gather(ok) \/ CallTool(ok)
           \/ Batch \/ BatchOverBudget \/ FinishBatches \/ UNCHANGED vars
    BY <1>4, <1>a DEF Gather, CallTool, Batch, BatchCall, BatchOverBudget, FinishBatches, vars
<1> QED
    BY <1>1, <1>2, <1>3, <1>4 DEF Next

LEMMA SavedStays ==
    CallsNest /\ Settled /\ SavedIsKnown /\ [Next]_vars => SavedIsKnown'
<1> SUFFICES ASSUME CallsNest, Settled, SavedIsKnown, [Next]_vars PROVE SavedIsKnown'
    OBVIOUS
<1>1. CASE \E s \in tree.settings : Run(s)
    <2>1. PICK s \in tree.settings : Run(s)
        BY <1>1
    <2>2. set' = s /\ UNCHANGED file
        BY <2>1, RunBegins
    <2>3. memory' = memory \/ memory' = Load(memory, file)
        BY <2>1, RunBegins
    <2>4. ~HasPath => file' = Missing
        BY <2>2 DEF SavedIsKnown
    <2>5. memory' # None /\ Readable(file') => DOMAIN file' \subseteq DOMAIN memory'
        BY <2>2, <2>3 DEF SavedIsKnown, Load, Readable
    <2>6. ASSUME s.level = "FINE", s.saves, NEW outputs \in {memory', file'}, Readable(outputs)
          PROVE  DOMAIN outputs \subseteq DOMAIN Top'.acc
        <3>1. memory' = Load(memory, file)
              /\ \E node, todo : Top' = Frame("fine", node, todo, Restored)
            BY <2>1, <2>6, RunBegins
        <3>2. Top'.acc = Restored
            BY <3>1, FrameIsFrame
        <3>3. memory' # None => Top'.acc = memory'
            BY <3>1, <3>2 DEF Restored
        <3>4. CASE outputs = memory'
            BY <2>6, <3>3, <3>4 DEF Readable
        <3>5. CASE outputs = file'
            <4>1. memory' # None
                BY <2>2, <2>4, <2>6, <3>1, <3>5 DEF Load, Readable
            <4> QED
                BY <2>5, <2>6, <3>3, <3>5, <4>1
        <3> QED
            BY <2>6, <3>4, <3>5
    <2> QED
        BY <2>2, <2>4, <2>5, <2>6 DEF SavedIsKnown
<1>2. CASE ~(\E s \in tree.settings : Run(s)) /\ Running /\ Running' /\ set.level = "FINE"
    <2> DEFINE leaf == Head(Top.todo)
    <2>1. /\ UNCHANGED set
          /\ \/ Top' = Top /\ UNCHANGED <<memory, file>>
             \/ (\E text : FineAgent(text)) \/ FineTool
        BY <1>2, FineSteps
    <2>2. CASE Top' = Top /\ UNCHANGED <<memory, file>>
        BY <1>2, <2>1, <2>2 DEF SavedIsKnown, Readable
    <2>3. CASE FineTool
        <3>1. UNCHANGED <<memory, file>> /\ (Top'.acc = Top.acc \/ \E text : Top'.acc = With(Top.acc, leaf, text))
            BY <2>3, GoneOn DEF FineTool
        <3>2. DOMAIN Top.acc \subseteq DOMAIN Top'.acc
            BY <3>1 DEF With
        <3> QED
            BY <1>2, <2>1, <3>1, <3>2 DEF SavedIsKnown, Readable
    <2>4. ASSUME NEW text, FineAgent(text) PROVE SavedIsKnown'
        <3> DEFINE acc == With(Top.acc, leaf, text)
        <3>1. Top'.acc = acc /\ (UNCHANGED <<memory, file>> \/ (set.saves /\ Save(acc)))
            BY <2>4, GoneOn DEF FineAgent
        <3>2. DOMAIN Top.acc \subseteq DOMAIN acc
            BY DEF With
        <3> HIDE DEF acc
        <3>3. CASE UNCHANGED <<memory, file>>
            BY <1>2, <2>1, <3>1, <3>2, <3>3 DEF SavedIsKnown, Readable
        <3>4. CASE set.saves /\ Save(acc)
            <4>1. memory' = acc /\ file' \in {acc, file} /\ (~HasPath => file' = file)
                BY <3>4 DEF Save
            <4>2. Readable(file) => DOMAIN file \subseteq DOMAIN Top.acc
                BY <1>2, <3>4 DEF SavedIsKnown
            <4>3. Readable(file') => DOMAIN file' \subseteq DOMAIN acc
                BY <3>2, <4>1, <4>2
            <4> QED
                BY <2>1, <3>1, <4>1, <4>3 DEF SavedIsKnown, Readable
        <3> QED
            BY <3>1, <3>3, <3>4
    <2> QED
        BY <2>1, <2>2, <2>3, <2>4
<1>3. CASE ~(\E s \in tree.settings : Run(s)) /\ ~(Running /\ Running' /\ set.level = "FINE")
    <2>1. UNCHANGED set /\ (Running' => Running)
        BY <1>3, OnlyRunStarts
    <2>2. \/ UNCHANGED <<memory, file>>
          \/ NextTask
          \/ memory' = None /\ (file' = file \/ (file' = Corrupt /\ HasPath))
        BY <1>3, StoreStands
    <2> QED
        BY <1>3, <2>1, <2>2 DEF SavedIsKnown, Readable, NextTask, Clear
<1> QED
    BY <1>1, <1>2, <1>3

\* A leaf whose output is in the checkpoint is not called.
CallsNew ==
    call' # call /\ call' # None /\ call'.path = "fine" /\ set.saves
        => \A outputs \in {memory, file} \ {None, Missing, Corrupt} :
               call'.to[1] \notin DOMAIN outputs

LEMMA StepsCallNew == CallsNest /\ SavedIsKnown /\ [Next]_vars => CallsNew
<1> SUFFICES ASSUME CallsNest, SavedIsKnown, [Next]_vars,
                    call' # call, call' # None, call'.path = "fine", set.saves
             PROVE  \A outputs \in {memory, file} \ {None, Missing, Corrupt} :
                        call'.to[1] \notin DOMAIN outputs
    BY DEF CallsNew
<1>1. \A path, prompt : Given(path, prompt).path = path /\ Given(path, prompt).to = prompt.to
    BY DEF Given
<1>2. PICK ok, text : CallAgent(ok, text)
    <2>1. ~(\E s \in tree.settings : Run(s)) /\ ~NextTask /\ ~Crash
        BY RunBegins DEF NextTask, Crash
    <2>2. ~UNCHANGED call
        OBVIOUS
    <2>3. /\ ~ShortCircuit /\ ~EnterRaises /\ ~Enter /\ ~(\E ok \in BOOLEAN : Gather(ok))
          /\ ~OverBudget /\ ~EnterChild /\ ~PassToolChild
        BY <2>2 DEF ShortCircuit, EnterRaises, Enter, Gather, OverBudget, EnterChild, PassToolChild
    <2>4. /\ ~FinishLeaves /\ ~RestoreAgent /\ ~SkipAgent /\ ~(\E ok \in BOOLEAN : CallTool(ok))
          /\ ~BatchOverBudget /\ ~FinishBatches /\ ~UNCHANGED vars
        BY <2>2 DEF FinishLeaves, RestoreAgent, SkipAgent, CallTool,
                    BatchOverBudget, FinishBatches, vars
    <2>5. \A prompt : call' # Given("merged", prompt) /\ call' # Given("batches", prompt)
        <3> SUFFICES ASSUME NEW prompt PROVE call' # Given("merged", prompt) /\ call' # Given("batches", prompt)
            OBVIOUS
        <3>1. Given("merged", prompt).path = "merged" /\ Given("batches", prompt).path = "batches"
            BY <1>1
        <3> QED
            BY <3>1
    <2>6. ~MergedFails /\ ~Merge /\ ~Batch
        BY <2>5 DEF MergedFails, Merge, MergedAnswers, Batch, BatchCall
    <2>7. Single
        BY <2>1, <2>3, <2>4, <2>6 DEF Next
    <2> QED
        BY <2>7 DEF Single
<1> DEFINE leaf == Head(Top.todo)
<1>3. Running /\ Top.path = "fine" /\ leaf \notin DOMAIN Top.acc /\ call'.to[1] = leaf
    <2>1. Running /\ Callable(leaf) /\ call' = Given(Top.path, CompileSingle(leaf, Priors(leaf)))
        BY <1>2 DEF CallAgent, AtLeaf
    <2>2. Top.path = "fine"
        BY <1>1, <2>1
    <2>3. CompileSingle(leaf, Priors(leaf)).to = <<leaf>>
        BY DEF CompileSingle
    <2> HIDE DEF leaf
    <2>4. call'.to = <<leaf>>
        BY <1>1, <2>1, <2>3
    <2> QED
        BY <2>1, <2>2, <2>4 DEF Callable
<1>4. set.level = "FINE"
    <2>1. Top.path \in PathsOf(set.level)
        BY <1>3, StackShape DEF CallsNest
    <2> QED
        BY <1>3, <2>1 DEF PathsOf
<1> HIDE DEF leaf
<1> QED
    BY <1>3, <1>4 DEF SavedIsKnown, Readable

-----------------------------------------------------------------------------
(* What there is was written for the task that is being run.                 *)

LEMMA TextsAreOfTask ==
    /\ Written(NoText) /\ OfTask(NoOutputs)
    /\ \A n : Written(Section(n))
    /\ \A d, key, value : OfTask(d) /\ Written(value) => OfTask(With(d, key, value))
    /\ \A d, new : OfTask(d) /\ OfTask(new) => OfTask(Over(new, d))
    /\ \A outputs, key : OfTask(outputs) /\ key \in DOMAIN outputs => Written(outputs[key])
<1>1. Written(NoText) /\ OfTask(NoOutputs) /\ \A n : Written(Section(n))
    BY NothingYet DEF Written, OfTask, Section
<1>2. ASSUME NEW d, NEW key, NEW value, OfTask(d), Written(value) PROVE OfTask(With(d, key, value))
    BY <1>2 DEF OfTask, Written, With
<1>3. ASSUME NEW d, NEW new, OfTask(d), OfTask(new) PROVE OfTask(Over(new, d))
    BY <1>3 DEF OfTask, Over
<1>4. ASSUME NEW outputs, NEW key, OfTask(outputs), key \in DOMAIN outputs PROVE Written(outputs[key])
    BY <1>4 DEF OfTask, Written
<1> QED
    BY <1>1, <1>2, <1>3, <1>4

LEMMA AggregatedIsOfTask ==
    ASSUME NEW c, NEW ord, NEW outputs, NEW fallback, OfTask(outputs), Written(fallback)
    PROVE  Written(Aggregated(c, ord, outputs, fallback))
BY DEF Aggregated, OfTask, Written

(* The ways a step changes the stack keep the texts of this task.            *)
LEMMA MarkedAdvance ==
    ASSUME CallsNest, StackMarked, Running, UNCHANGED <<task, result>>,
           NEW f, Becomes(f), NEW todo, NEW acc, NEW gathered, NEW inner, NEW step, NEW context,
           GoesOn(Top, f, todo, acc, gathered, inner, step, context), OfTask(acc), Written(inner)
    PROVE  StackMarked'
<1>1. Active' \subseteq Active \cup {f} /\ Top \in Active
    BY Becoming, StackShape DEF CallsNest
<1>2. f.prior = Top.prior /\ f.acc = acc /\ f.inner = inner
    BY GoneOn
<1>3. \A g \in Active' : FrameMarked(g)
    BY <1>1, <1>2 DEF StackMarked, FrameMarked
<1> QED
    BY <1>3 DEF StackMarked, FrameMarked, OfTask, Written

LEMMA MarkedEnters ==
    ASSUME CallsNest, StackMarked, Running, UNCHANGED <<task, result>>,
           NEW path, NEW node, NEW todo, NEW prior, Becomes(Frame(path, node, todo, prior)),
           OfTask(prior)
    PROVE  StackMarked'
<1> DEFINE f == Frame(path, node, todo, prior)
<1>1. Active' \subseteq Active \cup {f}
    BY Becoming DEF CallsNest
<1>2. f.prior = prior /\ f.acc = prior /\ f.inner = NoText
    BY FrameIsFrame
<1> HIDE DEF f
<1>3. \A g \in Active' : FrameMarked(g)
    BY <1>1, <1>2, TextsAreOfTask DEF StackMarked, FrameMarked
<1> QED
    BY <1>3 DEF StackMarked, FrameMarked, OfTask, Written

LEMMA MarkedReturn ==
    ASSUME CallsNest, StackMarked, Running, UNCHANGED task, NEW outputs, NEW final,
           Return(outputs, final), OfTask(outputs), Written(final)
    PROVE  StackMarked'
<1>1. CASE Len(stack) = 1
    <2>1. /\ Active' = {}
          /\ result' = [status |-> "returned", outputs |-> outputs, final |-> final]
        BY <1>1, Returning DEF CallsNest
    <2>2. result'.outputs = outputs /\ result'.final = final
        BY <2>1
    <2> QED
        BY <2>1, <2>2 DEF StackMarked, OfTask, Written
<1>2. CASE Len(stack) # 1
    <2>1. PICK new : /\ GoesOn(Caller, new, Tail(Caller.todo), Over(outputs, Caller.acc),
                               Caller.gathered, final, Caller.step, Caller.context)
                     /\ Active' \subseteq Active \cup {new}
                     /\ Caller \in Active /\ result' = result
        BY <1>2, Returning DEF CallsNest
    <2>2. new.prior = Caller.prior /\ new.acc = Over(outputs, Caller.acc) /\ new.inner = final
        BY <2>1, GoneOn
    <2>3. FrameMarked(new)
        BY <2>1, <2>2, TextsAreOfTask DEF StackMarked, FrameMarked
    <2>4. \A g \in Active' : FrameMarked(g)
        BY <2>1, <2>3 DEF StackMarked
    <2> QED
        BY <2>1, <2>4 DEF StackMarked, FrameMarked, OfTask, Written
<1> QED
    BY <1>1, <1>2

LEMMA MarkedQuit ==
    ASSUME stack' = <<>>, NEW status, result' = Ended(status)
    PROVE  StackMarked'
<1>1. Active' = {}
    BY DEF Active, Range
<1>2. result'.outputs = NoOutputs /\ result'.final = NoText
    BY DEF Ended
<1> QED
    BY <1>1, <1>2, NothingYet DEF StackMarked, OfTask, Written

LEMMA RestoredIsOfTask == StoreMarked => OfTask(Restored)
BY NothingYet DEF StoreMarked, Restored, Load, OfTask

LEMMA MarkedStarts == Init => StackMarked /\ StoreMarked
<1> SUFFICES ASSUME Init PROVE StackMarked /\ StoreMarked
    OBVIOUS
<1>1. stack = <<>> /\ result = Ended("none") /\ memory = None /\ file = Missing
    BY DEF Init
<1>2. Active = {} /\ result.outputs = NoOutputs /\ result.final = NoText
    BY <1>1 DEF Active, Range, Ended
<1> QED
    BY <1>1, <1>2, TextsAreOfTask DEF StackMarked, StoreMarked

(* The batch that is called.                                                 *)
LEMMA BatchesAhead ==
    ASSUME CallsNest, BatchesGoOn, NEW ok, NEW answer, BatchCall(ok, answer)
    PROVE  LET batch == Head(Top.todo)
           IN  /\ Running /\ set.level = "ITERATION" /\ Top.todo # <<>>
               /\ Top.todo \in Seq(Range(Top.todo))
               /\ batch \in Range(Top.todo)
               /\ batch \in Seq(1 .. Len(tree.items)) /\ batch # <<>> /\ Len(batch) <= BatchSize
               /\ Tail(Top.todo) \in Seq(Range(Tail(Top.todo)))
               /\ Range(Top.todo) = {batch} \cup Range(Tail(Top.todo))
<1>1. Running /\ Top.path = "batches" /\ Top.todo # <<>>
    BY DEF BatchCall, Batching
<1>2. set.level = "ITERATION"
    <2>1. Top.path \in PathsOf(set.level)
        BY <1>1, StackShape DEF CallsNest
    <2> QED
        BY <1>1, <2>1 DEF PathsOf
<1>3. /\ Top.todo \in Seq(Range(Top.todo))
      /\ \A batch \in Range(Top.todo) :
             /\ batch \in Seq(1 .. Len(tree.items)) /\ batch # <<>>
             /\ Len(batch) <= BatchSize
    BY <1>1, <1>2 DEF BatchesGoOn
<1> DEFINE todo == Top.todo
<1> HIDE DEF todo
<1>4. todo \in Seq(Range(todo)) /\ todo # <<>>
    BY <1>1, <1>3 DEF todo
<1>5. /\ Head(todo) \in Range(todo) /\ Tail(todo) \in Seq(Range(todo))
      /\ Range(todo) = {Head(todo)} \cup Range(Tail(todo))
    BY <1>4, TakeFirstOf
<1>6. Tail(todo) \in Seq(Range(Tail(todo)))
    BY <1>5, SeqOfRange
<1> QED
    BY <1>1, <1>2, <1>3, <1>4, <1>5, <1>6 DEF todo

LEMMA MarkedStays ==
    CallsNest /\ Settled /\ FineGoesOn /\ BatchesGoOn /\ StackMarked /\ StoreMarked /\ [Next]_vars
        => StackMarked'
<1> SUFFICES ASSUME CallsNest, Settled, FineGoesOn, BatchesGoOn, StackMarked, StoreMarked, [Next]_vars
             PROVE  StackMarked'
    OBVIOUS
<1>a. Running => /\ Top \in Active /\ FrameMarked(Top) /\ Top.path \in PathsOf(set.level)
                 /\ OfTask(Top.prior) /\ OfTask(Top.acc) /\ Written(Top.inner)
    BY StackShape DEF CallsNest, StackMarked, FrameMarked
<1>b. ASSUME Raise PROVE StackMarked'
    BY <1>b, Raising, MarkedQuit
<1>c. world' = world => UNCHANGED task
    BY DEF world
<1>d. ASSUME Running, UNCHANGED <<task, result>>, NEW leaf, NEW text, Proceed(leaf, text), Written(text)
      PROVE  StackMarked'
    <2>1. PICK f : /\ Becomes(f)
                   /\ GoesOn(Top, f, Tail(Top.todo), With(Top.acc, leaf, text),
                             Top.gathered, Top.inner, Top.step, Top.context)
        BY <1>d, Proceeding
    <2>2. OfTask(With(Top.acc, leaf, text))
        BY <1>a, <1>d, TextsAreOfTask
    <2> QED
        BY <1>a, <1>d, <2>1, <2>2, MarkedAdvance
<1>1. ASSUME NEW s, Run(s) PROVE StackMarked'
    <2>1. Active' = {Top'} /\ UNCHANGED task /\ result' = Ended("open")
        BY <1>1, RunBegins
    <2>2. \E path, node, todo, prior : Top' = Frame(path, node, todo, prior) /\ OfTask(prior)
        BY <1>1, RunBegins, RestoredIsOfTask, TextsAreOfTask
    <2>3. OfTask(Top'.prior) /\ OfTask(Top'.acc) /\ Top'.inner = NoText
        BY <2>2, FrameIsFrame
    <2>4. result'.outputs = NoOutputs /\ result'.final = NoText
        BY <2>1 DEF Ended
    <2> QED
        BY <2>1, <2>3, <2>4, NothingYet DEF StackMarked, FrameMarked, OfTask, Written
<1>2. CASE NextTask
    <2>1. stack' = <<>> /\ result' = Ended("none")
        BY <1>2 DEF NextTask, CallsNest, Running
    <2> QED
        BY <2>1, MarkedQuit
<1>3. CASE Crash
    BY <1>3, MarkedQuit DEF Crash
<1>4. CASE ShortCircuit
    <2> DEFINE skipped == ToSet(Conditioned(Top.node))
               outputs == Over([a \in skipped |-> NoText], Top.prior)
               final   == Aggregated(Top.node, order[Top.node], outputs, NoText)
    <2>1. Running /\ UNCHANGED task /\ Return(outputs, final)
        BY <1>4, <1>c DEF ShortCircuit, Entering
    <2>2. OfTask([a \in skipped |-> NoText])
        BY NothingYet DEF OfTask
    <2> HIDE DEF skipped
    <2>3. OfTask(outputs)
        BY <1>a, <2>1, <2>2, TextsAreOfTask
    <2>4. Written(final)
        BY <2>3, AggregatedIsOfTask, TextsAreOfTask
    <2> HIDE DEF outputs, final
    <2> QED
        BY <2>1, <2>3, <2>4, MarkedReturn
<1>5. CASE EnterRaises
    BY <1>5, <1>b DEF EnterRaises
<1>6. CASE Enter
    <2>1. Running /\ UNCHANGED task
        BY <1>6, <1>c DEF Enter, Entering
    <2>2. \/ Raise
          \/ UNCHANGED result /\ \E path, todo : Becomes(Frame(path, Top.node, todo, Top.prior))
        BY <1>6 DEF Enter
    <2> QED
        BY <1>a, <1>b, <2>1, <2>2, MarkedEnters
<1>7. ASSUME NEW ok \in BOOLEAN, Gather(ok) PROVE StackMarked'
    <2>1. CASE ok
        <3>1. Gather(TRUE) /\ UNCHANGED task
            BY <1>7, <1>c, <2>1 DEF Gather
        <3> QED
            BY <1>a, <3>1, Gathering, MarkedAdvance
    <2>2. CASE ~ok
        BY <1>7, <1>b, <2>2 DEF Gather
    <2> QED
        BY <2>1, <2>2
<1>8. CASE OverBudget
    BY <1>8, <1>b DEF OverBudget
<1>9. CASE MergedFails
    BY <1>9, <1>b DEF MergedFails
<1>10. CASE Merge
    <2>1. PICK answer : MergedAnswers(answer)
        BY <1>10 DEF Merge
    <2> DEFINE ord  == order[Top.node]
               Text(heads) == UNION {Section(ord[i]) : i \in heads}
               outputs == [n \in ToSet(ord) |->
                              Text(Parsed(answer, CHOOSE i \in DOMAIN ord : ord[i] = n))]
               final == Aggregated(Top.node, ord, outputs, Text(ToSet(answer)))
    <2>2. Running /\ UNCHANGED task /\ Return(outputs, final)
        BY <2>1, <1>c DEF MergedAnswers, Merging
    <2>3. \A heads : Written(Text(heads))
        BY TextsAreOfTask DEF Written
    <2> HIDE DEF Text
    <2>4. OfTask(outputs)
        BY <2>3 DEF OfTask, Written
    <2>5. Written(final)
        BY <2>3, <2>4, AggregatedIsOfTask
    <2> HIDE DEF outputs, final
    <2> QED
        BY <2>2, <2>4, <2>5, MarkedReturn
<1>11. CASE Single
    <2>1. PICK ok, text : CallAgent(ok, text) /\ (~ok \/ text \in {NoText, Section(Head(Top.todo))})
        BY <1>11 DEF Single
    <2>2. Running /\ UNCHANGED task
        BY <2>1 DEF CallAgent, AtLeaf
    <2>3. Raise \/ (ok /\ UNCHANGED result /\ Proceed(Head(Top.todo), text))
        BY <2>1 DEF CallAgent
    <2>4. ok => Written(text)
        BY <2>1, TextsAreOfTask
    <2> QED
        BY <1>b, <1>d, <2>2, <2>3, <2>4
<1>12. CASE RestoreAgent
    <2>1. /\ Running /\ UNCHANGED <<result, task>> /\ Head(Top.todo) \in DOMAIN Top.acc
          /\ Proceed(Head(Top.todo), Top.acc[Head(Top.todo)])
        BY <1>12, <1>c DEF RestoreAgent, AtLeaf
    <2>2. Written(Top.acc[Head(Top.todo)])
        BY <1>a, <2>1, TextsAreOfTask
    <2> QED
        BY <1>d, <2>1, <2>2
<1>13. CASE SkipAgent
    <2>1. Running /\ UNCHANGED task
        BY <1>13, <1>c DEF SkipAgent, AtLeaf
    <2>2. Raise \/ (UNCHANGED result /\ Proceed(Head(Top.todo), NoText))
        BY <1>13 DEF SkipAgent
    <2> QED
        BY <1>b, <1>d, <2>1, <2>2, TextsAreOfTask
<1>14. ASSUME NEW ok \in BOOLEAN, CallTool(ok) PROVE StackMarked'
    <2>1. Running /\ UNCHANGED task
        BY <1>14, <1>c DEF CallTool, AtLeaf
    <2>2. CASE Raise
        BY <1>b, <2>2
    <2>3. CASE ~Raise
        <3>1. ok /\ Fed(Top.context, tree.chain[Head(Top.todo)], Top.step + 1)
            BY <1>14, <2>3 DEF CallTool
        <3>2. CallTool(TRUE)
            BY <1>14, <3>1
        <3>3. Written(ToolText(Head(Top.todo)))
            BY TextsAreOfTask DEF ToolText
        <3>4. OfTask(With(Top.acc, Head(Top.todo), ToolText(Head(Top.todo))))
            BY <1>a, <2>1, <3>3, TextsAreOfTask
        <3>5. UNCHANGED result /\ \E f, todo, acc, step, context :
                   /\ Becomes(f)
                   /\ GoesOn(Top, f, todo, acc, Top.gathered, Top.inner, step, context)
                   /\ acc = Top.acc \/ acc = With(Top.acc, Head(Top.todo), ToolText(Head(Top.todo)))
            BY <3>1, <3>2, ToolStepping
        <3> QED
            BY <1>a, <2>1, <3>4, <3>5, MarkedAdvance
    <2> QED
        BY <2>2, <2>3
<1>15. CASE EnterChild
    <2> DEFINE f == Frame("enter", Head(Top.todo), <<>>, Top.acc)
    <2>1. Running /\ UNCHANGED <<task, result>> /\ stack' = Append(stack, f)
        BY <1>15, <1>c DEF EnterChild, AtLeaf
    <2>2. f.prior = Top.acc /\ f.acc = Top.acc /\ f.inner = NoText
        BY FrameIsFrame
    <2> HIDE DEF f
    <2>3. stack \in Seq(Active \cup {f})
        BY SeqMonotonic DEF CallsNest
    <2>4. Active' \subseteq Active \cup {f}
        BY <2>1, <2>3, AppendProperties, RangeOfSeq DEF Active
    <2>5. FrameMarked(f)
        BY <1>a, <2>1, <2>2, TextsAreOfTask DEF FrameMarked
    <2>6. \A g \in Active' : FrameMarked(g)
        BY <2>4, <2>5 DEF StackMarked
    <2> QED
        BY <2>1, <2>6 DEF StackMarked, FrameMarked, OfTask, Written
<1>16. CASE PassToolChild
    <2>1. UNCHANGED <<task, result>>
        BY <1>16, <1>c DEF PassToolChild
    <2> QED
        BY <1>16, <1>a, <2>1, PassingTools, MarkedAdvance
<1>17. CASE FinishLeaves
    <2> DEFINE c    == Top.node
               ord  == OrderOf(c)
               last == ord[Len(ord)]
    <2>1. PICK final : /\ Return(Top.acc, final)
                       /\ \/ Top.path = "fine" /\ final = Aggregated(c, ord, Top.acc, Top.acc[last])
                          \/ final = Aggregated(c, ord, Top.acc, NoText)
                          \/ final = Top.inner
        BY <1>17 DEF FinishLeaves
    <2>2. Running /\ UNCHANGED task /\ Top.todo = <<>>
        BY <1>17, <1>c DEF FinishLeaves
    <2>3. ASSUME Top.path = "fine" PROVE Written(Top.acc[last])
        <3>1. set.level = "FINE"
            BY <1>a, <2>2, <2>3 DEF PathsOf
        <3> DEFINE o == ComputeOrder(tree, tree.root)
        <3>2. /\ c = tree.root /\ order[tree.root] = o /\ Done(o, <<>>, Top.acc)
            BY <2>2, <3>1 DEF FineGoesOn
        <3>3. tree \in Trees /\ tree.root \in Compounds(tree)
            BY TreesAssumption DEF CallsNest
        <3>4. o # None
            BY <3>3, TreesAssumption
        <3>5. ord = o
            BY <3>2, <3>4 DEF OrderOf
        <3>6. o \in Seq(Range(o)) /\ Len(o) \in Nat \ {0}
            BY <2>2, <3>1, FineOrder
        <3> HIDE DEF o
        <3>7. o[Len(o)] \in DOMAIN Top.acc
            BY <3>2, <3>6, AllOfAnOrder
        <3> QED
            BY <1>a, <2>2, <3>5, <3>7, TextsAreOfTask
    <2>4. Written(final)
        BY <1>a, <2>1, <2>2, <2>3, AggregatedIsOfTask, TextsAreOfTask
    <2> QED
        BY <1>a, <2>1, <2>2, <2>4, MarkedReturn
<1>18. CASE Batch
    <2>0. PICK ok \in BOOLEAN : \E answer : BatchCall(ok, answer)
        BY <1>18 DEF Batch
    <2>1. PICK answer : BatchCall(ok, answer)
        BY <2>0
    <2>2. UNCHANGED task
        BY <2>1, <1>c DEF BatchCall
    <2>3. CASE ok
        <3>1. BatchCall(TRUE, answer)
            BY <2>1, <2>3
        <3> DEFINE batch   == Head(Top.todo)
                   outputs == BatchOutputs(batch, answer)
                   inner   == outputs[ItemKeys[Len(batch)]]
        <3>2. /\ Running /\ UNCHANGED result /\ Top.todo # <<>>
              /\ \E f : /\ Becomes(f)
                        /\ GoesOn(Top, f, Tail(Top.todo), Over(outputs, Top.acc), Top.gathered,
                                  inner, Top.step, Top.context)
            BY <3>1, BatchAnswered
        <3>3. \A heads : Written(BatchText(batch, heads))
            BY TextsAreOfTask DEF Written, BatchText
        <3>4. OfTask(outputs)
            BY <3>3 DEF OfTask, Written, BatchOutputs
        <3>5. OfTask(Over(outputs, Top.acc))
            BY <1>a, <3>2, <3>4, TextsAreOfTask
        <3>6. Written(inner)
            <4>1. /\ set.level = "ITERATION" /\ batch \in Seq(1 .. Len(tree.items)) /\ batch # <<>>
                BY <3>1, BatchesAhead
            <4>2. Len(batch) \in DOMAIN batch
                BY <4>1, LenProperties, EmptySeq
            <4> HIDE DEF batch
            <4>3. ItemKeys[Len(batch)] \in DOMAIN outputs
                BY <4>2 DEF BatchOutputs
            <4> QED
                BY <3>4, <4>3, TextsAreOfTask
        <3> HIDE DEF outputs, inner
        <3> QED
            BY <1>a, <2>2, <3>2, <3>5, <3>6, MarkedAdvance
    <2>4. CASE ~ok
        BY <2>1, <2>4, <1>b DEF BatchCall
    <2> QED
        BY <2>3, <2>4
<1>19. CASE BatchOverBudget
    BY <1>19, <1>b DEF BatchOverBudget
<1>20. CASE FinishBatches
    <2>1. Running /\ UNCHANGED task /\ Return(Top.acc, Top.inner)
        BY <1>20, <1>c DEF FinishBatches, Batching
    <2> QED
        BY <1>a, <2>1, MarkedReturn
<1>21. CASE UNCHANGED vars
    BY <1>21 DEF vars, StackMarked, FrameMarked, OfTask, Written, Active
<1> QED
    BY <1>1, <1>2, <1>3, <1>4, <1>5, <1>6, <1>7, <1>8, <1>9, <1>10, <1>11, <1>12, <1>13, <1>14,
       <1>15, <1>16, <1>17, <1>18, <1>19, <1>20, <1>21 DEF Next

-----------------------------------------------------------------------------
(* An iteration stores a text for every item.                                *)

LEMMA AnswersWithin ==
    ASSUME NEW n \in Nat, NEW answer \in Answers(n), NEW i
    PROVE  Parsed(answer, i) \subseteq 1 .. n
<1> DEFINE All == [j \in 1 .. n |-> j]
<1>1. All \in Seq(1 .. n) /\ Len(All) = n
    OBVIOUS
<1>2. answer \in Seq(1 .. n)
    <2>1. CASE answer = All
        BY <1>1, <2>1
    <2>2. ASSUME NEW j \in 1 .. n, answer = RemoveAt(All, j) PROVE answer \in Seq(1 .. n)
        <3>1. SubSeq(All, 1, j - 1) \in Seq(1 .. n) /\ SubSeq(All, j + 1, Len(All)) \in Seq(1 .. n)
            BY <1>1, SubSeqProperties
        <3> HIDE DEF All
        <3> QED
            BY <2>2, <3>1, ConcatProperties DEF RemoveAt
    <2>3. ASSUME NEW j \in 1 .. (n - 1), answer = [All EXCEPT ![j] = j + 1, ![j + 1] = j]
          PROVE  answer \in Seq(1 .. n)
        <3>1. j \in 1 .. n /\ j + 1 \in 1 .. n
            OBVIOUS
        <3> DEFINE f == [All EXCEPT ![j] = j + 1]
        <3>2. f \in [1 .. n -> 1 .. n]
            BY <3>1
        <3>3. answer = [f EXCEPT ![j + 1] = j]
            BY <2>3
        <3> HIDE DEF f
        <3>4. answer \in [1 .. n -> 1 .. n]
            BY <3>1, <3>2, <3>3
        <3> QED
            BY <3>4
    <2> QED
        BY <2>1, <2>2, <2>3 DEF Answers
<1>3. \A q \in DOMAIN answer : answer[q] \in 1 .. n
    BY <1>2, LenProperties
<1>4. Parsed(answer, i) \subseteq {answer[q] : q \in DOMAIN answer}
    BY DEF Parsed, ToSet
<1> QED
    BY <1>3, <1>4

LEMMA BatchTexts ==
    ASSUME CallsNest, Tables, BatchesGoOn, NEW answer,
           BatchCall(TRUE, answer), answer \in Answers(Len(Head(Top.todo))),
           NEW k \in DOMAIN BatchOutputs(Head(Top.todo), answer)
    PROVE  /\ BatchOutputs(Head(Top.todo), answer)[k] # None
           /\ Written(BatchOutputs(Head(Top.todo), answer)[k])
<1> DEFINE batch == Head(Top.todo)
           heads == Parsed(answer, CHOOSE i \in DOMAIN batch : ItemKeys[i] = k)
           text  == BatchText(batch, heads)
<1>1. batch \in Seq(1 .. Len(tree.items))
    BY BatchesAhead
<1> HIDE DEF batch
<1>2. Len(batch) \in Nat /\ DOMAIN batch = 1 .. Len(batch)
      /\ \A i \in DOMAIN batch : batch[i] \in 1 .. Len(tree.items)
    BY <1>1, LenProperties
<1>3. heads \subseteq DOMAIN batch
    BY <1>2, AnswersWithin DEF batch
<1>4. BatchOutputs(Head(Top.todo), answer)[k] = text
    BY DEF BatchOutputs, batch
<1> HIDE DEF heads
<1>5. tree \in Trees /\ tree.items \in Seq(ToSet(tree.items))
    BY TreesAssumption DEF CallsNest
<1>6. \A i \in heads : Item(batch[i]) \in ToSet(tree.items)
    BY <1>2, <1>3, <1>5, ElementOfSeq DEF Item
<1>7. text \in SUBSET (ToSet(tree.items) \X (1 .. MaxTasks))
    BY <1>6 DEF BatchText, Section, Tables
<1>8. text # None
    BY <1>5, <1>7, TreesAssumption
<1>9. Written(text)
    BY DEF Written, BatchText, Section
<1> QED
    BY <1>4, <1>8, <1>9

LEMMA BatchesStart == Init => BatchesGoOn
<1> SUFFICES ASSUME Init PROVE BatchesGoOn
    OBVIOUS
<1>1. ~Running /\ result.status = "none"
    BY DEF Init, Running, Ended
<1> QED
    BY <1>1 DEF BatchesGoOn, Returned

LEMMA BatchesStay ==
    CallsNest /\ Tables /\ BatchesGoOn /\ [Next]_vars => BatchesGoOn'
<1> SUFFICES ASSUME CallsNest, Tables, BatchesGoOn, [Next]_vars PROVE BatchesGoOn'
    OBVIOUS
<1>a. ~((Running' \/ Returned') /\ set'.level = "ITERATION") => BatchesGoOn'
    BY DEF BatchesGoOn
<1>1. ASSUME NEW s \in tree.settings, Run(s) PROVE BatchesGoOn'
    <2>1. CASE s.level # "ITERATION"
        BY <1>1, <1>a, <2>1, RunBegins
    <2>2. CASE s.level = "ITERATION"
        <3> DEFINE n == Len(tree.items)
                   p == Partition(n, BatchSize)
        <3>1. Top' = Frame("batches", tree.root, p, NoOutputs) /\ UNCHANGED tree
            BY <1>1, <2>2, RunBegins
        <3>2. Top'.todo = p /\ Running'
            BY <1>1, <3>1, RunBegins, FrameIsFrame
        <3>3. tree.items \in Seq(ToSet(tree.items))
            BY TreesAssumption DEF CallsNest
        <3>4. n \in Nat /\ BatchSize \in Nat \ {0}
            BY <3>3, LenProperties, ExecutorAssumption
        <3>5. /\ p \in Seq(Range(p))
              /\ \A batch \in Range(p) : /\ batch \in Seq(1 .. n) /\ batch # <<>>
                                         /\ Len(batch) <= BatchSize
              /\ \A i \in 1 .. n : \E batch \in Range(p) : i \in Range(batch)
            BY <3>4, PartitionCovers
        <3> HIDE DEF p
        <3> QED
            BY <3>1, <3>2, <3>5 DEF BatchesGoOn
    <2> QED
        BY <2>1, <2>2
<1>2. CASE ~(\E s \in tree.settings : Run(s)) /\ ~Running
    <2>1. UNCHANGED <<set, tree>> /\ ~Running'
        BY <1>2, OnlyRunStarts
    <2>2. NextTask \/ UNCHANGED vars
        BY <1>2 DEF Next, Crash, ShortCircuit, Entering, EnterRaises, Enter, Gather, Merging,
                    OverBudget, MergedFails, Merge, Single, AtLeaf, RestoreAgent,
                    SkipAgent, CallTool, EnterChild, PassToolChild, FinishLeaves, Batch, Batching,
                    BatchOverBudget, FinishBatches
    <2>3. CASE NextTask
        <3>1. ~Returned'
            BY <2>3 DEF NextTask, Returned, Ended
        <3> QED
            BY <1>a, <2>1, <3>1
    <2>4. CASE UNCHANGED vars
        BY <1>2, <2>1, <2>4 DEF vars, BatchesGoOn, Returned, Stocked, Item, Written
    <2> QED
        BY <2>2, <2>3, <2>4
<1>3. CASE ~(\E s \in tree.settings : Run(s)) /\ Running /\ set.level # "ITERATION"
    BY <1>3, <1>a, OnlyRunStarts
<1>4. CASE ~(\E s \in tree.settings : Run(s)) /\ Running /\ set.level = "ITERATION"
    <2>1. UNCHANGED <<set, tree>> /\ Top.path = "batches" /\ Len(stack) = 1
        BY <1>4, OnlyRunStarts, OneCall
    <2>a. ASSUME stack' = <<>>, result'.status # "returned" PROVE BatchesGoOn'
        BY <1>a, <2>a DEF Running, Returned
    <2>b. Raise => BatchesGoOn'
        BY <2>a, Raising
    <2>2. Crash \/ Batch \/ BatchOverBudget \/ FinishBatches \/ UNCHANGED vars
        <3>1. ~NextTask
            BY <1>4 DEF CallsNest, NextTask
        <3>2. /\ ~ShortCircuit /\ ~EnterRaises /\ ~Enter /\ ~(\E ok \in BOOLEAN : Gather(ok))
              /\ ~OverBudget /\ ~MergedFails /\ ~Merge /\ ~EnterChild /\ ~PassToolChild
            BY <2>1 DEF ShortCircuit, Entering, EnterRaises, Enter, Gather, Merging, OverBudget,
                        MergedFails, Merge, AtLeaf, EnterChild, PassToolChild
        <3>3. ~Single /\ ~RestoreAgent /\ ~SkipAgent /\ ~(\E ok \in BOOLEAN : CallTool(ok)) /\ ~FinishLeaves
            BY <2>1 DEF Single, AtLeaf, RestoreAgent, SkipAgent, CallTool, FinishLeaves
        <3> QED
            BY <1>4, <3>1, <3>2, <3>3 DEF Next
    <2>3. CASE Crash
        BY <2>3, <2>a DEF Crash, Ended
    <2>4. CASE BatchOverBudget
        BY <2>4, <2>b DEF BatchOverBudget
    <2>5. CASE UNCHANGED vars
        BY <1>4, <2>1, <2>5 DEF vars, BatchesGoOn, Returned, Running, Stocked, Item, Written, Top
    <2>6. CASE FinishBatches
        <3>1. Top.todo = <<>> /\ UNCHANGED <<sync, task>> /\ Return(Top.acc, Top.inner)
            BY <2>6 DEF FinishBatches, world
        <3>2. ~Running'
            BY <1>4, <2>1, <3>1, Returning DEF CallsNest
        <3>3. Range(<<>>) = {}
            BY DEF Range
        <3>4. \A i \in 1 .. Len(tree.items) : Stocked(i)
            BY <1>4, <3>1, <3>3 DEF BatchesGoOn
        <3>5. \A i \in 1 .. Len(tree.items) : Stocked(i)'
            BY <2>1, <3>1, <3>4 DEF Stocked, Item, Written
        <3> QED
            BY <2>1, <3>2, <3>5 DEF BatchesGoOn
    <2>7. CASE Batch
        <3>1. \/ BatchCall(FALSE, <<>>)
              \/ \E answer \in Answers(Len(Head(Top.todo))) : BatchCall(TRUE, answer)
            BY <2>7 DEF Batch
        <3>2. CASE BatchCall(FALSE, <<>>)
            BY <3>2, <2>b DEF BatchCall
        <3>3. ASSUME NEW answer \in Answers(Len(Head(Top.todo))), BatchCall(TRUE, answer)
              PROVE  BatchesGoOn'
            <4> DEFINE batch   == Head(Top.todo)
                       outputs == BatchOutputs(batch, answer)
                       Holds(x) == x # None /\ Written(x)
            <4>1. /\ Running' /\ Top'.todo = Tail(Top.todo)
                  /\ sync' = [n \in DOMAIN sync |->
                              IF \E i \in DOMAIN batch : Item(batch[i]) = n
                              THEN outputs[ItemKeys[CHOOSE i \in DOMAIN batch : Item(batch[i]) = n]]
                              ELSE sync[n]]
                <5>1. \E f : /\ Becomes(f)
                             /\ GoesOn(Top, f, Tail(Top.todo), Over(outputs, Top.acc), Top.gathered,
                                       outputs[ItemKeys[Len(batch)]], Top.step, Top.context)
                    BY <3>3, BatchAnswered
                <5>2. Running' /\ Top'.todo = Tail(Top.todo)
                    BY <1>4, <5>1, Becoming, GoneOn DEF CallsNest
                <5> QED
                    BY <3>3, <5>2, BatchAnswered
            <4>2. /\ batch \in Seq(1 .. Len(tree.items))
                  /\ Tail(Top.todo) \in Seq(Range(Tail(Top.todo)))
                  /\ Range(Top.todo) = {batch} \cup Range(Tail(Top.todo))
                BY <3>3, BatchesAhead
            <4>3. \A k \in DOMAIN outputs : Holds(outputs[k])
                BY <3>3, BatchTexts
            <4>4. DOMAIN outputs = {ItemKeys[i] : i \in DOMAIN batch}
                BY DEF BatchOutputs
            <4>5. UNCHANGED task
                BY <3>3 DEF BatchCall, world
            <4> HIDE DEF outputs, batch
            <4>6. ASSUME NEW n \in DOMAIN sync, (\E i \in DOMAIN batch : Item(batch[i]) = n) \/ Holds(sync[n])
                  PROVE  Holds(sync'[n])
                <5>1. CASE \E i \in DOMAIN batch : Item(batch[i]) = n
                    <6> DEFINE j == CHOOSE i \in DOMAIN batch : Item(batch[i]) = n
                    <6>1. j \in DOMAIN batch
                        BY <5>1
                    <6>2. sync'[n] = outputs[ItemKeys[j]]
                        BY <4>1, <5>1
                    <6> HIDE DEF j
                    <6> QED
                        BY <4>3, <4>4, <6>1, <6>2
                <5>2. CASE ~(\E i \in DOMAIN batch : Item(batch[i]) = n)
                    BY <4>1, <4>6, <5>2
                <5> QED
                    BY <5>1, <5>2
            <4>7. \A i \in 1 .. Len(tree.items) : Item(i) \in DOMAIN sync
                <5>1. tree.items \in Seq(ToSet(tree.items))
                    BY TreesAssumption DEF CallsNest
                <5> QED
                    BY <5>1, ElementOfSeq DEF Item, Tables
            <4>8. ASSUME NEW i \in 1 .. Len(tree.items)
                  PROVE  Holds(sync'[Item(i)]) \/ \E b \in Range(Top'.todo) : i \in Range(b)
                <5>1. Holds(sync[Item(i)]) \/ \E b \in Range(Top.todo) : i \in Range(b)
                    BY <1>4 DEF BatchesGoOn, Stocked
                <5>2. CASE i \in Range(batch)
                    BY <4>6, <4>7, <5>2 DEF Range
                <5>3. CASE i \notin Range(batch)
                    BY <4>1, <4>2, <4>6, <4>7, <5>1, <5>3
                <5> QED
                    BY <5>2, <5>3
            <4>9. \A b \in Range(Top'.todo) :
                      /\ b \in Seq(1 .. Len(tree.items)) /\ b # <<>>
                      /\ Len(b) <= BatchSize
                BY <1>4, <4>1, <4>2 DEF BatchesGoOn
            <4>10. \A i \in 1 .. Len(tree'.items) :
                       Stocked(i)' \/ (Running' /\ \E b \in Range(Top'.todo) : i \in Range(b))
                BY <2>1, <4>1, <4>5, <4>8 DEF Stocked, Item, Written
            <4> QED
                BY <2>1, <4>1, <4>2, <4>9, <4>10 DEF BatchesGoOn
        <3> QED
            BY <3>1, <3>2, <3>3
    <2> QED
        BY <2>2, <2>3, <2>4, <2>5, <2>6, <2>7
<1> QED
    BY <1>1, <1>2, <1>3, <1>4

LEMMA StoreStaysMarked ==
    CallsNest /\ Settled /\ SavedIsKnown /\ StackMarked /\ StoreMarked /\ [Next]_vars => StoreMarked'
<1> SUFFICES ASSUME CallsNest, Settled, SavedIsKnown, StackMarked, StoreMarked, [Next]_vars
             PROVE  StoreMarked'
    OBVIOUS
<1>a. ASSUME UNCHANGED <<task, memory, file>> PROVE StoreMarked'
    BY <1>a DEF StoreMarked, OfTask
<1>1. CASE \E s \in tree.settings : Run(s)
    <2>1. UNCHANGED <<task, file>> /\ (memory' = memory \/ memory' = Load(memory, file))
        BY <1>1, RunBegins
    <2>2. memory' # None => OfTask(memory')
        BY <2>1 DEF StoreMarked, Load
    <2> QED
        BY <2>1, <2>2 DEF StoreMarked, OfTask
<1>2. CASE ~(\E s \in tree.settings : Run(s)) /\ Running /\ Running' /\ set.level = "FINE"
    <2>1. /\ UNCHANGED task
          /\ \/ UNCHANGED <<memory, file>>
             \/ (\E text : FineAgent(text) /\ FineText(text)) \/ FineTool
        BY <1>2, FineSteps
    <2>2. OfTask(Top.acc)
        BY <1>2, StackShape DEF CallsNest, StackMarked, FrameMarked
    <2>3. CASE FineTool
        BY <2>1, <2>3, <1>a DEF FineTool
    <2>4. ASSUME NEW text, FineAgent(text), FineText(text) PROVE StoreMarked'
        <3> DEFINE acc == With(Top.acc, Head(Top.todo), text)
        <3>1. Written(text)
            BY <2>2, <2>4, TextsAreOfTask DEF FineText
        <3>2. OfTask(acc)
            BY <2>2, <3>1, TextsAreOfTask
        <3>3. UNCHANGED <<memory, file>> \/ (memory' = acc /\ file' \in {acc, file})
            BY <2>4 DEF FineAgent, Save
        <3> HIDE DEF acc
        <3> QED
            BY <2>1, <3>2, <3>3 DEF StoreMarked, OfTask
    <2> QED
        BY <2>1, <2>3, <2>4, <1>a
<1>3. CASE ~(\E s \in tree.settings : Run(s)) /\ ~(Running /\ Running' /\ set.level = "FINE")
    <2>1. \/ UNCHANGED <<memory, file>>
          \/ NextTask
          \/ memory' = None /\ (file' = file \/ (file' = Corrupt /\ HasPath))
        BY <1>3, StoreStands
    <2>2. CASE NextTask
        BY <2>2 DEF NextTask, Clear, SavedIsKnown, StoreMarked
    <2>3. CASE ~NextTask
        <3>1. UNCHANGED task
            BY <1>3, <2>3 DEF Next, vars, world, Crash, ShortCircuit, EnterRaises, Enter, Gather,
                OverBudget, MergedFails, Merge, MergedAnswers, Single, CallAgent, RestoreAgent,
                SkipAgent, CallTool, EnterChild, PassToolChild, FinishLeaves, Batch, BatchCall,
                BatchOverBudget, FinishBatches
        <3> QED
            BY <2>1, <2>3, <3>1 DEF StoreMarked, OfTask
    <2> QED
        BY <2>2, <2>3
<1> QED
    BY <1>1, <1>2, <1>3

-----------------------------------------------------------------------------
(* The inductive invariant, and what follows from it.                        *)

ExecutorInv ==
    /\ CallsNest /\ Tables /\ Settled
    /\ FineGoesOn /\ BatchesGoOn
    /\ SavedIsKnown /\ ContextKept
    /\ StackMarked /\ StoreMarked

LEMMA ExecutorInvStarts == Init => ExecutorInv
BY CallsStart, TablesStand, SettledStarts, FineStarts, BatchesStart, MarkedStarts DEF ExecutorInv

LEMMA ExecutorInvStays == ExecutorInv /\ [Next]_vars => ExecutorInv'
BY CallsGoOn, TablesStay, SettledStays, FineStays, BatchesStay, SavedStays, ContextStays,
   MarkedStays, StoreStaysMarked
   DEF ExecutorInv

\* The executor's inductive invariant holds in every reachable state: at FINE
\* the leaves are called in the root's order, an iteration has its batches
\* ahead, the checkpoint has nothing the run that saves has not, and all texts
\* are of the task.
THEOREM ExecutorIsSound == Spec => []ExecutorInv
<1>1. Init => ExecutorInv
    BY ExecutorInvStarts
<1>2. ExecutorInv /\ [Next]_vars => ExecutorInv'
    BY ExecutorInvStays
<1> QED
    BY <1>1, <1>2, PTL DEF Spec

\* What run() returns was written for the task it was given, at all levels
\* and over retries, crashes and checkpoints; an iteration has stored a text
\* of this task for every item of its tag space.
THEOREM TasksAreNotMixed == Spec => []ReturnsThisTask
<1>1. ExecutorInv => ReturnsThisTask
    <2> SUFFICES ASSUME ExecutorInv, Returned
                 PROVE  /\ OfTask(result.outputs) /\ Written(result.final)
                        /\ set.level = "ITERATION" => \A n \in ToSet(tree.items) :
                               sync[n] # None /\ Written(sync[n])
        BY DEF ReturnsThisTask, OfTask, Written
    <2>1. OfTask(result.outputs) /\ Written(result.final)
        BY DEF ExecutorInv, StackMarked
    <2>2. ~Running
        BY DEF ExecutorInv, CallsNest, Returned
    <2>3. ASSUME set.level = "ITERATION", NEW n \in ToSet(tree.items)
          PROVE  sync[n] # None /\ Written(sync[n])
        <3>1. tree.items \in Seq(ToSet(tree.items))
            BY TreesAssumption DEF ExecutorInv, CallsNest
        <3>2. DOMAIN tree.items = 1 .. Len(tree.items)
            BY <3>1, LenProperties
        <3>3. PICK i \in 1 .. Len(tree.items) : n = Item(i)
            BY <2>3, <3>2 DEF ToSet, Item
        <3> QED
            BY <2>2, <2>3, <3>3 DEF ExecutorInv, BatchesGoOn, Stocked
    <2> QED
        BY <2>1, <2>3
<1> QED
    BY <1>1, ExecutorIsSound, PTL

\* A tool step gets the dict of the latest step before it with the key it
\* names, in every chain that could be built; and, where the schemas of the
\* chain match, the fields it expects.
THEOREM ToolStepsFollow == Spec => []ToolStepsAreFed
<1>1. ExecutorInv => ToolStepsAreFed
    BY ContextFeeds DEF ExecutorInv
<1> QED
    BY <1>1, ExecutorIsSound, PTL

\* A leaf whose output the checkpoint has, in memory or in a readable file, is
\* not called again, whatever failed or crashed before.
THEOREM SavedCallsStay == Spec => NoRepaidCall
<1>1. ExecutorInv /\ [Next]_vars => [CallsNew]_vars
    BY StepsCallNew DEF ExecutorInv
<1>2. NoRepaidCall <=> [][CallsNew]_vars
    BY DEF NoRepaidCall, CallsNew
<1> QED
    BY <1>1, <1>2, ExecutorIsSound, PTL DEF Spec

-----------------------------------------------------------------------------
(* A flat hierarchy: one compound, run over its order.                       *)

LEMMA FlatOrder ==
    ASSUME NEW t \in Trees, Compounds(t) = {t.root}
    PROVE  LET ord == ComputeOrder(t, t.root)
           IN  /\ ord \in Seq(Range(ord)) /\ IsInjective(ord) /\ ord # None
               /\ Len(ord) \in Nat /\ DOMAIN ord = 1 .. Len(ord)
               /\ Range(ord) = ToSet(t.children[t.root]) /\ Agents(t) \subseteq Range(ord)
               /\ Range(ord) \subseteq DOMAIN t.kind \ {t.root}
               /\ t.root \in Compounds(t)
               /\ \A n \in Range(ord) : t.kind[n] # "compound"
               /\ \A i \in 1 .. Len(ord) : DepsOf(t.edges[t.root], ord[i]) \cap Range(ord)
                                               \subseteq {ord[j] : j \in 1 .. i - 1}
<1> DEFINE ord == ComputeOrder(t, t.root)
           R   == t.root
<1>1. /\ R \in Compounds(t) /\ t.children[R] \in Seq(DOMAIN t.kind \ {R}) /\ ord # None
      /\ \A n \in DOMAIN t.kind \ {R} : n \in ToSet(t.children[R])
    BY TreesAssumption
<1>2. Range(t.children[R]) \subseteq DOMAIN t.kind \ {R}
    BY <1>1, RangeOfSeq
<1>3. \A n \in DOMAIN t.kind \ {R} : t.kind[n] # "compound"
    BY <1>1 DEF Compounds
<1>4. /\ ord \in Seq(Range(ord)) /\ IsInjective(ord)
      /\ Range(ord) = {n \in Range(t.children[R]) : t.kind[n] # "compound"}
      /\ \A i \in 1 .. Len(ord) : DepsOf(t.edges[R], ord[i]) \cap Range(ord)
                                      \subseteq {ord[j] : j \in 1 .. i - 1}
    BY <1>1, OrderIsSorted
<1> HIDE DEF ord
<1>5. Range(ord) = Range(t.children[R])
    BY <1>2, <1>3, <1>4
<1>6. Agents(t) \subseteq Range(ord)
    BY <1>1, <1>5, ToSetIsRange DEF Agents, Compounds
<1>7. Len(ord) \in Nat /\ DOMAIN ord = 1 .. Len(ord)
    BY <1>4, LenProperties
<1> QED
    BY <1>1, <1>2, <1>3, <1>4, <1>5, <1>6, <1>7, ToSetIsRange DEF ord

LEMMA KeepNothing == \A S : Keep(<<>>, S) = <<>>
<1> SUFFICES ASSUME NEW S PROVE Keep(<<>>, S) = <<>>
    OBVIOUS
<1>1. <<>> \in Seq({})
    BY EmptySeq
<1>2. Keep(<<>>, S) \in Seq({})
    BY <1>1, KeepProperties
<1> QED
    BY <1>2, LenProperties, EmptySeq

LEMMA UptoOnward ==
    ASSUME NEW ord, ord \in Seq(Range(ord)), NEW todo, NEW acc, NEW text
    PROVE  /\ Upto(ord, ord, NoOutputs)
           /\ Upto(ord, todo, acc) /\ todo # <<>> => Upto(ord, Tail(todo), With(acc, Head(todo), text))
           /\ Upto(ord, todo, acc) => Done(ord, todo, acc)
           /\ Upto(ord, <<>>, acc) => DOMAIN acc = Range(ord)
<1>1. Len(ord) \in Nat /\ DOMAIN ord = 1 .. Len(ord)
    BY LenProperties
<1>2. Upto(ord, ord, NoOutputs)
    <2>1. SubSeq(ord, 0 + 1, Len(ord)) = ord
        <3> DEFINE t == SubSeq(ord, 1, Len(ord))
        <3>1. t \in Seq(Range(ord)) /\ Len(t) = Len(ord) /\ \A i \in 1 .. Len(ord) : t[i] = ord[i]
            BY <1>1, SubSeqProperties
        <3> HIDE DEF t
        <3>2. t = ord
            BY <3>1, SeqEqual
        <3> QED
            BY <3>2 DEF t
    <2>2. 0 \in 0 .. Len(ord) /\ DOMAIN NoOutputs = {ord[j] : j \in 1 .. 0}
        BY <1>1, NothingYet
    <2> QED
        BY <2>1, <2>2 DEF Upto
<1>3. ASSUME Upto(ord, todo, acc), todo # <<>>
      PROVE  Upto(ord, Tail(todo), With(acc, Head(todo), text))
    <2>1. PICK k \in 0 .. Len(ord) : /\ todo = SubSeq(ord, k + 1, Len(ord))
                                     /\ DOMAIN acc = {ord[j] : j \in 1 .. k}
        BY <1>3 DEF Upto
    <2>2. /\ k + 1 \in 1 .. Len(ord) /\ k < Len(ord)
          /\ Head(todo) = ord[k + 1] /\ Tail(todo) = SubSeq(ord, (k + 1) + 1, Len(ord))
        BY <1>3, <2>1, RestOfOrder
    <2>3. DOMAIN With(acc, Head(todo), text) = DOMAIN acc \cup {Head(todo)}
        BY WithOne
    <2>4. 1 .. (k + 1) = 1 .. k \cup {k + 1} /\ k + 1 \in 0 .. Len(ord)
        BY <1>1, <2>2
    <2>5. DOMAIN With(acc, Head(todo), text) = {ord[j] : j \in 1 .. (k + 1)}
        BY <2>1, <2>2, <2>3, <2>4
    <2> QED
        BY <2>2, <2>4, <2>5 DEF Upto
<1>4. Upto(ord, todo, acc) => Done(ord, todo, acc)
    BY DEF Upto, Done
<1>5. ASSUME Upto(ord, <<>>, acc) PROVE DOMAIN acc = Range(ord)
    <2>1. PICK k \in 0 .. Len(ord) : /\ <<>> = SubSeq(ord, k + 1, Len(ord))
                                     /\ DOMAIN acc = {ord[j] : j \in 1 .. k}
        BY <1>5 DEF Upto
    <2>4. k = Len(ord)
        BY <2>1, EmptyRest
    <2> QED
        BY <1>1, <2>1, <2>4 DEF Range
<1> QED
    BY <1>2, <1>3, <1>4, <1>5

LEMMA FlatStarts == Init => FlatGoesOn
<1> SUFFICES ASSUME Init PROVE FlatGoesOn
    OBVIOUS
<1>1. ~Running /\ ~Returned /\ tree \in Trees
    BY DEF Init, Running, Returned, Ended
<1>2. order[tree.root] \in {None, RootOrder}
    <2>1. tree.root \in Compounds(tree)
        BY <1>1, TreesAssumption
    <2> QED
        BY <2>1 DEF Init, RootOrder
<1> QED
    BY <1>1, <1>2 DEF FlatGoesOn

LEMMA TreeStays == CallsNest /\ [Next]_vars => UNCHANGED tree
<1> SUFFICES ASSUME CallsNest, [Next]_vars PROVE UNCHANGED tree
    OBVIOUS
<1>1. CASE \E s \in tree.settings : Run(s)
    BY <1>1, RunBegins
<1>2. CASE ~(\E s \in tree.settings : Run(s))
    BY <1>2, OnlyRunStarts
<1> QED
    BY <1>1, <1>2

LEMMA FlatStays == CallsNest /\ Tables /\ FlatGoesOn /\ [Next]_vars => FlatGoesOn'
<1> SUFFICES ASSUME CallsNest, Tables, FlatGoesOn, [Next]_vars, Flat PROVE FlatGoesOn'
    BY TreeStays DEF FlatGoesOn, Flat, Compounds
<1> DEFINE R   == tree.root
           ord == RootOrder
<1>a. /\ UNCHANGED tree /\ tree \in Trees /\ R \in Compounds(tree) /\ R \in DOMAIN order
      /\ ord # None /\ ord \in Seq(Range(ord)) /\ RootOrder' = RootOrder
      /\ \A n \in Range(ord) : tree.kind[n] # "compound"
      /\ Range(ord) = ToSet(tree.children[R])
    BY TreeStays, FlatOrder DEF CallsNest, Tables, RootOrder, Flat
<1>b. /\ order[R] \in {None, ord}
      /\ Running => Len(stack) = 1 /\ FlatFrame(Top) /\ Top.path \in PathsOf(set.level)
      /\ Returned /\ set.level # "ITERATION" => order[R] = ord
    BY StackShape DEF FlatGoesOn, CallsNest
<1>c. world' = world => UNCHANGED <<tree, task, memory, file>>
    BY DEF world
<1>d. ASSUME stack' = <<>>, result'.status # "returned", order'[R] \in {None, ord}
      PROVE  FlatGoesOn'
    BY <1>a, <1>d DEF FlatGoesOn, Running, Returned
<1>e. ASSUME Raise, order'[R] \in {None, ord} PROVE FlatGoesOn'
    BY <1>d, <1>e, Raising
<1>f. ASSUME Running, NEW outputs, NEW final, Return(outputs, final), UNCHANGED <<set, order>>,
             set.level # "ITERATION" => order[R] = ord
      PROVE  FlatGoesOn'
    <2>1. stack' = <<>>
        BY <1>b, <1>f, Returning DEF CallsNest
    <2> QED
        BY <1>a, <1>b, <1>f, <2>1 DEF FlatGoesOn, Running
<1>g. ASSUME Running, UNCHANGED <<set, result>>, NEW f, Becomes(f), FlatFrame(f)',
             order'[R] \in {None, ord}
      PROVE  FlatGoesOn'
    <2>1. Running' /\ Len(stack') = Len(stack) /\ Top' = f
        BY <1>g, Becoming DEF CallsNest
    <2>2. ~Returned'
        BY <1>g DEF CallsNest, Returned
    <2>3. FlatFrame(Top)'
        BY <1>g, <2>1 DEF FlatFrame
    <2> QED
        BY <1>a, <1>b, <1>g, <2>1, <2>2, <2>3 DEF FlatGoesOn
<1>h. ASSUME Running, UNCHANGED <<set, order, result>>, NEW f, Becomes(f), NEW todo, NEW acc,
             NEW gathered, NEW inner, NEW step, NEW context,
             GoesOn(Top, f, todo, acc, gathered, inner, step, context),
             Top.path = "sequential" => Upto(ord, todo, acc),
             Top.path = "merged" => acc = NoOutputs
      PROVE  FlatGoesOn'
    <2>1. f.node = Top.node /\ f.path = Top.path /\ f.prior = Top.prior /\ f.todo = todo /\ f.acc = acc
        BY <1>h, GoneOn
    <2>2. FlatFrame(Top) /\ AgentsOf(RootOrder)' = AgentsOf(RootOrder)
        BY <1>a, <1>b, <1>h DEF AgentsOf
    <2>3. (f.path = "sequential" => Upto(ord, f.todo, f.acc)) /\ (f.path = "merged" => f.acc = NoOutputs)
        BY <1>h, <2>1
    <2>4. FlatFrame(f)'
        BY <1>a, <1>h, <2>1, <2>2, <2>3 DEF FlatFrame
    <2> QED
        BY <1>b, <1>g, <1>h, <2>4
<1>i. ASSUME Running, UNCHANGED <<set, order, result>>, NEW text, Proceed(Head(Top.todo), text),
             Top.path \in {"fine", "sequential", "mixed"}, Top.todo # <<>>
      PROVE  FlatGoesOn'
    <2>1. PICK f : /\ Becomes(f)
                   /\ GoesOn(Top, f, Tail(Top.todo), With(Top.acc, Head(Top.todo), text),
                             Top.gathered, Top.inner, Top.step, Top.context)
        BY <1>i, Proceeding
    <2>2. Top.path = "sequential" => Upto(ord, Tail(Top.todo), With(Top.acc, Head(Top.todo), text))
        BY <1>a, <1>b, <1>i, UptoOnward DEF FlatFrame
    <2> QED
        BY <1>h, <1>i, <2>1, <2>2
<1>1. ASSUME NEW s, Run(s) PROVE FlatGoesOn'
    <2> DEFINE prior == IF s.saves THEN Restored ELSE NoOutputs
    <2>1. Running' /\ Len(stack') = 1 /\ set' = s /\ ~Returned'
        BY <1>1, RunBegins DEF Returned, Ended
    <2>2. \/ /\ s.level = "FINE" /\ Top' = Frame("fine", R, ord, prior)
             /\ order' = [order EXCEPT ![R] = ord]
          \/ /\ s.level = "COMPOUND" /\ order' = order
             /\ Top' = Frame("enter", R, <<>>, NoOutputs)
          \/ /\ s.level = "ITERATION" /\ order' = order
             /\ \E todo : Top' = Frame("batches", R, todo, NoOutputs)
        BY <1>1, RunBegins DEF RootOrder
    <2>3. \/ /\ s.level = "FINE" /\ order'[R] = ord
             /\ Top'.path = "fine" /\ Top'.node = R
          \/ /\ s.level # "FINE" /\ order' = order
             /\ Top'.path \in {"enter", "batches"} /\ Top'.node = R /\ Top'.prior = NoOutputs
        BY <1>a, <2>2, FrameIsFrame
    <2>4. FlatFrame(Top)' /\ order'[R] \in {None, ord}
        BY <1>a, <1>b, <2>1, <2>3 DEF FlatFrame
    <2> QED
        BY <1>a, <2>1, <2>4 DEF FlatGoesOn
<1>2. CASE NextTask
    <2>1. stack' = <<>> /\ result'.status # "returned" /\ UNCHANGED order
        BY <1>2 DEF NextTask, CallsNest, Running, Ended
    <2> QED
        BY <1>b, <1>d, <2>1
<1>3. CASE Crash
    <2>1. stack' = <<>> /\ result'.status # "returned" /\ order'[R] \in {None, ord}
        BY <1>3, <1>a DEF Crash, Ended, RootOrder
    <2> QED
        BY <1>d, <2>1
<1>4. CASE ShortCircuit
    <2>1. /\ Running /\ Top.path = "enter" /\ Conditioned(Top.node) # <<>>
          /\ UNCHANGED <<set, order>> /\ \E outputs, final : Return(outputs, final)
        BY <1>4 DEF ShortCircuit, Entering, UnanimousSkip
    <2>2. Top.node = R
        BY <1>b, <2>1 DEF FlatFrame
    <2>3. order[R] # None
        BY <2>1, <2>2, KeepNothing DEF Conditioned, OrderOf, AgentLeaves
    <2> QED
        BY <1>b, <1>f, <2>1, <2>3
<1>5. CASE EnterRaises
    BY <1>5, <1>b, <1>e DEF EnterRaises
<1>6. CASE Enter
    <2>1. Running /\ Top.path = "enter" /\ UNCHANGED set
        BY <1>6 DEF Enter, Entering
    <2>2. Top.node = R /\ Top.prior = NoOutputs
        BY <1>b, <2>1 DEF FlatFrame, PathsOf
    <2>3. ~Nested(R)
        BY <1>a DEF Nested
    <2> DEFINE o == IF OrderOf(R) = <<>> THEN ComputeOrder(tree, R) ELSE order[R]
    <2>4. o = ord
        BY <1>b DEF OrderOf, RootOrder
    <2>5. order' = [order EXCEPT ![R] = ord]
        BY <1>6, <2>2, <2>3, <2>4 DEF Enter
    <2>6. order'[R] = ord
        BY <1>a, <2>5
    <2>7. \/ Raise
          \/ /\ AgentsOf(ord) = ToSet(ord) /\ UNCHANGED result
             /\ \/ Becomes(Frame("sequential", R, ord, NoOutputs))
                \/ \E todo : Becomes(Frame("merged", R, todo, NoOutputs))
        BY <1>6, <2>2, <2>3, <2>4 DEF Enter
    <2>8. ASSUME UNCHANGED result, AgentsOf(ord) = ToSet(ord), NEW path \in {"sequential", "merged"},
                 NEW todo, path = "sequential" => todo = ord, Becomes(Frame(path, R, todo, NoOutputs))
          PROVE  FlatGoesOn'
        <3>0. PICK f : f = Frame(path, R, todo, NoOutputs)
            OBVIOUS
        <3>1. /\ f.path = path /\ f.node = R /\ f.todo = todo /\ f.prior = NoOutputs
              /\ f.acc = NoOutputs
            BY <3>0, FrameIsFrame
        <3>2. f.path = "sequential" => Upto(ord, f.todo, f.acc)
            BY <1>a, <2>8, <3>1, UptoOnward
        <3>3. FlatFrame(f)'
            <4>1. /\ f.node = tree'.root /\ f.path # "mixed" /\ order'[tree'.root] = RootOrder'
                  /\ f.prior = NoOutputs /\ f.acc = NoOutputs
                BY <1>a, <2>6, <2>8, <3>1
            <4>2. (AgentsOf(RootOrder) = ToSet(RootOrder))'
                BY <1>a, <2>8 DEF AgentsOf
            <4>3. f.path = "sequential" => Upto(RootOrder', f.todo, f.acc)
                BY <1>a, <3>2
            <4> QED
                BY <4>1, <4>2, <4>3 DEF FlatFrame
        <3>4. Becomes(f)
            BY <2>8, <3>0
        <3> QED
            BY <1>g, <2>1, <2>6, <2>8, <3>3, <3>4
    <2> QED
        BY <1>e, <2>6, <2>7, <2>8
<1>7. ASSUME NEW ok \in BOOLEAN, Gather(ok) PROVE FlatGoesOn'
    <2>1. UNCHANGED <<set, order>> /\ Running /\ Top.path = "merged"
        BY <1>7 DEF Gather, Merging
    <2>2. CASE ok
        <3>1. Gather(TRUE)
            BY <1>7, <2>2
        <3>2. PICK f : /\ Becomes(f) /\ UNCHANGED result
                       /\ GoesOn(Top, f, Tail(Top.todo), Top.acc, Top.gathered \cup {Head(Top.todo)},
                                 Top.inner, Top.step, Top.context)
            BY <3>1, Gathering
        <3> QED
            BY <1>b, <1>h, <2>1, <3>2 DEF FlatFrame
    <2>3. CASE ~ok
        BY <1>7, <1>b, <1>e, <2>1, <2>3 DEF Gather
    <2> QED
        BY <2>2, <2>3
<1>8. CASE OverBudget
    BY <1>8, <1>b, <1>e DEF OverBudget
<1>9. CASE MergedFails
    BY <1>9, <1>b, <1>e DEF MergedFails
<1>10. CASE Merge
    <2>1. /\ Running /\ Top.path = "merged" /\ UNCHANGED <<set, order>>
          /\ \E outputs, final : Return(outputs, final)
        BY <1>10 DEF Merge, MergedAnswers, Merging
    <2> QED
        BY <1>b, <1>f, <2>1 DEF FlatFrame
<1>11. CASE Single
    <2>1. PICK ok, text : CallAgent(ok, text)
        BY <1>11 DEF Single
    <2>2. /\ Running /\ UNCHANGED <<set, order>> /\ Top.path \in {"fine", "sequential", "mixed"}
          /\ Top.todo # <<>>
        BY <2>1 DEF CallAgent, AtLeaf
    <2>3. Raise \/ (UNCHANGED result /\ Proceed(Head(Top.todo), text))
        BY <2>1 DEF CallAgent
    <2> QED
        BY <1>b, <1>e, <1>i, <2>2, <2>3
<1>12. CASE RestoreAgent
    <2>1. /\ Running /\ UNCHANGED <<set, order, result>> /\ Top.path = "fine" /\ Top.todo # <<>>
          /\ \E text : Proceed(Head(Top.todo), text)
        BY <1>12 DEF RestoreAgent, AtLeaf
    <2> QED
        BY <1>i, <2>1
<1>13. CASE SkipAgent
    <2>1. Running /\ UNCHANGED <<set, order>> /\ Top.path = "fine" /\ Top.todo # <<>>
        BY <1>13 DEF SkipAgent, AtLeaf
    <2>2. Raise \/ (UNCHANGED result /\ Proceed(Head(Top.todo), NoText))
        BY <1>13 DEF SkipAgent
    <2> QED
        BY <1>b, <1>e, <1>i, <2>1, <2>2
<1>14. ASSUME NEW ok \in BOOLEAN, CallTool(ok) PROVE FlatGoesOn'
    <2>1. Running /\ UNCHANGED <<set, order>> /\ Top.path = "fine"
        BY <1>14 DEF CallTool, AtLeaf
    <2>2. CASE Raise
        BY <1>b, <1>e, <2>1, <2>2
    <2>3. CASE ~Raise
        <3>1. ok /\ Fed(Top.context, tree.chain[Head(Top.todo)], Top.step + 1)
            BY <1>14, <2>3 DEF CallTool
        <3>2. CallTool(TRUE)
            BY <1>14, <3>1
        <3>3. UNCHANGED result /\ \E f, todo, acc, step, context :
                   /\ Becomes(f)
                   /\ GoesOn(Top, f, todo, acc, Top.gathered, Top.inner, step, context)
            BY <3>1, <3>2, ToolStepping
        <3> QED
            BY <1>h, <2>1, <3>3
    <2> QED
        BY <2>2, <2>3
<1>15. CASE EnterChild
    BY <1>15, <1>b DEF EnterChild, AtLeaf, FlatFrame
<1>16. CASE PassToolChild
    BY <1>16, <1>b DEF PassToolChild, AtLeaf, FlatFrame
<1>17. CASE FinishLeaves
    <2>1. /\ Running /\ Top.path \in {"fine", "sequential", "mixed"} /\ UNCHANGED <<set, order>>
          /\ \E outputs, final : Return(outputs, final)
        BY <1>17 DEF FinishLeaves
    <2> QED
        BY <1>b, <1>f, <2>1 DEF FlatFrame
<1>18. CASE Batch
    <2>0. PICK ok \in BOOLEAN : \E answer : BatchCall(ok, answer)
        BY <1>18 DEF Batch
    <2>1. PICK answer : BatchCall(ok, answer)
        BY <2>0
    <2>2. Running /\ UNCHANGED <<set, order>> /\ Top.path = "batches"
        BY <2>1 DEF BatchCall, Batching
    <2>3. CASE ok
        <3>1. BatchCall(TRUE, answer)
            BY <2>1, <2>3
        <3>2. UNCHANGED result /\ \E f, todo, acc, inner :
                   /\ Becomes(f)
                   /\ GoesOn(Top, f, todo, acc, Top.gathered, inner, Top.step, Top.context)
            BY <3>1, BatchAnswered
        <3> QED
            BY <1>h, <2>2, <3>2
    <2>4. CASE ~ok
        BY <2>1, <2>2, <2>4, <1>b, <1>e DEF BatchCall
    <2> QED
        BY <2>3, <2>4
<1>19. CASE BatchOverBudget
    BY <1>19, <1>b, <1>e DEF BatchOverBudget
<1>20. CASE FinishBatches
    <2>1. /\ Running /\ Top.path = "batches" /\ UNCHANGED <<set, order>>
          /\ \E outputs, final : Return(outputs, final)
        BY <1>20 DEF FinishBatches, Batching
    <2>2. set.level = "ITERATION"
        BY <1>b, <2>1 DEF PathsOf
    <2> QED
        BY <1>f, <2>1, <2>2
<1>21. CASE UNCHANGED vars
    BY <1>21, <1>a, <1>b DEF vars, FlatGoesOn, Running, Returned, FlatFrame, Top, AgentsOf, Upto
<1> QED
    BY <1>1, <1>2, <1>3, <1>4, <1>5, <1>6, <1>7, <1>8, <1>9, <1>10, <1>11, <1>12, <1>13, <1>14,
       <1>15, <1>16, <1>17, <1>18, <1>19, <1>20, <1>21 DEF Next

-----------------------------------------------------------------------------
(* What a flat hierarchy returns.                                            *)

LEMMA OnlyReturns ==
    ASSUME CallsNest, [Next]_vars, Returned'
    PROVE  \/ ShortCircuit \/ Merge \/ FinishLeaves \/ FinishBatches
           \/ UNCHANGED vars
<1>a. ~Raise
    BY Raising DEF Returned
<1>b. Running /\ UNCHANGED result => FALSE
    BY DEF CallsNest, Returned
<1>1. ~(\E s \in tree.settings : Run(s)) /\ ~NextTask /\ ~Crash
    BY DEF Run, NextTask, Crash, Returned, Ended
<1>2. ~EnterRaises /\ ~OverBudget /\ ~MergedFails /\ ~BatchOverBudget
    BY <1>a DEF EnterRaises, OverBudget, MergedFails, BatchOverBudget
<1>3. ~Enter /\ ~EnterChild /\ ~PassToolChild /\ ~RestoreAgent /\ ~SkipAgent
    BY <1>a, <1>b DEF Enter, Entering, EnterChild, PassToolChild, AtLeaf, RestoreAgent, SkipAgent
<1>4. ~(\E ok \in BOOLEAN : Gather(ok)) /\ ~(\E ok \in BOOLEAN : CallTool(ok))
    BY <1>a, <1>b DEF Gather, Merging, CallTool, AtLeaf
<1>5. ~Single /\ ~Batch
    BY <1>a, <1>b DEF Single, CallAgent, AtLeaf, Batch, Batching, BatchCall
<1> QED
    BY <1>1, <1>2, <1>3, <1>4, <1>5 DEF Next

LEMMA FlatReturns ==
    ASSUME CallsNest, FlatGoesOn, Flat, Running, NEW outputs, NEW final, Return(outputs, final)
    PROVE  result'.outputs = outputs /\ result'.final = final
<1>1. Len(stack) = 1
    BY DEF FlatGoesOn
<1>2. result' = [status |-> "returned", outputs |-> outputs, final |-> final]
    BY <1>1, Returning DEF CallsNest
<1> QED
    BY <1>2

LEMMA AgentsOfOrder ==
    ASSUME tree \in Trees, Flat
    PROVE  LET leaves == AgentLeaves(RootOrder, tree)
           IN  leaves \in Seq(Range(leaves)) /\ Range(leaves) = Agents(tree)
<1> DEFINE leaves == AgentLeaves(RootOrder, tree)
<1>1. RootOrder \in Seq(Range(RootOrder)) /\ Agents(tree) \subseteq Range(RootOrder)
    BY FlatOrder DEF Flat, RootOrder
<1>2. /\ leaves \in Seq(Range(RootOrder))
      /\ \A x : x \in Range(leaves) <=> x \in Range(RootOrder) /\ x \in Agents(tree)
    BY <1>1, KeepProperties DEF AgentLeaves
<1> HIDE DEF leaves
<1>3. leaves \in Seq(Range(leaves))
    BY <1>2, SeqOfRange
<1> QED
    BY <1>1, <1>2, <1>3 DEF leaves

\* The outputs a run returns have all agents', and the final output is what
\* the terminal ones say.
Speaks(outputs, final) ==
    /\ Agents(tree) \subseteq DOMAIN outputs
    /\ \A n \in Terminals(AgentLeaves(RootOrder, tree), tree.edges[tree.root]) :
           outputs[n] \subseteq final

LEMMA SinksOfOrder ==
    ASSUME tree \in Trees, Flat, NEW outputs, NEW fallback, Agents(tree) \subseteq DOMAIN outputs
    PROVE  Speaks(outputs, Aggregated(tree.root, RootOrder, outputs, fallback))
<1> DEFINE leaves == AgentLeaves(RootOrder, tree)
           sinks == Terminals(leaves, tree.edges[tree.root])
           text == UNION {outputs[n] : n \in sinks \cap DOMAIN outputs}
<1>1. leaves \in Seq(Range(leaves)) /\ Range(leaves) = Agents(tree)
    BY AgentsOfOrder
<1>2. Aggregated(tree.root, RootOrder, outputs, fallback) = IF text = NoText THEN fallback ELSE text
    BY DEF Aggregated
<1> HIDE DEF leaves
<1>3. leaves # <<>> => leaves[Len(leaves)] \in Range(leaves)
    <2>1. Len(leaves) \in Nat /\ DOMAIN leaves = 1 .. Len(leaves)
        BY <1>1, LenProperties
    <2> SUFFICES ASSUME leaves # <<>> PROVE leaves[Len(leaves)] \in Range(leaves)
        OBVIOUS
    <2>2. Len(leaves) # 0
        BY <1>1, EmptySeq
    <2> QED
        BY <2>1, <2>2 DEF Range
<1>4. sinks \subseteq DOMAIN outputs
    BY <1>1, <1>3, ToSetIsRange DEF Terminals
<1>5. \A n \in sinks : outputs[n] \subseteq text
    BY <1>4
<1>6. \A n \in sinks : outputs[n] \subseteq IF text = NoText THEN fallback ELSE text
    BY <1>5, NothingYet
<1> HIDE DEF sinks, text
<1> QED
    BY <1>2, <1>6 DEF Speaks, sinks, leaves

LEMMA FlatLeavesAreDone ==
    ASSUME CallsNest, Settled, FineGoesOn, FlatGoesOn, Flat, Running,
           Top.path \in {"fine", "sequential"}, Top.todo = <<>>
    PROVE  Range(RootOrder) \subseteq DOMAIN Top.acc
<1>1. RootOrder \in Seq(Range(RootOrder)) /\ DOMAIN RootOrder = 1 .. Len(RootOrder)
    BY FlatOrder DEF CallsNest, Flat, RootOrder
<1>2. CASE Top.path = "fine"
    <2>1. Top.path \in PathsOf(set.level)
        BY StackShape DEF CallsNest
    <2>2. set.level = "FINE"
        BY <1>2, <2>1 DEF PathsOf
    <2>3. Done(RootOrder, <<>>, Top.acc)
        BY <2>2 DEF FineGoesOn, RootOrder
    <2>4. \A j \in 1 .. Len(RootOrder) : RootOrder[j] \in DOMAIN Top.acc
        BY <1>1, <2>3, AllOfAnOrder
    <2> QED
        BY <1>1, <2>4 DEF Range
<1>3. CASE Top.path = "sequential"
    <2>1. Upto(RootOrder, <<>>, Top.acc)
        BY <1>3 DEF FlatGoesOn, FlatFrame
    <2> QED
        BY <1>1, <2>1, UptoOnward
<1> QED
    BY <1>2, <1>3

\* SinksSpeak in flat hierarchies.
FlatSinksSpeak == Flat => SinksSpeak

LEMMA SinksStay ==
    CallsNest /\ Settled /\ FineGoesOn /\ FlatGoesOn /\ FlatGoesOn' /\ FlatSinksSpeak /\ [Next]_vars
        => FlatSinksSpeak'
<1> SUFFICES ASSUME CallsNest, Settled, FineGoesOn, FlatGoesOn, FlatGoesOn', FlatSinksSpeak, [Next]_vars,
                    Flat', Returned', set'.level # "ITERATION"
             PROVE  SinksSpeak'
    BY DEF FlatSinksSpeak, SinksSpeak
<1> DEFINE R == tree.root
<1>1. /\ UNCHANGED tree /\ Flat /\ tree \in Trees /\ RootOrder' = RootOrder
      /\ RootOrder # None /\ Agents(tree) \subseteq Range(RootOrder)
    BY TreeStays, FlatOrder DEF CallsNest, RootOrder, Flat, Compounds
<1>2. ASSUME Running, Top.node = R, NEW outputs, NEW final, Return(outputs, final), Speaks(outputs, final)
      PROVE  SinksSpeak'
    <2>1. result'.outputs = outputs /\ result'.final = final
        BY <1>1, <1>2, FlatReturns
    <2>2. order'[R] = RootOrder
        BY <1>1 DEF FlatGoesOn
    <2>3. /\ Agents(tree) \subseteq DOMAIN result'.outputs
          /\ \A n \in Terminals(AgentLeaves(RootOrder, tree), tree.edges[R]) :
                 result'.outputs[n] \subseteq result'.final
        BY <1>2, <2>1 DEF Speaks
    <2> QED
        BY <1>1, <2>2, <2>3 DEF SinksSpeak
<1>3. Running => /\ Top.node = R /\ Top.path # "mixed"
                 /\ Top.path \in {"fine", "sequential", "merged"} => order[R] = RootOrder
                 /\ order[R] \in {None, RootOrder}
    BY <1>1 DEF FlatGoesOn, FlatFrame
<1>4. CASE ShortCircuit
    <2> DEFINE skipped == ToSet(Conditioned(Top.node))
               outputs == Over([a \in skipped |-> NoText], Top.prior)
    <2>1. /\ Running /\ Conditioned(Top.node) # <<>>
          /\ Return(outputs, Aggregated(Top.node, order[Top.node], outputs, NoText))
        BY <1>4 DEF ShortCircuit, Entering, UnanimousSkip
    <2>2. order[R] # None
        BY <1>3, <2>1, KeepNothing DEF Conditioned, OrderOf, AgentLeaves
    <2>3. order[R] = RootOrder /\ OrderOf(R) = RootOrder
        BY <1>1, <1>3, <2>1, <2>2 DEF OrderOf
    <2>4. Conditioned(R) = AgentLeaves(RootOrder, tree)
        BY <1>3, <2>1, <2>3 DEF Conditioned
    <2>5. skipped = Agents(tree)
        BY <1>1, <1>3, <2>1, <2>4, AgentsOfOrder, ToSetIsRange
    <2>6. Agents(tree) \subseteq DOMAIN outputs
        BY <2>5 DEF Over
    <2> HIDE DEF outputs
    <2>7. Speaks(outputs, Aggregated(R, RootOrder, outputs, NoText))
        BY <1>1, <2>6, SinksOfOrder
    <2> QED
        BY <1>2, <1>3, <2>1, <2>3, <2>7
<1>5. CASE Merge
    <2>1. PICK answer : MergedAnswers(answer)
        BY <1>5 DEF Merge
    <2> DEFINE ord  == order[Top.node]
               Text(heads) == UNION {Section(ord[i]) : i \in heads}
               outputs == [n \in ToSet(ord) |->
                              Text(Parsed(answer, CHOOSE i \in DOMAIN ord : ord[i] = n))]
    <2>2. /\ Running /\ Top.path = "merged"
          /\ Return(outputs, Aggregated(Top.node, ord, outputs, Text(ToSet(answer))))
        BY <2>1 DEF MergedAnswers, Merging
    <2>3. DOMAIN outputs = ToSet(ord) /\ ord = RootOrder /\ Top.node = R
        BY <1>3, <2>2
    <2> HIDE DEF Text, outputs
    <2>4. Agents(tree) \subseteq DOMAIN outputs
        BY <1>1, <2>3, ToSetIsRange
    <2>5. Speaks(outputs, Aggregated(R, RootOrder, outputs, Text(ToSet(answer))))
        BY <1>1, <2>4, SinksOfOrder
    <2> QED
        BY <1>2, <2>2, <2>3, <2>5
<1>6. CASE FinishLeaves
    <2>1. /\ Running /\ Top.todo = <<>> /\ Top.path \in {"fine", "sequential"}
          /\ Top.node = R /\ order[R] = RootOrder /\ OrderOf(R) = RootOrder
        BY <1>1, <1>3, <1>6 DEF FinishLeaves, OrderOf
    <2>2. \E fallback : Return(Top.acc, Aggregated(R, RootOrder, Top.acc, fallback))
        BY <1>6, <2>1 DEF FinishLeaves
    <2>3. Agents(tree) \subseteq DOMAIN Top.acc
        BY <1>1, <2>1, FlatLeavesAreDone
    <2> QED
        BY <1>1, <1>2, <2>1, <2>2, <2>3, SinksOfOrder
<1>7. CASE FinishBatches
    <2>1. Running /\ Top.path = "batches" /\ UNCHANGED set
        BY <1>7 DEF FinishBatches, Batching
    <2>2. Top.path \in PathsOf(set.level)
        BY <2>1, StackShape DEF CallsNest
    <2> QED
        BY <2>1, <2>2 DEF PathsOf
<1>8. CASE UNCHANGED vars
    BY <1>1, <1>8 DEF vars, FlatSinksSpeak, SinksSpeak, Returned, Flat, AgentLeaves, Agents, Compounds
<1> QED
    BY <1>4, <1>5, <1>6, <1>7, <1>8, OnlyReturns

\* What run() returns at FINE or COMPOUND has an output for every agent, and
\* the final output of a flat hierarchy has all that its terminal agents said,
\* with any conditions, execution model, answer and restored checkpoint.
THEOREM FlatRunsSpeak == Spec => [](Flat => SinksSpeak)
<1> DEFINE I == ExecutorInv /\ FlatGoesOn /\ FlatSinksSpeak
<1>1. Init => I
    <2>1. Init => FlatSinksSpeak
        BY DEF Init, FlatSinksSpeak, SinksSpeak, Returned, Ended
    <2> QED
        BY <2>1, ExecutorInvStarts, FlatStarts
<1>2. I /\ [Next]_vars => I'
    BY ExecutorInvStays, FlatStays, SinksStay DEF ExecutorInv
<1>3. I => (Flat => SinksSpeak)
    BY DEF FlatSinksSpeak
<1> QED
    BY <1>1, <1>2, <1>3, PTL DEF Spec

\* The outputs a run keeps and those the sync manager keeps after it.
Crosses(outputs) ==
    \A a \in Agents(tree) : sync'[a] = IF a = RootOrder[Len(RootOrder)] THEN outputs[a] ELSE None

LEMMA StoredCrosses ==
    ASSUME CallsNest, Tables, Flat, NEW outputs, sync' = Stored(RootOrder, outputs)
    PROVE  Crosses(outputs)
<1>1. Agents(tree) \subseteq Range(RootOrder) /\ Agents(tree) \subseteq DOMAIN sync
    <2>1. \A n \in DOMAIN tree.kind \ Compounds(tree) : n \in ToSet(Leaves(tree))
        BY TreesAssumption DEF CallsNest
    <2> QED
        BY <2>1, FlatOrder DEF CallsNest, Flat, RootOrder, Tables, Agents, Compounds
<1> QED
    BY <1>1, ToSetIsRange DEF Stored, Crosses

LEMMA CrossingStays ==
    CallsNest /\ Tables /\ FlatGoesOn /\ FlatGoesOn' /\ OnlyTheLastCrosses /\ [Next]_vars
        => OnlyTheLastCrosses'
<1> SUFFICES ASSUME CallsNest, Tables, FlatGoesOn, FlatGoesOn', OnlyTheLastCrosses, [Next]_vars,
                    Flat', Returned', set'.level = "COMPOUND",
                    \A a \in Agents(tree') : state'[a] = "COMPLETE"
             PROVE  \A a \in Agents(tree') :
                        sync'[a] = IF a = order'[tree'.root][Len(order'[tree'.root])]
                                   THEN result'.outputs[a] ELSE None
    BY DEF OnlyTheLastCrosses
<1> DEFINE R == tree.root
<1>1. /\ UNCHANGED tree /\ Flat /\ tree \in Trees /\ RootOrder' = RootOrder
      /\ RootOrder # None /\ Agents(tree) \subseteq Range(RootOrder)
      /\ order'[R] = RootOrder
    BY TreeStays, FlatOrder DEF CallsNest, RootOrder, Flat, Compounds, FlatGoesOn
<1>2. ASSUME Running, NEW outputs, NEW final, Return(outputs, final), sync' = Stored(RootOrder, outputs)
      PROVE  \A a \in Agents(tree') :
                 sync'[a] = IF a = order'[tree'.root][Len(order'[tree'.root])]
                            THEN result'.outputs[a] ELSE None
    <2>1. result'.outputs = outputs
        BY <1>1, <1>2, FlatReturns
    <2>2. Crosses(outputs)
        BY <1>1, <1>2, StoredCrosses
    <2> QED
        BY <1>1, <2>1, <2>2 DEF Crosses
<1>3. Running => /\ Top.node = R /\ Top.path # "mixed" /\ Top.path \in PathsOf(set.level)
                 /\ Top.path \in {"fine", "sequential", "merged"} => order[R] = RootOrder
    BY <1>1, StackShape DEF FlatGoesOn, FlatFrame, CallsNest
<1>4. CASE ShortCircuit
    <2> DEFINE skipped == ToSet(Conditioned(Top.node))
    <2>1. Running /\ Conditioned(Top.node) # <<>> /\ SetState(skipped, "SKIPPED")
        BY <1>4 DEF ShortCircuit, Entering, UnanimousSkip
    <2>2. order[R] \in {None, RootOrder} /\ Top.node = R
        BY <1>1, <1>3, <2>1 DEF FlatGoesOn
    <2>3. order[R] # None
        BY <2>1, <2>2, KeepNothing DEF Conditioned, OrderOf, AgentLeaves
    <2>4. Conditioned(R) = AgentLeaves(RootOrder, tree) /\ Conditioned(R) # <<>>
        BY <1>1, <2>1, <2>2, <2>3 DEF Conditioned, OrderOf
    <2>5. skipped = Agents(tree) /\ Conditioned(R) \in Seq(Agents(tree))
        BY <1>1, <2>2, <2>4, AgentsOfOrder, ToSetIsRange
    <2>6. PICK a : a \in skipped
        <3>1. Conditioned(R)[1] \in Agents(tree)
            BY <2>4, <2>5
        <3> QED
            BY <2>5, <3>1
    <2>7. state'[a] = "SKIPPED"
        BY <2>1, <2>5, <2>6 DEF SetState, Tables
    <2> QED
        BY <1>1, <2>5, <2>6, <2>7
<1>5. CASE Merge
    <2>1. PICK answer : MergedAnswers(answer)
        BY <1>5 DEF Merge
    <2>2. Running /\ Top.path = "merged"
        BY <2>1 DEF MergedAnswers, Merging
    <2>3. \E outputs, final : Return(outputs, final) /\ sync' = Stored(order[Top.node], outputs)
        BY <2>1 DEF MergedAnswers
    <2> QED
        BY <1>2, <1>3, <2>2, <2>3
<1>6. CASE FinishLeaves
    <2>1. UNCHANGED set /\ Running /\ Top.path \in {"fine", "sequential", "mixed"}
        BY <1>6 DEF FinishLeaves
    <2>2. Top.path = "sequential"
        BY <1>3, <2>1 DEF PathsOf
    <2>3. OrderOf(Top.node) = RootOrder
        BY <1>1, <1>3, <2>1, <2>2 DEF OrderOf
    <2>4. \E final : Return(Top.acc, final) /\ sync' = Stored(OrderOf(Top.node), Top.acc)
        BY <1>6, <2>2 DEF FinishLeaves
    <2> QED
        BY <1>2, <2>1, <2>3, <2>4
<1>7. CASE FinishBatches
    <2>1. Running /\ Top.path = "batches" /\ UNCHANGED set
        BY <1>7 DEF FinishBatches, Batching
    <2> QED
        BY <1>3, <2>1 DEF PathsOf
<1>8. CASE UNCHANGED vars
    BY <1>1, <1>8 DEF vars, OnlyTheLastCrosses, Returned
<1> QED
    BY <1>4, <1>5, <1>6, <1>7, <1>8, OnlyReturns

\* When a flat compound has been called in one call or agent by agent, its
\* last output is in the sync manager and no other of its outputs is, whatever
\* earlier runs, at any level and of any task, had left there.
THEOREM LastOutputCrosses == Spec => []OnlyTheLastCrosses
<1> DEFINE I == ExecutorInv /\ FlatGoesOn /\ OnlyTheLastCrosses
<1>1. Init => I
    <2>1. Init => OnlyTheLastCrosses
        BY DEF Init, OnlyTheLastCrosses, Returned, Ended
    <2> QED
        BY <2>1, ExecutorInvStarts, FlatStarts
<1>2. I /\ [Next]_vars => I'
    BY ExecutorInvStays, FlatStays, CrossingStays DEF ExecutorInv
<1> QED
    BY <1>1, <1>2, PTL DEF Spec

-----------------------------------------------------------------------------
(* What an agent of a flat hierarchy is shown.                               *)

LEMMA FirstStarts == Init => FirstIsThere
BY DEF Init, FirstIsThere, Readable, Running

LEMMA FirstStays ==
    CallsNest /\ Settled /\ FineGoesOn /\ FirstIsThere /\ [Next]_vars => FirstIsThere'
<1> SUFFICES ASSUME CallsNest, Settled, FineGoesOn, FirstIsThere, [Next]_vars PROVE FirstIsThere'
    OBVIOUS
<1> DEFINE first == RootOrder[1]
<1>0. UNCHANGED tree /\ RootOrder' = RootOrder
    BY TreeStays DEF RootOrder
<1>a. /\ memory # None => first \in DOMAIN memory
      /\ Readable(file) => first \in DOMAIN file
    BY DEF FirstIsThere
<1> HIDE DEF first
<1>b. ASSUME memory' # None => first \in DOMAIN memory', Readable(file') => first \in DOMAIN file',
             Running' /\ set'.level = "FINE" => DOMAIN Top'.acc = {} \/ first \in DOMAIN Top'.acc
      PROVE  FirstIsThere'
    BY <1>0, <1>b DEF FirstIsThere, first, Readable
<1>1. CASE \E s \in tree.settings : Run(s)
    <2>1. PICK s \in tree.settings : Run(s)
        BY <1>1
    <2>2. set' = s /\ UNCHANGED file /\ (memory' = memory \/ memory' = Load(memory, file))
        BY <2>1, RunBegins
    <2>3. /\ memory' # None => first \in DOMAIN memory'
          /\ Readable(file') => first \in DOMAIN file'
        BY <2>2, <1>a DEF Load, Readable
    <2>4. ASSUME s.level = "FINE" PROVE DOMAIN Top'.acc = {} \/ first \in DOMAIN Top'.acc
        <3>1. \E node, todo : Top' = Frame("fine", node, todo, IF s.saves THEN Restored ELSE NoOutputs)
            BY <2>1, <2>4, RunBegins
        <3>2. Top'.acc \in {Restored, NoOutputs}
            BY <3>1, FrameIsFrame
        <3>3. Restored = NoOutputs \/ first \in DOMAIN Restored
            BY <1>a DEF Restored, Load, Readable
        <3> QED
            BY <3>2, <3>3, NothingYet
    <2> QED
        BY <1>b, <2>2, <2>3, <2>4
<1>2. CASE ~(\E s \in tree.settings : Run(s)) /\ Running /\ Running' /\ set.level = "FINE"
    <2> DEFINE leaf == Head(Top.todo)
    <2>1. /\ UNCHANGED set
          /\ \/ Top' = Top /\ UNCHANGED <<memory, file>>
             \/ (\E text : FineAgent(text)) \/ FineTool
        BY <1>2, FineSteps
    <2>2. DOMAIN Top.acc = {} \/ first \in DOMAIN Top.acc
        BY <1>2 DEF FirstIsThere, first
    <2>3. ASSUME Top.todo # <<>>, NEW text
          PROVE  first \in DOMAIN With(Top.acc, leaf, text)
        <3>1. RootOrder \in Seq(Range(RootOrder)) /\ Done(RootOrder, Top.todo, Top.acc)
            BY <1>2, FineOrder DEF FineGoesOn, RootOrder
        <3>2. PICK i \in 1 .. Len(RootOrder) : /\ leaf = RootOrder[i]
                                               /\ \A j \in 1 .. i - 1 : RootOrder[j] \in DOMAIN Top.acc
            BY <2>3, <3>1, Onward
        <3>3. first \in DOMAIN Top.acc \/ first = leaf
            <4>1. CASE i = 1
                BY <3>2, <4>1 DEF first
            <4>2. CASE i # 1
                <5>1. 1 \in 1 .. i - 1
                    BY <3>1, <4>2, LenProperties
                <5> QED
                    BY <3>2, <5>1 DEF first
            <4> QED
                BY <4>1, <4>2
        <3>4. DOMAIN With(Top.acc, leaf, text) = DOMAIN Top.acc \cup {leaf}
            BY WithOne
        <3> QED
            BY <3>3, <3>4
    <2>4. CASE Top' = Top /\ UNCHANGED <<memory, file>>
        BY <1>a, <1>b, <2>2, <2>4
    <2>5. CASE FineTool
        <3>1. /\ UNCHANGED <<memory, file>> /\ Top.todo # <<>>
              /\ Top'.acc = Top.acc \/ \E text : Top'.acc = With(Top.acc, leaf, text)
            BY <2>5, GoneOn DEF FineTool
        <3>2. DOMAIN Top'.acc = {} \/ first \in DOMAIN Top'.acc
            BY <2>2, <2>3, <3>1
        <3> QED
            BY <1>a, <1>b, <3>1, <3>2
    <2>6. ASSUME NEW text, FineAgent(text) PROVE FirstIsThere'
        <3> DEFINE acc == With(Top.acc, leaf, text)
        <3>1. /\ Top'.acc = acc /\ Top.todo # <<>>
              /\ UNCHANGED <<memory, file>> \/ (memory' = acc /\ file' \in {acc, file})
            BY <2>6, GoneOn DEF FineAgent, Save
        <3>2. first \in DOMAIN acc
            BY <2>3, <3>1
        <3> HIDE DEF acc
        <3>3. /\ memory' # None => first \in DOMAIN memory'
              /\ Readable(file') => first \in DOMAIN file'
            BY <1>a, <3>1, <3>2
        <3> QED
            BY <1>b, <3>1, <3>2, <3>3
    <2> QED
        BY <2>1, <2>4, <2>5, <2>6
<1>3. CASE ~(\E s \in tree.settings : Run(s)) /\ ~(Running /\ Running' /\ set.level = "FINE")
    <2>1. UNCHANGED set /\ (Running' => Running)
        BY <1>3, OnlyRunStarts
    <2>2. \/ UNCHANGED <<memory, file>>
          \/ NextTask
          \/ memory' = None /\ (file' = file \/ (file' = Corrupt /\ HasPath))
        BY <1>3, StoreStands
    <2>3. /\ memory' # None => first \in DOMAIN memory'
          /\ Readable(file') => first \in DOMAIN file'
        BY <1>a, <2>2 DEF Readable, NextTask, Clear
    <2> QED
        BY <1>3, <1>b, <2>1, <2>3
<1> QED
    BY <1>1, <1>2, <1>3

\* An agent without declared dependencies on the "deps" strategy is the first;
\* without that strategy and with predecessor_only, agents depend on nothing
\* but the one before them.
InputsFit(t) ==
    LET R     == t.root
        ord   == ComputeOrder(t, R)
        edges == t.edges[R]
    IN  /\ t.strategy[R] = "deps" => \A n \in Range(ord) \ DOMAIN edges : n = ord[1]
        /\ t.strategy[R] # "deps" /\ (\E s \in t.settings : s.context = "predecessor_only") =>
               \A i \in 1 .. Len(ord) : \A d \in DepsOf(edges, ord[i]) \cap Range(ord) :
                   i > 1 /\ d = ord[i - 1]

\* What InputsAsDeclared says of a call c.
Shown(c, d, i) ==
    \/ \E j \in 1 .. (i - 1) : c.to[j] = d
    \/ \A n \in LeavesOf(tree, d) :
           /\ n \in DOMAIN c.known
           /\ c.known[n] = NoText \/ (n \in DOMAIN c.priors /\ c.priors[n] = c.known[n])

Informed(c) ==
    LET edges    == tree.edges[c.of]
        siblings == ToSet(tree.children[c.of])
    IN  \A i \in DOMAIN c.to :
            /\ \A d \in DepsOf(edges, c.to[i]) \cap siblings : Shown(c, d, i)
            /\ c.path \in {"fine", "sequential"} /\ tree.strategy[c.of] = "deps" =>
                   DOMAIN c.priors \cap siblings \subseteq DepsOf(edges, c.to[i])
            /\ c.path = "merged" /\ i > 1 =>
                   IF c.to[i - 1] \in DepsOf(edges, c.to[i])
                   THEN c.reads[i] = c.to[i - 1]
                   ELSE (\A n \in siblings : n \in DOMAIN edges /\ edges[n] = {})
                            => c.reads[i] = None

LEMMA InformedCalls == InputsAsDeclared <=> (call # None /\ call.path # "batches" => Informed(call))
BY DEF InputsAsDeclared, Informed, Shown, ShownOf

LEMMA SinglesInformed ==
    ASSUME tree \in Trees, Flat, Top.node = tree.root, NEW path \in {"fine", "sequential"},
           NEW leaf, NEW priors,
           \A d \in DepsOf(tree.edges[tree.root], leaf) \cap Range(RootOrder) :
               /\ d \in DOMAIN Top.acc
               /\ Top.acc[d] = NoText \/ (d \in DOMAIN priors /\ priors[d] = Top.acc[d]),
           tree.strategy[tree.root] = "deps" =>
               DOMAIN priors \cap Range(RootOrder) \subseteq DepsOf(tree.edges[tree.root], leaf)
    PROVE  Informed(Given(path, CompileSingle(leaf, priors)))
<1> DEFINE c == Given(path, CompileSingle(leaf, priors))
           R == tree.root
<1>1. /\ c.path = path /\ c.of = R /\ c.to = <<leaf>> /\ c.priors = priors /\ c.known = Top.acc
    BY DEF Given, CompileSingle
<1> HIDE DEF c
<1>2. /\ Range(RootOrder) = ToSet(tree.children[R])
      /\ \A n \in Range(RootOrder) : tree.kind[n] # "compound"
    BY FlatOrder DEF Flat, RootOrder
<1>3. DOMAIN c.to = {1} /\ c.to[1] = leaf
    BY <1>1
<1>4. \A d \in DepsOf(tree.edges[R], leaf) \cap Range(RootOrder) : Shown(c, d, 1)
    BY <1>1, <1>2 DEF Shown, LeavesOf
<1> QED
    BY <1>1, <1>2, <1>3, <1>4 DEF Informed, c

LEMMA MergedInformed ==
    ASSUME tree \in Trees, Flat, Top.node = tree.root, order[tree.root] = RootOrder
    PROVE  Informed(Given("merged", Merged))
<1> DEFINE c == Given("merged", Merged)
           R == tree.root
           ord == RootOrder
           edges == tree.edges[R]
<1>1. /\ ord \in Seq(Range(ord)) /\ Len(ord) \in Nat /\ DOMAIN ord = 1 .. Len(ord)
      /\ Range(ord) = ToSet(tree.children[R])
      /\ \A i \in 1 .. Len(ord) : DepsOf(edges, ord[i]) \cap Range(ord) \subseteq {ord[j] : j \in 1 .. i - 1}
    BY FlatOrder DEF Flat, RootOrder
<1>2. Merged = CompileCompound(ord, edges, Top.prior, Top.gathered)
    BY DEF Merged
<1>3. c.path = "merged" /\ c.of = R /\ c.to = Merged.to /\ c.reads = Merged.reads
    BY DEF Given
<1>4. Merged.to = ord
    <2>1. Len(ord) = 1 => <<ord[1]>> = ord
        <3>1. ASSUME Len(ord) = 1 PROVE <<ord[1]>> = ord
            <4>1. <<ord[1]>> \in Seq(Range(ord)) /\ Len(<<ord[1]>>) = 1 /\ <<ord[1]>>[1] = ord[1]
                BY <1>1, <3>1 DEF Range
            <4> QED
                BY <1>1, <3>1, <4>1, SeqEqual
        <3> QED
            BY <3>1
    <2> HIDE DEF ord, edges
    <2> QED
        BY <1>2, <2>1 DEF CompileCompound, CompileSingle, CompilePhases, CompileIndependent
<1>5. ASSUME NEW i \in 2 .. Len(ord)
      PROVE  /\ ParallelIndependent(ord, edges) => Merged.reads[i] = None
             /\ ~ParallelIndependent(ord, edges) => Merged.reads[i] = ord[i - 1]
    <2>1. Len(ord) # 1 /\ i \in DOMAIN ord /\ i # 1
        BY <1>1, <1>5
    <2> HIDE DEF ord, edges
    <2> QED
        BY <1>2, <2>1 DEF CompileCompound, CompilePhases, CompileIndependent
<1> HIDE DEF c, ord, edges
<1>6. ASSUME NEW i \in 1 .. Len(ord)
      PROVE  /\ \A d \in DepsOf(edges, ord[i]) \cap Range(ord) : Shown(c, d, i)
             /\ i > 1 => IF ord[i - 1] \in DepsOf(edges, ord[i])
                         THEN c.reads[i] = ord[i - 1]
                         ELSE (\A n \in Range(ord) : n \in DOMAIN edges /\ edges[n] = {})
                                  => c.reads[i] = None
    <2>1. \A d \in DepsOf(edges, ord[i]) \cap Range(ord) : Shown(c, d, i)
        BY <1>1, <1>3, <1>4 DEF Shown
    <2>2. ASSUME i > 1, ord[i - 1] \in DepsOf(edges, ord[i]) PROVE c.reads[i] = ord[i - 1]
        <3>1. ord[i] \in Range(ord) /\ i \in 2 .. Len(ord)
            BY <1>1, <2>2, ElementOfSeq
        <3>2. ~ParallelIndependent(ord, edges)
            BY <2>2, <3>1, ToSetIsRange DEF ParallelIndependent, DepsOf
        <3> QED
            BY <1>3, <1>5, <3>1, <3>2
    <2>3. ASSUME i > 1, \A n \in Range(ord) : n \in DOMAIN edges /\ edges[n] = {} PROVE c.reads[i] = None
        <3>1. i \in 2 .. Len(ord) /\ Len(ord) >= 2
            BY <1>1, <2>3
        <3>2. ParallelIndependent(ord, edges)
            BY <2>3, <3>1, ToSetIsRange DEF ParallelIndependent
        <3> QED
            BY <1>3, <1>5, <3>1, <3>2
    <2> QED
        BY <2>1, <2>2, <2>3
<1>7. c.to = ord /\ DOMAIN c.to = 1 .. Len(ord) /\ tree.edges[c.of] = edges
      /\ ToSet(tree.children[c.of]) = Range(ord)
    BY <1>1, <1>3, <1>4 DEF edges
<1>8. Informed(c)
    BY <1>3, <1>6, <1>7 DEF Informed
<1> QED
    BY <1>8 DEF c

(* The outputs a leaf needs are among those injected, and with explicit      *)
(* dependencies no other sibling's.                                          *)
Fits(leaf, priors) ==
    /\ \A d \in DepsOf(tree.edges[tree.root], leaf) \cap Range(RootOrder) :
           /\ d \in DOMAIN Top.acc
           /\ Top.acc[d] = NoText \/ (d \in DOMAIN priors /\ priors[d] = Top.acc[d])
    /\ tree.strategy[tree.root] = "deps" =>
           DOMAIN priors \cap Range(RootOrder) \subseteq DepsOf(tree.edges[tree.root], leaf)

LEMMA OnlyThese ==
    ASSUME NEW outputs, NEW keys
    PROVE  /\ DOMAIN Only(outputs, keys) = DOMAIN outputs \cap keys
           /\ \A k \in DOMAIN outputs \cap keys : Only(outputs, keys)[k] = outputs[k]
BY DEF Only, Restrict

LEMMA FinePriorsFit ==
    ASSUME CallsNest, Settled, FineGoesOn, FirstIsThere, Flat, InputsFit(tree),
           Running, set.level = "FINE", Top.todo # <<>>, Head(Top.todo) \notin DOMAIN Top.acc
    PROVE  Fits(Head(Top.todo), FinePriors(Head(Top.todo)))
<1> DEFINE leaf == Head(Top.todo)
           R == tree.root
           edges == tree.edges[R]
           ord == RootOrder
           D(c) == IF tree.strategy[c] = "deps" THEN ToSet(tree.children[c]) \cap DOMAIN tree.edges[c]
                   ELSE {}
<1>1. /\ ord \in Seq(Range(ord)) /\ Range(ord) = ToSet(tree.children[R])
      /\ \A i \in 1 .. Len(ord) : DepsOf(edges, ord[i]) \cap Range(ord) \subseteq {ord[j] : j \in 1 .. i - 1}
    BY FlatOrder DEF CallsNest, Flat, RootOrder
<1>2. PICK i \in 1 .. Len(ord) : leaf = ord[i] /\ \A j \in 1 .. i - 1 : ord[j] \in DOMAIN Top.acc
    <2>1. Done(ord, Top.todo, Top.acc)
        BY DEF FineGoesOn, RootOrder
    <2> QED
        BY <1>1, <2>1, Onward
<1>3. leaf \in Range(ord)
    BY <1>1, <1>2, ElementOfSeq
<1>4. DepsOf(edges, leaf) \cap Range(ord) \subseteq DOMAIN Top.acc
    BY <1>1, <1>2
<1>5. Compounds(tree) = {R}
    BY DEF Flat
<1>6. FineDeps(tree) = [n \in UNION {D(c) : c \in Compounds(tree)} |->
                           LET c == CHOOSE c \in Compounds(tree) : n \in D(c) IN tree.edges[c][n]]
    BY DEF FineDeps
<1>7. DOMAIN FineDeps(tree) = D(R)
    BY <1>5, <1>6
<1>8. ASSUME leaf \in D(R) PROVE FineDeps(tree)[leaf] = edges[leaf]
    <2>1. (CHOOSE c \in {R} : leaf \in D(c)) = R
        BY <1>8
    <2>2. leaf \in UNION {D(c) : c \in Compounds(tree)}
        BY <1>5, <1>8
    <2>3. FineDeps(tree)[leaf] = LET c == CHOOSE c \in Compounds(tree) : leaf \in D(c)
                                IN  tree.edges[c][leaf]
        BY <1>6, <2>2
    <2> QED
        BY <1>5, <2>1, <2>3
<1> DEFINE priors == FinePriors(leaf)
<1>9. priors = IF leaf \in D(R) THEN Only(Top.acc, edges[leaf]) ELSE Top.acc
    BY <1>7, <1>8 DEF FinePriors
<1>10. leaf \in D(R) <=> tree.strategy[R] = "deps" /\ leaf \in DOMAIN edges
    BY <1>1, <1>3
<1> HIDE DEF D, priors, leaf, ord, edges
<1>11. CASE leaf \in D(R)
    <2>1. DepsOf(edges, leaf) = edges[leaf]
        BY <1>10, <1>11 DEF DepsOf
    <2>2. /\ DOMAIN priors = DOMAIN Top.acc \cap edges[leaf]
          /\ \A k \in DOMAIN Top.acc \cap edges[leaf] : priors[k] = Top.acc[k]
        BY <1>9, <1>11, OnlyThese
    <2> QED
        BY <1>4, <2>1, <2>2 DEF Fits, priors, leaf, edges, ord
<1>12. CASE leaf \notin D(R)
    <2>1. priors = Top.acc
        BY <1>9, <1>12
    <2>2. ASSUME tree.strategy[R] = "deps" PROVE DOMAIN priors = {}
        <3>1. leaf = ord[1]
            BY <1>3, <1>10, <1>12, <2>2 DEF InputsFit, RootOrder, ord, edges
        <3>2. ord[1] \notin DOMAIN Top.acc
            BY <3>1 DEF leaf
        <3> QED
            BY <2>1, <3>2 DEF FirstIsThere, ord
    <2> QED
        BY <1>4, <2>1, <2>2 DEF Fits, priors, leaf, edges, ord
<1> QED
    BY <1>11, <1>12

LEMMA SequentialPriorsFit ==
    ASSUME CallsNest, Settled, FlatGoesOn, Flat, InputsFit(tree),
           Running, Top.path = "sequential", Top.todo # <<>>
    PROVE  Fits(Head(Top.todo), SequentialPriors(Head(Top.todo)))
<1> DEFINE leaf == Head(Top.todo)
           R == tree.root
           edges == tree.edges[R]
           ord == RootOrder
           deps == DepsOf(edges, leaf) \cap ToSet(ord)
           priors == SequentialPriors(leaf)
<1>1. /\ ord \in Seq(Range(ord)) /\ Len(ord) \in Nat /\ DOMAIN ord = 1 .. Len(ord)
      /\ \A i, j \in 1 .. Len(ord) : ord[i] = ord[j] => i = j
      /\ \A i \in 1 .. Len(ord) : DepsOf(edges, ord[i]) \cap Range(ord) \subseteq {ord[j] : j \in 1 .. i - 1}
    BY FlatOrder DEF CallsNest, Flat, RootOrder, IsInjective
<1>2. /\ Top.node = R /\ order[R] = ord /\ Upto(ord, Top.todo, Top.acc)
      /\ set \in tree.settings /\ Top.path \in PathsOf(set.level)
    BY StackShape DEF FlatGoesOn, FlatFrame, Settled, CallsNest
<1>3. Top.prior = NoOutputs
    BY <1>2 DEF FlatGoesOn, FlatFrame, PathsOf
<1>4. PICK k \in 0 .. Len(ord) : /\ Top.todo = SubSeq(ord, k + 1, Len(ord))
                                 /\ DOMAIN Top.acc = {ord[j] : j \in 1 .. k}
    BY <1>2 DEF Upto
<1>5. leaf = ord[k + 1] /\ k + 1 \in 1 .. Len(ord)
    BY <1>1, <1>4, RestOfOrder
<1>6. (CHOOSE i \in DOMAIN ord : ord[i] = leaf) = k + 1
    BY <1>1, <1>5
<1>7. priors = CASE tree.strategy[R] = "deps" -> Over(Only(Top.acc, deps), Top.prior)
                 [] tree.strategy[R] # "deps" /\ set.context = "predecessor_only" ->
                        IF k + 1 = 1 \/ Top.acc[ord[(k + 1) - 1]] = NoText THEN Top.prior
                        ELSE With(Top.prior, ord[(k + 1) - 1], Top.acc[ord[(k + 1) - 1]])
                 [] OTHER -> Top.acc
    BY <1>2, <1>6 DEF SequentialPriors
<1>8. deps = DepsOf(edges, leaf) \cap Range(ord)
    BY ToSetIsRange
<1>9. deps \subseteq DOMAIN Top.acc
    <2>1. deps \subseteq {ord[j] : j \in 1 .. (k + 1) - 1}
        BY <1>1, <1>5, <1>8
    <2> QED
        BY <1>4, <2>1
<1>10. /\ tree.strategy[R] = "deps" => \A n \in Range(ord) \ DOMAIN edges : n = ord[1]
       /\ tree.strategy[R] # "deps" /\ set.context = "predecessor_only" =>
               \A i \in 1 .. Len(ord) : \A d \in DepsOf(edges, ord[i]) \cap Range(ord) :
                   i > 1 /\ d = ord[i - 1]
    BY <1>2 DEF InputsFit, RootOrder
<1> HIDE DEF leaf, ord, edges, deps, priors
<1>11. ASSUME \A d \in deps : Top.acc[d] = NoText \/ (d \in DOMAIN priors /\ priors[d] = Top.acc[d]),
              tree.strategy[R] = "deps" => DOMAIN priors \cap Range(ord) \subseteq deps
       PROVE  Fits(leaf, priors)
    BY <1>8, <1>9, <1>11 DEF Fits, leaf, ord, edges
<1>12. CASE tree.strategy[R] = "deps"
    <2>1. priors = Over(Only(Top.acc, deps), NoOutputs)
        BY <1>3, <1>7, <1>12
    <2>2. /\ DOMAIN Only(Top.acc, deps) = deps
          /\ \A d \in deps : Only(Top.acc, deps)[d] = Top.acc[d]
        <3> DEFINE acc == Top.acc
        <3> HIDE DEF acc
        <3>1. /\ DOMAIN Only(acc, deps) = DOMAIN acc \cap deps
              /\ \A d \in DOMAIN acc \cap deps : Only(acc, deps)[d] = acc[d]
            BY OnlyThese
        <3>2. deps \subseteq DOMAIN acc
            BY <1>9 DEF acc
        <3> QED
            BY <3>1, <3>2 DEF acc
    <2>3. DOMAIN priors = deps /\ \A d \in deps : priors[d] = Top.acc[d]
        <3> DEFINE new == Only(Top.acc, deps)
        <3> HIDE DEF new
        <3>1. /\ DOMAIN Over(new, NoOutputs) = DOMAIN new \cup DOMAIN NoOutputs
              /\ \A d \in DOMAIN new : Over(new, NoOutputs)[d] = new[d]
            BY OverAll
        <3> QED
            BY <2>1, <2>2, <3>1, NothingYet DEF new
    <2> QED
        BY <1>11, <2>3 DEF leaf, priors
<1>13. CASE tree.strategy[R] # "deps" /\ set.context = "predecessor_only"
    <2>1. \A d \in deps : k + 1 > 1 /\ d = ord[(k + 1) - 1]
        BY <1>5, <1>8, <1>10, <1>13
    <2>2. priors = IF k + 1 = 1 \/ Top.acc[ord[(k + 1) - 1]] = NoText THEN Top.prior
                   ELSE With(Top.prior, ord[(k + 1) - 1], Top.acc[ord[(k + 1) - 1]])
        BY <1>7, <1>13
    <2>3. ASSUME NEW d \in deps
          PROVE  Top.acc[d] = NoText \/ (d \in DOMAIN priors /\ priors[d] = Top.acc[d])
        <3>1. d = ord[(k + 1) - 1] /\ k + 1 # 1
            BY <2>1, <2>3
        <3>2. CASE Top.acc[d] # NoText
            <4>1. priors = With(Top.prior, d, Top.acc[d])
                BY <2>2, <3>1, <3>2
            <4> QED
                BY <4>1 DEF With
        <3> QED
            BY <3>2
    <2> QED
        BY <1>11, <1>13, <2>3 DEF leaf, priors
<1>14. CASE ~(tree.strategy[R] = "deps") /\ ~(set.context = "predecessor_only")
    <2>1. priors = Top.acc
        BY <1>7, <1>14
    <2> QED
        BY <1>9, <1>11, <1>14, <2>1 DEF leaf, priors
<1> QED
    BY <1>12, <1>13, <1>14 DEF leaf, priors

InputsFollow == Flat /\ InputsFit(tree) => InputsAsDeclared

LEMMA InputsStay ==
    CallsNest /\ Settled /\ FineGoesOn /\ FlatGoesOn /\ FirstIsThere /\ InputsFollow /\ [Next]_vars
        => InputsFollow'
<1> SUFFICES ASSUME CallsNest, Settled, FineGoesOn, FlatGoesOn, FirstIsThere, InputsFollow, [Next]_vars,
                    Flat', InputsFit(tree')
             PROVE  InputsAsDeclared'
    BY DEF InputsFollow
<1>1. UNCHANGED tree /\ Flat /\ InputsFit(tree) /\ tree \in Trees
    BY TreeStays DEF Flat, Compounds, CallsNest
<1>2. ASSUME call' = call \/ call' = None PROVE InputsAsDeclared'
    <2>1. InputsAsDeclared
        BY <1>1 DEF InputsFollow
    <2> QED
        BY <1>1, <1>2, <2>1 DEF InputsAsDeclared, ShownOf, LeavesOf
<1>3. ASSUME NEW c, call' = c, c.path = "batches" \/ Informed(c) PROVE InputsAsDeclared'
    <2>1. c.path # "batches" => Informed(c)'
        BY <1>1, <1>3 DEF Informed, Shown, LeavesOf
    <2> QED
        BY <1>3, <2>1 DEF InputsAsDeclared, Informed, Shown, ShownOf
<1>4. CASE \E s \in tree.settings : Run(s)
    BY <1>2, <1>4, RunBegins
<1>5. CASE NextTask \/ Crash
    BY <1>2, <1>5 DEF NextTask, Crash
<1>6. CASE \/ ShortCircuit \/ EnterRaises \/ Enter \/ OverBudget \/ EnterChild \/ PassToolChild
    BY <1>2, <1>6 DEF ShortCircuit, EnterRaises, Enter, OverBudget, EnterChild, PassToolChild
<1>7. CASE \/ FinishLeaves \/ RestoreAgent \/ SkipAgent
           \/ (\E ok \in BOOLEAN : Gather(ok)) \/ (\E ok \in BOOLEAN : CallTool(ok))
           \/ BatchOverBudget \/ FinishBatches \/ UNCHANGED vars
    BY <1>2, <1>7 DEF FinishLeaves, RestoreAgent, SkipAgent, Gather, CallTool, BatchOverBudget,
                      FinishBatches, vars
<1>8. CASE MergedFails \/ Merge
    <2>1. call' = Given("merged", Merged) /\ Running /\ Top.path = "merged"
        BY <1>8 DEF MergedFails, Merge, MergedAnswers, Merging
    <2>2. Top.node = tree.root /\ order[tree.root] = RootOrder
        BY <1>1, <2>1 DEF FlatGoesOn, FlatFrame
    <2> QED
        BY <1>1, <1>3, <2>1, <2>2, MergedInformed
<1>9. CASE Batch
    <2>1. \E prompt : call' = Given("batches", prompt)
        BY <1>9 DEF Batch, BatchCall
    <2>2. \A prompt : Given("batches", prompt).path = "batches"
        BY DEF Given
    <2> QED
        BY <1>3, <2>1, <2>2
<1>10. CASE Single
    <2> DEFINE leaf == Head(Top.todo)
    <2>1. PICK ok, text : CallAgent(ok, text)
        BY <1>10 DEF Single
    <2>2. /\ Running /\ Top.path \in {"fine", "sequential", "mixed"} /\ Top.todo # <<>>
          /\ Callable(leaf) /\ call' = Given(Top.path, CompileSingle(leaf, Priors(leaf)))
        BY <2>1 DEF CallAgent, AtLeaf
    <2>3. Top.node = tree.root /\ Top.path # "mixed" /\ Top.path \in PathsOf(set.level)
        BY <1>1, <2>2, StackShape DEF FlatGoesOn, FlatFrame, CallsNest
    <2>4. Fits(leaf, Priors(leaf))
        <3>1. CASE Top.path = "fine"
            <4>1. set.level = "FINE"
                BY <2>3, <3>1 DEF PathsOf
            <4>2. leaf \notin DOMAIN Top.acc /\ Priors(leaf) = FinePriors(leaf)
                BY <2>2, <3>1 DEF Callable, Priors
            <4> QED
                BY <1>1, <2>2, <4>1, <4>2, FinePriorsFit
        <3>2. CASE Top.path = "sequential"
            <4>1. Priors(leaf) = SequentialPriors(leaf)
                BY <3>2 DEF Priors
            <4> QED
                BY <1>1, <2>2, <3>2, <4>1, SequentialPriorsFit
        <3> QED
            BY <2>2, <2>3, <3>1, <3>2
    <2> HIDE DEF leaf
    <2>5. Informed(Given(Top.path, CompileSingle(leaf, Priors(leaf))))
        BY <1>1, <2>2, <2>3, <2>4, SinglesInformed DEF Fits
    <2> QED
        BY <1>3, <2>2, <2>5
<1> QED
    BY <1>4, <1>5, <1>6, <1>7, <1>8, <1>9, <1>10 DEF Next

\* In a flat hierarchy whose edges and strategy fit each other, every agent is
\* shown what it declared, at every call of every execution model and after
\* any restart, and where dependencies are explicit no other sibling's output.
THEOREM AgentsSeeTheirInputs == Spec => [](Flat /\ InputsFit(tree) => InputsAsDeclared)
<1> DEFINE I == ExecutorInv /\ FlatGoesOn /\ FirstIsThere /\ InputsFollow
<1>1. Init => I
    <2>1. Init => InputsFollow
        BY DEF Init, InputsFollow, InputsAsDeclared
    <2> QED
        BY <2>1, ExecutorInvStarts, FlatStarts, FirstStarts
<1>2. I /\ [Next]_vars => I'
    BY ExecutorInvStays, FlatStays, FirstStays, InputsStay DEF ExecutorInv
<1>3. I => (Flat /\ InputsFit(tree) => InputsAsDeclared)
    BY DEF InputsFollow
<1> QED
    BY <1>1, <1>2, <1>3, PTL DEF Spec

\* A hierarchy as _compile_group makes it of the agents a group declares.
CompiledGroup(t) ==
    /\ Compounds(t) = {t.root}
    /\ \E specs : LET names == [i \in DOMAIN specs |-> specs[i].name]
                      edges == CompileEdges(specs)
                  IN  /\ t.children[t.root] = names
                      /\ t.edges[t.root] = edges
                      /\ t.strategy[t.root] = InjectionStrategy(names, edges, AnyExplicit(specs))

LEMMA CompiledGroupsFit ==
    ASSUME NEW t \in Trees, CompiledGroup(t)
    PROVE  InputsFit(t)
<1> DEFINE R == t.root
           names == t.children[R]
           edges == t.edges[R]
           ord == ComputeOrder(t, R)
           S == {n \in DOMAIN t.kind : t.kind[n] # "compound"}
           A == DOMAIN t.kind \ {R}
<1>1. PICK specs : /\ names = [i \in DOMAIN specs |-> specs[i].name]
                   /\ edges = CompileEdges(specs)
                   /\ t.strategy[R] = InjectionStrategy(names, edges, AnyExplicit(specs))
    BY DEF CompiledGroup
<1>2. Compounds(t) = {R} /\ names \in Seq(A) /\ IsInjective(names) /\ ord # None
    BY TreesAssumption DEF CompiledGroup
<1>3. /\ Len(names) \in Nat /\ DOMAIN names = 1 .. Len(names) /\ DOMAIN specs = 1 .. Len(names)
      /\ \A i \in 1 .. Len(names) : names[i] = specs[i].name
      /\ \A i, j \in 1 .. Len(names) : specs[i].name = specs[j].name => i = j
    <2>1. Len(names) \in Nat /\ DOMAIN names = 1 .. Len(names)
        BY <1>2, LenProperties
    <2> HIDE DEF names
    <2>2. DOMAIN specs = DOMAIN names /\ \A i \in DOMAIN names : names[i] = specs[i].name
        BY <1>1
    <2> QED
        BY <1>2, <2>1, <2>2 DEF IsInjective
<1>4. ord = KahnOrder(names, edges) /\ Len(ord) = Len(names)
    <2>1. A \subseteq S
        BY <1>2 DEF Compounds
    <2>2. Range(names) \subseteq S
        BY <1>2, <2>1, RangeOfSeq
    <2> HIDE DEF names, S, A
    <2>3. Keep(names, S) = names
        BY <1>2, <2>2, KeepAll
    <2> QED
        BY <1>2, <2>3 DEF ComputeOrder, names, S
<1> HIDE DEF names, edges, A, S
<1>5. /\ ord \in Seq(Range(names)) /\ IsInjective(ord) /\ Range(ord) = Range(names)
      /\ \A i \in 1 .. Len(ord) : Waiting(names, edges, ord[i]) \subseteq {ord[j] : j \in 1 .. i - 1}
    <2> DEFINE kahn == KahnOrder(names, edges)
    <2>1. names \in Seq(A) /\ IsInjective(names)
        BY <1>2
    <2>2. /\ kahn \in Seq(Range(names)) /\ IsInjective(kahn)
          /\ Len(kahn) = Len(names) <=> Range(kahn) = Range(names)
          /\ \A i \in 1 .. Len(kahn) :
                 Waiting(names, edges, kahn[i]) \subseteq {kahn[j] : j \in 1 .. i - 1}
        BY <2>1, KahnOrderIsSorted
    <2> HIDE DEF kahn
    <2>3. ord = kahn /\ Len(kahn) = Len(names)
        BY <1>4 DEF kahn
    <2> HIDE DEF ord
    <2> QED
        BY <2>2, <2>3
<1> HIDE DEF ord
<1>6. \A i \in 1 .. Len(names) :
          DepsOf(edges, names[i]) = IF specs[i].dependsOn # None THEN specs[i].dependsOn
                                    ELSE IF i > 1 THEN {names[i - 1]} ELSE {}
    <2> SUFFICES ASSUME NEW i \in 1 .. Len(names)
                 PROVE  DepsOf(edges, names[i]) = IF specs[i].dependsOn # None THEN specs[i].dependsOn
                                                  ELSE IF i > 1 THEN {names[i - 1]} ELSE {}
        OBVIOUS
    <2>1. DepsOf(CompileEdges(specs), specs[i].name) =
              IF specs[i].dependsOn # None THEN specs[i].dependsOn
              ELSE IF i > 1 THEN {specs[i - 1].name} ELSE {}
        BY <1>3, EdgesAreCompiled
    <2>2. i > 1 => names[i - 1] = specs[i - 1].name
        BY <1>3
    <2> QED
        BY <1>1, <1>3, <2>1, <2>2
<1>7. ASSUME NEW n \in Range(ord) \ DOMAIN edges PROVE n = ord[1]
    <2>1. PICK i \in 1 .. Len(names) : n = names[i]
        BY <1>3, <1>5 DEF Range
    <2>2. DOMAIN edges = {specs[j].name : j \in {j \in DOMAIN specs : specs[j].dependsOn # None \/ j > 1}}
        BY <1>1 DEF CompileEdges
    <2>3. ~(i > 1)
        BY <1>3, <1>7, <2>1, <2>2
    <2>4. i = 1 /\ names # <<>>
        BY <1>3, <2>3, NothingYet
    <2>5. DepsOf(edges, names[1]) = {}
        BY <1>7, <2>1, <2>4 DEF DepsOf
    <2> QED
        BY <1>2, <1>4, <2>1, <2>4, <2>5, KahnFirst DEF Waiting
<1>8. ASSUME t.strategy[R] # "deps", NEW i \in 1 .. Len(ord), NEW d \in DepsOf(edges, ord[i]) \cap Range(ord)
      PROVE  i > 1 /\ d = ord[i - 1]
    <2>1. \A k \in DOMAIN specs : specs[k].dependsOn = None
        BY <1>1, <1>8 DEF InjectionStrategy, AnyExplicit
    <2>2. \A k \in 1 .. Len(names) : DepsOf(edges, names[k]) = IF k > 1 THEN {names[k - 1]} ELSE {}
        BY <1>3, <1>6, <2>1
    <2>3. IsChain(names, edges)
        <3> SUFFICES ASSUME NEW k \in 1 .. Len(names)
                     PROVE  /\ k = 1 => Waiting(names, edges, names[k]) = {}
                            /\ k > 1 => Waiting(names, edges, names[k]) = {names[k - 1]}
            BY DEF IsChain
        <3>1. k > 1 => names[k - 1] \in Range(names)
            BY <1>3 DEF Range
        <3>2. DepsOf(edges, names[k]) = IF k > 1 THEN {names[k - 1]} ELSE {}
            BY <2>2
        <3> QED
            BY <1>3, <3>1, <3>2 DEF Waiting
    <2>4. \A k \in 1 .. Len(ord) : ord[k] = names[k]
        <3>1. Len(ord) <= Len(names) /\ names \in Seq(A) /\ IsInjective(names)
            BY <1>2, <1>3, <1>4
        <3>2. /\ ord \in Seq(Range(names)) /\ IsInjective(ord)
              /\ DepsFirst(names, edges, ord)
            BY <1>5 DEF DepsFirst
        <3>3. \A k \in 1 .. Len(ord) : ord[k] = names[k]
            BY <2>3, <3>1, <3>2, ChainsAreOrdered
        <3> QED
            BY <3>3, <1>4
    <2>5. DepsOf(edges, ord[i]) = IF i > 1 THEN {names[i - 1]} ELSE {}
        BY <1>4, <2>2, <2>4
    <2>6. i > 1 => i - 1 \in 1 .. Len(ord)
        BY <1>3, <1>4
    <2> QED
        BY <1>8, <2>4, <2>5, <2>6
<1> QED
    BY <1>7, <1>8 DEF InputsFit, ord, edges

\* In a group that was declared agent by agent, every agent is shown the
\* outputs it declared a dependency on, or those of the agent before it where
\* it declared none: the edges and the strategy _compile_group derives are
\* enough for every execution model and injection policy.
THEOREM DeclaredInputsAreShown == Spec => [](CompiledGroup(tree) => InputsAsDeclared)
<1>1. ExecutorInv => tree \in Trees
    BY DEF ExecutorInv, CallsNest
<1>2. ExecutorInv /\ (Flat /\ InputsFit(tree) => InputsAsDeclared)
          => (CompiledGroup(tree) => InputsAsDeclared)
    BY <1>1, CompiledGroupsFit DEF Flat, CompiledGroup
<1> QED
    BY <1>2, ExecutorIsSound, AgentsSeeTheirInputs, PTL
=============================================================================
