------------------------------- MODULE Prompts -------------------------------
(***************************************************************************)
(* PromptCompiler: who a compiled prompt asks for an output, what it shows *)
(* them, and how the answer is taken apart.  Wording, length hints and     *)
(* token counts are left out; whether a merged prompt fits the window is   *)
(* the caller's choice.                                                    *)
(*                                                                         *)
(* A text is the set of the sections it holds, and a section is a pair:    *)
(* who was asked for it, and in which task.  Outputs are a function from   *)
(* output keys to texts; an agent's key is its name.                       *)
(***************************************************************************)
EXTENDS CapsuleGraph

NoOutputs == << >>
NoText    == {}

\* The outputs a dict comprehension or a literal keeps of another dict.
Only(outputs, keys) == Restrict(outputs, DOMAIN outputs \cap keys)

-----------------------------------------------------------------------------

\* compile_single: one agent, its heading, and the prior outputs it is given.
CompileSingle(leaf, priors) ==
    [to |-> <<leaf>>, priors |-> priors, gathered |-> {}, reads |-> [i \in {1} |-> None]]

\* Independent leaves read only the source they all work on.
CompileIndependent(order, priors, gathered) ==
    [to |-> order, priors |-> priors, gathered |-> gathered, reads |-> [i \in DOMAIN order |-> None]]

\* The phase loop: every phase is told to read the one before it.
CompilePhases(order, priors, gathered) ==
    [CompileIndependent(order, priors, gathered) EXCEPT
        !.reads = [i \in DOMAIN order |-> IF i = 1 THEN None ELSE order[i - 1]]]

\* compile_compound over a computed order; a single leaf without gathered
\* data is compiled on its own.
CompileCompound(order, edges, priors, gathered) ==
    IF Len(order) = 1 /\ gathered = {}        THEN CompileSingle(order[1], priors)
    ELSE IF ParallelIndependent(order, edges) THEN CompileIndependent(order, priors, gathered)
    ELSE CompilePhases(order, priors, gathered)

\* compile_iteration_batch: one heading per item of the batch.
CompileBatch(batch) ==
    [to |-> batch, priors |-> NoOutputs, gathered |-> {}, reads |-> [i \in DOMAIN batch |-> None]]

-----------------------------------------------------------------------------
(* An answer is the sequence of the headings in it, as positions in the    *)
(* list of keys the prompt asked for.                                      *)

\* What a model asked for n sections may write: all of them in order, some
\* left out, or two of them the other way round.
Answers(n) ==
    LET All == [i \in 1..n |-> i]
    IN  {All} \cup {RemoveAt(All, i) : i \in 1..n}
              \cup {[All EXCEPT ![i] = i + 1, ![i + 1] = i] : i \in 1..(n - 1)}

\* parse_outputs: key i gets what lies between its heading and the first
\* heading after it of a later key; without a heading it gets everything.
Parsed(answer, i) ==
    LET starts == {p \in DOMAIN answer : answer[p] = i}
        Until(p) == {q \in DOMAIN answer : q > p /\ answer[q] > i}
    IN  IF starts = {} THEN ToSet(answer)
        ELSE {answer[q] : q \in UNION {{q \in DOMAIN answer :
                    q >= p /\ \A r \in Until(p) : q < r} : p \in starts}}
=============================================================================
