------------------------------ MODULE ToolChain ------------------------------
(***************************************************************************)
(* Tool capsules: chains of tool steps that run without a model in         *)
(* between.  A step is a record:                                           *)
(*   input_keys   the fields it expects in the dict it is handed           *)
(*   input_from   the output key whose dict that is, or None: the chain's  *)
(*                own input                                                *)
(*   output_key   the key its output dict is kept under                    *)
(*   fields       the fields of its tool's output, as its schema has them  *)
(***************************************************************************)
EXTENDS CapsuleGraph

\* ToolCapsule.validate, at construction: T-Rule 1.
MutValid(steps) ==
    /\ steps # <<>>
    /\ \A i \in DOMAIN steps : steps[i].input_from # None =>
           \E j \in 1..i : steps[j].output_key = steps[i].input_from

Valid(steps) ==
    /\ steps # <<>>
    /\ \A i \in DOMAIN steps : steps[i].input_from # None =>
           \E j \in 1..(i - 1) : steps[j].output_key = steps[i].input_from

\* ToolSchemaCache.validate_chain: the fields a step expects are those of the
\* first step that has the output key, or of any step before.
SchemasMatch(steps) ==
    \A i \in DOMAIN steps : steps[i].input_from # None =>
        LET sources == {j \in 1..(i - 1) : steps[j].output_key = steps[i].input_from}
        IN  steps[i].input_keys \subseteq
                steps[Min(sources)].fields \cup UNION {steps[j].fields : j \in 1..(i - 1)}

\* _dispatch_tool_leaf: the fields of the chain's own input.
InitialInput(steps) ==
    IF Cardinality(steps[1].input_keys) = 1 THEN steps[1].input_keys ELSE {"query"}

\* ToolOrchestrator.run: the context it keeps (output key -> the step that
\* wrote it last), and the fields of the dict step i is handed.
Kept(context, steps, i) == With(context, steps[i].output_key, i)

Handed(context, steps, i) ==
    IF steps[i].input_from = None THEN InitialInput(steps)
    ELSE steps[context[steps[i].input_from]].fields

\* A step whose source is not there raises KeyError; its tool may raise, take
\* longer than its timeout (looked at when it is back), or return no dict.
Fed(context, steps, i) == steps[i].input_from # None => steps[i].input_from \in DOMAIN context

=============================================================================
