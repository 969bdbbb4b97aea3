------------------------- MODULE MCCapsuleExecutor -------------------------
(***************************************************************************)
(* Instances of CapsuleExecutor: hierarchies as the API compiles them, and *)
(* as callers of the runtime layer build them.                             *)
(***************************************************************************)
EXTENDS CapsuleExecutor

\* Executor settings.
Fine       == [level |-> "FINE", model |-> None, context |-> "full", saves |-> TRUE]
FineUnsaved == [Fine EXCEPT !.saves = FALSE]
Compound(model, context) ==
    [level |-> "COMPOUND", model |-> model, context |-> context, saves |-> FALSE]
Iteration  == [level |-> "ITERATION", model |-> None, context |-> "full", saves |-> FALSE]

Standard   == Compound("standard", "full")
TwoPhase   == Compound("two_phase", "full")
Sequential == Compound("sequential", "full")
Shallow    == Compound("sequential", "predecessor_only")

When(leaf) == [reads |-> leaf, strict |-> FALSE]
Demand(leaf) == [reads |-> leaf, strict |-> TRUE]

\* A group as _compile_group builds it.
Group(specs, cond, tools, settings) ==
    LET names    == [i \in DOMAIN specs |-> specs[i].name]
        edges    == CompileEdges(specs)
    IN  [root     |-> "root",
         kind     |-> [n \in ToSet(names) |-> "agent"] @@ ("root" :> "compound"),
         children |-> ("root" :> names),
         edges    |-> ("root" :> edges),
         strategy |-> ("root" :> InjectionStrategy(names, edges, AnyExplicit(specs))),
         ordered  |-> {"root"},
         tools    |-> tools,
         chain    |-> << >>,
         cond     |-> cond @@ [n \in ToSet(names) |-> None],
         settings |-> settings,
         items    |-> <<>>]

Agent(n, deps) == [name |-> n, dependsOn |-> deps]

\* Three agents in a line; b wants what a wrote.
Chain == Group(<<Agent("a", None), Agent("b", None), Agent("c", None)>>,
               "b" :> When("a"), {}, {Fine, FineUnsaved, Standard, Shallow})

\* Two independent agents, one of them with tools, and one after both.
Diamond == Group(<<Agent("a", {}), Agent("b", {}), Agent("c", {"a", "b"})>>,
                 << >>, {"b"}, {Fine, TwoPhase, Sequential, Shallow})

\* Two independent agents.
Independent == Group(<<Agent("a", {}), Agent("b", {})>>, << >>, {},
                     {FineUnsaved, Standard, Sequential})

\* Two independent agents that run only on what is never there.
Idle == Group(<<Agent("a", {}), Agent("b", {})>>,
              ("a" :> When("x")) @@ ("b" :> When("x")), {}, {Fine, Standard})
Strict == Group(<<Agent("a", {}), Agent("b", {})>>,
                ("a" :> When("x")) @@ ("b" :> Demand("x")), {}, {Fine, Standard})

\* Hand-built hierarchies: no strategy was chosen, orders are computed late.
HandBuilt(kind, children, edges, cond, ordered, settings) ==
    [root |-> "root", kind |-> kind, children |-> children, edges |-> edges,
     strategy |-> [c \in DOMAIN children |-> "full"], ordered |-> ordered, tools |-> {},
     chain |-> << >>, cond |-> cond @@ [n \in DOMAIN kind |-> None], settings |-> settings, items |-> <<>>]

\* Tool steps, and all chains of two and some of three of them.
ToolStep(keys, from, key, fields) ==
    [input_keys |-> keys, input_from |-> from, output_key |-> key, fields |-> fields]

Search(from, key) == ToolStep({"query"}, from, key, {"hits"})
Fetch(from, key)  == ToolStep({"hits"}, from, key, {"page"})
Join(from, key)   == ToolStep({"hits", "page"}, from, key, {})

Steps(from) == {Search(from, "x")} \cup {Fetch(from, key) : key \in {"x", "y"}}
                   \cup {Join(from, "y")}
Chains == (Steps(None) \X UNION {Steps(from) : from \in {None, "x", "y"}})
            \cup {<<Search(None, "x"), Fetch("x", key), last>> :
                      key \in {"x", "y"}, last \in Steps("x") \cup Steps("y")}

\* An agent over a tool chain, and one between two agents.
Tooled(steps, settings) ==
    [HandBuilt(("root" :> "compound") @@ ("t" :> "tool") @@ ("b" :> "agent"),
               "root" :> <<"t", "b">>, "root" :> ("b" :> {"t"}), << >>, {}, settings)
       EXCEPT !.chain = "t" :> steps]

Between == [HandBuilt(("root" :> "compound") @@ ("t" :> "tool") @@ ("a" :> "agent")
                          @@ ("b" :> "agent"),
                      "root" :> <<"a", "t", "b">>, "root" :> ("t" :> {"a"}) @@ ("b" :> {"t"}),
                      << >>, {}, {Fine, Standard})
              EXCEPT !.chain = "t" :> <<Search(None, "x"), Fetch("x", "y")>>]

\* An agent before a nested compound, whose agents run only on its output.
Nest == HandBuilt(("root" :> "compound") @@ ("in" :> "compound") @@ ("r" :> "agent")
                      @@ ("x" :> "agent") @@ ("y" :> "agent"),
                  ("root" :> <<"r", "in">>) @@ ("in" :> <<"x", "y">>),
                  ("root" :> ("in" :> {"r"})) @@ ("in" :> ("y" :> {"x"})),
                  ("x" :> When("r")) @@ ("y" :> When("r")), {}, {Standard, Sequential})

\* A nested compound, a tool chain nobody depends on, and an agent after it.
Trailer == HandBuilt(("root" :> "compound") @@ ("in" :> "compound") @@ ("t" :> "tool")
                       @@ ("x" :> "agent") @@ ("y" :> "agent") @@ ("z" :> "agent"),
                   ("root" :> <<"in", "t", "z">>) @@ ("in" :> <<"x", "y">>),
                   ("root" :> ("z" :> {"in"})) @@ ("in" :> << >>),
                   << >>, {"root", "in"}, {Standard, Shallow})

\* One agent over three items, two at a time.
Items == [HandBuilt(("root" :> "compound") @@ ("a" :> "agent"), "root" :> <<"a">>,
                    "root" :> << >>, << >>, {"root"}, {Iteration, Fine})
             EXCEPT !.items = <<"i1", "i2", "i3">>]

Hierarchies == {Chain, Diamond, Independent, Idle, Strict, Between, Nest, Trailer, Items}
                   \cup {Tooled(steps, {FineUnsaved}) : steps \in Chains}
TwoKeys     == <<"ITEM_1_OUTPUT", "ITEM_2_OUTPUT">>

=============================================================================
