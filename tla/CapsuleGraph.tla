---------------------------- MODULE CapsuleGraph ----------------------------
(***************************************************************************)
(* Capsule hierarchies and what is computed from them before a call: the   *)
(* edges a declared group gets, the serialization order, the topology      *)
(* class and injection strategy, the composition rules, the terminal       *)
(* leaves, and the batches of an iteration space.                          *)
(*                                                                         *)
(* A node is a name; a tree is a record of functions on names:             *)
(*   root      the root compound                                           *)
(*   kind      name -> "agent", "tool" or "compound"                       *)
(*   children  compound -> the sequence of its children                    *)
(*   edges     compound -> (child -> the names it depends on), where a     *)
(*             child without an entry declares nothing                     *)
(*   strategy  compound -> sequential_injection_strategy                   *)
(***************************************************************************)
EXTENDS Naturals, FiniteSets, SequencesExt, Lists

DepsOf(edges, n) == IF n \in DOMAIN edges THEN edges[n] ELSE {}

-----------------------------------------------------------------------------
(* Declared groups: a sequence of [name, dependsOn] records. *)

\* _compile_group's dep_edges: depends_on where it is given, and otherwise
\* the agent declared just before.
CompileEdges(specs) ==
    LET Sets == {i \in DOMAIN specs : specs[i].dependsOn # None \/ i > 1}
        Latest(n) == CHOOSE i \in Sets : /\ specs[i].name = n
                                       /\ \A j \in Sets : specs[j].name = n => j <= i
    IN  [n \in {specs[i].name : i \in Sets} |->
            IF specs[Latest(n)].dependsOn # None THEN specs[Latest(n)].dependsOn
            ELSE {specs[Latest(n) - 1].name}]

AnyExplicit(specs) == \E i \in DOMAIN specs : specs[i].dependsOn # None

-----------------------------------------------------------------------------
(* Serialization order: Kahn's breadth-first sort.  The queue is FIFO and  *)
(* neighbours are taken in the order of the edges, here the children's.    *)

Roots(names, edges) ==
    Keep(names, {n \in ToSet(names) : DepsOf(edges, n) \cap ToSet(names) = {}})

\* The names whose last dependency n is, given the names dequeued before.
MutFreedBy(n, done, names, edges) ==
    Keep(names, {m \in ToSet(names) : n \in DepsOf(edges, m)})

FreedBy(n, done, names, edges) ==
    Keep(names, {m \in ToSet(names) :
                    /\ n \in DepsOf(edges, m)
                    /\ DepsOf(edges, m) \cap ToSet(names) \subseteq done \cup {n}})

\* One turn: the first name of the queue is moved to the order.
KahnTurn(s, names, edges) ==
    IF s.queue = <<>> THEN s
    ELSE [order |-> Append(s.order, Head(s.queue)),
          queue |-> Tail(s.queue) \o
                        FreedBy(Head(s.queue), ToSet(s.order), names, edges)]

KahnTurns(names, edges, n) ==
    LET turn[k \in 0..n] ==
            IF k = 0 THEN [order |-> <<>>, queue |-> Roots(names, edges)]
            ELSE KahnTurn(turn[k - 1], names, edges)
    IN  turn

\* The order after every child has had a turn; it misses the names on a cycle.
KahnOrder(children, edges) ==
    KahnTurns(DictKeys(children), edges, Len(children))[Len(children)].order

\* compute_order: the direct leaves; None stands for its CompositionError.
ComputeOrder(tree, c) ==
    LET leaves == Keep(tree.children[c], {n \in DOMAIN tree.kind : tree.kind[n] # "compound"})
        order  == KahnOrder(leaves, tree.edges[c])
    IN  IF Len(order) = Len(leaves) THEN order ELSE None

\* _topo_order_children: the same over all children of a mixed compound.
TopoOrderChildren(tree, c) ==
    LET order == KahnOrder(tree.children[c], tree.edges[c])
    IN  IF Len(order) = Len(tree.children[c]) THEN order ELSE None

-----------------------------------------------------------------------------
(* Topology *)

\* _classify_topology.
Topology(children, edges) ==
    LET names    == ToSet(children)
        In(n)    == Cardinality(DepsOf(edges, n) \cap names)
        Out(d)   == Cardinality({n \in names : d \in DepsOf(edges, n)})
        roots    == {n \in names : In(n) = 0}
        Sinks(r) == {n \in names \ {r} : Out(n) = 0}
    IN  CASE DOMAIN edges = {} \/ Cardinality(names) <= 1 -> "linear"
          [] \E n \in names : In(n) >= 2  -> "diamond"
          [] \E n \in names : Out(n) >= 2 -> "fan_out"
          [] /\ Cardinality(roots) = 1
             /\ \A r \in roots : Out(r) >= 2 /\ Cardinality(Sinks(r)) = 1
                                          -> "parallel_converge"
          [] OTHER                        -> "linear"

\* classify_and_set_strategy; the "summary" stub for verbose chains is "full".
MutInjectionStrategy(children, edges, explicit) ==
    IF Topology(children, edges) # "linear" THEN "deps" ELSE "full"

InjectionStrategy(children, edges, explicit) ==
    IF explicit \/ Topology(children, edges) # "linear" THEN "deps" ELSE "full"

\* _is_parallel_independent: every leaf says depends_on=[].
ParallelIndependent(order, edges) ==
    Len(order) >= 2 /\ \A n \in ToSet(order) : n \in DOMAIN edges /\ edges[n] = {}

\* The leaves no other leaf of the order depends on; failing that, the last.
Terminals(order, edges) ==
    LET sinks == {n \in ToSet(order) : \A m \in DOMAIN edges : n \notin edges[m]}
    IN  IF sinks # {} \/ order = <<>> THEN sinks ELSE {order[Len(order)]}

-----------------------------------------------------------------------------
(* Traversals *)

\* all_leaves: left to right, depth first.
Leaves(tree) ==
    LET under[n \in DOMAIN tree.kind] ==
            IF tree.kind[n] # "compound" THEN <<n>>
            ELSE FlattenSeq([i \in DOMAIN tree.children[n] |-> under[tree.children[n][i]]])
    IN  under[tree.root]

Agents(tree)    == {n \in DOMAIN tree.kind : tree.kind[n] = "agent"}
Compounds(tree) == {n \in DOMAIN tree.kind : tree.kind[n] = "compound"}
AgentLeaves(order, tree) == Keep(order, Agents(tree))

\* The leaves an edge to n waits for: n, or the leaves of the compound n.
LeavesOf(tree, n) ==
    IF tree.kind[n] # "compound" THEN {n} ELSE ToSet(tree.children[n])

\* _collect_fine_dep_info: the leaves of compounds on the "deps" strategy
\* whose edges are declared, each with its edges.
FineDeps(tree) ==
    LET Declares(c) == IF tree.strategy[c] = "deps"
                       THEN ToSet(tree.children[c]) \cap DOMAIN tree.edges[c] ELSE {}
    IN  [n \in UNION {Declares(c) : c \in Compounds(tree)} |->
            LET c == CHOOSE c \in Compounds(tree) : n \in Declares(c) IN tree.edges[c][n]]

\* TagSpace.partition: the items 1..n in batches of at most k, in order.
Partition(n, k) ==
    [b \in 1..((n + k - 1) \div k) |->
        [i \in 1..(IF b * k <= n THEN k ELSE n - (b - 1) * k) |-> (b - 1) * k + i]]

-----------------------------------------------------------------------------
(* Composition rules, for one compound *)

\* Rule 2: no agent name twice.
UniqueTagging(children) == IsInjective(children)

\* Rule 3: edges stay among the children and the graph has no cycle.
Termination(children, edges) ==
    /\ \A n \in ToSet(children) : DepsOf(edges, n) \subseteq ToSet(children)
    /\ ToSet(KahnOrder(children, edges)) = ToSet(children)

\* Rule 4: every child is reachable from a child without dependencies.
Reached(names, edges, n) ==
    LET reach[k \in 0..n] ==
            IF k = 0 THEN {m \in names : DepsOf(edges, m) \cap names = {}}
            ELSE reach[k - 1] \cup {m \in names : DepsOf(edges, m) \cap reach[k - 1] # {}}
    IN  reach

Reachability(children, edges) ==
    Reached(ToSet(children), edges, Len(children))[Len(children)] = ToSet(children)

\* validate_hierarchy, for one compound of agents whose schemas have names
\* (rule 5), without a context window (rule 6).
Validated(children, edges) ==
    /\ UniqueTagging(children)
    /\ Termination(children, edges)
    /\ Reachability(children, edges)
=============================================================================
