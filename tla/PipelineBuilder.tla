--------------------------- MODULE PipelineBuilder ---------------------------
(***************************************************************************)
(* Pipeline's builder methods: what group, agent, fanout_group and         *)
(* subpipeline accept, what they record, and what the compilers make of    *)
(* the record.  A call that raises leaves its pipeline alone, except that  *)
(* subpipeline may raise with some groups embedded already.                *)
(*                                                                         *)
(* A name is a sequence of parts, joined by "/" in the code.  A group is   *)
(* [name, agents, source, dependsOn, policy]: agents is None for a fan-out *)
(* group, and source None for a static one.                                *)
(***************************************************************************)
EXTENDS CapsuleGraph

CONSTANTS
    Pipelines,
    Parts,                    \* what names are made of
    GroupNames, AgentNames,   \* pipeline -> the names its caller gives
    Prefix,                   \* name_prefix of an embedding
    Policies,                 \* pipeline -> per-group policies; its own is None
    MaxGroups, MaxAgents      \* pipeline -> bounds on its caller, over all groups

PathNames   == Seq(Parts)
Dependences == {None} \cup SUBSET PathNames
Declaration == [name : PathNames, dependsOn : Dependences]

ASSUME BuilderAssumption ==
    /\ Prefix \in PathNames
    /\ \A p \in Pipelines : GroupNames[p] \cup AgentNames[p] \subseteq PathNames
    /\ None \notin PathNames \cup Seq(Declaration)
    /\ MaxGroups \in [Pipelines -> Nat] /\ MaxAgents \in [Pipelines -> Nat]
    /\ \A p \in Pipelines : None \notin Policies[p]

VARIABLES
    groups,      \* pipeline -> _groups
    current,     \* pipeline -> _current_group, or None
    registered,  \* pipeline -> (group -> policy) as PipelineState has them
    embeds,      \* pipeline -> the pipelines embedded in it
    spoilt       \* pipelines a subpipeline call has raised on

vars == <<groups, current, registered, embeds, spoilt>>

Prefixed(name) == Prefix \o name
Static(g)      == g.agents # None
NamesOf(specs) == {specs[i].name : i \in DOMAIN specs}
AgentsIn(gs)   == UNION {NamesOf(gs[i].agents) : i \in {i \in DOMAIN gs : Static(gs[i])}}

AgentCount(gs) ==
    FoldSeq(LAMBDA g, n : IF Static(g) THEN Len(g.agents) + n ELSE n, 0, gs)

\* What depends_on may be: None, or names declared earlier, not its own.
MutAccepted(deps, name, known) == deps # None => deps \subseteq known \cup {name}

Accepted(deps, name, known) == deps # None => name \notin deps /\ deps \subseteq known

Init ==
    /\ groups     = [p \in Pipelines |-> <<>>]
    /\ current    = [p \in Pipelines |-> None]
    /\ registered = [p \in Pipelines |-> << >>]
    /\ embeds     = [p \in Pipelines |-> {}]
    /\ spoilt     = {}

AddGroup(p, g) == /\ groups'  = [groups EXCEPT ![p] = Append(@, g)]
                  /\ current' = [current EXCEPT ![p] = g.name]

\* group: a name may be declared twice.
Group(p, name, deps, policy) ==
    /\ Len(groups[p]) < MaxGroups[p]
    /\ Accepted(deps, name, NamesOf(groups[p]))
    /\ AddGroup(p, [name |-> name, agents |-> <<>>, source |-> None,
                    dependsOn |-> deps, policy |-> policy])
    /\ registered' = IF policy = None THEN registered
                     ELSE [registered EXCEPT ![p] = With(@, name, policy)]
    /\ UNCHANGED <<embeds, spoilt>>

\* agent: into the last group, which must be static and open.
Agent(p, name, deps) ==
    /\ current[p] # None
    /\ LET last == Len(groups[p])
       IN  /\ Static(groups[p][last])
           /\ AgentCount(groups[p]) < MaxAgents[p]
           /\ Accepted(deps, name, NamesOf(groups[p][last].agents))
           /\ groups' = [groups EXCEPT ![p][last].agents =
                             Append(@, [name |-> name, dependsOn |-> deps])]
    /\ UNCHANGED <<current, registered, embeds, spoilt>>

\* fanout_group: over an agent of any group there is.
FanoutGroup(p, name, source, deps) ==
    /\ Len(groups[p]) < MaxGroups[p]
    /\ source \in AgentsIn(groups[p])
    /\ Accepted(deps, name, NamesOf(groups[p]))
    /\ AddGroup(p, [name |-> name, agents |-> None, source |-> source,
                    dependsOn |-> deps, policy |-> None])
    /\ UNCHANGED <<registered, embeds, spoilt>>

-----------------------------------------------------------------------------
(* subpipeline *)

PrefixedSet(deps) == IF deps = None THEN None ELSE {Prefixed(d) : d \in deps}

MutEmbeddedDeps(deps, parentSide) ==
    IF deps \in {None, {}} THEN parentSide ELSE PrefixedSet(deps)

\* A group's edges in the parent: a root gets the parent-side dependencies,
\* an implicit edge stays implicit.
EmbeddedDeps(deps, parentSide) ==
    IF deps = {} THEN IF parentSide = None THEN {} ELSE parentSide
    ELSE PrefixedSet(deps)

MutEmbeddedPolicy(g) == g.policy

\* The copy does not take the group's policy along.
EmbeddedPolicy(g) == None

Embedded(g, parentSide) ==
    [name      |-> Prefixed(g.name),
     agents    |-> IF ~Static(g) THEN None
                   ELSE [i \in DOMAIN g.agents |->
                            [name |-> Prefixed(g.agents[i].name),
                             dependsOn |-> PrefixedSet(g.agents[i].dependsOn)]],
     source    |-> IF Static(g) THEN None ELSE Prefixed(g.source),
     dependsOn |-> EmbeddedDeps(g.dependsOn, parentSide),
     policy    |-> EmbeddedPolicy(g)]

\* The checks the loop makes before it appends group new: `before` are the
\* parent's groups, `own` those of them this call has embedded.
Fits(new, before, own) ==
    /\ new.name \notin NamesOf(before)
    /\ IF Static(new)
       THEN /\ IsInjective([i \in DOMAIN new.agents |-> new.agents[i].name])
            /\ NamesOf(new.agents) \cap AgentsIn(before) = {}
       ELSE new.source \in AgentsIn(own)

\* How many groups of `other` are embedded before the loop ends or raises.
Embeddable(before, other, parentSide) ==
    LET new(i) == Embedded(other[i], parentSide)
        Upto(n) == [i \in 1..n |-> new(i)]
    IN  CHOOSE n \in 0..Len(other) :
            /\ \A i \in 1..n : Fits(new(i), before \o Upto(i - 1), Upto(i - 1))
            /\ n < Len(other) => ~Fits(new(n + 1), before \o Upto(n), Upto(n))

Subpipeline(p, q, parentSide) ==
    /\ p # q /\ groups[q] # <<>>
    /\ Len(groups[p]) + Len(groups[q]) <= MaxGroups[p] + MaxGroups[q]
    /\ parentSide # None => parentSide \subseteq NamesOf(groups[p])
    /\ LET n == Embeddable(groups[p], groups[q], parentSide)
       IN  /\ groups' = [groups EXCEPT ![p] =
                             @ \o [i \in 1..n |-> Embedded(groups[q][i], parentSide)]]
           /\ IF n = Len(groups[q])
              THEN /\ current' = [current EXCEPT ![p] = None]
                   /\ embeds'  = [embeds EXCEPT ![p] = @ \cup {q}]
                   /\ UNCHANGED spoilt
              ELSE spoilt' = spoilt \cup {p} /\ UNCHANGED <<current, embeds>>
    /\ UNCHANGED registered

-----------------------------------------------------------------------------
(* What is made of it *)

\* _validate_runnable.
Runnable(p) == /\ groups[p] # <<>>
               /\ \A i \in DOMAIN groups[p] : groups[p][i].agents # <<>>

\* effective_policy: the first group of that name that has one.
EffectivePolicy(p, name) ==
    LET with == {i \in DOMAIN groups[p] : groups[p][i].name = name /\ groups[p][i].policy # None}
    IN  IF with = {} THEN None
        ELSE groups[p][CHOOSE i \in with : \A j \in with : i <= j].policy

\* PipelineState._effective_policy.
StatePolicy(p, name) == IF name \in DOMAIN registered[p] THEN registered[p][name] ELSE None

InOrder(specs)  == [i \in DOMAIN specs |-> specs[i].name]
Distinct(specs) == UniqueTagging(InOrder(specs))

\* A caller whose subpipeline call raised gives the pipeline up; one that is
\* embedded is built no further (its copy would not change).
Open == Pipelines \ (spoilt \cup UNION {embeds[p] : p \in Pipelines})

Known(p) == SUBSET NamesOf(groups[p])
Siblings(p) == IF groups[p] = <<>> \/ ~Static(groups[p][Len(groups[p])]) THEN {{}}
               ELSE SUBSET (AgentNames[p] \cup NamesOf(groups[p][Len(groups[p])].agents))

Next ==
    \E p \in Open :
        \/ \E name \in GroupNames[p], policy \in Policies[p] \cup {None} :
              \E deps \in {None} \cup SUBSET (GroupNames[p] \cup NamesOf(groups[p])) :
                  Group(p, name, deps, policy)
        \/ \E name \in AgentNames[p], deps \in Siblings(p) \cup {None} : Agent(p, name, deps)
        \/ \E name \in GroupNames[p], source \in AgentsIn(groups[p]), deps \in Known(p) \cup {None} :
              FanoutGroup(p, name, source, deps)
        \/ \E q \in Open : embeds[p] = {} /\ \E deps \in Known(p) \cup {None} : Subpipeline(p, q, deps)

Spec == Init /\ [][Next]_vars

-----------------------------------------------------------------------------

\* Types; the group the caller opened is the one agents go into, and the
\* pipeline and its controller state hold the same policy for every group
\* whose name is its own.
TypeOK ==
    \A p \in Pipelines :
        /\ \A i \in DOMAIN groups[p] :
               LET g == groups[p][i]
               IN  /\ g.policy \in Policies[p] \cup {None}
                   /\ Static(g) <=> g.source = None
        /\ (p \notin spoilt /\ current[p] # None) =>
               groups[p] # <<>> /\ current[p] = groups[p][Len(groups[p])].name
        /\ Distinct(groups[p]) => \A name \in NamesOf(groups[p]) :
               EffectivePolicy(p, name) = StatePolicy(p, name)

\* Whatever calls built a pipeline that run() accepts, it compiles: its
\* group graph and the agent graph of every group satisfy the composition
\* rules and are scheduled without a CompositionError or a missing level, and
\* a fan-out group comes after the group of its source.  Names are those the
\* caller keeps distinct.
AcceptedPipelinesCompile ==
    \A p \in {p \in Open : Runnable(p)} :
        LET gs == groups[p]
            Schedulable(specs) ==
                Distinct(specs) => Validated(InOrder(specs), CompileEdges(specs))
        IN  /\ Schedulable(gs)
            /\ \A i \in DOMAIN gs :
                   IF Static(gs[i]) THEN Schedulable(gs[i].agents)
                   ELSE gs[i].source \in AgentsIn(SubSeq(gs, 1, i - 1))

\* An embedded pipeline runs as it would on its own (subpipeline): between its
\* groups, and between the agents of each, the edges are those it had, its
\* fan-outs read its own agents, and only groups that waited for none of its
\* own groups wait for the parent's.
EmbeddingKeepsOrder ==
    [][\A p \in Pipelines, q \in Pipelines : q \in embeds'[p] \ embeds[p] =>
           LET own    == CompileEdges(groups[q])
               inside == {Prefixed(g) : g \in NamesOf(groups[q])}
               within == CompileEdges(groups'[p])
               New(i) == groups'[p][Len(groups[p]) + i]
           IN  \A i \in DOMAIN groups[q] :
                   LET g     == groups[q][i]
                       edges == DepsOf(within, Prefixed(g.name))
                   IN  /\ Distinct(groups'[p]) =>
                             /\ edges \cap inside = {Prefixed(d) : d \in DepsOf(own, g.name)}
                             /\ ~(edges \subseteq inside) => DepsOf(own, g.name) = {}
                       /\ IF Static(g)
                          THEN LET old == CompileEdges(g.agents)
                                   new == CompileEdges(New(i).agents)
                               IN  \A a \in NamesOf(g.agents) :
                                       DepsOf(new, Prefixed(a)) = {Prefixed(d) : d \in DepsOf(old, a)}
                          ELSE New(i).source = Prefixed(g.source)]_vars
=============================================================================
