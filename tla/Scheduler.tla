------------------------------ MODULE Scheduler ------------------------------
(***************************************************************************)
(* One group from its declaration to its schedule: _compile_group derives  *)
(* the edges, compute_order sorts the leaves by Kahn's algorithm, one      *)
(* dequeued name at a time, and classify_and_set_strategy picks what the   *)
(* sequential executor injects.  The declaration is whatever a caller of   *)
(* the runtime layer may build: dependencies forward, backward, cyclic, or *)
(* on names outside the group.                                             *)
(***************************************************************************)
EXTENDS CapsuleGraph

CONSTANTS
    Members,       \* the agents of the group, in declaration order
    Outsider,      \* a name that is not in the group
    Declarable     \* the values depends_on takes

ASSUME SchedulerAssumption ==
    /\ Members \in Seq(ToSet(Members))
    /\ IsInjective(Members)
    /\ Outsider \notin ToSet(Members)
    /\ Declarable \subseteq {None} \cup SUBSET (ToSet(Members) \cup {Outsider})

Names == ToSet(Members)

VARIABLES
    declared,   \* agent -> its depends_on, or None
    inDegree,   \* agent -> dependencies not yet dequeued
    queue,      \* agents ready to be dequeued
    order,      \* agents dequeued
    outcome     \* "sorting", "cached" (serialization_order is set) or "raised"

sortVars == <<declared, inDegree, queue, order, outcome>>

Specs    == [i \in DOMAIN Members |-> [name |-> Members[i], dependsOn |-> declared[Members[i]]]]
Edges    == CompileEdges(Specs)
Waits(n) == DepsOf(Edges, n) \cap Names

SortInit ==
    /\ declared \in [Names -> Declarable]
    /\ inDegree = [n \in Names |-> Cardinality(Waits(n))]
    /\ queue    = Keep(Members, {n \in Names : inDegree[n] = 0})
    /\ order    = <<>>
    /\ outcome  = "sorting"

\* One turn of the while loop.
MutDequeue ==
    /\ outcome = "sorting" /\ queue # <<>>
    /\ LET n     == Head(queue)
           nexts == {m \in Names : n \in Waits(m)}
       IN  /\ order'    = Append(order, n)
           /\ inDegree' = [m \in Names |-> IF m \in nexts THEN inDegree[m] - 1 ELSE inDegree[m]]
           /\ queue'    = Tail(queue) \o
                          Keep(Members, nexts)
    /\ UNCHANGED <<declared, outcome>>

Dequeue ==
    /\ outcome = "sorting" /\ queue # <<>>
    /\ LET n     == Head(queue)
           nexts == {m \in Names : n \in Waits(m)}
       IN  /\ order'    = Append(order, n)
           /\ inDegree' = [m \in Names |-> IF m \in nexts THEN inDegree[m] - 1 ELSE inDegree[m]]
           /\ queue'    = Tail(queue) \o
                          Keep(Members, {m \in nexts : inDegree'[m] = 0})
    /\ UNCHANGED <<declared, outcome>>

\* The length check after the loop: the order is cached, or a CompositionError.
Finish ==
    /\ outcome = "sorting" /\ queue = <<>>
    /\ outcome' = IF Len(order) = Len(Members) THEN "cached" ELSE "raised"
    /\ UNCHANGED <<declared, inDegree, queue, order>>

SortNext == Dequeue \/ Finish

SortSpec == SortInit /\ [][SortNext]_sortVars

-----------------------------------------------------------------------------

Before(i) == {order[j] : j \in 1..(i - 1)}

\* No agent is scheduled, or queued, twice or before a sibling it depends on,
\* whatever the caller declared (compute_order); this is what lets a caller
\* run the order as it is.
OrderRespectsDeps ==
    /\ IsInjective(order \o queue)
    /\ \A i \in DOMAIN order : Waits(order[i]) \subseteq Before(i)

\* compute_order raises exactly on a cycle: the agents it could not dequeue
\* wait for one another, and a cached order leaves nobody out.  It is also the
\* order the executor gets from KahnOrder.
RaisesOnCycles ==
    LET stuck == Names \ ToSet(order)
    IN  /\ outcome = "raised" => /\ stuck # {}
                                 /\ \A n \in stuck : Waits(n) \cap stuck # {}
        /\ outcome = "cached" => stuck = {} /\ order = KahnOrder(Members, Edges)

\* What the composition rules promise about the schedule: a group that passes
\* rule 3 is scheduled, one that fails it is cyclic or names an outsider, and
\* rule 4 never rejects what rule 3 accepts.
RulesPredictSchedule ==
    /\ Termination(Members, Edges) => outcome # "raised" /\ Reachability(Members, Edges)
    /\ outcome = "cached" /\ ~Termination(Members, Edges)
           => \E n \in Names : Outsider \in DepsOf(Edges, n)

\* classify_and_set_strategy: an agent of a group left on the "full" strategy
\* depends on nothing but the agent just before it, so that the policy's
\* predecessor_only injection still shows it all it declared.
PredecessorIsEnough ==
    outcome = "cached" /\ InjectionStrategy(Members, Edges, AnyExplicit(Specs)) = "full"
        => \A i \in DOMAIN order : Waits(order[i]) \subseteq {order[j] : j \in {i - 1} \cap 1..i}
=============================================================================
