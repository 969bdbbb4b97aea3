-------------------------- MODULE DeclarationProofs --------------------------
(***************************************************************************)
(* Proofs about what a client declares: of Scheduler, for every group of   *)
(* agents and every declaration of dependencies (the steps of              *)
(* compute_order are the turns of KahnOrder, and stay within the invariant *)
(* of a turn, see RecursionLemmas), and of PipelineBuilder, for any        *)
(* pipelines, names and policies and all their builders' calls.            *)
(***************************************************************************)
EXTENDS Scheduler, PipelineBuilder, RecursionLemmas

-----------------------------------------------------------------------------
(* compute_order, step by step.                                              *)

\* inDegree counts the dependencies that are not ordered yet.
Degrees ==
    /\ inDegree \in [Names -> Nat]
    /\ \A n \in Names : inDegree[n] = Cardinality(Waits(n) \ Range(order))

\* The steps so far are the turns of KahnOrder.
Turned ==
    /\ Len(order) \in 0 .. Len(Members)
    /\ KahnTurns(Members, Edges, Len(Members))[Len(order)].order = order
    /\ KahnTurns(Members, Edges, Len(Members))[Len(order)].queue = queue

\* The loop is left with an empty queue, and the length of the order decides.
Ended ==
    /\ outcome \in {"sorting", "cached", "raised"}
    /\ outcome # "sorting" => queue = <<>>
    /\ outcome = "cached" => Len(order) = Len(Members)
    /\ outcome = "raised" => Len(order) # Len(Members)

SortInv ==
    /\ declared \in [Names -> Declarable]
    /\ KahnInv(Members, Edges, order, queue)
    /\ Degrees
    /\ Turned
    /\ Ended

(* The members are a list without repetition.                                *)
LEMMA MembersAreAList ==
    /\ Members \in Seq(Names) /\ IsInjective(Members) /\ Names = Range(Members)
    /\ Len(Members) \in Nat /\ DOMAIN Members = 1 .. Len(Members)
    /\ IsFiniteSet(Names) /\ Cardinality(Names) = Len(Members)
<1>1. /\ Members \in Seq(Names) /\ IsInjective(Members) /\ Names = Range(Members)
    BY SchedulerAssumption, ToSetIsRange DEF Names
<1> QED
    BY <1>1, LenProperties, InjectiveLength

LEMMA WaitsAreFinite ==
    /\ \A n : Waits(n) = Waiting(Members, Edges, n)
    /\ \A n : Waits(n) \subseteq Names /\ IsFiniteSet(Waits(n))
    /\ \A n, D : IsFiniteSet(Waits(n) \ D) /\ Cardinality(Waits(n) \ D) \in Nat
<1>1. \A n : Waits(n) = Waiting(Members, Edges, n) /\ Waits(n) \subseteq Names
    BY MembersAreAList DEF Waits, Waiting
<1>2. \A n, D : Waits(n) \ D \subseteq Names
    BY <1>1
<1>3. \A S : S \subseteq Names => IsFiniteSet(S) /\ Cardinality(S) \in Nat
    BY MembersAreAList, FS_Subset, FS_CardinalityType
<1> QED
    BY <1>1, <1>2, <1>3

(* An order within Kahn's invariant has no more names than the group.        *)
LEMMA OrderFits ==
    ASSUME NEW edges, NEW ord, NEW que, KahnInv(Members, edges, ord, que)
    PROVE  /\ ord \in Seq(Names) /\ que \in Seq(Names) /\ IsInjective(ord) /\ IsInjective(que)
           /\ Len(ord) \in 0 .. Len(Members)
           /\ Len(ord) = Len(Members) <=> Range(ord) = Names
<1> HIDE DEF Names
<1> QED
    BY MembersAreAList, SortFits

LEMMA SortStarts == SortInit => SortInv
<1> SUFFICES ASSUME SortInit PROVE SortInv
    OBVIOUS
<1> DEFINE Free == {n \in Names : inDegree[n] = 0}
<1>1. /\ declared \in [Names -> Declarable]
      /\ inDegree = [n \in Names |-> Cardinality(Waits(n))]
      /\ queue = Keep(Members, Free) /\ order = <<>> /\ outcome = "sorting"
    BY DEF SortInit
<1>2. Range(<<>>) = {} /\ Len(<<>>) = 0
    BY DEF Range
<1>3. Degrees
    <2>1. \A n : Waits(n) \ {} = Waits(n)
        OBVIOUS
    <2>2. \A n \in Names : Cardinality(Waits(n)) \in Nat
        BY <2>1, WaitsAreFinite
    <2> HIDE DEF Waits
    <2> QED
        BY <1>1, <1>2, <2>1, <2>2 DEF Degrees
<1>4. \A n \in Names : n \in Free <=> Waiting(Members, Edges, n) = {}
    BY <1>1, WaitsAreFinite, FS_EmptySet
<1>5. Roots(Members, Edges) = queue
    <2>1. Free = {n \in ToSet(Members) : DepsOf(Edges, n) \cap ToSet(Members) = {}}
        BY <1>4, ToSetIsRange DEF Waiting, Names
    <2> HIDE DEF Free
    <2> QED
        BY <1>1, <2>1 DEF Roots
<1>6. KahnInv(Members, Edges, order, queue)
    <2>1. /\ queue \in Seq(Range(Members)) /\ IsInjective(queue)
          /\ \A n : n \in Range(queue) <=>
                        n \in Range(Members) /\ Waiting(Members, Edges, n) = {}
        BY <1>5, MembersAreAList, RootsAreKept
    <2> QED
        BY <1>1, <2>1, MembersAreAList, KahnStarts
<1>7. Turned
    <2>1. KahnTurns(Members, Edges, Len(Members))[0] = [order |-> <<>>, queue |-> queue]
        BY <1>5, MembersAreAList, KahnIsComputed
    <2>2. 0 \in 0 .. Len(Members)
        BY MembersAreAList
    <2>3. Len(order) = 0 /\ order = <<>>
        BY <1>1, <1>2
    <2>4. /\ KahnTurns(Members, Edges, Len(Members))[0].order = <<>>
          /\ KahnTurns(Members, Edges, Len(Members))[0].queue = queue
        BY <2>1
    <2> HIDE DEF Edges
    <2> QED
        BY <2>2, <2>3, <2>4 DEF Turned
<1>8. Ended
    BY <1>1 DEF Ended
<1> QED
    BY <1>1, <1>3, <1>6, <1>7, <1>8 DEF SortInv

LEMMA SortGoesOn == SortInv /\ [SortNext]_sortVars => SortInv'
<1> SUFFICES ASSUME SortInv, [SortNext]_sortVars PROVE SortInv'
    OBVIOUS
<1>1. /\ declared \in [Names -> Declarable] /\ KahnInv(Members, Edges, order, queue)
      /\ Degrees /\ Turned /\ Ended
    BY DEF SortInv
<1>2. declared' = declared
    BY DEF SortNext, Dequeue, Finish, sortVars
<1>3. Edges' = Edges /\ \A n : Waits(n)' = Waits(n)
    BY <1>2 DEF Edges, Specs, Waits
<1>4. ASSUME Dequeue PROVE SortInv'
    <2> DEFINE h == Head(queue)
               nexts == {m \in Names : h \in Waits(m)}
               Freed == {m \in nexts : inDegree'[m] = 0}
               new == Keep(Members, Freed)
    <2>1. /\ outcome = "sorting" /\ queue # <<>> /\ outcome' = "sorting"
          /\ order' = Append(order, h)
          /\ inDegree' = [m \in Names |-> IF m \in nexts THEN inDegree[m] - 1 ELSE inDegree[m]]
          /\ queue' = Tail(queue) \o new
        BY <1>4 DEF Dequeue
    <2>2. /\ order \in Seq(Names) /\ queue \in Seq(Names)
          /\ h \in Names /\ h \in Range(queue) /\ h \notin Range(order)
        BY <1>1, <2>1, MembersAreAList, TakeFirstOf DEF KahnInv
    <2>3. Range(order') = Range(order) \cup {h} /\ Len(order') = Len(order) + 1
        <3> HIDE DEF h
        <3> QED
            BY <2>1, <2>2, AppendOneTo, AppendProperties
    <2> HIDE DEF h, new
    <2>4. ASSUME NEW m \in Names
          PROVE  /\ inDegree'[m] = Cardinality(Waits(m) \ Range(order'))
                 /\ inDegree'[m] \in Nat
        <3> DEFINE left == Waits(m) \ Range(order)
        <3>1. /\ IsFiniteSet(left) /\ inDegree[m] = Cardinality(left)
              /\ Cardinality(Waits(m) \ Range(order')) \in Nat
            BY <1>1, WaitsAreFinite DEF Degrees
        <3>2. Waits(m) \ Range(order') = left \ {h}
            BY <2>3
        <3>3. h \in left <=> m \in nexts
            BY <2>2
        <3>4. Cardinality(left \ {h}) = IF h \in left THEN Cardinality(left) - 1
                                        ELSE Cardinality(left)
            BY <3>1, FS_RemoveElement
        <3>5. inDegree'[m] = IF m \in nexts THEN inDegree[m] - 1 ELSE inDegree[m]
            BY <2>1
        <3> HIDE DEF left, nexts
        <3> QED
            BY <3>1, <3>2, <3>3, <3>4, <3>5
    <2>5. Degrees'
        <3>1. inDegree' \in [Names -> Nat]
            <4> HIDE DEF nexts
            <4> QED
                BY <2>1, <2>4
        <3> HIDE DEF Waits, nexts
        <3> QED
            BY <1>3, <2>4, <3>1 DEF Degrees
    <2>6. ASSUME NEW m
          PROVE  m \in Freed <=> /\ m \in ToSet(Members)
                                 /\ h \in DepsOf(Edges, m)
                                 /\ DepsOf(Edges, m) \cap ToSet(Members)
                                        \subseteq ToSet(order) \cup {h}
        <3>1. m \in nexts <=> m \in ToSet(Members) /\ h \in DepsOf(Edges, m)
            BY <2>2 DEF Waits, Names
        <3>2. Waits(m) = DepsOf(Edges, m) \cap ToSet(Members)
            BY DEF Waits, Names
        <3>3. m \in Names => (inDegree'[m] = 0 <=> Waits(m) \ Range(order') = {})
            BY <2>4, WaitsAreFinite, FS_EmptySet
        <3>4. ToSet(order) = Range(order) /\ (m \in nexts => m \in Names)
            BY ToSetIsRange
        <3> HIDE DEF nexts, Waits
        <3> QED
            BY <2>3, <3>1, <3>2, <3>3, <3>4
    <2>7. new = FreedBy(h, ToSet(order), Members, Edges)
        <3>1. Freed = {m \in ToSet(Members) :
                          /\ h \in DepsOf(Edges, m)
                          /\ DepsOf(Edges, m) \cap ToSet(Members) \subseteq ToSet(order) \cup {h}}
            <4> HIDE DEF Freed
            <4> QED
                BY <2>6
        <3> QED
            BY <3>1 DEF FreedBy, new
    <2>8. KahnInv(Members, Edges, order', queue')
        BY <1>1, <2>1, <2>7, MembersAreAList, KahnTurnKeeps DEF h
    <2>9. Turned'
        <3> DEFINE t == KahnTurns(Members, Edges, Len(Members))
                   L == Len(order)
        <3>1. /\ L \in 0 .. Len(Members) /\ t[L].order = order /\ t[L].queue = queue
            BY <1>1 DEF Turned
        <3>2. L + 1 \in 0 .. Len(Members) /\ L + 1 = Len(order')
            BY <2>3, <2>8, OrderFits
        <3>3. \A k \in 1 .. Len(Members) : t[k] = KahnTurn(t[k - 1], Members, Edges)
            BY MembersAreAList, KahnIsComputed
        <3> HIDE DEF t, L
        <3>4. L + 1 \in 1 .. Len(Members) /\ (L + 1) - 1 = L
            BY <3>1, <3>2, MembersAreAList
        <3>5. t[L + 1] = KahnTurn(t[L], Members, Edges)
            BY <3>3, <3>4
        <3>6. t[L + 1] = [order |-> Append(order, h),
                          queue |-> Tail(queue) \o FreedBy(h, ToSet(order), Members, Edges)]
            BY <2>1, <3>1, <3>5 DEF KahnTurn, h
        <3>7. t[L + 1].order = order' /\ t[L + 1].queue = queue'
            BY <2>1, <2>7, <3>6
        <3> QED
            BY <1>3, <3>2, <3>7 DEF Turned, t
    <2>10. Ended'
        BY <2>1 DEF Ended
    <2> QED
        BY <1>1, <1>2, <1>3, <2>5, <2>8, <2>9, <2>10 DEF SortInv
<1>5. ASSUME Finish PROVE SortInv'
    <2>1. /\ outcome = "sorting" /\ queue = <<>>
          /\ outcome' = (IF Len(order) = Len(Members) THEN "cached" ELSE "raised")
          /\ inDegree' = inDegree /\ queue' = queue /\ order' = order
        BY <1>5 DEF Finish
    <2>2. Ended'
        BY <2>1 DEF Ended
    <2>3. Degrees' /\ Turned'
        <3> HIDE DEF Waits, Edges
        <3> QED
            BY <1>1, <1>3, <2>1 DEF Degrees, Turned
    <2> QED
        BY <1>1, <1>2, <1>3, <2>1, <2>2, <2>3 DEF SortInv
<1>6. ASSUME UNCHANGED sortVars PROVE SortInv'
    <2>1. inDegree' = inDegree /\ queue' = queue /\ order' = order /\ outcome' = outcome
        BY <1>6 DEF sortVars
    <2>2. Degrees' /\ Turned' /\ Ended'
        <3> HIDE DEF Waits, Edges
        <3> QED
            BY <1>1, <1>3, <2>1 DEF Degrees, Turned, Ended
    <2> QED
        BY <1>1, <1>2, <1>3, <2>1, <2>2 DEF SortInv
<1> QED
    BY <1>4, <1>5, <1>6 DEF SortNext

(* compute_order stays within Kahn's invariant, counts what is left to wait  *)
(* for, and takes the turns of KahnOrder.                                    *)
THEOREM SortIsKahns == SortSpec => []SortInv
<1>1. SortInit => SortInv
    BY SortStarts
<1>2. SortInv /\ [SortNext]_sortVars => SortInv'
    BY SortGoesOn
<1> QED
    BY <1>1, <1>2, PTL DEF SortSpec

-----------------------------------------------------------------------------
(* compute_order never schedules or queues an agent twice, or before a       *)
(* sibling it depends on, whatever the caller declared.                      *)
THEOREM DepsComeFirst == SortSpec => []OrderRespectsDeps
<1>1. SortInv => OrderRespectsDeps
    <2> SUFFICES ASSUME SortInv PROVE OrderRespectsDeps
        OBVIOUS
    <2>1. KahnInv(Members, Edges, order, queue)
        BY DEF SortInv
    <2>2. /\ order \in Seq(Names) /\ queue \in Seq(Names)
          /\ IsInjective(order) /\ IsInjective(queue) /\ Range(order) \cap Range(queue) = {}
        BY <2>1, OrderFits DEF KahnInv
    <2>3. IsInjective(order \o queue) /\ DOMAIN order = 1 .. Len(order)
        BY <2>2, ConcatTwo, LenProperties
    <2>4. \A i \in 1 .. Len(order) : Waits(order[i]) \subseteq Before(i)
        BY <2>1, WaitsAreFinite DEF KahnInv, Before
    <2> QED
        BY <2>3, <2>4 DEF OrderRespectsDeps
<1> QED
    BY <1>1, SortIsKahns, PTL

(* When the loop is left, KahnOrder has the order it produced.               *)
LEMMA OrderIsKahnOrder ==
    ASSUME SortInv, queue = <<>>
    PROVE  order = KahnOrder(Members, Edges)
<1> DEFINE t == KahnTurns(Members, Edges, Len(Members))
<1>1. /\ Len(order) \in 0 .. Len(Members)
      /\ t[Len(order)].order = order /\ t[Len(order)].queue = queue
    BY DEF SortInv, Turned
<1>2. t[Len(Members)] = t[Len(order)]
    <2> HIDE DEF Edges
    <2> QED
        BY <1>1, MembersAreAList, KahnStays
<1>3. DictKeys(Members) = Members
    BY MembersAreAList, DictKeysInjective
<1> HIDE DEF Edges
<1> QED
    BY <1>1, <1>2, <1>3 DEF KahnOrder

(* compute_order raises only when the agents that are left wait for one      *)
(* another, and a cached order has every agent, in the order that            *)
(* _topo_order_children and the planners compute for the same edges.         *)
THEOREM RaisesOnlyOnCycles == SortSpec => []RaisesOnCycles
<1>1. SortInv => RaisesOnCycles
    <2> SUFFICES ASSUME SortInv PROVE RaisesOnCycles
        OBVIOUS
    <2> DEFINE stuck == Names \ ToSet(order)
    <2>1. KahnInv(Members, Edges, order, queue) /\ Ended
        BY DEF SortInv
    <2>2. /\ ToSet(order) = Range(order) /\ Range(order) \subseteq Names
          /\ Len(order) = Len(Members) <=> Range(order) = Names
        BY <2>1, ToSetIsRange, OrderFits, RangeOfSeq
    <2>3. ASSUME outcome = "raised"
          PROVE  stuck # {} /\ \A n \in stuck : Waits(n) \cap stuck # {}
        <3>1. Len(order) # Len(Members) /\ queue = <<>>
            BY <2>1, <2>3 DEF Ended
        <3>2. stuck # {}
            BY <2>2, <3>1
        <3>3. ASSUME NEW n \in stuck PROVE Waits(n) \cap stuck # {}
            <4>1. Range(queue) = {}
                BY <3>1 DEF Range
            <4>2. n \in Range(Members) /\ n \notin Range(order) \cup Range(queue)
                BY <2>2, <4>1, MembersAreAList
            <4>3. ~(Waiting(Members, Edges, n) \subseteq Range(order))
                BY <2>1, <4>2 DEF KahnInv
            <4> QED
                BY <2>2, <4>3, WaitsAreFinite
        <3> QED
            BY <3>2, <3>3
    <2>4. ASSUME outcome = "cached"
          PROVE  stuck = {} /\ order = KahnOrder(Members, Edges)
        <3>1. Len(order) = Len(Members) /\ queue = <<>>
            BY <2>1, <2>4 DEF Ended
        <3> QED
            BY <2>2, <3>1, OrderIsKahnOrder
    <2> QED
        BY <2>3, <2>4 DEF RaisesOnCycles
<1> QED
    BY <1>1, SortIsKahns, PTL

-----------------------------------------------------------------------------
(* The edges _compile_group derives: what the agent declares, or else the    *)
(* agent declared just before it.                                            *)
LEMMA EdgesAreDeclared ==
    ASSUME NEW i \in 1 .. Len(Members)
    PROVE  DepsOf(Edges, Members[i]) =
               IF declared[Members[i]] # None THEN declared[Members[i]]
               ELSE IF i > 1 THEN {Members[i - 1]} ELSE {}
<1>1. /\ DOMAIN Specs = 1 .. Len(Members) /\ Len(Members) \in Nat
      /\ \A j \in 1 .. Len(Members) : /\ Specs[j].name = Members[j]
                                      /\ Specs[j].dependsOn = declared[Members[j]]
    BY MembersAreAList DEF Specs
<1>2. \A j, k \in 1 .. Len(Members) : Members[j] = Members[k] => j = k
    BY MembersAreAList DEF IsInjective
<1> HIDE DEF Specs
<1>3. \A j, k \in 1 .. Len(Members) : Specs[j].name = Specs[k].name => j = k
    BY <1>1, <1>2
<1>4. DepsOf(Edges, Specs[i].name) =
          IF Specs[i].dependsOn # None THEN Specs[i].dependsOn
          ELSE IF i > 1 THEN {Specs[i - 1].name} ELSE {}
    BY <1>1, <1>3, EdgesAreCompiled DEF Edges
<1>5. i > 1 => i - 1 \in 1 .. Len(Members)
    BY <1>1
<1> QED
    BY <1>1, <1>4, <1>5

(* What the rules decide: rule 4 accepts what rule 3 accepts.                *)
LEMMA RuleThreeReaches ==
    ASSUME NEW edges, Termination(Members, edges)
    PROVE  Reachability(Members, edges) /\ Range(KahnOrder(Members, edges)) = Names
<1>1. Range(KahnOrder(Members, edges)) = Range(Members)
    BY ToSetIsRange DEF Termination
<1> QED
    BY <1>1, MembersAreAList, TerminationReaches

(* A dependency is a member or the outsider.                                 *)
LEMMA DepsAreKnown ==
    ASSUME declared \in [Names -> Declarable], NEW n \in Names
    PROVE  DepsOf(Edges, n) \subseteq Names \cup {Outsider}
<1>1. PICK i \in 1 .. Len(Members) : n = Members[i]
    BY MembersAreAList DEF Range
<1>2. declared[n] # None => declared[n] \subseteq Names \cup {Outsider}
    BY SchedulerAssumption DEF Names
<1>3. i > 1 => Members[i - 1] \in Names
    <2>1. i > 1 => i - 1 \in 1 .. Len(Members)
        BY MembersAreAList
    <2> QED
        BY <2>1, MembersAreAList, ElementOfSeq
<1>4. DepsOf(Edges, Members[i]) = IF declared[Members[i]] # None THEN declared[Members[i]]
                                  ELSE IF i > 1 THEN {Members[i - 1]} ELSE {}
    BY EdgesAreDeclared
<1> HIDE DEF Names, Edges
<1> QED
    BY <1>1, <1>2, <1>3, <1>4

(* What the composition rules promise about the schedule: compute_order      *)
(* never raises for a group that passes rule 3, which passes rule 4 too; a   *)
(* group that fails rule 3 and is scheduled depends on an outsider.          *)
THEOREM RulesPredict == SortSpec => []RulesPredictSchedule
<1>1. SortInv => RulesPredictSchedule
    <2> SUFFICES ASSUME SortInv PROVE RulesPredictSchedule
        OBVIOUS
    <2>1. /\ declared \in [Names -> Declarable] /\ Ended
          /\ KahnInv(Members, Edges, order, queue)
        BY DEF SortInv
    <2>2. Len(order) = Len(Members) <=> Range(order) = Names
        BY <2>1, OrderFits
    <2>3. ASSUME Termination(Members, Edges)
          PROVE  outcome # "raised" /\ Reachability(Members, Edges)
        <3>1. Reachability(Members, Edges) /\ Range(KahnOrder(Members, Edges)) = Names
            BY <2>3, RuleThreeReaches
        <3>2. ASSUME outcome = "raised" PROVE FALSE
            <4>1. queue = <<>> /\ Len(order) # Len(Members)
                BY <2>1, <3>2 DEF Ended
            <4>2. order = KahnOrder(Members, Edges)
                BY <4>1, OrderIsKahnOrder
            <4> QED
                BY <2>2, <3>1, <4>1, <4>2
        <3> QED
            BY <3>1, <3>2
    <2>4. ASSUME outcome = "cached", ~Termination(Members, Edges)
          PROVE  \E n \in Names : Outsider \in DepsOf(Edges, n)
        <3>1. queue = <<>> /\ Range(order) = Names
            BY <2>1, <2>2, <2>4 DEF Ended
        <3>2. ToSet(KahnOrder(Members, Edges)) = ToSet(Members)
            BY <3>1, OrderIsKahnOrder, ToSetIsRange DEF Names
        <3>3. PICK n \in Names : ~(DepsOf(Edges, n) \subseteq Names)
            BY <2>4, <3>2 DEF Termination, Names
        <3>4. DepsOf(Edges, n) \subseteq Names \cup {Outsider}
            BY <2>1, DepsAreKnown
        <3> QED
            BY <3>3, <3>4
    <2> QED
        BY <2>3, <2>4 DEF RulesPredictSchedule
<1> QED
    BY <1>1, SortIsKahns, PTL

-----------------------------------------------------------------------------
(* Without a declaration the group is a chain, ordered as it is declared.    *)
LEMMA ChainsStay ==
    ASSUME SortInv, \A n \in Names : declared[n] = None, NEW i \in 1 .. Len(order)
    PROVE  order[i] = Members[i] /\ Waits(order[i]) \subseteq {order[j] : j \in {i - 1} \cap 1 .. i}
<1> DEFINE L == Len(order)
           M == Len(Members)
<1>1. /\ KahnInv(Members, Edges, order, queue) /\ Names = Range(Members)
      /\ order \in Seq(Range(Members)) /\ IsInjective(order)
      /\ M \in Nat /\ L \in 0 .. M
    BY MembersAreAList, OrderFits DEF SortInv
<1>2. \A k \in 1 .. M : Members[k] \in Names
    BY MembersAreAList, ElementOfSeq
<1>3. \A k \in 1 .. M : /\ k > 1 => k - 1 \in 1 .. M /\ Waits(Members[k]) = {Members[k - 1]}
                        /\ k = 1 => Waits(Members[k]) = {}
    <2> SUFFICES ASSUME NEW k \in 1 .. M
                 PROVE  /\ k > 1 => k - 1 \in 1 .. M /\ Waits(Members[k]) = {Members[k - 1]}
                        /\ k = 1 => Waits(Members[k]) = {}
        OBVIOUS
    <2>1. DepsOf(Edges, Members[k]) = IF declared[Members[k]] # None THEN declared[Members[k]]
                                      ELSE IF k > 1 THEN {Members[k - 1]} ELSE {}
        BY EdgesAreDeclared
    <2>2. declared[Members[k]] = None /\ (k > 1 => k - 1 \in 1 .. M)
        BY <1>1, <1>2
    <2> HIDE DEF Edges, M, Names
    <2> QED
        BY <1>2, <2>1, <2>2 DEF Waits
<1>4. DepsFirst(Members, Edges, order)
    BY <1>1 DEF KahnInv, DepsFirst
<1>5. \A j \in 1 .. L : order[j] = Members[j]
    <2>1. IsChain(Members, Edges)
        BY <1>3, WaitsAreFinite DEF IsChain
    <2>2. Members \in Seq(Names) /\ IsInjective(Members) /\ L <= M
        BY <1>1, MembersAreAList
    <2> QED
        BY <1>1, <1>4, <2>1, <2>2, ChainsAreOrdered
<1> HIDE DEF L, M, Waits
<1>6. i \in 1 .. L /\ i \in 1 .. M /\ order[i] = Members[i]
    BY <1>1, <1>5 DEF L
<1>7. CASE i = 1
    BY <1>3, <1>6, <1>7
<1>8. CASE i # 1
    <2>1. i - 1 \in 1 .. L /\ i > 1 /\ i - 1 \in {i - 1} \cap 1 .. i
        BY <1>1, <1>6, <1>8
    <2>2. Waits(Members[i]) = {Members[i - 1]} /\ order[i - 1] = Members[i - 1]
        BY <1>3, <1>5, <1>6, <2>1
    <2> QED
        BY <1>6, <2>1, <2>2
<1> QED
    BY <1>7, <1>8

(* A group that classify_and_set_strategy leaves on "full" injection has no  *)
(* agent that depends on anything but the one just before it in the order:   *)
(* predecessor_only injection then shows every agent all it declared.        *)
THEOREM PredecessorSuffices == SortSpec => []PredecessorIsEnough
<1>1. SortInv => PredecessorIsEnough
    <2> SUFFICES ASSUME SortInv, InjectionStrategy(Members, Edges, AnyExplicit(Specs)) = "full",
                        NEW i \in DOMAIN order
                 PROVE  Waits(order[i]) \subseteq {order[j] : j \in {i - 1} \cap 1 .. i}
        BY DEF PredecessorIsEnough
    <2>1. ~AnyExplicit(Specs)
        BY DEF InjectionStrategy
    <2>2. \A n \in Names : declared[n] = None
        <3>1. /\ DOMAIN Specs = DOMAIN Members
              /\ \A k \in DOMAIN Members : Specs[k].dependsOn = declared[Members[k]]
            BY DEF Specs
        <3>2. \A n \in Names : \E k \in DOMAIN Members : n = Members[k]
            BY MembersAreAList DEF Range
        <3> QED
            BY <2>1, <3>1, <3>2 DEF AnyExplicit
    <2>3. i \in 1 .. Len(order)
        BY OrderFits, LenProperties DEF SortInv
    <2> QED
        BY <2>2, <2>3, ChainsStay
<1> QED
    BY <1>1, SortIsKahns, PTL
-----------------------------------------------------------------------------
(* PipelineBuilder: what its calls make of the declared lists.               *)

\* depends_on names what was declared before.
Backward(specs) ==
    \A i \in DOMAIN specs : specs[i].dependsOn # None =>
        specs[i].dependsOn \subseteq {specs[j].name : j \in 1 .. i - 1}

LEMMA DistinctNames ==
    ASSUME NEW specs
    PROVE  Distinct(specs) <=>
               \A i, j \in DOMAIN specs : specs[i].name = specs[j].name => i = j
BY DEF Distinct, UniqueTagging, InOrder, IsInjective

(* A longer list that looks back.                                            *)
LEMMA BackwardGrows ==
    ASSUME NEW A, NEW s \in Seq(A), NEW t \in Seq(A), Backward(s),
           \A i \in 1 .. Len(t) : t[i].dependsOn # None =>
               t[i].dependsOn \subseteq NamesOf(s) \cup {t[j].name : j \in 1 .. i - 1}
    PROVE  Backward(s \o t)
<1> DEFINE u == s \o t
<1>1. /\ Len(s) \in Nat /\ Len(t) \in Nat /\ DOMAIN s = 1 .. Len(s) /\ DOMAIN u = 1 .. Len(s) + Len(t)
      /\ \A i \in 1 .. Len(s) : u[i] = s[i] /\ i \in 1 .. Len(s) + Len(t)
      /\ \A i \in 1 .. Len(t) : u[Len(s) + i] = t[i]
      /\ \A i \in 1 .. Len(s) + Len(t) : i \in 1 .. Len(s) \/ \E j \in 1 .. Len(t) : i = Len(s) + j
    BY Joined
<1> HIDE DEF u
<1>2. ASSUME NEW i \in 1 .. Len(s), u[i].dependsOn # None, NEW d \in u[i].dependsOn
      PROVE  d \in {u[j].name : j \in 1 .. i - 1}
    <2>1. i \in DOMAIN s /\ s[i].dependsOn # None /\ d \in s[i].dependsOn
        BY <1>1, <1>2
    <2>2. PICK j \in 1 .. i - 1 : d = s[j].name
        BY <2>1 DEF Backward
    <2>3. j \in 1 .. Len(s)
        BY <1>1
    <2>4. u[j] = s[j]
        BY <1>1, <2>3
    <2> QED
        BY <2>2, <2>4
<1>3. ASSUME NEW k \in 1 .. Len(t), t[k].dependsOn # None, NEW d \in t[k].dependsOn
      PROVE  d \in {u[j].name : j \in 1 .. Len(s) + k - 1}
    <2>1. CASE d \in NamesOf(s)
        <3>1. PICK j \in 1 .. Len(s) : d = s[j].name
            BY <1>1, <2>1 DEF NamesOf
        <3>2. j \in 1 .. Len(s) + k - 1
            BY <1>1
        <3> QED
            BY <1>1, <3>1, <3>2
    <2>2. CASE \E j \in 1 .. k - 1 : d = t[j].name
        <3>1. PICK j \in 1 .. k - 1 : d = t[j].name
            BY <2>2
        <3>2. j \in 1 .. Len(t) /\ Len(s) + j \in 1 .. Len(s) + k - 1
            BY <1>1
        <3> QED
            BY <1>1, <3>1, <3>2
    <2> QED
        BY <1>3, <2>1, <2>2
<1>4. ASSUME NEW i \in DOMAIN u, u[i].dependsOn # None, NEW d \in u[i].dependsOn
      PROVE  d \in {u[j].name : j \in 1 .. i - 1}
    <2>1. CASE i \in 1 .. Len(s)
        BY <1>2, <1>4, <2>1
    <2>2. CASE \E k \in 1 .. Len(t) : i = Len(s) + k
        <3>1. PICK k \in 1 .. Len(t) : i = Len(s) + k
            BY <2>2
        <3>2. d \in {u[j].name : j \in 1 .. Len(s) + k - 1}
            BY <1>1, <1>3, <1>4, <3>1
        <3> QED
            BY <3>1, <3>2
    <2> QED
        BY <1>1, <1>4, <2>1, <2>2
<1>5. Backward(u)
    BY <1>4 DEF Backward
<1> QED
    BY <1>5 DEF u

(* A list with distinct names that looks back compiles: everybody is         *)
(* ordered, because the first who is not waits only for earlier ones.        *)
LEMMA BackwardCompiles ==
    ASSUME NEW A, NEW S, \A r \in S : r.name \in A,
           NEW specs \in Seq(S), Backward(specs), Distinct(specs)
    PROVE  Validated(InOrder(specs), CompileEdges(specs))
<1> DEFINE names == InOrder(specs)
           edges == CompileEdges(specs)
           N     == Len(specs)
<1>1. /\ N \in Nat /\ DOMAIN specs = 1 .. N
      /\ \A i \in 1 .. N : specs[i] \in S /\ specs[i].name \in A
    BY LenProperties, ElementOfSeq
<1>2. \A i, j \in 1 .. N : specs[i].name = specs[j].name => i = j
    BY <1>1, DistinctNames
<1>3. names = [i \in 1 .. N |-> specs[i].name]
    BY <1>1 DEF InOrder
<1>4. names \in [1 .. N -> A]
    BY <1>1, <1>3
<1>5. /\ names \in Seq(A) /\ Len(names) = N /\ DOMAIN names = 1 .. N
      /\ \A i \in 1 .. N : names[i] = specs[i].name
    BY <1>1, <1>3, <1>4
<1>6. IsInjective(names)
    BY <1>2, <1>5 DEF IsInjective
<1>7. ASSUME NEW i \in 1 .. N PROVE DepsOf(edges, names[i]) \subseteq {names[j] : j \in 1 .. i - 1}
    <2>1. DepsOf(edges, specs[i].name) =
              IF specs[i].dependsOn # None THEN specs[i].dependsOn
              ELSE IF i > 1 THEN {specs[i - 1].name} ELSE {}
        BY <1>1, <1>2, EdgesAreCompiled
    <2>2. \A j \in 1 .. i - 1 : j \in 1 .. N
        BY <1>1
    <2>3. specs[i].dependsOn # None => specs[i].dependsOn \subseteq {names[j] : j \in 1 .. i - 1}
        BY <1>1, <1>5, <2>2 DEF Backward
    <2>4. i > 1 => i - 1 \in 1 .. i - 1
        BY <1>1
    <2> HIDE DEF edges, names
    <2> QED
        BY <1>5, <2>1, <2>2, <2>3, <2>4
<1> HIDE DEF names, edges
<1>8. \A n \in ToSet(names) : DepsOf(edges, n) \subseteq ToSet(names)
    <2>1. ASSUME NEW i \in 1 .. N, NEW d \in DepsOf(edges, names[i]) PROVE d \in ToSet(names)
        <3>1. PICK j \in 1 .. i - 1 : d = names[j]
            BY <1>7, <2>1
        <3>2. j \in 1 .. N
            BY <1>1
        <3> QED
            BY <1>5, <3>1, <3>2 DEF ToSet
    <2> QED
        BY <1>5, <2>1 DEF ToSet
<1> DEFINE s == KahnTurns(names, edges, N)[N]
<1>9. KahnOrder(names, edges) = s.order
    BY <1>5, <1>6, DictKeysInjective DEF KahnOrder
<1>10. KahnInv(names, edges, s.order, s.queue) /\ (s.queue # <<>> => Len(s.order) = N)
    <2>1. N \in 0 .. N
        BY <1>1
    <2> QED
        BY <1>1, <1>5, <1>6, <2>1, KahnTurnsKeep
<1> HIDE DEF s
<1>11. Range(s.order) = Range(names)
    <2>1. Len(s.order) = N <=> Range(s.order) = Range(names)
        BY <1>5, <1>6, <1>10, SortFits
    <2>2. CASE s.queue # <<>>
        BY <1>10, <2>1, <2>2
    <2>3. CASE s.queue = <<>>
        <3> DEFINE left == {i \in 1 .. N : names[i] \notin Range(s.order)}
        <3>1. /\ Range(s.order) \subseteq Range(names)
              /\ \A n \in Range(names) : Waiting(names, edges, n) \subseteq Range(s.order) => n \in Range(s.order)
            <4>1. Range(s.queue) = {}
                BY <2>3 DEF Range
            <4>2. s.order \in Seq(Range(names))
                BY <1>10 DEF KahnInv
            <4> QED
                BY <1>10, <4>1, <4>2, OfItsElements DEF KahnInv
        <3>2. ASSUME left # {} PROVE FALSE
            <4>1. left \in SUBSET Nat
                BY <1>1
            <4>2. PICK m \in left : \A n \in left : m <= n
                BY <3>2, <4>1, LeastNumber
            <4>3. \A j \in 1 .. m - 1 : j \in 1 .. N /\ names[j] \in Range(s.order)
                BY <1>1, <4>2
            <4>4. Waiting(names, edges, names[m]) \subseteq Range(s.order)
                <5>1. m \in 1 .. N
                    BY <4>2
                <5>2. DepsOf(edges, names[m]) \subseteq {names[j] : j \in 1 .. m - 1}
                    BY <1>7, <5>1
                <5> QED
                    BY <4>3, <5>2 DEF Waiting
            <4>5. names[m] \in Range(names)
                BY <1>5, <4>2 DEF Range
            <4> QED
                BY <3>1, <4>2, <4>4, <4>5
        <3>3. Range(names) \subseteq Range(s.order)
            BY <1>5, <3>2 DEF Range
        <3> QED
            BY <3>1, <3>3
    <2> QED
        BY <2>2, <2>3
<1>12. Range(KahnOrder(names, edges)) = Range(names)
    BY <1>9, <1>11
<1>13. Reachability(names, edges)
    BY <1>5, <1>6, <1>12, TerminationReaches
<1>14. Termination(names, edges)
    BY <1>8, <1>12, ToSetIsRange DEF Termination
<1>15. Validated(names, edges)
    BY <1>6, <1>13, <1>14 DEF Validated, UniqueTagging
<1> QED
    BY <1>15 DEF names, edges
-----------------------------------------------------------------------------
(* The record of a pipeline, and what it grows by.                           *)

GroupOf(p) == [name : PathNames, agents : {None} \cup Seq(Declaration),
               source : {None} \cup PathNames, dependsOn : Dependences,
               policy : {None} \cup Policies[p]]

BuilderType ==
    /\ DOMAIN groups = Pipelines /\ DOMAIN current = Pipelines
    /\ DOMAIN registered = Pipelines /\ DOMAIN embeds = Pipelines
    /\ \A p \in Pipelines : groups[p] \in Seq(GroupOf(p))

\* Groups and agents depend on what was declared before them, and a fan-out
\* is over an agent of a group before it.
AgentsBefore(gs, i) == UNION {NamesOf(gs[j].agents) : j \in {j \in 1 .. i - 1 : Static(gs[j])}}

LooksBack(gs) ==
    /\ Backward(gs)
    /\ \A i \in DOMAIN gs :
           IF Static(gs[i]) THEN gs[i].source = None /\ Backward(gs[i].agents)
           ELSE gs[i].source # None /\ gs[i].source \in AgentsBefore(gs, i)

\* The controller's policies are those of the groups.
PolicyIn(reg, name) == IF name \in DOMAIN reg THEN reg[name] ELSE None

Matched(gs, reg) ==
    /\ DOMAIN reg \subseteq NamesOf(gs)
    /\ Distinct(gs) => \A i \in DOMAIN gs : PolicyIn(reg, gs[i].name) = gs[i].policy

CurrentIsLast(p) ==
    p \notin spoilt /\ current[p] # None =>
        groups[p] # <<>> /\ current[p] = groups[p][Len(groups[p])].name

BuilderInv ==
    /\ BuilderType
    /\ \A p \in Pipelines :
           LooksBack(groups[p]) /\ Matched(groups[p], registered[p]) /\ CurrentIsLast(p)

LEMMA AgentsAreNames ==
    ASSUME NEW p, NEW gs \in Seq(GroupOf(p))
    PROVE  AgentsIn(gs) \subseteq PathNames
<1> SUFFICES ASSUME NEW i \in DOMAIN gs, Static(gs[i]), NEW a \in NamesOf(gs[i].agents)
             PROVE  a \in PathNames
    BY DEF AgentsIn
<1>1. gs[i] \in GroupOf(p)
    BY LenProperties, ElementOfSeq
<1>2. gs[i].agents \in Seq(Declaration)
    BY <1>1 DEF GroupOf, Static
<1>3. PICK j \in DOMAIN gs[i].agents : a = gs[i].agents[j].name
    BY DEF NamesOf
<1>4. gs[i].agents[j] \in Declaration
    BY <1>2, <1>3, LenProperties, ElementOfSeq
<1> QED
    BY <1>3, <1>4 DEF Declaration

LEMMA BeforeMember ==
    ASSUME NEW gs, NEW i, NEW a
    PROVE  a \in AgentsBefore(gs, i) <=>
               \E j \in 1 .. i - 1 : Static(gs[j]) /\ a \in NamesOf(gs[j].agents)
BY DEF AgentsBefore

LooksInto(gs, new) ==
    \A i \in 1 .. Len(new) :
        /\ new[i].dependsOn # None =>
               new[i].dependsOn \subseteq NamesOf(gs) \cup {new[j].name : j \in 1 .. i - 1}
        /\ IF Static(new[i]) THEN new[i].source = None /\ Backward(new[i].agents)
           ELSE new[i].source # None /\ new[i].source \in AgentsIn(gs) \cup AgentsBefore(new, i)

LEMMA LooksBackGrows ==
    ASSUME NEW p, NEW gs \in Seq(GroupOf(p)), NEW new \in Seq(GroupOf(p)), LooksBack(gs),
           LooksInto(gs, new)
    PROVE  LooksBack(gs \o new)
<1> DEFINE u == gs \o new
<1>1. Backward(u)
    BY BackwardGrows DEF LooksBack, LooksInto
<1>2. /\ Len(gs) \in Nat /\ Len(new) \in Nat /\ DOMAIN gs = 1 .. Len(gs)
      /\ DOMAIN u = 1 .. Len(gs) + Len(new)
      /\ \A i \in 1 .. Len(gs) : u[i] = gs[i] /\ i \in 1 .. Len(gs) + Len(new)
      /\ \A i \in 1 .. Len(new) : u[Len(gs) + i] = new[i]
      /\ \A i \in 1 .. Len(gs) + Len(new) :
             i \in 1 .. Len(gs) \/ \E j \in 1 .. Len(new) : i = Len(gs) + j
    BY Joined
<1> HIDE DEF u
<1>3. ASSUME NEW i \in 1 .. Len(gs)
      PROVE  IF Static(u[i]) THEN u[i].source = None /\ Backward(u[i].agents)
             ELSE u[i].source # None /\ u[i].source \in AgentsBefore(u, i)
    <2>1. \A j \in 1 .. i - 1 : j \in 1 .. Len(gs)
        BY <1>2
    <2>2. \A a : a \in AgentsBefore(u, i) <=> a \in AgentsBefore(gs, i)
        <3>1. \A j \in 1 .. i - 1 : u[j] = gs[j]
            BY <1>2, <2>1
        <3> QED
            BY <3>1, BeforeMember
    <2>3. u[i] = gs[i] /\ i \in DOMAIN gs
        BY <1>2
    <2> QED
        BY <2>2, <2>3 DEF LooksBack
<1>4. ASSUME NEW k \in 1 .. Len(new)
      PROVE  IF Static(new[k]) THEN new[k].source = None /\ Backward(new[k].agents)
             ELSE new[k].source # None /\ new[k].source \in AgentsBefore(u, Len(gs) + k)
    <2>1. ASSUME NEW a \in AgentsIn(gs) PROVE a \in AgentsBefore(u, Len(gs) + k)
        <3>1. PICK j \in 1 .. Len(gs) : Static(gs[j]) /\ a \in NamesOf(gs[j].agents)
            BY <1>2, <2>1 DEF AgentsIn
        <3>2. j \in 1 .. Len(gs) + k - 1
            BY <1>2
        <3>3. u[j] = gs[j]
            BY <1>2
        <3> QED
            BY <3>1, <3>2, <3>3, BeforeMember
    <2>2. ASSUME NEW a \in AgentsBefore(new, k) PROVE a \in AgentsBefore(u, Len(gs) + k)
        <3>1. PICK j \in 1 .. k - 1 : Static(new[j]) /\ a \in NamesOf(new[j].agents)
            BY <2>2, BeforeMember
        <3>2. j \in 1 .. Len(new) /\ Len(gs) + j \in 1 .. Len(gs) + k - 1
            BY <1>2
        <3>3. u[Len(gs) + j] = new[j]
            BY <1>2, <3>2
        <3> QED
            BY <3>1, <3>2, <3>3, BeforeMember
    <2> QED
        BY <2>1, <2>2 DEF LooksInto
<1>5. ASSUME NEW i \in DOMAIN u
      PROVE  IF Static(u[i]) THEN u[i].source = None /\ Backward(u[i].agents)
             ELSE u[i].source # None /\ u[i].source \in AgentsBefore(u, i)
    <2>1. CASE i \in 1 .. Len(gs)
        BY <1>3, <2>1
    <2>2. CASE \E k \in 1 .. Len(new) : i = Len(gs) + k
        <3>1. PICK k \in 1 .. Len(new) : i = Len(gs) + k
            BY <2>2
        <3>2. u[i] = new[k]
            BY <1>2, <3>1
        <3> QED
            BY <1>4, <3>1, <3>2
    <2> QED
        BY <1>2, <1>5, <2>1, <2>2
<1>6. LooksBack(u)
    BY <1>1, <1>5 DEF LooksBack
<1> QED
    BY <1>6 DEF u

(* New groups without a policy, or one with the policy that is registered.   *)
LEMMA MatchedGrows ==
    ASSUME NEW p, NEW gs \in Seq(GroupOf(p)), NEW new \in Seq(GroupOf(p)),
           NEW reg, NEW reg1, Matched(gs, reg),
           \/ reg1 = reg /\ \A i \in 1 .. Len(new) : new[i].policy = None
           \/ /\ Len(new) = 1 /\ new[1].policy # None
              /\ reg1 = With(reg, new[1].name, new[1].policy)
    PROVE  Matched(gs \o new, reg1)
<1> DEFINE u == gs \o new
<1>1. /\ Len(gs) \in Nat /\ Len(new) \in Nat /\ DOMAIN gs = 1 .. Len(gs)
      /\ DOMAIN u = 1 .. Len(gs) + Len(new)
      /\ \A i \in 1 .. Len(gs) : u[i] = gs[i] /\ i \in 1 .. Len(gs) + Len(new)
      /\ \A i \in 1 .. Len(new) : u[Len(gs) + i] = new[i] /\ Len(gs) + i \in 1 .. Len(gs) + Len(new)
      /\ \A i \in 1 .. Len(gs) + Len(new) :
             i \in 1 .. Len(gs) \/ \E j \in 1 .. Len(new) : i = Len(gs) + j
    BY Joined
<1> HIDE DEF u
<1>2. NamesOf(gs) \subseteq NamesOf(u) /\ \A i \in 1 .. Len(new) : new[i].name \in NamesOf(u)
    <2>1. ASSUME NEW i \in 1 .. Len(gs) PROVE gs[i].name \in NamesOf(u)
        BY <1>1 DEF NamesOf
    <2>2. ASSUME NEW i \in 1 .. Len(new) PROVE new[i].name \in NamesOf(u)
        BY <1>1 DEF NamesOf
    <2> QED
        BY <1>1, <2>1, <2>2 DEF NamesOf
<1>3. DOMAIN reg1 \subseteq NamesOf(u)
    <2>1. CASE reg1 = reg
        BY <1>2, <2>1 DEF Matched
    <2>2. CASE Len(new) = 1 /\ reg1 = With(reg, new[1].name, new[1].policy)
        <3>1. DOMAIN reg1 = DOMAIN reg \cup {new[1].name} /\ 1 \in 1 .. Len(new)
            BY <2>2 DEF With
        <3> QED
            BY <1>2, <3>1 DEF Matched
    <2> QED
        BY <2>1, <2>2
<1>4. ASSUME Distinct(u), NEW i \in DOMAIN u PROVE PolicyIn(reg1, u[i].name) = u[i].policy
    <2>1. \A j, k \in 1 .. Len(gs) + Len(new) : u[j].name = u[k].name => j = k
        BY <1>1, <1>4, DistinctNames
    <2>2. Distinct(gs)
        BY <1>1, <2>1, DistinctNames
    <2>3. ASSUME NEW k \in 1 .. Len(new) PROVE new[k].name \notin NamesOf(gs)
        <3>1. ASSUME NEW j \in 1 .. Len(gs), gs[j].name = new[k].name PROVE FALSE
            <4>1. j = Len(gs) + k
                BY <1>1, <2>1, <3>1
            <4> QED
                BY <1>1, <4>1
        <3> QED
            BY <1>1, <3>1 DEF NamesOf
    <2>4. ASSUME NEW j \in 1 .. Len(gs) PROVE PolicyIn(reg1, gs[j].name) = gs[j].policy
        <3>1. PolicyIn(reg, gs[j].name) = gs[j].policy /\ gs[j].name \in NamesOf(gs)
            BY <1>1, <2>2 DEF Matched, NamesOf
        <3>2. CASE reg1 = reg
            BY <3>1, <3>2
        <3>3. CASE Len(new) = 1 /\ reg1 = With(reg, new[1].name, new[1].policy)
            <4>1. gs[j].name # new[1].name
                BY <2>3, <3>1, <3>3
            <4> QED
                BY <3>1, <3>3, <4>1 DEF PolicyIn, With
        <3> QED
            BY <3>2, <3>3
    <2>5. ASSUME NEW k \in 1 .. Len(new) PROVE PolicyIn(reg1, new[k].name) = new[k].policy
        <3>1. CASE reg1 = reg /\ new[k].policy = None
            BY <2>3, <3>1 DEF Matched, PolicyIn
        <3>2. CASE Len(new) = 1 /\ reg1 = With(reg, new[1].name, new[1].policy)
            <4>1. k = 1
                BY <3>2
            <4> QED
                BY <3>2, <4>1 DEF PolicyIn, With
        <3> QED
            BY <3>1, <3>2
    <2>6. CASE i \in 1 .. Len(gs)
        <3>1. u[i] = gs[i]
            BY <1>1, <2>6
        <3> QED
            BY <2>4, <2>6, <3>1
    <2>7. CASE \E k \in 1 .. Len(new) : i = Len(gs) + k
        <3>1. PICK k \in 1 .. Len(new) : i = Len(gs) + k
            BY <2>7
        <3>2. u[i] = new[k]
            BY <1>1, <3>1
        <3> QED
            BY <2>5, <3>2
    <2> QED
        BY <1>1, <1>4, <2>6, <2>7
<1>5. Matched(u, reg1)
    BY <1>3, <1>4 DEF Matched
<1> QED
    BY <1>5 DEF u
-----------------------------------------------------------------------------
(* Embedding.                                                                *)

LEMMA PrefixedNames ==
    /\ \A n \in PathNames : Prefixed(n) \in PathNames
    /\ \A deps \in Dependences : PrefixedSet(deps) \in Dependences
<1>1. ASSUME NEW n \in PathNames PROVE Prefixed(n) \in PathNames
    BY BuilderAssumption, ConcatProperties DEF Prefixed, PathNames
<1>2. ASSUME NEW deps \in Dependences PROVE PrefixedSet(deps) \in Dependences
    BY <1>1 DEF PrefixedSet, Dependences
<1> QED
    BY <1>1, <1>2

\* The agents of a copy, as Embedded has them.
Copies(agents) == [i \in DOMAIN agents |-> [name |-> Prefixed(agents[i].name),
                                            dependsOn |-> PrefixedSet(agents[i].dependsOn)]]

LEMMA EmbeddedAgents ==
    ASSUME NEW agents \in Seq(Declaration)
    PROVE  /\ Copies(agents) \in Seq(Declaration)
           /\ Backward(agents) => Backward(Copies(agents))
<1> DEFINE copy == [i \in DOMAIN agents |->
                            [name |-> Prefixed(agents[i].name),
                             dependsOn |-> PrefixedSet(agents[i].dependsOn)]]
<1>1. Len(agents) \in Nat /\ DOMAIN agents = 1 .. Len(agents)
    BY LenProperties
<1>2. ASSUME NEW i \in 1 .. Len(agents) PROVE copy[i] \in Declaration
    <2>1. agents[i] \in Declaration
        BY ElementOfSeq
    <2> QED
        BY <1>1, <2>1, PrefixedNames DEF Declaration
<1>3. copy \in [1 .. Len(agents) -> Declaration]
    BY <1>1, <1>2
<1>4. copy \in Seq(Declaration)
    BY <1>1, <1>3
<1>5. ASSUME Backward(agents), NEW i \in DOMAIN copy, copy[i].dependsOn # None, NEW d \in copy[i].dependsOn
      PROVE  d \in {copy[j].name : j \in 1 .. i - 1}
    <2>1. /\ i \in DOMAIN agents /\ i \in 1 .. Len(agents)
          /\ copy[i].dependsOn = PrefixedSet(agents[i].dependsOn)
        BY <1>1, <1>5
    <2>2. agents[i].dependsOn # None
        BY <1>5, <2>1 DEF PrefixedSet
    <2>3. PICK e \in agents[i].dependsOn : d = Prefixed(e)
        BY <1>5, <2>1, <2>2 DEF PrefixedSet
    <2>4. PICK j \in 1 .. i - 1 : e = agents[j].name
        BY <1>5, <2>1, <2>2, <2>3 DEF Backward
    <2>5. j \in DOMAIN agents
        BY <1>1, <2>1
    <2>6. copy[j].name = d
        BY <2>3, <2>4, <2>5
    <2> QED
        BY <2>6
<1> HIDE DEF copy
<1>6. Backward(agents) => Backward(copy)
    BY <1>5 DEF Backward
<1> QED
    BY <1>4, <1>6 DEF copy, Copies

LEMMA EmbeddedGroup ==
    ASSUME NEW p, NEW q, NEW g \in GroupOf(q), Static(g) \/ g.source # None,
           NEW side \in Dependences
    PROVE  /\ Embedded(g, side) \in GroupOf(p)
           /\ Static(Embedded(g, side)) <=> Static(g)
           /\ Embedded(g, side).name = Prefixed(g.name) /\ Embedded(g, side).policy = None
           /\ Embedded(g, side).dependsOn = EmbeddedDeps(g.dependsOn, side)
           /\ Static(g) => /\ Embedded(g, side).source = None
                           /\ Embedded(g, side).agents = Copies(g.agents)
                           /\ Backward(g.agents) => Backward(Embedded(g, side).agents)
           /\ ~Static(g) => /\ Embedded(g, side).source = Prefixed(g.source)
                            /\ Embedded(g, side).source # None
<1> DEFINE copy == Copies(g.agents)
           new == Embedded(g, side)
<1>1. /\ g.name \in PathNames /\ g.dependsOn \in Dependences
      /\ g.source \in {None} \cup PathNames
      /\ Static(g) => g.agents \in Seq(Declaration)
    BY DEF GroupOf, Static
<1>2. Static(g) => copy \in Seq(Declaration) /\ (Backward(g.agents) => Backward(copy))
    BY <1>1, EmbeddedAgents
<1>3. /\ new.name = Prefixed(g.name) /\ new.policy = None
      /\ new.dependsOn = EmbeddedDeps(g.dependsOn, side)
      /\ new.agents = IF ~Static(g) THEN None ELSE copy
      /\ new.source = IF Static(g) THEN None ELSE Prefixed(g.source)
      /\ new = [name |-> new.name, agents |-> new.agents, source |-> new.source,
                dependsOn |-> new.dependsOn, policy |-> new.policy]
    BY DEF Embedded, EmbeddedPolicy, Copies
<1> HIDE DEF copy, new
<1>4. EmbeddedDeps(g.dependsOn, side) \in Dependences
    BY <1>1, PrefixedNames DEF EmbeddedDeps, Dependences
<1>5. Static(new) <=> Static(g)
    BY <1>2, <1>3, BuilderAssumption DEF Static
<1>6. ~Static(g) => new.source \in PathNames
    BY <1>1, <1>3, PrefixedNames
<1>7. ~Static(g) => new.source # None
    BY <1>6, BuilderAssumption
<1>8. new \in GroupOf(p)
    <2>1. new.name \in PathNames /\ new.dependsOn \in Dependences
        BY <1>1, <1>3, <1>4, PrefixedNames
    <2>2. new.agents \in {None} \cup Seq(Declaration)
        BY <1>2, <1>3
    <2>3. new.source \in {None} \cup PathNames
        BY <1>3, <1>6
    <2> QED
        BY <1>3, <2>1, <2>2, <2>3 DEF GroupOf
<1> QED
    BY <1>2, <1>3, <1>5, <1>7, <1>8 DEF new, copy

(* The loop embeds the groups up to the first that does not fit.             *)
LEMMA EmbeddableFits ==
    ASSUME NEW before, NEW other, Len(other) \in Nat, NEW side
    PROVE  /\ Embeddable(before, other, side) \in 0 .. Len(other)
           /\ \A i \in 1 .. Embeddable(before, other, side) :
                  Fits(Embedded(other[i], side),
                       before \o [k \in 1 .. i - 1 |-> Embedded(other[k], side)],
                       [k \in 1 .. i - 1 |-> Embedded(other[k], side)])
<1> DEFINE new(i)  == Embedded(other[i], side)
           Upto(n) == [k \in 1 .. n |-> new(k)]
           N       == Len(other)
           Stops(n) == n < N => ~Fits(new(n + 1), before \o Upto(n), Upto(n))
           Good(n)  == \A i \in 1 .. n : Fits(new(i), before \o Upto(i - 1), Upto(i - 1))
<1>1. \E n \in 0 .. N : Good(n) /\ Stops(n)
    <2> DEFINE T == {n \in 0 .. N : Stops(n)}
    <2> HIDE DEF Stops
    <2>1. N \in T
        BY DEF Stops
    <2>2. T \in SUBSET Nat /\ T # {}
        BY <2>1
    <2>3. PICK m \in T : \A n \in T : m <= n
        BY <2>2, LeastNumber
    <2>4. ASSUME NEW i \in 1 .. m PROVE Fits(new(i), before \o Upto(i - 1), Upto(i - 1))
        <3>1. i - 1 \in 0 .. N /\ i - 1 < m /\ (i - 1) + 1 = i /\ m \in 0 .. N
            OBVIOUS
        <3>2. i - 1 \notin T
            BY <2>3, <3>1
        <3>3. ~Stops(i - 1)
            BY <3>1, <3>2
        <3> QED
            BY <3>1, <3>3 DEF Stops
    <2>5. m \in 0 .. N /\ Stops(m)
        BY <2>3
    <2> QED
        BY <2>4, <2>5
<1>2. Embeddable(before, other, side) = CHOOSE n \in 0 .. N : Good(n) /\ Stops(n)
    BY DEF Embeddable
<1> HIDE DEF Good, Stops
<1>3. Embeddable(before, other, side) \in 0 .. N /\ Good(Embeddable(before, other, side))
    BY <1>1, <1>2
<1> QED
    BY <1>3 DEF Good

(* What is embedded looks back, in itself and into the parent.               *)
LEMMA EmbeddedGroups ==
    ASSUME NEW p, NEW q, NEW other \in Seq(GroupOf(q)), LooksBack(other),
           NEW before \in Seq(GroupOf(p)), NEW side \in Dependences,
           side # None => side \subseteq NamesOf(before),
           NEW n, n = Embeddable(before, other, side),
           NEW new, new = [i \in 1 .. n |-> Embedded(other[i], side)]
    PROVE  /\ n \in 0 .. Len(other) /\ new \in Seq(GroupOf(p)) /\ Len(new) = n
           /\ LooksInto(before, new)
           /\ \A i \in 1 .. n : new[i].policy = None
           /\ \A i \in 1 .. n :
                  /\ i \in DOMAIN other
                  /\ Static(new[i]) <=> Static(other[i])
                  /\ Static(new[i]) => Distinct(new[i].agents)
<1>1. Len(other) \in Nat /\ DOMAIN other = 1 .. Len(other)
    BY LenProperties
<1>2. /\ n \in 0 .. Len(other)
      /\ \A i \in 1 .. n : Fits(Embedded(other[i], side),
                                before \o [k \in 1 .. i - 1 |-> Embedded(other[k], side)],
                                [k \in 1 .. i - 1 |-> Embedded(other[k], side)])
    BY <1>1, EmbeddableFits
<1>3. \A i \in 1 .. n : i \in DOMAIN other /\ new[i] = Embedded(other[i], side)
    BY <1>1, <1>2
<1>4. ASSUME NEW i \in 1 .. n
      PROVE  /\ other[i] \in GroupOf(q) /\ (Static(other[i]) \/ other[i].source # None)
             /\ Static(other[i]) => Backward(other[i].agents)
    <2>1. i \in DOMAIN other /\ i \in 1 .. Len(other)
        BY <1>1, <1>3
    <2> QED
        BY <2>1, ElementOfSeq DEF LooksBack
<1>5. ASSUME NEW i \in 1 .. n
      PROVE  /\ new[i] \in GroupOf(p) /\ (Static(new[i]) <=> Static(other[i]))
             /\ new[i].name = Prefixed(other[i].name) /\ new[i].policy = None
             /\ new[i].dependsOn = EmbeddedDeps(other[i].dependsOn, side)
             /\ Static(other[i]) => new[i].source = None /\ Backward(new[i].agents)
             /\ ~Static(other[i]) => new[i].source # None
    BY <1>3, <1>4, EmbeddedGroup
<1>6. new \in [1 .. n -> GroupOf(p)]
    BY <1>5
<1>7. new \in Seq(GroupOf(p)) /\ Len(new) = n
    BY <1>1, <1>2, <1>6
<1>8. ASSUME NEW i \in 1 .. n, new[i].dependsOn # None, NEW d \in new[i].dependsOn
      PROVE  d \in NamesOf(before) \cup {new[j].name : j \in 1 .. i - 1}
    <2>1. new[i].dependsOn = EmbeddedDeps(other[i].dependsOn, side)
        BY <1>5
    <2>2. CASE other[i].dependsOn = {}
        BY <1>8, <2>1, <2>2 DEF EmbeddedDeps
    <2>3. CASE other[i].dependsOn # {}
        <3>1. new[i].dependsOn = PrefixedSet(other[i].dependsOn)
            BY <2>1, <2>3 DEF EmbeddedDeps
        <3>2. other[i].dependsOn # None
            BY <1>8, <3>1 DEF PrefixedSet
        <3>3. PICK e \in other[i].dependsOn : d = Prefixed(e)
            BY <1>8, <3>1, <3>2 DEF PrefixedSet
        <3>4. PICK j \in 1 .. i - 1 : e = other[j].name
            BY <1>3, <3>2, <3>3 DEF LooksBack, Backward
        <3>5. j \in 1 .. n
            BY <1>2
        <3>6. new[j].name = d
            BY <1>5, <3>3, <3>4, <3>5
        <3> QED
            BY <3>6
    <2> QED
        BY <2>2, <2>3
<1>9. ASSUME NEW i \in 1 .. n
      PROVE  /\ ~Static(new[i]) => new[i].source \in AgentsBefore(new, i)
             /\ Static(new[i]) => Distinct(new[i].agents)
    <2> DEFINE upto == [k \in 1 .. i - 1 |-> Embedded(other[k], side)]
    <2>1. Fits(new[i], before \o upto, upto)
        BY <1>2, <1>3
    <2>2. \A k \in 1 .. i - 1 : upto[k] = new[k]
        BY <1>2
    <2>3. DOMAIN upto = 1 .. i - 1
        OBVIOUS
    <2> HIDE DEF upto
    <2>4. ~Static(new[i]) => new[i].source \in AgentsIn(upto)
        BY <2>1 DEF Fits
    <2>5. ASSUME NEW a \in AgentsIn(upto) PROVE a \in AgentsBefore(new, i)
        <3>1. PICK k \in 1 .. i - 1 : Static(upto[k]) /\ a \in NamesOf(upto[k].agents)
            BY <2>3, <2>5 DEF AgentsIn
        <3> QED
            BY <2>2, <3>1, BeforeMember
    <2>6. Static(new[i]) => Distinct(new[i].agents)
        BY <2>1 DEF Fits, Distinct, UniqueTagging, InOrder
    <2> QED
        BY <2>4, <2>5, <2>6
<1>10. ASSUME NEW i \in 1 .. n, new[i].dependsOn # None
       PROVE  new[i].dependsOn \subseteq NamesOf(before) \cup {new[j].name : j \in 1 .. i - 1}
    BY <1>8, <1>10
<1>11. LooksInto(before, new)
    BY <1>5, <1>7, <1>9, <1>10 DEF LooksInto
<1> QED
    BY <1>2, <1>3, <1>5, <1>7, <1>9, <1>11
-----------------------------------------------------------------------------
(* The calls.                                                                *)

LEMMA Singleton ==
    ASSUME NEW S, NEW g \in S
    PROVE  /\ <<g>> \in Seq(S) /\ Len(<<g>>) = 1 /\ <<g>>[1] = g
           /\ \A s \in Seq(S) : Append(s, g) = s \o <<g>>
<1>1. <<g>> \in Seq(S) /\ Len(<<g>>) = 1 /\ <<g>>[1] = g
    OBVIOUS
<1>2. ASSUME NEW s \in Seq(S) PROVE Append(s, g) = s \o <<g>>
    BY <1>2, AppendIsConcat
<1> QED
    BY <1>1, <1>2

(* group and fanout_group: one group more, of a name's own dependencies.     *)
LEMMA OneMore ==
    ASSUME NEW p, NEW gs \in Seq(GroupOf(p)), NEW g \in GroupOf(p), LooksBack(gs),
           g.dependsOn # None => g.dependsOn \subseteq NamesOf(gs),
           IF Static(g) THEN g.source = None /\ g.agents = <<>>
           ELSE g.source # None /\ g.source \in AgentsIn(gs)
    PROVE  LooksBack(Append(gs, g))
<1> DEFINE new == <<g>>
<1>1. new \in Seq(GroupOf(p)) /\ Len(new) = 1 /\ new[1] = g /\ Append(gs, g) = gs \o new
    BY Singleton
<1> HIDE DEF new
<1>2. Backward(<< >>)
    BY DEF Backward
<1>3. ASSUME NEW i \in 1 .. Len(new)
      PROVE  /\ new[i].dependsOn # None =>
                    new[i].dependsOn \subseteq NamesOf(gs) \cup {new[j].name : j \in 1 .. i - 1}
             /\ IF Static(new[i]) THEN new[i].source = None /\ Backward(new[i].agents)
                ELSE new[i].source # None /\ new[i].source \in AgentsIn(gs) \cup AgentsBefore(new, i)
    <2>1. i = 1 /\ new[i] = g
        BY <1>1
    <2> QED
        BY <1>2, <2>1
<1>4. LooksInto(gs, new)
    BY <1>3 DEF LooksInto
<1> QED
    BY <1>1, <1>4, LooksBackGrows

(* agent: one agent more, in the last group.                                 *)
AgentAdded(gs, a) == [gs EXCEPT ![Len(gs)].agents = Append(@, a)]

LEMMA OneAgentMore ==
    ASSUME NEW p, NEW gs \in Seq(GroupOf(p)), gs # <<>>, Static(gs[Len(gs)]), LooksBack(gs),
           NEW a \in Declaration,
           a.dependsOn # None => a.dependsOn \subseteq NamesOf(gs[Len(gs)].agents),
           NEW gs1, gs1 = AgentAdded(gs, a)
    PROVE  /\ gs1 \in Seq(GroupOf(p)) /\ LooksBack(gs1) /\ Len(gs1) = Len(gs)
           /\ \A i \in 1 .. Len(gs) : gs1[i].name = gs[i].name /\ gs1[i].policy = gs[i].policy
<1> DEFINE N   == Len(gs)
           old == gs[N]
           new == [old EXCEPT !.agents = Append(@, a)]
<1>1. N \in Nat /\ N > 0 /\ DOMAIN gs = 1 .. N /\ N \in 1 .. N /\ gs \in [1 .. N -> GroupOf(p)]
    BY LenProperties, EmptySeq
<1>2. old \in GroupOf(p) /\ old.agents \in Seq(Declaration) /\ old.source = None /\ Backward(old.agents)
    <2>1. old \in GroupOf(p)
        BY <1>1
    <2>2. old.agents \in Seq(Declaration)
        BY <2>1 DEF GroupOf, Static
    <2> QED
        BY <1>1, <2>1, <2>2 DEF LooksBack
<1>3. Append(old.agents, a) \in Seq(Declaration) /\ Backward(Append(old.agents, a))
    <2>1. /\ <<a>> \in Seq(Declaration) /\ Len(<<a>>) = 1 /\ <<a>>[1] = a
          /\ Append(old.agents, a) = old.agents \o <<a>>
        BY <1>2, Singleton
    <2>2. ASSUME NEW i \in 1 .. Len(<<a>>), <<a>>[i].dependsOn # None
          PROVE  <<a>>[i].dependsOn \subseteq NamesOf(old.agents) \cup {<<a>>[j].name : j \in 1 .. i - 1}
        <3>1. i = 1
            BY <2>1
        <3> QED
            BY <2>1, <2>2, <3>1
    <2>3. Backward(old.agents \o <<a>>)
        BY <1>2, <2>1, <2>2, BackwardGrows
    <2>4. old.agents \o <<a>> \in Seq(Declaration)
        BY <1>2, <2>1, ConcatProperties
    <2> QED
        BY <2>1, <2>3, <2>4
<1>4. /\ new \in GroupOf(p) /\ Static(new) /\ new.agents = Append(old.agents, a)
      /\ new.name = old.name /\ new.policy = old.policy /\ new.source = None
      /\ new.dependsOn = old.dependsOn
    <2>1. /\ new \in GroupOf(p) /\ new.agents = Append(old.agents, a)
          /\ new.name = old.name /\ new.policy = old.policy /\ new.source = old.source
          /\ new.dependsOn = old.dependsOn
        BY <1>2, <1>3 DEF GroupOf
    <2> QED
        BY <1>2, <1>3, <2>1, BuilderAssumption DEF Static
<1>5. gs1 = [i \in 1 .. N |-> IF i = N THEN new ELSE gs[i]]
    BY <1>1 DEF AgentAdded
<1> HIDE DEF new
<1>6. gs1 \in [1 .. N -> GroupOf(p)]
    BY <1>1, <1>4, <1>5
<1>7. gs1 \in Seq(GroupOf(p)) /\ Len(gs1) = N /\ DOMAIN gs1 = 1 .. N
    BY <1>1, <1>6
<1>8. \A i \in 1 .. N : /\ gs1[i].name = gs[i].name /\ gs1[i].policy = gs[i].policy
                        /\ gs1[i].dependsOn = gs[i].dependsOn /\ gs1[i].source = gs[i].source
                        /\ Static(gs1[i]) <=> Static(gs[i])
    BY <1>2, <1>4, <1>5
<1>9. Backward(gs1)
    <2>1. ASSUME NEW i \in 1 .. N
          PROVE  {gs1[j].name : j \in 1 .. i - 1} = {gs[j].name : j \in 1 .. i - 1}
        <3>1. \A j \in 1 .. i - 1 : j \in 1 .. N
            BY <1>1
        <3> QED
            BY <1>8, <3>1
    <2>2. ASSUME NEW i \in 1 .. N, gs1[i].dependsOn # None
          PROVE  gs1[i].dependsOn \subseteq {gs1[j].name : j \in 1 .. i - 1}
        <3>1. gs[i].dependsOn \subseteq {gs[j].name : j \in 1 .. i - 1}
            BY <1>1, <1>8, <2>2 DEF LooksBack, Backward
        <3> QED
            BY <1>8, <2>1, <3>1
    <2> QED
        BY <1>7, <2>2 DEF Backward
<1>10. ASSUME NEW i \in 1 .. N
       PROVE  IF Static(gs1[i]) THEN gs1[i].source = None /\ Backward(gs1[i].agents)
              ELSE gs1[i].source # None /\ gs1[i].source \in AgentsBefore(gs1, i)
    <2>1. IF Static(gs[i]) THEN gs[i].source = None /\ Backward(gs[i].agents)
          ELSE gs[i].source # None /\ gs[i].source \in AgentsBefore(gs, i)
        BY <1>1 DEF LooksBack
    <2>2. \A j \in 1 .. i - 1 : j # N /\ j \in 1 .. N
        <3>1. N \in Nat
            BY <1>1
        <3> HIDE DEF N
        <3> QED
            BY <3>1
    <2>3. \A j \in 1 .. i - 1 : gs1[j] = gs[j]
        BY <1>5, <2>2
    <2>4. ASSUME NEW b PROVE b \in AgentsBefore(gs1, i) <=> b \in AgentsBefore(gs, i)
        <3>1. \A j \in 1 .. i - 1 : Static(gs1[j]) /\ b \in NamesOf(gs1[j].agents)
                                     <=> Static(gs[j]) /\ b \in NamesOf(gs[j].agents)
            BY <2>3
        <3> QED
            BY <3>1, BeforeMember
    <2>5. CASE i = N
        BY <1>3, <1>4, <1>5, <2>5
    <2>6. CASE i # N
        <3>1. gs1[i] = gs[i]
            BY <1>5, <2>6
        <3> QED
            BY <2>1, <2>4, <3>1
    <2> QED
        BY <2>5, <2>6
<1>11. LooksBack(gs1)
    BY <1>7, <1>9, <1>10 DEF LooksBack
<1> QED
    BY <1>7, <1>8, <1>11

(* Matched sees names and policies only.                                     *)
LEMMA MatchedSame ==
    ASSUME NEW gs, NEW gs1, NEW reg, DOMAIN gs1 = DOMAIN gs,
           \A i \in DOMAIN gs : gs1[i].name = gs[i].name /\ gs1[i].policy = gs[i].policy,
           Matched(gs, reg)
    PROVE  Matched(gs1, reg)
<1>1. NamesOf(gs1) = NamesOf(gs)
    BY DEF NamesOf
<1>2. Distinct(gs1) => Distinct(gs)
    BY DistinctNames
<1> QED
    BY <1>1, <1>2 DEF Matched
LEMMA BuilderStarts == Init => BuilderInv
<1> SUFFICES ASSUME Init PROVE BuilderInv
    OBVIOUS
<1>1. ASSUME NEW p \in Pipelines
      PROVE  groups[p] = <<>> /\ current[p] = None /\ registered[p] = << >>
    BY DEF Init
<1>2. BuilderType
    <2>1. \A S : << >> \in Seq(S)
        OBVIOUS
    <2>2. \A p \in Pipelines : groups[p] \in Seq(GroupOf(p))
        BY <1>1, <2>1
    <2> QED
        BY <2>2 DEF BuilderType, Init
<1>3. ASSUME NEW p \in Pipelines
      PROVE  LooksBack(groups[p]) /\ Matched(groups[p], registered[p]) /\ CurrentIsLast(p)
    <2>1. DOMAIN groups[p] = {} /\ DOMAIN registered[p] = {}
        <3>1. \A s : s = << >> => DOMAIN s = {}
            OBVIOUS
        <3> QED
            BY <1>1, <3>1
    <2>2. LooksBack(groups[p])
        BY <2>1 DEF LooksBack, Backward
    <2>3. Matched(groups[p], registered[p])
        BY <2>1 DEF Matched
    <2> QED
        BY <1>1, <2>2, <2>3 DEF CurrentIsLast
<1> QED
    BY <1>2, <1>3 DEF BuilderInv

(* A call touches the record of one pipeline.                                *)
Touched(p, gs1, reg1) ==
    /\ DOMAIN groups' = Pipelines /\ DOMAIN current' = Pipelines
    /\ DOMAIN registered' = Pipelines /\ DOMAIN embeds' = Pipelines
    /\ groups'[p] = gs1 /\ registered'[p] = reg1
    /\ \A r \in Pipelines \ {p} : /\ groups'[r] = groups[r] /\ registered'[r] = registered[r]
                                  /\ current'[r] = current[r]
    /\ spoilt \subseteq spoilt'

LEMMA OneRecord ==
    ASSUME BuilderInv, NEW p \in Pipelines, NEW gs1, NEW reg1, Touched(p, gs1, reg1),
           gs1 \in Seq(GroupOf(p)), LooksBack(gs1), Matched(gs1, reg1),
           p \notin spoilt' /\ current'[p] # None =>
               gs1 # <<>> /\ current'[p] = gs1[Len(gs1)].name
    PROVE  BuilderInv'
<1>1. ASSUME NEW r \in Pipelines
      PROVE  /\ groups'[r] \in Seq(GroupOf(r))
             /\ LooksBack(groups'[r]) /\ Matched(groups'[r], registered'[r]) /\ CurrentIsLast(r)'
    <2>1. CASE r = p
        BY <2>1 DEF CurrentIsLast, Touched
    <2>2. CASE r # p
        <3>1. /\ groups[r] \in Seq(GroupOf(r))
              /\ LooksBack(groups[r]) /\ Matched(groups[r], registered[r]) /\ CurrentIsLast(r)
            BY DEF BuilderInv, BuilderType
        <3>2. /\ groups'[r] = groups[r] /\ registered'[r] = registered[r] /\ current'[r] = current[r]
              /\ spoilt \subseteq spoilt'
            BY <2>2 DEF Touched
        <3>3. CurrentIsLast(r)'
            BY <3>1, <3>2 DEF CurrentIsLast
        <3> QED
            BY <3>1, <3>2, <3>3
    <2> QED
        BY <2>1, <2>2
<1>2. BuilderType'
    BY <1>1 DEF BuilderType, Touched
<1> QED
    BY <1>1, <1>2 DEF BuilderInv

(* What a call may name is a name.                                           *)
LEMMA KnownAreNames ==
    ASSUME NEW S, \A s \in S : s.name \in PathNames, NEW specs \in Seq(S)
    PROVE  NamesOf(specs) \subseteq PathNames
<1>1. ASSUME NEW i \in DOMAIN specs PROVE specs[i].name \in PathNames
    BY LenProperties, ElementOfSeq
<1> QED
    BY <1>1 DEF NamesOf

LEMMA GroupGoesOn ==
    ASSUME BuilderInv, NEW p \in Pipelines, NEW name \in PathNames, NEW deps,
           NEW policy \in Policies[p] \cup {None}, Group(p, name, deps, policy)
    PROVE  BuilderInv'
<1> DEFINE gs == groups[p]
           g  == [name |-> name, agents |-> <<>>, source |-> None,
                  dependsOn |-> deps, policy |-> policy]
           reg1 == IF policy = None THEN registered[p] ELSE With(registered[p], name, policy)
<1>1. /\ gs \in Seq(GroupOf(p)) /\ LooksBack(gs) /\ Matched(gs, registered[p])
      /\ DOMAIN groups = Pipelines /\ DOMAIN current = Pipelines
      /\ DOMAIN registered = Pipelines /\ DOMAIN embeds = Pipelines
    BY DEF BuilderInv, BuilderType
<1>2. deps # None => deps \subseteq NamesOf(gs)
    BY DEF Group, Accepted
<1>3. deps \in Dependences
    BY <1>1, <1>2, KnownAreNames DEF GroupOf, Dependences
<1>4. /\ g \in GroupOf(p) /\ g.dependsOn = deps /\ g.source = None /\ g.agents = <<>>
      /\ g.policy = policy /\ g.name = name
    <2>1. << >> \in Seq(Declaration)
        OBVIOUS
    <2> QED
        BY <1>3, <2>1 DEF GroupOf
<1>5. Static(g)
    <2>1. << >> \in Seq(Declaration)
        OBVIOUS
    <2> QED
        BY <1>4, <2>1, BuilderAssumption DEF Static
<1>6. Touched(p, Append(gs, g), reg1) /\ current'[p] = g.name
    <2>1. /\ groups' = [groups EXCEPT ![p] = Append(@, g)]
          /\ current' = [current EXCEPT ![p] = g.name]
          /\ registered' = IF policy = None THEN registered
                           ELSE [registered EXCEPT ![p] = With(@, name, policy)]
          /\ spoilt' = spoilt /\ embeds' = embeds
        BY DEF Group, AddGroup
    <2> HIDE DEF g
    <2> QED
        BY <1>1, <2>1 DEF Touched
<1> HIDE DEF g, gs
<1>7. LooksBack(Append(gs, g))
    BY <1>1, <1>2, <1>4, <1>5, OneMore
<1> DEFINE new == <<g>>
<1>8. /\ new \in Seq(GroupOf(p)) /\ Len(new) = 1 /\ new[1] = g
      /\ Append(gs, g) = gs \o new
    BY <1>1, <1>4, Singleton
<1> HIDE DEF new
<1>9. Matched(Append(gs, g), reg1)
    <2>1. CASE policy = None
        <3>1. \A i \in 1 .. Len(new) : new[i].policy = None
            <4>1. \A i \in 1 .. Len(new) : i = 1
                BY <1>8
            <4> QED
                BY <1>4, <1>8, <2>1, <4>1
        <3>2. reg1 = registered[p]
            BY <2>1
        <3> HIDE DEF reg1
        <3> QED
            BY <1>1, <1>8, <3>1, <3>2, MatchedGrows
    <2>2. CASE policy # None
        <3>1. new[1].policy # None /\ reg1 = With(registered[p], new[1].name, new[1].policy)
            BY <1>4, <1>8, <2>2
        <3> HIDE DEF reg1
        <3> QED
            BY <1>1, <1>8, <3>1, MatchedGrows
    <2> QED
        BY <2>1, <2>2
<1>10. /\ Append(gs, g) \in Seq(GroupOf(p)) /\ Append(gs, g) # <<>>
       /\ Append(gs, g)[Len(Append(gs, g))] = g
    BY <1>1, <1>4, AppendProperties
<1> HIDE DEF reg1
<1> QED
    BY <1>6, <1>7, <1>9, <1>10, OneRecord

LEMMA FanoutGoesOn ==
    ASSUME BuilderInv, NEW p \in Pipelines, NEW name \in PathNames, NEW source, NEW deps,
           FanoutGroup(p, name, source, deps)
    PROVE  BuilderInv'
<1> DEFINE gs == groups[p]
           g  == [name |-> name, agents |-> None, source |-> source,
                  dependsOn |-> deps, policy |-> None]
<1>1. /\ gs \in Seq(GroupOf(p)) /\ LooksBack(gs) /\ Matched(gs, registered[p])
      /\ DOMAIN groups = Pipelines /\ DOMAIN current = Pipelines
      /\ DOMAIN registered = Pipelines /\ DOMAIN embeds = Pipelines
    BY DEF BuilderInv, BuilderType
<1>2. source \in AgentsIn(gs) /\ (deps # None => deps \subseteq NamesOf(gs))
    BY DEF FanoutGroup, Accepted
<1>3. deps \in Dependences /\ source \in PathNames
    BY <1>1, <1>2, KnownAreNames, AgentsAreNames DEF GroupOf, Dependences
<1>4. /\ g \in GroupOf(p) /\ g.dependsOn = deps /\ g.source = source /\ ~Static(g)
      /\ g.policy = None /\ g.name = name
    BY <1>3 DEF GroupOf, Static
<1>5. Touched(p, Append(gs, g), registered[p]) /\ current'[p] = g.name
    <2>1. /\ groups' = [groups EXCEPT ![p] = Append(@, g)]
          /\ current' = [current EXCEPT ![p] = g.name]
          /\ registered' = registered /\ spoilt' = spoilt /\ embeds' = embeds
        BY DEF FanoutGroup, AddGroup
    <2> HIDE DEF g
    <2> QED
        BY <1>1, <2>1 DEF Touched
<1> HIDE DEF g, gs
<1>6. LooksBack(Append(gs, g))
    <2>1. g.source # None
        BY <1>3, <1>4, BuilderAssumption
    <2> QED
        BY <1>1, <1>2, <1>4, <2>1, OneMore
<1>7. /\ <<g>> \in Seq(GroupOf(p)) /\ Len(<<g>>) = 1 /\ <<g>>[1] = g
      /\ Append(gs, g) = gs \o <<g>>
    BY <1>1, <1>4, Singleton
<1>8. Matched(Append(gs, g), registered[p])
    <2>1. \A i \in 1 .. Len(<<g>>) : i = 1
        BY <1>7
    <2>2. \A i \in 1 .. Len(<<g>>) : <<g>>[i].policy = None
        BY <1>4, <1>7, <2>1
    <2> QED
        BY <1>1, <1>7, <2>2, MatchedGrows
<1>9. /\ Append(gs, g) \in Seq(GroupOf(p)) /\ Append(gs, g) # <<>>
      /\ Append(gs, g)[Len(Append(gs, g))] = g
    BY <1>1, <1>4, AppendProperties
<1> QED
    BY <1>5, <1>6, <1>8, <1>9, OneRecord

LEMMA AgentGoesOn ==
    ASSUME BuilderInv, NEW p \in Pipelines, p \notin spoilt, NEW name \in PathNames, NEW deps,
           Agent(p, name, deps)
    PROVE  BuilderInv'
<1> DEFINE gs  == groups[p]
           a   == [name |-> name, dependsOn |-> deps]
           gs1 == AgentAdded(gs, a)
<1>1. /\ gs \in Seq(GroupOf(p)) /\ LooksBack(gs) /\ Matched(gs, registered[p])
      /\ DOMAIN groups = Pipelines /\ DOMAIN current = Pipelines
      /\ DOMAIN registered = Pipelines /\ DOMAIN embeds = Pipelines
      /\ gs # <<>> /\ current[p] = gs[Len(gs)].name
    BY DEF BuilderInv, BuilderType, CurrentIsLast, Agent
<1>2. Static(gs[Len(gs)]) /\ (deps # None => deps \subseteq NamesOf(gs[Len(gs)].agents))
    BY DEF Agent, Accepted
<1>3. Len(gs) \in Nat /\ Len(gs) \in 1 .. Len(gs) /\ DOMAIN gs = 1 .. Len(gs)
    BY <1>1, LenProperties, EmptySeq
<1>4. gs[Len(gs)].agents \in Seq(Declaration)
    <2>1. gs[Len(gs)] \in GroupOf(p)
        BY <1>1, <1>3, ElementOfSeq
    <2> QED
        BY <1>2, <2>1 DEF GroupOf, Static
<1>5. deps \in Dependences
    BY <1>2, <1>4, KnownAreNames DEF Declaration, Dependences
<1>6. a \in Declaration /\ a.dependsOn = deps
    BY <1>5 DEF Declaration
<1>7. Touched(p, gs1, registered[p]) /\ current' = current
    <2>1. /\ groups' = [groups EXCEPT ![p][Len(gs)].agents = Append(@, a)]
          /\ registered' = registered /\ current' = current /\ spoilt' = spoilt /\ embeds' = embeds
        BY DEF Agent
    <2> HIDE DEF a
    <2>2. groups'[p] = gs1
        BY <1>1, <2>1 DEF AgentAdded
    <2> HIDE DEF gs1
    <2> QED
        BY <1>1, <2>1, <2>2 DEF Touched
<1>12. gs1 = AgentAdded(gs, a)
    OBVIOUS
<1> HIDE DEF gs, a, gs1
<1>8. /\ gs1 \in Seq(GroupOf(p)) /\ LooksBack(gs1) /\ Len(gs1) = Len(gs)
      /\ \A i \in 1 .. Len(gs) : gs1[i].name = gs[i].name /\ gs1[i].policy = gs[i].policy
    BY <1>1, <1>2, <1>6, <1>12, OneAgentMore
<1>9. DOMAIN gs1 = DOMAIN gs
    BY <1>3, <1>8, LenProperties
<1>10. Matched(gs1, registered[p])
    BY <1>1, <1>3, <1>8, <1>9, MatchedSame
<1>11. gs1 # <<>> /\ current'[p] = gs1[Len(gs1)].name
    <2>1. Len(gs1) # 0
        BY <1>3, <1>8
    <2>2. gs1 # <<>>
        BY <2>1
    <2> QED
        BY <1>1, <1>3, <1>7, <1>8, <2>2
<1> QED
    BY <1>1, <1>7, <1>8, <1>10, <1>11, OneRecord

LEMMA SubpipelineGoesOn ==
    ASSUME BuilderInv, NEW p \in Pipelines, NEW q \in Pipelines,
           NEW side \in {None} \cup SUBSET NamesOf(groups[p]), Subpipeline(p, q, side)
    PROVE  BuilderInv'
<1> DEFINE gs  == groups[p]
           n   == Embeddable(gs, groups[q], side)
           new == [i \in 1 .. n |-> Embedded(groups[q][i], side)]
<1>1. /\ gs \in Seq(GroupOf(p)) /\ LooksBack(gs) /\ Matched(gs, registered[p])
      /\ groups[q] \in Seq(GroupOf(q)) /\ LooksBack(groups[q])
      /\ DOMAIN groups = Pipelines /\ DOMAIN current = Pipelines
      /\ DOMAIN registered = Pipelines /\ DOMAIN embeds = Pipelines
    BY DEF BuilderInv, BuilderType
<1>2. side \in Dependences /\ (side # None => side \subseteq NamesOf(gs))
    <2>1. \A g \in GroupOf(p) : g.name \in PathNames
        BY DEF GroupOf
    <2>2. NamesOf(gs) \subseteq PathNames
        BY <1>1, <2>1, KnownAreNames
    <2> QED
        BY <2>2 DEF Dependences
<1>3. /\ new \in Seq(GroupOf(p)) /\ Len(new) = n /\ LooksInto(gs, new)
      /\ \A i \in 1 .. n : new[i].policy = None
    <2> DEFINE other == groups[q]
    <2>1. /\ n = Embeddable(gs, other, side) /\ new = [i \in 1 .. n |-> Embedded(other[i], side)]
          /\ other \in Seq(GroupOf(q)) /\ LooksBack(other)
        BY <1>1
    <2> HIDE DEF gs, n, new, other
    <2>5. gs \in Seq(GroupOf(p)) /\ side \in Dependences
        BY <1>1, <1>2
    <2>6. side # None => side \subseteq NamesOf(gs)
        BY <1>2
    <2>2. LooksInto(gs, new)
        BY <2>1, <2>5, <2>6, EmbeddedGroups
    <2>3. new \in Seq(GroupOf(p)) /\ Len(new) = n
        BY <2>1, <2>5, <2>6, EmbeddedGroups
    <2>4. \A i \in 1 .. n : new[i].policy = None
        BY <2>1, <2>5, <2>6, EmbeddedGroups
    <2> QED
        BY <2>2, <2>3, <2>4
<1>4. /\ groups' = [groups EXCEPT ![p] = gs \o new] /\ registered' = registered
      /\ \/ /\ current' = [current EXCEPT ![p] = None] /\ spoilt' = spoilt
            /\ embeds' = [embeds EXCEPT ![p] = @ \cup {q}]
         \/ current' = current /\ spoilt' = spoilt \cup {p} /\ embeds' = embeds
    BY DEF Subpipeline
<1> HIDE DEF gs, n, new
<1>5. LooksBack(gs \o new)
    BY <1>1, <1>3, LooksBackGrows
<1>6. Matched(gs \o new, registered[p])
    BY <1>1, <1>3, MatchedGrows
<1>7. gs \o new \in Seq(GroupOf(p))
    BY <1>1, <1>3, ConcatProperties
<1>8. Touched(p, gs \o new, registered[p]) /\ ~(p \notin spoilt' /\ current'[p] # None)
    BY <1>1, <1>4 DEF Touched
<1> QED
    BY <1>5, <1>6, <1>7, <1>8, OneRecord

LEMMA BuilderGoesOn == BuilderInv /\ [Next]_vars => BuilderInv'
<1> SUFFICES ASSUME BuilderInv, [Next]_vars PROVE BuilderInv'
    OBVIOUS
<1>1. ASSUME NEW p \in Open, NEW name \in GroupNames[p], NEW policy \in Policies[p] \cup {None},
             NEW deps, Group(p, name, deps, policy)
      PROVE  BuilderInv'
    BY <1>1, GroupGoesOn, BuilderAssumption DEF Open
<1>2. ASSUME NEW p \in Open, NEW name \in AgentNames[p], NEW deps, Agent(p, name, deps)
      PROVE  BuilderInv'
    BY <1>2, AgentGoesOn, BuilderAssumption DEF Open
<1>3. ASSUME NEW p \in Open, NEW name \in GroupNames[p], NEW source, NEW deps,
             FanoutGroup(p, name, source, deps)
      PROVE  BuilderInv'
    BY <1>3, FanoutGoesOn, BuilderAssumption DEF Open
<1>4. ASSUME NEW p \in Open, NEW q \in Open, NEW deps \in Known(p) \cup {None},
             Subpipeline(p, q, deps)
      PROVE  BuilderInv'
    BY <1>4, SubpipelineGoesOn DEF Open, Known
<1>5. ASSUME UNCHANGED vars PROVE BuilderInv'
    BY <1>5 DEF vars, BuilderInv, BuilderType, CurrentIsLast
<1> QED
    BY <1>1, <1>2, <1>3, <1>4, <1>5 DEF Next

\* The policy of a group, wherever names are distinct.
LEMMA ItsPolicy ==
    ASSUME NEW p, NEW i \in DOMAIN groups[p], DOMAIN groups[p] \subseteq Nat, Distinct(groups[p])
    PROVE  EffectivePolicy(p, groups[p][i].name) = groups[p][i].policy
<1> DEFINE gs   == groups[p]
           with == {j \in DOMAIN gs : gs[j].name = gs[i].name /\ gs[j].policy # None}
<1>1. \A j \in DOMAIN gs : gs[j].name = gs[i].name => j = i
    BY DistinctNames
<1>2. with \subseteq {i} /\ (i \in with <=> gs[i].policy # None)
    BY <1>1
<1>3. EffectivePolicy(p, gs[i].name) =
          IF with = {} THEN None ELSE gs[CHOOSE k \in with : \A j \in with : k <= j].policy
    BY DEF EffectivePolicy
<1>4. with # {} => (CHOOSE k \in with : \A j \in with : k <= j) = i
    <2>1. i \in Nat
        OBVIOUS
    <2>2. ASSUME with # {} PROVE \E k \in with : \A j \in with : k <= j
        BY <1>2, <2>1, <2>2
    <2> HIDE DEF with
    <2>3. with # {} => (CHOOSE k \in with : \A j \in with : k <= j) \in with
        BY <2>2
    <2> QED
        BY <1>2, <2>3
<1> HIDE DEF with
<1> QED
    BY <1>2, <1>3, <1>4

LEMMA BuilderIsSound == Spec => []BuilderInv
<1> QED
    BY BuilderStarts, BuilderGoesOn, PTL DEF Spec

\* Whatever is called on the builders, in whatever order: groups keep to their
\* types, agents go into the group the caller opened last, and the pipeline and
\* its PipelineState agree on the policy of every group whose name is its own.
THEOREM RecordsMatch == Spec => []TypeOK
<1>1. BuilderInv => TypeOK
    <2> SUFFICES ASSUME BuilderInv, NEW p \in Pipelines
                 PROVE  /\ \A i \in DOMAIN groups[p] :
                               LET g == groups[p][i]
                               IN  /\ g.policy \in Policies[p] \cup {None}
                                   /\ Static(g) <=> g.source = None
                        /\ CurrentIsLast(p)
                        /\ Distinct(groups[p]) => \A name \in NamesOf(groups[p]) :
                               EffectivePolicy(p, name) = StatePolicy(p, name)
        BY DEF TypeOK, CurrentIsLast
    <2>1. /\ groups[p] \in Seq(GroupOf(p)) /\ LooksBack(groups[p])
          /\ Matched(groups[p], registered[p]) /\ CurrentIsLast(p)
        BY DEF BuilderInv, BuilderType
    <2>2. DOMAIN groups[p] = 1 .. Len(groups[p]) /\ Len(groups[p]) \in Nat
        BY <2>1, LenProperties
    <2>3. ASSUME NEW i \in DOMAIN groups[p]
          PROVE  /\ groups[p][i].policy \in Policies[p] \cup {None}
                 /\ Static(groups[p][i]) <=> groups[p][i].source = None
        <3>1. groups[p][i] \in GroupOf(p)
            BY <2>1, <2>2, ElementOfSeq
        <3> QED
            BY <2>1, <3>1 DEF GroupOf, LooksBack
    <2>4. ASSUME Distinct(groups[p]), NEW i \in DOMAIN groups[p]
          PROVE  EffectivePolicy(p, groups[p][i].name) = StatePolicy(p, groups[p][i].name)
        <3>1. EffectivePolicy(p, groups[p][i].name) = groups[p][i].policy
            BY <2>2, <2>4, ItsPolicy
        <3>2. StatePolicy(p, groups[p][i].name) = PolicyIn(registered[p], groups[p][i].name)
            BY DEF StatePolicy, PolicyIn
        <3> QED
            BY <2>1, <2>4, <3>1, <3>2 DEF Matched
    <2> QED
        BY <2>1, <2>3, <2>4 DEF NamesOf
<1> QED
    BY <1>1, BuilderIsSound, PTL

\* What run() accepts compiles, whatever calls built it: its group graph and
\* the agent graph of every group pass the composition rules, which gives every
\* group and agent a place in the schedule, and a fan-out group comes after the
\* group of its source.
THEOREM AcceptedCompile == Spec => []AcceptedPipelinesCompile
<1>1. BuilderInv => AcceptedPipelinesCompile
    <2> SUFFICES ASSUME BuilderInv, NEW p \in Pipelines
                 PROVE  /\ Distinct(groups[p]) =>
                               Validated(InOrder(groups[p]), CompileEdges(groups[p]))
                        /\ \A i \in DOMAIN groups[p] :
                               IF Static(groups[p][i])
                               THEN Distinct(groups[p][i].agents) =>
                                        Validated(InOrder(groups[p][i].agents),
                                                  CompileEdges(groups[p][i].agents))
                               ELSE groups[p][i].source \in AgentsIn(SubSeq(groups[p], 1, i - 1))
        BY DEF AcceptedPipelinesCompile, Open
    <2> DEFINE gs == groups[p]
    <2>1. gs \in Seq(GroupOf(p)) /\ LooksBack(gs)
        BY DEF BuilderInv, BuilderType
    <2>2. DOMAIN gs = 1 .. Len(gs) /\ Len(gs) \in Nat
        BY <2>1, LenProperties
    <2> HIDE DEF gs
    <2>3. Distinct(gs) => Validated(InOrder(gs), CompileEdges(gs))
        <3>1. \A g \in GroupOf(p) : g.name \in PathNames
            BY DEF GroupOf
        <3>2. Backward(gs)
            BY <2>1 DEF LooksBack
        <3> QED
            BY <2>1, <3>1, <3>2, BackwardCompiles
    <2>4. ASSUME NEW i \in DOMAIN gs, Static(gs[i]), Distinct(gs[i].agents)
          PROVE  Validated(InOrder(gs[i].agents), CompileEdges(gs[i].agents))
        <3>1. gs[i] \in GroupOf(p)
            BY <2>1, <2>2, ElementOfSeq
        <3>2. gs[i].agents \in Seq(Declaration) /\ Backward(gs[i].agents)
            BY <2>1, <2>4, <3>1 DEF GroupOf, Static, LooksBack
        <3>3. \A d \in Declaration : d.name \in PathNames
            BY DEF Declaration
        <3> QED
            BY <2>4, <3>2, <3>3, BackwardCompiles
    <2>5. ASSUME NEW i \in DOMAIN gs, ~Static(gs[i])
          PROVE  gs[i].source \in AgentsIn(SubSeq(gs, 1, i - 1))
        <3>1. gs[i].source \in AgentsBefore(gs, i)
            BY <2>1, <2>5 DEF LooksBack
        <3>2. PICK j \in 1 .. i - 1 : Static(gs[j]) /\ gs[i].source \in NamesOf(gs[j].agents)
            BY <3>1, BeforeMember
        <3>3. i - 1 \in Nat /\ i - 1 <= Len(gs) /\ 1 \in 1 .. Len(gs) + 1
            BY <2>2
        <3>4. DOMAIN SubSeq(gs, 1, i - 1) = 1 .. i - 1 /\ SubSeq(gs, 1, i - 1)[j] = gs[j]
            <4>1. SubSeq(gs, 1, i - 1) = [k \in 1 .. i - 1 |-> gs[k]]
                BY <2>1, <2>2, <3>3
            <4> QED
                BY <4>1
        <3> QED
            BY <3>2, <3>4 DEF AgentsIn
    <2> QED
        BY <2>3, <2>4, <2>5 DEF gs
<1> QED
    BY <1>1, BuilderIsSound, PTL
-----------------------------------------------------------------------------
(* Embedding keeps the order: None is told from a set of names, as Python    *)
(* tells it.                                                                 *)

NoneIsNoSet == None \notin SUBSET PathNames

LEMMA PrefixedIsNone ==
    ASSUME NoneIsNoSet, NEW deps \in Dependences
    PROVE  /\ PrefixedSet(deps) = None <=> deps = None
           /\ deps # None => PrefixedSet(deps) = {Prefixed(d) : d \in deps}
BY PrefixedNames DEF NoneIsNoSet, PrefixedSet, Dependences

LEMMA AgentOrderKept ==
    ASSUME NoneIsNoSet, NEW agents \in Seq(Declaration), Distinct(Copies(agents)),
           NEW a \in NamesOf(agents)
    PROVE  DepsOf(CompileEdges(Copies(agents)), Prefixed(a)) =
               {Prefixed(d) : d \in DepsOf(CompileEdges(agents), a)}
<1> DEFINE copy == Copies(agents)
           n    == Len(agents)
<1>1. n \in Nat /\ DOMAIN agents = 1 .. n /\ \A i \in 1 .. n : agents[i].dependsOn \in Dependences
    <2>1. \A i \in 1 .. n : agents[i] \in Declaration
        BY ElementOfSeq
    <2> QED
        BY <2>1, LenProperties DEF Declaration
<1>2. /\ DOMAIN copy = 1 .. n
      /\ \A i \in 1 .. n : /\ copy[i].name = Prefixed(agents[i].name)
                           /\ copy[i].dependsOn = PrefixedSet(agents[i].dependsOn)
    BY <1>1 DEF Copies
<1> HIDE DEF copy, n
<1>3. \A i, j \in 1 .. n : copy[i].name = copy[j].name => i = j
    BY <1>2, DistinctNames DEF copy
<1>4. \A i, j \in 1 .. n : agents[i].name = agents[j].name => i = j
    BY <1>2, <1>3
<1>5. PICK i \in 1 .. n : a = agents[i].name
    BY <1>1 DEF NamesOf
<1>6. DepsOf(CompileEdges(copy), Prefixed(a)) =
          IF copy[i].dependsOn # None THEN copy[i].dependsOn
          ELSE IF i > 1 THEN {copy[i - 1].name} ELSE {}
    <2>1. DepsOf(CompileEdges(copy), copy[i].name) =
              IF copy[i].dependsOn # None THEN copy[i].dependsOn
              ELSE IF i > 1 THEN {copy[i - 1].name} ELSE {}
        BY <1>1, <1>2, <1>3, EdgesAreCompiled
    <2> QED
        BY <1>2, <1>5, <2>1
<1>7. DepsOf(CompileEdges(agents), a) =
          IF agents[i].dependsOn # None THEN agents[i].dependsOn
          ELSE IF i > 1 THEN {agents[i - 1].name} ELSE {}
    BY <1>1, <1>4, <1>5, EdgesAreCompiled
<1>8. CASE agents[i].dependsOn # None
    <2>1. copy[i].dependsOn = {Prefixed(d) : d \in agents[i].dependsOn} /\ copy[i].dependsOn # None
        BY <1>1, <1>2, <1>8, PrefixedIsNone
    <2>2. /\ DepsOf(CompileEdges(copy), Prefixed(a)) = copy[i].dependsOn
          /\ DepsOf(CompileEdges(agents), a) = agents[i].dependsOn
        BY <1>6, <1>7, <1>8, <2>1
    <2> QED
        BY <2>1, <2>2 DEF copy
<1>9. CASE agents[i].dependsOn = None
    <2>1. copy[i].dependsOn = None
        BY <1>1, <1>2, <1>9, PrefixedIsNone
    <2>2. CASE i > 1
        <3>1. i - 1 \in 1 .. n
            BY <1>1, <2>2
        <3>2. copy[i - 1].name = Prefixed(agents[i - 1].name)
            BY <1>2, <3>1
        <3>3. /\ DepsOf(CompileEdges(copy), Prefixed(a)) = {copy[i - 1].name}
              /\ DepsOf(CompileEdges(agents), a) = {agents[i - 1].name}
            BY <1>6, <1>7, <1>9, <2>1, <2>2
        <3> QED
            BY <3>2, <3>3 DEF copy
    <2>3. CASE ~(i > 1)
        <3>1. /\ DepsOf(CompileEdges(copy), Prefixed(a)) = {}
              /\ DepsOf(CompileEdges(agents), a) = {}
            BY <1>6, <1>7, <1>9, <2>1, <2>3
        <3> QED
            BY <3>1 DEF copy
    <2> QED
        BY <2>2, <2>3
<1> QED
    BY <1>8, <1>9

(* The same for groups, among those of the parent.                           *)
StaysInside(edges, own, inside) ==
    /\ edges \cap inside = {Prefixed(d) : d \in own}
    /\ ~(edges \subseteq inside) => own = {}

LEMMA GroupOrderKept ==
    ASSUME NoneIsNoSet, NEW p, NEW q, NEW other \in Seq(GroupOf(q)), LooksBack(other),
           NEW before \in Seq(GroupOf(p)), NEW side \in Dependences,
           side # None => side \subseteq NamesOf(before),
           NEW new \in Seq(GroupOf(p)), Len(new) = Len(other),
           \A k \in 1 .. Len(other) :
               /\ new[k].name = Prefixed(other[k].name)
               /\ new[k].dependsOn = EmbeddedDeps(other[k].dependsOn, side),
           Distinct(before \o new), NEW i \in 1 .. Len(other),
           NEW edges, edges = DepsOf(CompileEdges(before \o new), Prefixed(other[i].name)),
           NEW own, own = DepsOf(CompileEdges(other), other[i].name),
           NEW inside, inside = {Prefixed(g) : g \in NamesOf(other)}
    PROVE  StaysInside(edges, own, inside)
<1> DEFINE u == before \o new
           N == Len(before)
           n == Len(other)
<1>1. /\ N \in Nat /\ n \in Nat /\ DOMAIN before = 1 .. N /\ DOMAIN other = 1 .. n
      /\ DOMAIN u = 1 .. N + n /\ N + n \in Nat
      /\ \A k \in 1 .. N : u[k] = before[k] /\ k \in 1 .. N + n
      /\ \A k \in 1 .. n : u[N + k] = new[k] /\ N + k \in 1 .. N + n
    <2>1. n \in Nat /\ DOMAIN other = 1 .. n
        BY LenProperties
    <2>2. /\ N \in Nat /\ DOMAIN before = 1 .. N /\ DOMAIN u = 1 .. N + Len(new)
          /\ \A k \in 1 .. N : u[k] = before[k] /\ k \in 1 .. N + Len(new)
          /\ \A k \in 1 .. Len(new) : u[N + k] = new[k] /\ N + k \in 1 .. N + Len(new)
        BY Joined
    <2>3. Len(new) = n
        OBVIOUS
    <2> HIDE DEF u, N, n
    <2> QED
        BY <2>1, <2>2, <2>3
<1>2. \A k \in 1 .. n : other[k].dependsOn \in Dependences
    <2>1. \A k \in 1 .. n : other[k] \in GroupOf(q)
        BY ElementOfSeq
    <2> QED
        BY <2>1 DEF GroupOf
<1> HIDE DEF u, N, n
<1>3. \A j, k \in 1 .. N + n : u[j].name = u[k].name => j = k
    BY <1>1, DistinctNames DEF u
<1>4. \A k \in 1 .. n : /\ new[k].name = Prefixed(other[k].name)
                        /\ new[k].dependsOn = EmbeddedDeps(other[k].dependsOn, side)
    BY DEF n
<1>5. \A j, k \in 1 .. n : other[j].name = other[k].name => j = k
    <2>1. ASSUME NEW j \in 1 .. n, NEW k \in 1 .. n, other[j].name = other[k].name PROVE j = k
        <3>1. u[N + j].name = u[N + k].name /\ N + j \in 1 .. N + n /\ N + k \in 1 .. N + n
            BY <1>1, <1>4, <2>1
        <3>2. N + j = N + k
            BY <1>3, <3>1
        <3> QED
            BY <1>1, <3>2
    <2> QED
        BY <2>1
<1>6. inside = {new[k].name : k \in 1 .. n}
    <2>1. NamesOf(other) = {other[k].name : k \in 1 .. n}
        BY <1>1 DEF NamesOf
    <2>2. ASSUME NEW x \in inside PROVE \E k \in 1 .. n : x = new[k].name
        BY <1>4, <2>1
    <2>3. ASSUME NEW k \in 1 .. n PROVE new[k].name \in inside
        BY <1>4, <2>1
    <2> QED
        BY <2>2, <2>3 DEF StaysInside
<1>7. NamesOf(before) \cap inside = {}
    <2>1. ASSUME NEW j \in 1 .. N, NEW k \in 1 .. n, before[j].name = new[k].name PROVE FALSE
        <3>1. u[j].name = u[N + k].name /\ j \in 1 .. N + n /\ N + k \in 1 .. N + n
            BY <1>1, <2>1
        <3>2. j = N + k
            BY <1>3, <3>1
        <3> QED
            BY <1>1, <3>2
    <2> QED
        BY <1>1, <1>6, <2>1 DEF NamesOf
<1>8. i \in 1 .. n /\ N + i \in 1 .. N + n /\ u[N + i] = new[i]
    BY <1>1 DEF n
<1>15. PICK at : at = N + i
    OBVIOUS
<1>9. edges = IF new[i].dependsOn # None THEN new[i].dependsOn
              ELSE IF at > 1 THEN {u[at - 1].name} ELSE {}
    <2> DEFINE all == N + n
    <2>1. /\ all \in Nat /\ DOMAIN u = 1 .. all /\ at \in 1 .. all /\ u[at] = new[i]
          /\ \A j, k \in 1 .. all : u[j].name = u[k].name => j = k
        BY <1>1, <1>3, <1>8, <1>15
    <2> HIDE DEF all
    <2>2. DepsOf(CompileEdges(u), u[at].name) =
              IF u[at].dependsOn # None THEN u[at].dependsOn
              ELSE IF at > 1 THEN {u[at - 1].name} ELSE {}
        BY <2>1, EdgesAreCompiled
    <2>3. edges = DepsOf(CompileEdges(u), Prefixed(other[i].name))
        BY DEF u
    <2>4. u[at].name = Prefixed(other[i].name)
        BY <1>4, <1>8, <2>1
    <2> QED
        BY <2>1, <2>2, <2>3, <2>4
<1>10. own = IF other[i].dependsOn # None THEN other[i].dependsOn
             ELSE IF i > 1 THEN {other[i - 1].name} ELSE {}
    BY <1>1, <1>5, <1>8, EdgesAreCompiled
<1>11. new[i].dependsOn = EmbeddedDeps(other[i].dependsOn, side) /\ other[i].dependsOn \in Dependences
    BY <1>2, <1>4, <1>8
<1>12. CASE other[i].dependsOn = {}
    <2>1. None # {}
        BY DEF NoneIsNoSet
    <2>2. own = {}
        BY <1>10, <1>12, <2>1
    <2>3. edges \subseteq NamesOf(before)
        <3>1. new[i].dependsOn = IF side = None THEN {} ELSE side
            BY <1>11, <1>12 DEF EmbeddedDeps
        <3>2. new[i].dependsOn # None
            BY <2>1, <3>1
        <3> QED
            BY <1>9, <3>1, <3>2
    <2> QED
        BY <1>7, <2>2, <2>3 DEF StaysInside
<1>13. CASE other[i].dependsOn # {} /\ other[i].dependsOn # None
    <2>1. /\ new[i].dependsOn = {Prefixed(d) : d \in other[i].dependsOn}
          /\ new[i].dependsOn # None
        BY <1>11, <1>13, PrefixedIsNone DEF EmbeddedDeps
    <2>2. edges = {Prefixed(d) : d \in other[i].dependsOn} /\ own = other[i].dependsOn
        BY <1>9, <1>10, <1>13, <2>1
    <2>3. own \subseteq NamesOf(other)
        <3>1. own \subseteq {other[j].name : j \in 1 .. i - 1}
            BY <1>1, <1>8, <1>13, <2>2 DEF LooksBack, Backward
        <3>2. \A j \in 1 .. i - 1 : j \in DOMAIN other
            BY <1>1, <1>8
        <3> QED
            BY <3>1, <3>2 DEF NamesOf
    <2> QED
        BY <2>2, <2>3 DEF StaysInside
<1>14. CASE other[i].dependsOn = None
    <2>1. new[i].dependsOn = None
        <3>1. None # {}
            BY DEF NoneIsNoSet
        <3> QED
            BY <1>11, <1>14, <3>1, PrefixedIsNone DEF EmbeddedDeps
    <2>2. CASE i > 1
        <3>1. i - 1 \in 1 .. n /\ N + (i - 1) = at - 1 /\ at > 1
            BY <1>1, <1>8, <1>15, <2>2
        <3>2. u[at - 1].name = Prefixed(other[i - 1].name)
            BY <1>1, <1>4, <3>1
        <3>3. edges = {Prefixed(other[i - 1].name)} /\ own = {other[i - 1].name}
            BY <1>9, <1>10, <1>14, <2>1, <2>2, <3>1, <3>2
        <3>4. Prefixed(other[i - 1].name) \in inside
            BY <1>4, <1>6, <3>1
        <3> QED
            BY <3>3, <3>4 DEF StaysInside
    <2>3. CASE i = 1
        <3>1. own = {}
            BY <1>10, <1>14, <2>3
        <3>2. edges \subseteq NamesOf(before)
            <4>1. CASE N > 0
                <5>1. at - 1 = N /\ N \in 1 .. N
                    BY <1>1, <1>15, <2>3, <4>1
                <5>2. u[at - 1].name = before[N].name
                    BY <1>1, <5>1
                <5>3. before[N].name \in NamesOf(before)
                    BY <1>1, <5>1 DEF NamesOf
                <5>4. edges \subseteq {u[at - 1].name}
                    BY <1>9, <2>1
                <5> QED
                    BY <5>2, <5>3, <5>4
            <4>2. CASE N = 0
                <5>1. ~(at > 1)
                    BY <1>15, <2>3, <4>2
                <5> QED
                    BY <1>9, <2>1, <5>1
            <4> QED
                BY <1>1, <4>1, <4>2
        <3> QED
            BY <1>7, <3>1, <3>2 DEF StaysInside
    <2> QED
        BY <1>8, <2>2, <2>3
<1> QED
    BY <1>12, <1>13, <1>14

\* An embedded pipeline keeps its order: between its groups and between the
\* agents of each group, the edges in the parent are those it had on its own,
\* its fan-outs read its own agents, and only a group that waited for none of
\* its own waits for the parent's.
THEOREM EmbeddingKept == NoneIsNoSet => (Spec => EmbeddingKeepsOrder)
<1> SUFFICES ASSUME NoneIsNoSet PROVE Spec => EmbeddingKeepsOrder
    OBVIOUS
<1> DEFINE Kept(p, q) ==
        LET own    == CompileEdges(groups[q])
            inside == {Prefixed(g) : g \in NamesOf(groups[q])}
            within == CompileEdges(groups'[p])
            New(i) == groups'[p][Len(groups[p]) + i]
        IN  \A i \in DOMAIN groups[q] :
                LET g     == groups[q][i]
                    edges == DepsOf(within, Prefixed(g.name))
                IN  /\ Distinct(groups'[p]) =>
                          /\ edges \cap inside = {Prefixed(d) : d \in DepsOf(own, g.name)}
                          /\ ~(edges \subseteq inside) => DepsOf(own, g.name) = {}
                    /\ IF Static(g)
                       THEN LET old == CompileEdges(g.agents)
                                new == CompileEdges(New(i).agents)
                            IN  \A a \in NamesOf(g.agents) :
                                    DepsOf(new, Prefixed(a)) = {Prefixed(d) : d \in DepsOf(old, a)}
                       ELSE New(i).source = Prefixed(g.source)
<1>1. ASSUME BuilderInv, NEW p \in Pipelines, NEW q \in Pipelines,
             NEW side \in {None} \cup SUBSET NamesOf(groups[p]), Subpipeline(p, q, side),
             Embeddable(groups[p], groups[q], side) = Len(groups[q])
      PROVE  Kept(p, q)
    <2> DEFINE other == groups[q]
               gs    == groups[p]
               new   == [i \in 1 .. Len(other) |-> Embedded(other[i], side)]
               u     == gs \o new
    <2>1. /\ gs \in Seq(GroupOf(p)) /\ other \in Seq(GroupOf(q)) /\ LooksBack(other)
          /\ p \in DOMAIN groups
        BY <1>1 DEF BuilderInv, BuilderType
    <2>2. side \in Dependences /\ (side # None => side \subseteq NamesOf(gs))
        <3>1. \A g \in GroupOf(p) : g.name \in PathNames
            BY DEF GroupOf
        <3>2. NamesOf(gs) \subseteq PathNames
            BY <2>1, <3>1, KnownAreNames
        <3> QED
            BY <3>2 DEF Dependences
    <2>3. groups'[p] = u
        BY <1>1, <2>1 DEF Subpipeline
    <2>4. Len(other) \in Nat /\ DOMAIN other = 1 .. Len(other)
        BY <2>1, LenProperties
    <2>5. /\ new \in Seq(GroupOf(p)) /\ Len(new) = Len(other)
          /\ \A i \in 1 .. Len(other) : Static(new[i]) => Distinct(new[i].agents)
        <3>1. Len(other) = Embeddable(gs, other, side)
            BY <1>1
        <3> DEFINE n == Len(other)
        <3>2. n = Embeddable(gs, other, side) /\ new = [i \in 1 .. n |-> Embedded(other[i], side)]
            BY <3>1
        <3>3. side # None => side \subseteq NamesOf(gs)
            BY <2>2
        <3>4. side \in Dependences
            BY <2>2
        <3> HIDE DEF n, gs, other, new
        <3>5. new \in Seq(GroupOf(p)) /\ Len(new) = n
            BY <2>1, <3>2, <3>3, <3>4, EmbeddedGroups
        <3>6. \A i \in 1 .. n : Static(new[i]) => Distinct(new[i].agents)
            BY <2>1, <3>2, <3>3, <3>4, EmbeddedGroups
        <3> QED
            BY <3>5, <3>6 DEF n
    <2>6. \A i \in 1 .. Len(other) : u[Len(gs) + i] = new[i]
        BY <2>1, <2>5, Joined
    <2>7. ASSUME NEW i \in 1 .. Len(other)
          PROVE  /\ new[i] = Embedded(other[i], side)
                 /\ other[i] \in GroupOf(q) /\ (Static(other[i]) \/ other[i].source # None)
        BY <2>1, <2>4, ElementOfSeq DEF LooksBack
    <2>12. new \in Seq(GroupOf(p)) /\ u = gs \o new
        BY <2>5
    <2> HIDE DEF new, u, gs, other
    <2>8. ASSUME NEW i \in 1 .. Len(other)
          PROVE  /\ new[i].name = Prefixed(other[i].name)
                 /\ new[i].dependsOn = EmbeddedDeps(other[i].dependsOn, side)
                 /\ Static(new[i]) <=> Static(other[i])
                 /\ Static(other[i]) => new[i].agents = Copies(other[i].agents)
                 /\ ~Static(other[i]) => new[i].source = Prefixed(other[i].source)
        BY <2>2, <2>7, EmbeddedGroup
    <2>9. ASSUME NEW i \in 1 .. Len(other), Distinct(u)
          PROVE  LET edges  == DepsOf(CompileEdges(u), Prefixed(other[i].name))
                     inside == {Prefixed(g) : g \in NamesOf(other)}
                     own    == DepsOf(CompileEdges(other), other[i].name)
                 IN  /\ edges \cap inside = {Prefixed(d) : d \in own}
                     /\ ~(edges \subseteq inside) => own = {}
        <3> DEFINE edges  == DepsOf(CompileEdges(u), Prefixed(other[i].name))
                   inside == {Prefixed(g) : g \in NamesOf(other)}
                   own    == DepsOf(CompileEdges(other), other[i].name)
        <3>1. /\ edges = DepsOf(CompileEdges(gs \o new), Prefixed(other[i].name))
              /\ inside = {Prefixed(g) : g \in NamesOf(other)}
              /\ own = DepsOf(CompileEdges(other), other[i].name)
              /\ Distinct(gs \o new)
            BY <2>9, <2>12
        <3>2. side # None => side \subseteq NamesOf(gs)
            BY <2>2
        <3> HIDE DEF edges, inside, own
        <3>3. \A k \in 1 .. Len(other) :
                  /\ new[k].name = Prefixed(other[k].name)
                  /\ new[k].dependsOn = EmbeddedDeps(other[k].dependsOn, side)
            BY <2>8
        <3>5. gs \in Seq(GroupOf(p)) /\ other \in Seq(GroupOf(q)) /\ LooksBack(other) /\ side \in Dependences
            BY <2>1, <2>2
        <3>6. new \in Seq(GroupOf(p)) /\ Len(new) = Len(other)
            BY <2>5
        <3>4. StaysInside(edges, own, inside)
            BY <3>1, <3>2, <3>3, <3>5, <3>6, GroupOrderKept
        <3> QED
            BY <3>4 DEF edges, inside, own, StaysInside
    <2>10. ASSUME NEW i \in 1 .. Len(other), Static(other[i]), NEW a \in NamesOf(other[i].agents)
           PROVE  DepsOf(CompileEdges(new[i].agents), Prefixed(a)) =
                      {Prefixed(d) : d \in DepsOf(CompileEdges(other[i].agents), a)}
        <3>1. new[i].agents = Copies(other[i].agents)
            BY <2>8, <2>10
        <3>2. other[i].agents \in Seq(Declaration)
            BY <2>7, <2>10 DEF GroupOf, Static
        <3>3. Distinct(Copies(other[i].agents))
            BY <2>5, <2>8, <2>10, <3>1
        <3> QED
            BY <2>10, <3>1, <3>2, <3>3, AgentOrderKept
    <2>13. ASSUME NEW i \in DOMAIN other
           PROVE  IF Static(other[i])
                  THEN \A a \in NamesOf(other[i].agents) :
                           DepsOf(CompileEdges(u[Len(gs) + i].agents), Prefixed(a)) =
                               {Prefixed(d) : d \in DepsOf(CompileEdges(other[i].agents), a)}
                  ELSE u[Len(gs) + i].source = Prefixed(other[i].source)
        <3>1. i \in 1 .. Len(other) /\ u[Len(gs) + i] = new[i]
            BY <2>4, <2>6
        <3> QED
            BY <2>8, <2>10, <3>1
    <2>14. ASSUME NEW i \in DOMAIN other, Distinct(u)
           PROVE  LET edges  == DepsOf(CompileEdges(u), Prefixed(other[i].name))
                      inside == {Prefixed(g) : g \in NamesOf(other)}
                      own    == DepsOf(CompileEdges(other), other[i].name)
                  IN  /\ edges \cap inside = {Prefixed(d) : d \in own}
                      /\ ~(edges \subseteq inside) => own = {}
        BY <2>4, <2>9, <2>14
    <2> QED
        BY <2>3, <2>13, <2>14 DEF gs, other
<1>2. ASSUME BuilderInv, [Next]_vars, NEW p \in Pipelines, NEW q \in Pipelines,
             q \in embeds'[p] \ embeds[p]
      PROVE  Kept(p, q)
    <2> HIDE DEF Kept
    <2>1. ASSUME embeds' = embeds PROVE FALSE
        BY <1>2, <2>1
    <2>2. ASSUME NEW p0 \in Open, NEW q0 \in Open, NEW side \in Known(p0) \cup {None},
                 Subpipeline(p0, q0, side)
          PROVE  Kept(p, q)
        <3>1. /\ Embeddable(groups[p0], groups[q0], side) = Len(groups[q0])
              /\ embeds' = [embeds EXCEPT ![p0] = @ \cup {q0}]
            BY <2>1, <2>2 DEF Subpipeline
        <3>2. DOMAIN embeds = Pipelines
            BY <1>2 DEF BuilderInv, BuilderType
        <3>3. p = p0 /\ q = q0
            BY <1>2, <3>1, <3>2
        <3>4. side \in {None} \cup SUBSET NamesOf(groups[p])
            BY <3>3 DEF Known
        <3> QED
            BY <1>1, <1>2, <2>2, <3>1, <3>3, <3>4
    <2> QED
        BY <1>2, <2>1, <2>2 DEF Next, vars, Group, Agent, FanoutGroup
<1>3. BuilderInv /\ [Next]_vars =>
          [\A p \in Pipelines, q \in Pipelines : q \in embeds'[p] \ embeds[p] => Kept(p, q)]_vars
    <2> HIDE DEF Kept
    <2> QED
        BY <1>2
<1>4. EmbeddingKeepsOrder <=>
          [][\A p \in Pipelines, q \in Pipelines : q \in embeds'[p] \ embeds[p] => Kept(p, q)]_vars
    BY PTL DEF EmbeddingKeepsOrder
<1> QED
    BY <1>3, <1>4, BuilderIsSound, PTL DEF Spec
=============================================================================
