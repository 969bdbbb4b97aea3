----------------------- MODULE ParallelExecutorProofs -----------------------
(***************************************************************************)
(* Proofs about ParallelExecutor, for every group graph the builder        *)
(* accepts, any pool size and any number of tasks, failures and crashes.   *)
(***************************************************************************)
EXTENDS ParallelExecutor, SequenceTheorems, RecursionLemmas

-----------------------------------------------------------------------------
(* The declaration lists each group once.                                    *)
LEMMA DeclaredOnce ==
    /\ Cardinality(Groups) \in Nat \ {0}
    /\ Declared \in Seq(Groups)
    /\ Len(Declared) = Cardinality(Groups)
    /\ Range(Declared) = Groups
    /\ IsInjective(Declared)
<1> DEFINE N == Cardinality(Groups)
<1>1. N \in Nat \ {0}
    BY PipelineAssumption, FS_CardinalityType, FS_EmptySet
<1>2. Declared \in [1 .. N -> Groups]
    BY PipelineAssumption
<1>3. Declared \in Seq(Groups) /\ Len(Declared) = N
    BY <1>1, <1>2, SeqDef, LenProperties
<1>4. Range(Declared) = Groups
    BY <1>2, PipelineAssumption DEF Range
<1>5. IsInjective(Declared)
    <2>1. IsFiniteSet(1 .. N) /\ Cardinality(1 .. N) = N
        BY <1>1, FS_Interval
    <2>2. Declared \in Surjection(1 .. N, Groups)
        BY <1>2, PipelineAssumption DEF Surjection
    <2>3. Declared \in Injection(1 .. N, Groups)
        BY <2>1, <2>2, PipelineAssumption, FS_SurjSameCardinalityImpliesInj
    <2> QED
        BY <1>2, <2>3 DEF Injection, IsInjective
<1> QED
    BY <1>1, <1>3, <1>4, <1>5

(* A group waits only for groups declared before it.                         *)
LEMMA DepsAreEarlier ==
    /\ GroupDeps \in [Groups -> SUBSET Groups]
    /\ \A i \in 1 .. Cardinality(Groups) :
           GroupDeps[Declared[i]] \subseteq {Declared[j] : j \in 1 .. i - 1}
<1> DEFINE N == Cardinality(Groups)
<1>1. /\ N \in Nat \ {0} /\ Len(Declared) = N /\ IsInjective(Declared)
      /\ Declared \in [1 .. N -> Groups]
    BY DeclaredOnce, PipelineAssumption
<1>2. ASSUME NEW g \in Groups
      PROVE  GroupDeps[g] \in SUBSET Groups
    <2>1. CASE DeclaredDeps[g] # None
        BY <2>1, PipelineAssumption DEF GroupDeps
    <2>2. CASE DeclaredDeps[g] = None
        BY <1>1, <2>2 DEF GroupDeps
    <2> QED
        BY <2>1, <2>2
<1>3. ASSUME NEW i \in 1 .. N
      PROVE  GroupDeps[Declared[i]] \subseteq {Declared[j] : j \in 1 .. i - 1}
    <2>1. Declared[i] \in Groups
        BY <1>1
    <2>2. CASE DeclaredDeps[Declared[i]] # None
        BY <1>1, <2>1, <2>2, PipelineAssumption DEF GroupDeps
    <2>3. CASE DeclaredDeps[Declared[i]] = None
        <3>1. GroupDeps[Declared[i]] =
                  {Declared[j] : j \in {k \in 1 .. N - 1 : Declared[k + 1] = Declared[i]}}
            BY <1>1, <2>1, <2>3 DEF GroupDeps
        <3>2. ASSUME NEW k \in 1 .. N - 1, Declared[k + 1] = Declared[i]
              PROVE  k \in 1 .. i - 1
            <4>1. k + 1 \in 1 .. N
                BY <1>1
            <4>2. k + 1 = i
                BY <1>1, <3>2, <4>1 DEF IsInjective
            <4> QED
                BY <1>1, <4>2
        <3> QED
            BY <3>1, <3>2
    <2> QED
        BY <2>2, <2>3
<1> QED
    BY <1>2, <1>3 DEF GroupDeps

(* The next level: the groups not emitted whose dependencies are.            *)
LEMMA ReadyProperties ==
    ASSUME NEW E
    PROVE  /\ ReadyGroups(E) \in Seq(Groups)
           /\ \A g : g \in Range(ReadyGroups(E)) <=>
                         g \in Groups /\ g \notin E /\ GroupDeps[g] \subseteq E
           /\ IsInjective(ReadyGroups(E))
<1> DEFINE S == {g \in Groups : g \notin E /\ GroupDeps[g] \subseteq E}
<1>1. ReadyGroups(E) = Keep(Declared, S)
    BY DEF ReadyGroups
<1>2. \A x : x \in S <=> x \in Groups /\ x \notin E /\ GroupDeps[x] \subseteq E
    OBVIOUS
<1> HIDE DEF S
<1> QED
    BY <1>1, <1>2, DeclaredOnce, KeepProperties

\* The groups of the levels before n.
Before(levels, n) == UNION {Range(levels[i]) : i \in 1 .. n - 1}

\* What the executor relies on: no group is in two levels or twice in one, and
\* what a group waits for is in the levels before its own.
Layered(levels) ==
    /\ levels \in Seq(Seq(Groups))
    /\ \A n \in 1 .. Len(levels) :
           /\ levels[n] # <<>> /\ IsInjective(levels[n])
           /\ \A g \in Range(levels[n]) : /\ g \notin Before(levels, n)
                                          /\ GroupDeps[g] \subseteq Before(levels, n)

(* Adding a level keeps them layered, and emits every group that was ready.  *)
LEMMA AddLevelStep ==
    ASSUME NEW levels, Layered(levels)
    PROVE  /\ Layered(AddLevel(levels))
           /\ Emitted(levels) \subseteq Emitted(AddLevel(levels))
           /\ \A g \in Groups : GroupDeps[g] \subseteq Emitted(levels) => g \in Emitted(AddLevel(levels))
<1> DEFINE E == Emitted(levels)
           R == ReadyGroups(E)
           M == Len(levels)
           new == AddLevel(levels)
<1>1. levels \in Seq(Seq(Groups)) /\ M \in Nat /\ DOMAIN levels = 1 .. M
    BY LenProperties DEF Layered
<1>2. /\ R \in Seq(Groups) /\ IsInjective(R)
      /\ \A g : g \in Range(R) <=> g \in Groups /\ g \notin E /\ GroupDeps[g] \subseteq E
    BY ReadyProperties
<1>3. E = UNION {Range(levels[i]) : i \in 1 .. M}
    BY <1>1 DEF Emitted
<1>4. CASE R = <<>>
    <2>1. new = levels
        BY <1>4 DEF AddLevel
    <2>2. Range(R) = {}
        BY <1>4 DEF Range
    <2> QED
        BY <1>2, <2>1, <2>2
<1>5. CASE R # <<>>
    <2>1. /\ new \in Seq(Seq(Groups)) /\ Len(new) = M + 1
          /\ \A i \in 1 .. M : new[i] = levels[i]
          /\ new[M + 1] = R
        BY <1>1, <1>2, <1>5, AppendProperties DEF AddLevel
    <2>2. DOMAIN new = 1 .. M + 1
        BY <2>1, LenProperties
    <2> HIDE DEF new, R, E, M
    <2>3. \A n \in 1 .. M + 1 : Before(new, n) = Before(levels, n)
        BY <1>1, <2>1 DEF Before
    <2>4. Before(levels, M + 1) = E
        BY <1>1, <1>3 DEF Before
    <2>5. ASSUME NEW n \in 1 .. M + 1
          PROVE  /\ new[n] # <<>> /\ IsInjective(new[n])
                 /\ \A g \in Range(new[n]) : /\ g \notin Before(new, n)
                                             /\ GroupDeps[g] \subseteq Before(new, n)
        <3>1. CASE n \in 1 .. M
            BY <2>1, <2>3, <3>1 DEF Layered, M
        <3>2. CASE n = M + 1
            BY <1>2, <1>5, <2>1, <2>3, <2>4, <3>2
        <3> QED
            BY <1>1, <3>1, <3>2
    <2>6. Layered(new)
        BY <2>1, <2>5 DEF Layered
    <2>7. Emitted(new) = E \cup Range(R)
        <3>1. Emitted(new) = UNION {Range(new[i]) : i \in 1 .. M + 1}
            BY <2>2 DEF Emitted
        <3>2. \A x : x \in Emitted(new) <=> \E i \in 1 .. M + 1 : x \in Range(new[i])
            BY <3>1
        <3>3. \A x : x \in E <=> \E i \in 1 .. M : x \in Range(levels[i])
            BY <1>3
        <3> QED
            BY <1>1, <2>1, <3>2, <3>3
    <2> QED
        BY <1>2, <2>6, <2>7 DEF new, E
<1> QED
    BY <1>4, <1>5

(* The recursion of _topological_levels.                                     *)
LEMMA LevelsRecursion ==
    /\ LevelsUpTo[0] = <<>>
    /\ \A n \in 1 .. Cardinality(Groups) : LevelsUpTo[n] = AddLevel(LevelsUpTo[n - 1])
<1> DEFINE N == Cardinality(Groups)
           Body(f, n) == IF n = 0 THEN <<>> ELSE AddLevel(f[n - 1])
           D == Seq(Seq(Groups))
           base == <<>>
           step == [n \in 1 .. N |-> [v \in D |-> AddLevel(v)]]
<1>1. N \in Nat
    BY DeclaredOnce
<1>2. \A v \in D : AddLevel(v) \in D
    <2> TAKE v \in D
    <2>1. ReadyGroups(Emitted(v)) \in Seq(Groups)
        BY ReadyProperties
    <2> QED
        BY <2>1, AppendProperties DEF AddLevel
<1>3. base \in D /\ step \in [1 .. N -> [D -> D]]
    BY <1>2, EmptySeq
<1>4. \A n \in 1 .. N, v \in D : step[n][v] = AddLevel(v)
    OBVIOUS
<1> HIDE DEF D, base, step, N
<1>5. PICK h : Computed(h, N, D, base, step)
    BY <1>1, <1>3, Recursion
<1>6. /\ h \in [0 .. N -> D] /\ h[0] = base
      /\ \A n \in 1 .. N : h[n] = step[n][h[n - 1]]
    BY <1>5 DEF Computed
<1>7. \A n \in 1 .. N : n - 1 \in 0 .. N /\ n # 0
    BY <1>1
<1>8. \A n \in 1 .. N : h[n] = AddLevel(h[n - 1])
    BY <1>4, <1>6, <1>7
<1>9. \A n \in 0 .. N : n = 0 \/ n \in 1 .. N
    BY <1>1
<1>10. h = [n \in 0 .. N |-> Body(h, n)]
    <2>1. \A n \in 0 .. N : h[n] = Body(h, n)
        BY <1>6, <1>7, <1>8, <1>9 DEF base
    <2> HIDE DEF Body
    <2> QED
        BY <1>6, <2>1
<1>11. LevelsUpTo = CHOOSE f : f = [n \in 0 .. N |-> Body(f, n)]
    BY DEF LevelsUpTo, N
<1> HIDE DEF Body
<1>12. LevelsUpTo = [n \in 0 .. N |-> Body(LevelsUpTo, n)]
    BY <1>10, <1>11
<1>13. \A n \in 0 .. N : LevelsUpTo[n] = Body(LevelsUpTo, n)
    BY <1>12, Zenon
<1>14. 0 \in 0 .. N /\ \A n \in 1 .. N : n \in 0 .. N
    BY <1>1
<1> QED
    BY <1>7, <1>13, <1>14, Zenon DEF Body, N

(* _topological_levels returns every group once, each after the groups it    *)
(* waits for: it neither stops early nor loses a group.                      *)
THEOREM LevelsAreLayered ==
    /\ Layered(Levels)
    /\ \A g \in Groups : \E n \in 1 .. Len(Levels) : g \in Range(Levels[n])
    /\ Len(Levels) \in Nat \ {0}
<1> DEFINE N == Cardinality(Groups)
           First(n) == {Declared[j] : j \in 1 .. n}
           T == {n \in 0 .. N : /\ Layered(LevelsUpTo[n])
                                /\ First(n) \subseteq Emitted(LevelsUpTo[n])}
<1>1. N \in Nat /\ Declared \in [1 .. N -> Groups] /\ Range(Declared) = Groups
    BY DeclaredOnce, PipelineAssumption
<1>2. 0 \in T
    <2>1. LevelsUpTo[0] = <<>>
        BY LevelsRecursion
    <2>2. Layered(<<>>)
        BY EmptySeq DEF Layered
    <2> QED
        BY <1>1, <2>1, <2>2
<1>3. ASSUME NEW n \in 0 .. N - 1, n \in T
      PROVE  n + 1 \in T
    <2> DEFINE L == LevelsUpTo[n]
    <2>1. n + 1 \in 1 .. N /\ n + 1 \in 0 .. N /\ (n + 1) - 1 = n
        BY <1>1
    <2>2. LevelsUpTo[n + 1] = AddLevel(L)
        BY <2>1, LevelsRecursion
    <2>3. Layered(L) /\ First(n) \subseteq Emitted(L)
        BY <1>3
    <2> HIDE DEF L
    <2>4. /\ Layered(AddLevel(L)) /\ Emitted(L) \subseteq Emitted(AddLevel(L))
          /\ \A g \in Groups : GroupDeps[g] \subseteq Emitted(L) => g \in Emitted(AddLevel(L))
        BY <2>3, AddLevelStep
    <2>5. GroupDeps[Declared[n + 1]] \subseteq First(n)
        BY <2>1, DepsAreEarlier
    <2>6. Declared[n + 1] \in Emitted(AddLevel(L))
        BY <1>1, <2>1, <2>3, <2>4, <2>5
    <2>7. First(n + 1) = First(n) \cup {Declared[n + 1]}
        BY <1>1, <2>1
    <2> QED
        BY <2>1, <2>2, <2>3, <2>4, <2>6, <2>7
<1>4. N \in T
    <2> HIDE DEF T
    <2>1. \A n \in 0 .. N : n \in T
        BY <1>1, <1>2, <1>3, BoundedInduction
    <2> QED
        BY <1>1, <2>1
<1>5. Layered(Levels) /\ First(N) \subseteq Emitted(Levels)
    BY <1>4 DEF Levels
<1>6. First(N) = Groups
    BY <1>1 DEF Range
<1>7. DOMAIN Levels = 1 .. Len(Levels) /\ Len(Levels) \in Nat
    BY <1>5, LenProperties DEF Layered
<1>8. \A g \in Groups : \E n \in 1 .. Len(Levels) : g \in Range(Levels[n])
    BY <1>5, <1>6, <1>7 DEF Emitted
<1> QED
    BY <1>5, <1>7, <1>8, PipelineAssumption
-----------------------------------------------------------------------------
\* The lists of the orchestrator and the records of the checkpoint.

(* The empty list.                                                           *)
LEMMA EmptyList ==
    <<>> \in Seq(Groups) /\ Range(<<>>) = {} /\ IsInjective(<<>>)
BY EmptySeq DEF Range, IsInjective

(* Taking the first of a list, and appending to it.                          *)
LEMMA TakeFirst ==
    ASSUME NEW s \in Seq(Groups), s # <<>>
    PROVE  /\ Head(s) \in Groups /\ Tail(s) \in Seq(Groups) /\ Tail(s) # s
           /\ Range(s) = {Head(s)} \cup Range(Tail(s))
           /\ IsInjective(s) => IsInjective(Tail(s)) /\ Head(s) \notin Range(Tail(s))
BY TakeFirstOf

LEMMA AppendOne ==
    ASSUME NEW s \in Seq(Groups), NEW g \in Groups
    PROVE  /\ Append(s, g) \in Seq(Groups)
           /\ Range(Append(s, g)) = Range(s) \cup {g}
           /\ IsInjective(s) /\ g \notin Range(s) => IsInjective(Append(s, g))
BY AppendOneTo

(* What the operations of a checkpoint do to its cache and its file.         *)
LEMMA CheckpointOperations ==
    ASSUME NEW c \in Checkpoint
    PROVE  /\ c.cache \in Records /\ c.file \in Records \cup {Missing, Corrupt}
           /\ NewCheckpoint(c) \in Checkpoint
           /\ NewCheckpoint(c).cache = NoRecords /\ NewCheckpoint(c).file = c.file
           /\ OpenTaskFile(c) \in Checkpoint
           /\ OpenTaskFile(c).cache = c.cache /\ OpenTaskFile(c).file = Corrupt
           /\ WriteTaskFile(c) \in Checkpoint
           /\ WriteTaskFile(c).cache = c.cache /\ WriteTaskFile(c).file = c.cache
           /\ \A unlinked :
                 /\ Clear(c, unlinked) \in Checkpoint
                 /\ Clear(c, unlinked).cache = NoRecords
                 /\ Clear(c, unlinked).file = IF HasPath /\ unlinked THEN Missing ELSE c.file
           /\ \A g \in Groups, n \in Nat :
                 /\ CacheGroup(c, g, n) \in Checkpoint
                 /\ CacheGroup(c, g, n).cache = [c.cache EXCEPT ![g] = n]
                 /\ CacheGroup(c, g, n).file = c.file
           /\ \A g, readable :
                 /\ LoadGroup(c, g, readable) \in Checkpoint
                 /\ LoadGroup(c, g, readable).file = c.file
                 /\ LoadGroup(c, g, readable).cache =
                        IF c.cache[g] = None /\ HasPath /\ readable
                           /\ c.file \notin {Missing, Corrupt}
                        THEN c.file ELSE c.cache
<1>1. NoRecords \in Records
    BY DEF NoRecords, Records
<1>2. \A g \in Groups, n \in Nat, r \in Records : [r EXCEPT ![g] = n] \in Records
    BY DEF Records
<1>3. c = [cache |-> c.cache, file |-> c.file] /\ c \in [cache : Records, file : Records \cup {Missing, Corrupt}]
    BY DEF Checkpoint
<1> QED
    BY <1>1, <1>2, <1>3
    DEF Checkpoint, NewCheckpoint, OpenTaskFile, WriteTaskFile, Clear, CacheGroup, LoadGroup,
        ReadTaskFile

(* The levels, one by one.                                                   *)
LEMMA LevelFacts ==
    /\ Len(Levels) \in Nat \ {0}
    /\ Before(Levels, 1) = {}
    /\ Before(Levels, Len(Levels) + 1) = Groups
    /\ \A n \in 1 .. Len(Levels) :
           /\ Levels[n] \in Seq(Groups) /\ Levels[n] # <<>> /\ IsInjective(Levels[n])
           /\ Range(Levels[n]) \subseteq Groups
           /\ Before(Levels, n + 1) = Before(Levels, n) \cup Range(Levels[n])
           /\ Before(Levels, n) \subseteq Groups
           /\ \A g \in Range(Levels[n]) : /\ g \notin Before(Levels, n)
                                          /\ GroupDeps[g] \subseteq Before(Levels, n)
<1> DEFINE N == Len(Levels)
<1>1. /\ Layered(Levels) /\ N \in Nat \ {0}
      /\ \A g \in Groups : \E n \in 1 .. N : g \in Range(Levels[n])
    BY LevelsAreLayered
<1>2. \A n \in 1 .. N : Levels[n] \in Seq(Groups)
    BY <1>1, ElementOfSeq DEF Layered
<1>3. \A n \in 1 .. N : Range(Levels[n]) \subseteq Groups
    <2> TAKE n \in 1 .. N
    <2>1. \A s \in Seq(Groups) : Range(s) \subseteq Groups
        BY LenProperties, ElementOfSeq DEF Range
    <2> QED
        BY <1>2, <2>1
<1> HIDE DEF N
<1>4. \A n \in 1 .. N : /\ Before(Levels, n + 1) = Before(Levels, n) \cup Range(Levels[n])
                        /\ Before(Levels, n) \subseteq Groups
    <2> TAKE n \in 1 .. N
    <2>1. 1 .. (n + 1) - 1 = (1 .. n - 1) \cup {n} /\ \A i \in 1 .. n - 1 : i \in 1 .. N
        BY <1>1
    <2> QED
        BY <1>3, <2>1 DEF Before
<1>5. Before(Levels, N + 1) = Groups
    <2>1. 1 .. (N + 1) - 1 = 1 .. N
        BY <1>1
    <2> QED
        BY <1>1, <1>3, <2>1 DEF Before
<1>6. Before(Levels, 1) = {}
    BY DEF Before
<1> QED
    BY <1>1, <1>2, <1>3, <1>4, <1>5, <1>6 DEF Layered, N
-----------------------------------------------------------------------------
\* Types.

\* The part of TypeOK about the level being run.
LevelOK ==
    /\ lvl \in 0 .. Len(Levels)
    /\ todo \in Seq(Groups) /\ pend \in Seq(Groups)
    /\ \A g \in Range(todo) \cup Range(pend) : g \in Range(Levels[lvl])

LEMMA EnterLevelType ==
    ASSUME TypeOK, NEW n \in Nat \ {0}, EnterLevel(n)
    PROVE  pc' \in {"scan", "finish"} /\ LevelOK'
<1>1. CASE n <= Len(Levels)
    <2>1. n \in 1 .. Len(Levels) /\ n \in 0 .. Len(Levels)
        BY <1>1, LevelFacts
    <2>2. Levels[n] \in Seq(Groups) /\ <<>> \in Seq(Groups) /\ Range(<<>>) = {}
        BY <2>1, LevelFacts, EmptyList
    <2> QED
        BY <1>1, <2>1, <2>2 DEF EnterLevel, LevelOK
<1>2. CASE ~ n <= Len(Levels)
    BY <1>2 DEF EnterLevel, level, LevelOK, TypeOK
<1> QED
    BY <1>1, <1>2

LEMMA TypeInit == Init => TypeOK
<1> SUFFICES ASSUME Init PROVE TypeOK
    OBVIOUS
<1>1. Len(Levels) \in Nat /\ <<>> \in Seq(Groups) /\ Range(<<>>) = {}
    BY LevelFacts, EmptyList
<1>2. NoRecords \in Records /\ ckpt \in Checkpoint
    BY DEF Init, NoRecords, Records, Checkpoint
<1>3. results \in [Groups -> Nat \cup {None, Skipped}]
    BY DEF Init, NoRecords
<1>4. 1 \in 1 .. MaxTasks /\ 0 \in 0 .. MaxFailures /\ 0 \in 0 .. MaxCrashes
    BY PipelineAssumption
<1>5. /\ work \in [Groups -> {"none", "queued", "running", "ran", "writing", "saved",
                              "ok", "failed"}]
      /\ seen \in [Groups -> SUBSET Groups]
    BY DEF Init
<1>6. task \in 1 .. MaxTasks /\ failures \in 0 .. MaxFailures /\ crashes \in 0 .. MaxCrashes
    BY <1>4 DEF Init
<1>7. /\ lvl \in 0 .. Len(Levels)
      /\ todo \in Seq(Groups) /\ pend \in Seq(Groups) /\ queue \in Seq(Groups)
      /\ \A g \in Range(todo) \cup Range(pend) : g \in Range(Levels[lvl])
    BY <1>1 DEF Init
<1>8. /\ pc = "idle" /\ last = "none" /\ written = {} /\ torn = FALSE
    BY DEF Init
<1> QED
    BY <1>2, <1>3, <1>5, <1>6, <1>7, <1>8 DEF TypeOK

LEMMA TypeStep == TypeOK /\ [Next]_vars => TypeOK'
<1> SUFFICES ASSUME TypeOK, [Next]_vars PROVE TypeOK'
    OBVIOUS
<1>a. LevelOK /\ queue \in Seq(Groups) /\ task \in Nat \ {0} /\ task \in 1 .. MaxTasks
    BY PipelineAssumption DEF TypeOK, LevelOK
<1>b. /\ work \in [Groups -> {"none", "queued", "running", "ran", "writing", "saved",
                              "ok", "failed"}]
      /\ seen \in [Groups -> SUBSET Groups]
      /\ results \in [Groups -> Nat \cup {None, Skipped}]
    BY DEF TypeOK
<1>c. ckpt \in Checkpoint
    BY DEF TypeOK
<1>d. /\ failures \in 0 .. MaxFailures /\ crashes \in 0 .. MaxCrashes
      /\ written \subseteq Groups /\ torn \in BOOLEAN
      /\ MaxFailures \in Nat /\ MaxCrashes \in Nat /\ MaxTasks \in Nat
    BY PipelineAssumption DEF TypeOK
<1>e. \A r \in Records : r \in [Groups -> Nat \cup {None, Skipped}]
    BY DEF Records
<1>f. NoRecords \in Records
    BY DEF NoRecords, Records
<1>1. CASE StartRun
    <2>1. 1 \in 1 .. Len(Levels) /\ 1 \in 0 .. Len(Levels) /\ Levels[1] \in Seq(Groups)
        BY LevelFacts
    <2>2. LevelOK' /\ queue' \in Seq(Groups) /\ pc' = "scan"
        BY <1>1, <2>1, EmptyList DEF StartRun, LevelOK
    <2>3. task' \in 1 .. MaxTasks /\ torn' \in BOOLEAN
        <3>1. IF last = "returned"
              THEN task < MaxTasks /\ task' = task + 1 /\ torn' = FALSE
              ELSE task' = task /\ torn' = torn
            BY <1>1 DEF StartRun
        <3>2. task' \in 1 .. MaxTasks
            BY <3>1, <1>a, <1>d
        <3>3. torn' \in BOOLEAN
            BY <3>1, <1>d, Zenon
        <3> QED
            BY <3>2, <3>3
    <2>4. ckpt' \in Checkpoint
        BY <1>1, <1>c, CheckpointOperations DEF StartRun
    <2>5. /\ work' \in [Groups -> {"none", "queued", "running", "ran", "writing", "saved",
                                   "ok", "failed"}]
          /\ seen' \in [Groups -> SUBSET Groups]
          /\ results' \in [Groups -> Nat \cup {None, Skipped}]
        BY <1>1, <1>e, <1>f DEF StartRun
    <2> QED
        BY <1>1, <2>2, <2>3, <2>4, <2>5 DEF StartRun, TypeOK, LevelOK, luck
<1>2. ASSUME NEW readable, LoadNext(readable) PROVE TypeOK'
    <2> DEFINE g == Head(todo)
    <2>1. /\ pc = "scan" /\ todo # <<>> /\ todo' = Tail(todo) /\ lvl' = lvl /\ pc' = "scan"
          /\ ckpt' = LoadGroup(ckpt, g, readable)
          /\ results' = [results EXCEPT ![g] = ckpt'.cache[g]]
          /\ pend' = IF ckpt'.cache[g] = None THEN Append(pend, g) ELSE pend
        BY <1>2 DEF LoadNext
    <2>2. todo \in Seq(Groups) /\ pend \in Seq(Groups)
        BY <1>a DEF LevelOK
    <2>3. g \in Groups /\ Tail(todo) \in Seq(Groups) /\ Range(todo) = {g} \cup Range(Tail(todo))
        BY <2>1, <2>2, TakeFirst
    <2>4. Append(pend, g) \in Seq(Groups) /\ Range(Append(pend, g)) = Range(pend) \cup {g}
        BY <2>2, <2>3, AppendOne
    <2>5. ckpt' \in Checkpoint /\ ckpt'.cache \in Records
        BY <1>c, <2>1, CheckpointOperations
    <2>6. ckpt'.cache[g] \in Nat \cup {None}
        BY <2>3, <2>5 DEF Records
    <2> HIDE DEF g
    <2>7. LevelOK'
        BY <1>a, <2>1, <2>2, <2>3, <2>4 DEF LevelOK
    <2>8. results' \in [Groups -> Nat \cup {None, Skipped}]
        BY <1>b, <2>1, <2>6
    <2> QED
        BY <1>2, <2>1, <2>5, <2>7, <2>8 DEF LoadNext, TypeOK, LevelOK, luck
<1>3. ASSUME NEW empty \in SUBSET FanoutsToExpand, Dispatch(empty) PROVE TypeOK'
    <2> DEFINE runnable == Keep(pend, Groups \ empty)
    <2>1. runnable \in Seq(Groups)
        BY <1>a, KeepProperties DEF LevelOK
    <2>2. results' \in [Groups -> Nat \cup {None, Skipped}]
        BY <1>3, <1>b DEF Dispatch
    <2>3. CASE runnable = <<>>
        <3>1. EnterLevel(lvl + 1) /\ UNCHANGED <<queue, work, seen>>
            BY <1>3, <2>3 DEF Dispatch
        <3>2. lvl + 1 \in Nat \ {0}
            BY <1>a, LevelFacts DEF LevelOK
        <3>3. pc' \in {"scan", "finish"} /\ LevelOK'
            BY <3>1, <3>2, EnterLevelType
        <3> QED
            BY <1>3, <2>2, <3>1, <3>3 DEF Dispatch, TypeOK, LevelOK, luck
    <2>4. CASE runnable # <<>>
        <3> DEFINE sent == Range(runnable)
        <3>1. /\ pc' = "collect" /\ queue' = runnable
              /\ work' = [g \in Groups |-> IF g \in sent THEN "queued" ELSE work[g]]
              /\ seen' = [g \in Groups |-> IF g \in sent THEN TaskInputs(g) ELSE seen[g]]
              /\ UNCHANGED level
            BY <1>3, <2>4 DEF Dispatch
        <3> HIDE DEF sent
        <3>2. \A g \in Groups : TaskInputs(g) \in SUBSET Groups
            BY DepsAreEarlier DEF TaskInputs
        <3>3. seen' \in [Groups -> SUBSET Groups]
            BY <1>b, <3>1, <3>2
        <3>4. work' \in [Groups -> {"none", "queued", "running", "ran", "writing", "saved",
                                    "ok", "failed"}]
            BY <1>b, <3>1
        <3>5. LevelOK'
            BY <1>a, <3>1 DEF level, LevelOK
        <3>6. UNCHANGED <<last, task, ckpt, written, torn, luck>>
            BY <1>3 DEF Dispatch
        <3> HIDE DEF runnable
        <3> QED
            BY <2>1, <2>2, <3>1, <3>3, <3>4, <3>5, <3>6 DEF TypeOK, LevelOK, luck
    <2> QED
        BY <2>3, <2>4
<1>4. ASSUME NEW g \in Groups, ExpansionFails(g) PROVE TypeOK'
    <2>1. failures' \in 0 .. MaxFailures
        BY <1>4, <1>d DEF ExpansionFails
    <2> QED
        BY <1>4, <2>1 DEF ExpansionFails, TypeOK, level
<1>5. ASSUME NEW g \in Groups, Collect(g) PROVE TypeOK'
    <2>1. results' \in [Groups -> Nat \cup {None, Skipped}]
        BY <1>5, <1>a, <1>b DEF Collect
    <2> QED
        BY <1>5, <2>1 DEF Collect, TypeOK, level, luck
<1>6. CASE LevelDone
    <2>1. EnterLevel(lvl + 1)
        BY <1>6 DEF LevelDone
    <2>2. lvl + 1 \in Nat \ {0}
        BY <1>a, LevelFacts DEF LevelOK
    <2>3. pc' \in {"scan", "finish"} /\ LevelOK'
        BY <2>1, <2>2, EnterLevelType
    <2> QED
        BY <1>6, <2>3 DEF LevelDone, TypeOK, LevelOK, luck
<1>7. ASSUME NEW g \in Groups, CollectFailure(g) PROVE TypeOK'
    BY <1>7 DEF CollectFailure, TypeOK, level, luck
<1>8. CASE Drained
    BY <1>8 DEF Drained, TypeOK, level, luck
<1>9. ASSUME NEW unlinked, Finish(unlinked) PROVE TypeOK'
    <2>1. ckpt' \in Checkpoint
        BY <1>9, <1>c, CheckpointOperations DEF Finish
    <2> QED
        BY <1>9, <2>1 DEF Finish, TypeOK, level, luck
<1>10. CASE Return
    BY <1>10 DEF Return, TypeOK, level, luck
<1>11. CASE TakeNext
    <2>1. Head(queue) \in Groups /\ Tail(queue) \in Seq(Groups)
        BY <1>11, <1>a, TakeFirst DEF TakeNext
    <2>2. work' \in [Groups -> {"none", "queued", "running", "ran", "writing", "saved",
                                "ok", "failed"}]
        BY <1>11, <1>b, <2>1 DEF TakeNext, Settle
    <2> QED
        BY <1>11, <2>1, <2>2 DEF TakeNext, TypeOK, level, luck
<1>12. ASSUME NEW g \in Groups, Worker(g) \/ WorkerFails(g) PROVE TypeOK'
    <2>1. CASE RunGroup(g)
        <3>1. work' \in [Groups -> {"none", "queued", "running", "ran", "writing", "saved",
                                    "ok", "failed"}]
            BY <2>1, <1>b DEF RunGroup, Settle
        <3> QED
            BY <2>1, <3>1 DEF RunGroup, TypeOK, level, luck
    <2>2. ASSUME NEW opened, SaveGroup(g, opened) PROVE TypeOK'
        <3>1. CacheGroup(ckpt, g, task) \in Checkpoint
            BY <1>a, <1>c, CheckpointOperations
        <3>2. ckpt' \in Checkpoint
            BY <2>2, <3>1, CheckpointOperations DEF SaveGroup
        <3>3. work' \in [Groups -> {"none", "queued", "running", "ran", "writing", "saved",
                                    "ok", "failed"}]
            BY <2>2, <1>b DEF SaveGroup, Settle
        <3> QED
            BY <2>2, <3>2, <3>3 DEF SaveGroup, TypeOK, level, luck
    <2>3. ASSUME NEW complete, WriteEnds(g, complete) PROVE TypeOK'
        <3>1. ckpt' \in Checkpoint
            BY <2>3, <1>c, CheckpointOperations DEF WriteEnds
        <3>2. written' \subseteq Groups /\ torn' \in BOOLEAN
            BY <2>3, <1>d DEF WriteEnds
        <3>3. work' \in [Groups -> {"none", "queued", "running", "ran", "writing", "saved",
                                    "ok", "failed"}]
            BY <2>3, <1>b DEF WriteEnds, Settle
        <3> QED
            BY <2>3, <3>1, <3>2, <3>3 DEF WriteEnds, TypeOK, level, luck
    <2>4. CASE ControllerStep(g)
        <3>1. work' \in [Groups -> {"none", "queued", "running", "ran", "writing", "saved",
                                    "ok", "failed"}]
            BY <2>4, <1>b DEF ControllerStep, Settle
        <3> QED
            BY <2>4, <3>1 DEF ControllerStep, TypeOK, level, luck
    <2>5. CASE WorkerFails(g)
        <3>1. work' \in [Groups -> {"none", "queued", "running", "ran", "writing", "saved",
                                    "ok", "failed"}]
            BY <2>5, <1>b DEF WorkerFails, Settle
        <3>2. failures' \in 0 .. MaxFailures
            BY <2>5, <1>d DEF WorkerFails
        <3> QED
            BY <2>5, <3>1, <3>2 DEF WorkerFails, TypeOK, level
    <2> QED
        BY <1>12, <2>1, <2>2, <2>3, <2>4, <2>5 DEF Worker
<1>13. CASE Crash
    <2>1. ckpt' \in Checkpoint
        BY <1>13, <1>c, CheckpointOperations DEF Crash
    <2>2. crashes' \in 0 .. MaxCrashes /\ torn' \in BOOLEAN
        BY <1>13, <1>d DEF Crash
    <2>3. queue' \in Seq(Groups)
        BY <1>13, EmptyList DEF Crash
    <2>4. work' \in [Groups -> {"none", "queued", "running", "ran", "writing", "saved",
                                "ok", "failed"}]
        BY <1>13 DEF Crash
    <2> QED
        BY <1>13, <2>1, <2>2, <2>3, <2>4 DEF Crash, TypeOK, level
<1>14. CASE UNCHANGED vars
    BY <1>14 DEF TypeOK, vars, level, luck
<1> QED
    BY <1>1, <1>2, <1>3, <1>4, <1>5, <1>6, <1>7, <1>8, <1>9, <1>10, <1>11, <1>12, <1>13, <1>14
    DEF Next, Orchestrator

(* The state stays within its types: the lists of the level name groups of   *)
(* it, an output is a task's or "skipped", the counters keep their bounds.   *)
THEOREM TypeCorrect == Spec => []TypeOK
BY TypeInit, TypeStep, PTL DEF Spec
-----------------------------------------------------------------------------
\* The inductive invariant of the scheduling.

\* The phases of the orchestrator: futures are open only while it collects or
\* drains, and a run is always in some level.
Phases ==
    /\ pc # "idle" => lvl \in 1 .. Len(Levels)
    /\ pc \in {"scan", "finish", "assemble"} =>
           queue = <<>> /\ \A g \in Groups : work[g] \in {"none", "ok"}
    /\ pc \in {"collect", "drain"} => todo = <<>>

\* The lists of the level and the pool's queue name a group once.
Lists ==
    /\ IsInjective(todo) /\ IsInjective(pend) /\ IsInjective(queue)
    /\ \A g \in Range(queue) : work[g] = "queued"
    /\ pc # "idle" => \A g \in Range(todo) : g \notin Range(pend)

\* An open future is one of the level's, and its group has no result yet.
OpenFutures ==
    pc # "idle" => \A g \in Groups : work[g] \notin {"none", "ok"} =>
                       results[g] = None /\ g \in Range(Levels[lvl])

\* Results come level by level.
ResultsByLevel ==
    pc # "idle" =>
        /\ \A g \in Before(Levels, lvl) : results[g] # None
        /\ \A g \in Groups : results[g] # None \/ work[g] # "none" =>
               g \in Before(Levels, lvl) \cup Range(Levels[lvl])
        /\ pc \in {"finish", "assemble"} => \A g \in Groups : results[g] # None

\* While a level is scanned, its groups without a result are those still to be
\* looked up or to be dispatched.
Scanning ==
    pc = "scan" => \A g \in Range(Levels[lvl]) :
                       (results[g] = None) <=> (g \in Range(todo) \cup Range(pend))

SchedInv ==
    /\ QuietBetweenRuns
    /\ Phases /\ Lists /\ OpenFutures /\ ResultsByLevel /\ Scanning
    /\ InputsReady

LEMMA SchedInit == Init => SchedInv
BY EmptyList
DEF Init, SchedInv, QuietBetweenRuns, AtWork, Phases, Lists, OpenFutures, ResultsByLevel,
    Scanning, InputsReady

(* A group that was handed to the pool keeps its inputs: its dependencies    *)
(* have results already, and a result does not change.                       *)
LEMMA InputsStay ==
    ASSUME InputsReady, pc # "idle",
           \A g \in Groups : work'[g] # "none" => work[g] # "none" /\ seen'[g] = seen[g],
           \A d \in Groups : results[d] # None => results'[d] = results[d]
    PROVE  InputsReady'
<1> SUFFICES ASSUME NEW g \in Groups, pc' # "idle", work'[g] # "none"
             PROVE  /\ \A d \in GroupDeps[g] : results'[d] # None
                    /\ seen'[g] = TaskInputs(g)'
    BY DEF InputsReady
<1>1. /\ \A d \in GroupDeps[g] : results[d] # None
      /\ seen'[g] = TaskInputs(g)
    BY DEF InputsReady
<1>2. \A d \in GroupDeps[g] : results'[d] = results[d]
    BY <1>1, DepsAreEarlier
<1>3. TaskInputs(g)' = TaskInputs(g)
    BY <1>2 DEF TaskInputs, HasOutput
<1> QED
    BY <1>1, <1>2, <1>3

(* A step of the pool: a future that is taken, runs, or is done.             *)
LEMMA WorkerMove ==
    ASSUME TypeOK, SchedInv, pc # "idle",
           NEW g \in Groups, work[g] \notin {"none", "ok"},
           NEW state \in {"running", "ran", "writing", "saved", "ok", "failed"},
           Settle(g, state),
           \/ queue' = queue /\ work[g] # "queued"
           \/ queue # <<>> /\ g = Head(queue) /\ queue' = Tail(queue),
           UNCHANGED <<pc, level, seen, results>>
    PROVE  SchedInv'
<1>1. work \in [Groups -> {"none", "queued", "running", "ran", "writing", "saved",
                           "ok", "failed"}]
    BY DEF TypeOK
<1>2. work'[g] = state /\ \A h \in Groups : h # g => work'[h] = work[h]
    BY <1>1 DEF Settle
<1>3. /\ pc' = pc /\ lvl' = lvl /\ todo' = todo /\ pend' = pend /\ seen' = seen
      /\ results' = results
    BY DEF level
<1>4. pc \in {"collect", "drain"}
    BY DEF SchedInv, Phases, TypeOK
<1>5. /\ IsInjective(queue')
      /\ \A h \in Range(queue') : h # g /\ h \in Range(queue) /\ h \in Groups
    <2>1. queue \in Seq(Groups) /\ IsInjective(queue) /\ \A h \in Range(queue) : work[h] = "queued"
        BY DEF TypeOK, SchedInv, Lists
    <2>2. Range(queue) \subseteq Groups
        BY <2>1, LenProperties, ElementOfSeq DEF Range
    <2>3. CASE queue' = queue /\ work[g] # "queued"
        BY <2>1, <2>2, <2>3
    <2>4. CASE queue # <<>> /\ g = Head(queue) /\ queue' = Tail(queue)
        BY <2>1, <2>2, <2>4, TakeFirst
    <2> QED
        BY <2>3, <2>4
<1>6. QuietBetweenRuns'
    BY <1>3 DEF QuietBetweenRuns
<1>7. Phases'
    BY <1>3, <1>4 DEF SchedInv, Phases
<1>8. Lists'
    BY <1>2, <1>3, <1>5 DEF SchedInv, Lists
<1>9. OpenFutures'
    BY <1>2, <1>3 DEF SchedInv, OpenFutures
<1>10. ResultsByLevel'
    BY <1>2, <1>3 DEF SchedInv, ResultsByLevel
<1>11. Scanning'
    BY <1>3, <1>4 DEF SchedInv, Scanning
<1>12. InputsReady'
    <2>1. \A h \in Groups : work'[h] # "none" => work[h] # "none"
        BY <1>2
    <2> QED
        BY <1>3, <2>1, InputsStay DEF SchedInv
<1> QED
    BY <1>6, <1>7, <1>8, <1>9, <1>10, <1>11, <1>12 DEF SchedInv

(* A step of the orchestrator alone, to the end of the level's futures, of   *)
(* the pipeline, or of the run.                                              *)
LEMMA ControlMove ==
    ASSUME TypeOK, SchedInv, pc # "idle",
           UNCHANGED <<level, queue, work, seen, results>>,
           \/ pc = "collect" /\ pc' = "drain"
           \/ pc \in {"drain", "scan", "assemble"} /\ pc' = "idle" /\ queue = <<>> /\ AtWork = {}
           \/ pc = "finish" /\ pc' = "assemble"
    PROVE  SchedInv'
<1>1. /\ lvl' = lvl /\ todo' = todo /\ pend' = pend /\ seen' = seen /\ results' = results
      /\ queue' = queue /\ work' = work
    BY DEF level
<1>2. QuietBetweenRuns'
    BY <1>1 DEF QuietBetweenRuns, AtWork
<1>3. Phases'
    BY <1>1 DEF SchedInv, Phases
<1>4. Lists'
    BY <1>1 DEF SchedInv, Lists
<1>5. OpenFutures'
    BY <1>1 DEF SchedInv, OpenFutures
<1>6. ResultsByLevel'
    BY <1>1 DEF SchedInv, ResultsByLevel
<1>7. Scanning'
    BY <1>1 DEF Scanning
<1>8. InputsReady'
    BY <1>1, InputsStay DEF SchedInv
<1> QED
    BY <1>2, <1>3, <1>4, <1>5, <1>6, <1>7, <1>8 DEF SchedInv

(* All groups of a level have results: the next level, or the end.           *)
LEMMA EnterLevelStep ==
    ASSUME TypeOK, SchedInv, pc \in {"scan", "collect"}, EnterLevel(lvl + 1),
           queue = <<>>, UNCHANGED <<queue, work, seen>>,
           \A g \in Groups : work[g] \in {"none", "ok"},
           \A g \in Range(Levels[lvl]) : results'[g] # None,
           \A g \in Groups : results[g] # None => results'[g] = results[g],
           \A g \in Groups : g \notin Range(Levels[lvl]) => results'[g] = results[g]
    PROVE  SchedInv'
<1>1. /\ lvl \in 1 .. Len(Levels) /\ Len(Levels) \in Nat
      /\ Range(Levels[lvl]) \subseteq Groups
      /\ Before(Levels, lvl) \subseteq Groups
      /\ Before(Levels, lvl + 1) = Before(Levels, lvl) \cup Range(Levels[lvl])
    BY LevelFacts DEF SchedInv, Phases
<1>2. \A g \in Before(Levels, lvl + 1) : results'[g] # None
    BY <1>1 DEF SchedInv, ResultsByLevel
<1>3. \A g \in Groups : results'[g] # None \/ work'[g] # "none" => g \in Before(Levels, lvl + 1)
    BY <1>1 DEF SchedInv, ResultsByLevel
<1>4. InputsReady'
    BY InputsStay DEF SchedInv
<1>5. CASE lvl + 1 <= Len(Levels)
    <2>1. /\ pc' = "scan" /\ lvl' = lvl + 1 /\ todo' = Levels[lvl + 1] /\ pend' = <<>>
          /\ queue' = <<>> /\ work' = work
        BY <1>5 DEF EnterLevel
    <2>2. /\ lvl + 1 \in 1 .. Len(Levels) /\ IsInjective(Levels[lvl + 1])
          /\ Range(Levels[lvl + 1]) \subseteq Groups
          /\ \A g \in Range(Levels[lvl + 1]) : g \notin Before(Levels, lvl + 1)
        BY <1>1, <1>5, LevelFacts
    <2>3. QuietBetweenRuns' /\ Phases' /\ OpenFutures'
        BY <2>1, <2>2 DEF QuietBetweenRuns, Phases, OpenFutures
    <2>4. Lists'
        BY <2>1, <2>2, EmptyList DEF Lists
    <2>5. ResultsByLevel'
        BY <1>2, <1>3, <2>1 DEF ResultsByLevel
    <2>6. Scanning'
        <3>1. \A g \in Range(Levels[lvl + 1]) : results'[g] = None
            BY <1>3, <2>2
        <3> QED
            BY <2>1, <3>1 DEF Scanning
    <2> QED
        BY <1>4, <2>3, <2>4, <2>5, <2>6 DEF SchedInv
<1>6. CASE ~ lvl + 1 <= Len(Levels)
    <2>1. /\ pc' = "finish" /\ lvl' = lvl /\ todo' = todo /\ pend' = pend
          /\ queue' = <<>> /\ work' = work
        BY <1>6 DEF EnterLevel, level
    <2>2. Before(Levels, lvl + 1) = Groups
        <3>1. lvl = Len(Levels)
            BY <1>1, <1>6
        <3> QED
            BY <3>1, LevelFacts
    <2>3. QuietBetweenRuns' /\ Phases' /\ OpenFutures' /\ Scanning'
        BY <1>1, <2>1 DEF QuietBetweenRuns, Phases, OpenFutures, Scanning
    <2>4. Lists'
        BY <2>1, EmptyList DEF SchedInv, Lists
    <2>5. ResultsByLevel'
        BY <1>1, <1>2, <1>3, <2>1, <2>2 DEF ResultsByLevel
    <2> QED
        BY <1>4, <2>3, <2>4, <2>5 DEF SchedInv
<1> QED
    BY <1>5, <1>6
(* A run starts with nothing done, at the first level.                       *)
LEMMA StartRunStep ==
    ASSUME StartRun
    PROVE  SchedInv'
<1>1. /\ pc' = "scan" /\ lvl' = 1 /\ todo' = Levels[1] /\ pend' = <<>> /\ queue' = <<>>
      /\ work' = [g \in Groups |-> "none"] /\ results' = [g \in Groups |-> None]
    BY DEF StartRun, NoRecords
<1>2. /\ 1 \in 1 .. Len(Levels) /\ IsInjective(Levels[1]) /\ Range(Levels[1]) \subseteq Groups
      /\ Before(Levels, 1) = {}
    BY LevelFacts
<1>3. \A g \in Groups : work'[g] = "none" /\ results'[g] = None
    BY <1>1
<1>4. QuietBetweenRuns' /\ Phases' /\ OpenFutures' /\ ResultsByLevel' /\ InputsReady'
    BY <1>1, <1>2, <1>3 DEF QuietBetweenRuns, Phases, OpenFutures, ResultsByLevel, InputsReady
<1>5. Lists' /\ Scanning'
    BY <1>1, <1>2, <1>3, EmptyList DEF Lists, Scanning
<1> QED
    BY <1>4, <1>5 DEF SchedInv

(* One group of the level is looked up: it has a result, or is to be         *)
(* dispatched.                                                               *)
LEMMA LoadNextStep ==
    ASSUME TypeOK, SchedInv, NEW readable, LoadNext(readable)
    PROVE  SchedInv'
<1> DEFINE g == Head(todo)
           record == ckpt'.cache[g]
<1>1. /\ pc = "scan" /\ pc' = "scan" /\ todo # <<>> /\ todo' = Tail(todo) /\ lvl' = lvl
      /\ results' = [results EXCEPT ![g] = record]
      /\ pend' = IF record = None THEN Append(pend, g) ELSE pend
      /\ queue' = queue /\ work' = work /\ seen' = seen
    BY DEF LoadNext
<1>2. /\ todo \in Seq(Groups) /\ pend \in Seq(Groups) /\ IsInjective(todo) /\ IsInjective(pend)
      /\ results \in [Groups -> Nat \cup {None, Skipped}]
    BY DEF TypeOK, SchedInv, Lists
<1>3. /\ g \in Groups /\ Range(todo) = {g} \cup Range(Tail(todo))
      /\ IsInjective(Tail(todo)) /\ g \notin Range(Tail(todo))
    BY <1>1, <1>2, TakeFirst
<1>4. g \notin Range(pend) /\ \A h \in Range(Tail(todo)) : h \notin Range(pend)
    BY <1>1, <1>3 DEF SchedInv, Lists
<1>5. /\ Range(Append(pend, g)) = Range(pend) \cup {g}
      /\ IsInjective(Append(pend, g))
    BY <1>2, <1>3, <1>4, AppendOne
<1> HIDE DEF g, record
<1>6. /\ g \in Range(Levels[lvl]) /\ results[g] = None
      /\ Range(Levels[lvl]) \subseteq Groups
    <2>1. g \in Range(todo)
        BY <1>3
    <2>2. lvl \in 1 .. Len(Levels) /\ g \in Range(Levels[lvl])
        BY <1>1, <2>1 DEF TypeOK, SchedInv, Phases
    <2> QED
        BY <1>1, <2>1, <2>2, LevelFacts DEF SchedInv, Scanning
<1>7. results'[g] = record /\ \A h \in Groups : h # g => results'[h] = results[h]
    BY <1>1, <1>2, <1>3
<1>8. QuietBetweenRuns' /\ Phases' /\ OpenFutures'
    BY <1>1 DEF SchedInv, QuietBetweenRuns, Phases, OpenFutures
<1>9. Lists'
    BY <1>1, <1>2, <1>3, <1>4, <1>5 DEF SchedInv, Lists
<1>10. ResultsByLevel'
    <2>1. Before(Levels, lvl) \subseteq Groups
        BY <1>1, LevelFacts DEF SchedInv, Phases
    <2> QED
        BY <1>1, <1>6, <1>7, <2>1 DEF SchedInv, ResultsByLevel
<1>11. Scanning'
    <2> SUFFICES ASSUME NEW h \in Range(Levels[lvl])
                 PROVE  (results'[h] = None) <=> (h \in Range(todo') \cup Range(pend'))
        BY <1>1 DEF Scanning
    <2>1. (results[h] = None) <=> (h \in Range(todo) \cup Range(pend))
        BY <1>1 DEF SchedInv, Scanning
    <2>2. CASE h = g
        BY <1>1, <1>3, <1>4, <1>5, <1>7, <2>2
    <2>3. CASE h # g
        BY <1>1, <1>3, <1>5, <1>6, <1>7, <2>1, <2>3
    <2> QED
        BY <2>2, <2>3
<1>12. InputsReady'
    <2>1. \A h \in Groups : results[h] # None => results'[h] = results[h]
        BY <1>6, <1>7
    <2> QED
        BY <1>1, <2>1, InputsStay DEF SchedInv
<1> QED
    BY <1>8, <1>9, <1>10, <1>11, <1>12 DEF SchedInv

(* The level is dispatched: what has no items is skipped, the rest handed to *)
(* the pool with the outputs of the levels before.                           *)
LEMMA DispatchStep ==
    ASSUME TypeOK, SchedInv, NEW empty \in SUBSET FanoutsToExpand, Dispatch(empty)
    PROVE  SchedInv'
<1> DEFINE runnable == Keep(pend, Groups \ empty)
           sent == Range(runnable)
<1>1. /\ pc = "scan" /\ todo = <<>> /\ queue = <<>>
      /\ results' = [g \in Groups |-> IF g \in empty THEN Skipped ELSE results[g]]
      /\ pend \in Seq(Groups) /\ IsInjective(pend) /\ Skipped # None
      /\ lvl \in 1 .. Len(Levels) /\ Range(Levels[lvl]) \subseteq Groups
      /\ \A g \in Groups : work[g] \in {"none", "ok"}
    BY LevelFacts, PipelineAssumption DEF Dispatch, TypeOK, SchedInv, Lists, Phases
<1>2. /\ empty \subseteq Range(pend) /\ Range(pend) \subseteq Range(Levels[lvl])
      /\ \A g \in Range(Levels[lvl]) : (results[g] = None) <=> (g \in Range(pend))
    BY <1>1, EmptyList DEF FanoutsToExpand, TypeOK, SchedInv, Scanning
<1>3. /\ runnable \in Seq(Groups) /\ IsInjective(runnable)
      /\ \A g : g \in sent <=> g \in Range(pend) /\ g \in Groups /\ g \notin empty
    BY <1>1, KeepProperties
<1>4. /\ \A g \in Groups : results[g] # None => results'[g] = results[g]
      /\ \A g \in Groups : g \notin Range(Levels[lvl]) => results'[g] = results[g]
      /\ \A g \in Groups : results'[g] = IF g \in empty THEN Skipped ELSE results[g]
    BY <1>1, <1>2
<1>5. CASE runnable = <<>>
    <2>1. EnterLevel(lvl + 1) /\ UNCHANGED <<queue, work, seen>>
        BY <1>5 DEF Dispatch
    <2>2. Range(pend) \subseteq empty
        BY <1>1, <1>2, <1>3, <1>5, EmptyList
    <2>3. \A g \in Range(Levels[lvl]) : results'[g] # None
        BY <1>1, <1>2, <1>4, <2>2
    <2> QED
        BY <1>1, <1>4, <2>1, <2>3, EnterLevelStep
<1>6. CASE runnable # <<>>
    <2>1. /\ pc' = "collect" /\ queue' = runnable
          /\ work' = [g \in Groups |-> IF g \in sent THEN "queued" ELSE work[g]]
          /\ seen' = [g \in Groups |-> IF g \in sent THEN TaskInputs(g) ELSE seen[g]]
          /\ lvl' = lvl /\ todo' = todo /\ pend' = pend
        BY <1>6 DEF Dispatch, level
    <2> HIDE DEF runnable, sent
    <2>2. \A g \in Groups : /\ work'[g] = IF g \in sent THEN "queued" ELSE work[g]
                            /\ seen'[g] = IF g \in sent THEN TaskInputs(g) ELSE seen[g]
        BY <2>1
    <2>3. \A g \in sent : /\ g \in Groups /\ g \in Range(Levels[lvl])
                          /\ results'[g] = None
        BY <1>2, <1>3, <1>4
    <2>4. QuietBetweenRuns' /\ Phases' /\ Scanning'
        BY <1>1, <2>1 DEF QuietBetweenRuns, Phases, Scanning
    <2>5. Lists'
        <3>1. \A g \in Range(runnable) : work'[g] = "queued"
            BY <2>2, <2>3 DEF sent
        <3> QED
            BY <1>1, <1>3, <2>1, <3>1, EmptyList DEF SchedInv, Lists
    <2>6. OpenFutures'
        BY <1>1, <2>1, <2>2, <2>3 DEF OpenFutures
    <2>7. ResultsByLevel'
        <3>1. Before(Levels, lvl) \subseteq Groups
            BY <1>1, LevelFacts
        <3>2. \A g \in Before(Levels, lvl) : results'[g] # None
            BY <1>1, <1>4, <3>1 DEF SchedInv, ResultsByLevel
        <3>3. ASSUME NEW g \in Groups, results'[g] # None \/ work'[g] # "none"
              PROVE  g \in Before(Levels, lvl) \cup Range(Levels[lvl])
            <4>1. CASE g \in Range(Levels[lvl])
                BY <4>1
            <4>2. CASE g \notin Range(Levels[lvl])
                <5>1. results[g] # None \/ work[g] # "none"
                    BY <1>4, <2>2, <2>3, <3>3, <4>2
                <5> QED
                    BY <1>1, <5>1 DEF SchedInv, ResultsByLevel
            <4> QED
                BY <4>1, <4>2
        <3> QED
            BY <2>1, <3>2, <3>3 DEF ResultsByLevel
    <2>8. InputsReady'
        <3> SUFFICES ASSUME NEW g \in Groups, work'[g] # "none"
                     PROVE  /\ \A d \in GroupDeps[g] : results'[d] # None
                            /\ seen'[g] = TaskInputs(g)'
            BY DEF InputsReady
        <3>1. /\ \A d \in GroupDeps[g] : results[d] # None
              /\ seen'[g] = TaskInputs(g)
            <4>1. CASE g \in sent
                <5>1. GroupDeps[g] \subseteq Before(Levels, lvl)
                    BY <1>1, <2>3, <4>1, LevelFacts
                <5> QED
                    BY <1>1, <2>2, <4>1, <5>1 DEF SchedInv, ResultsByLevel
            <4>2. CASE g \notin sent
                BY <1>1, <2>2, <4>2 DEF SchedInv, InputsReady
            <4> QED
                BY <4>1, <4>2
        <3>2. \A d \in GroupDeps[g] : results'[d] = results[d]
            BY <1>4, <3>1, DepsAreEarlier
        <3>3. TaskInputs(g)' = TaskInputs(g)
            BY <3>2 DEF TaskInputs, HasOutput
        <3> QED
            BY <3>1, <3>2, <3>3
    <2> QED
        BY <2>4, <2>5, <2>6, <2>7, <2>8 DEF SchedInv
<1> QED
    BY <1>5, <1>6

(* A future that is done gives its group's result.                           *)
LEMMA CollectStep ==
    ASSUME TypeOK, SchedInv, NEW g \in Groups, Collect(g)
    PROVE  SchedInv'
<1>1. /\ pc = "collect" /\ pc' = pc /\ lvl' = lvl /\ todo' = todo /\ pend' = pend
      /\ queue' = queue /\ work' = work /\ seen' = seen
      /\ work[g] = "ok" /\ results[g] = None /\ results' = [results EXCEPT ![g] = task]
    BY DEF Collect, level
<1>2. /\ results \in [Groups -> Nat \cup {None, Skipped}] /\ task # None
    <2>1. task \in Nat /\ None \notin Nat
        BY PipelineAssumption, CheckpointAssumption DEF TypeOK
    <2> QED
        BY <2>1 DEF TypeOK
<1>3. results'[g] = task /\ \A h \in Groups : h # g => results'[h] = results[h]
    BY <1>1, <1>2
<1>4. QuietBetweenRuns' /\ Phases' /\ Lists' /\ Scanning'
    BY <1>1 DEF SchedInv, QuietBetweenRuns, Phases, Lists, Scanning
<1>5. OpenFutures'
    BY <1>1, <1>3 DEF SchedInv, OpenFutures
<1>6. ResultsByLevel'
    <2>1. Before(Levels, lvl) \subseteq Groups
        BY <1>1, LevelFacts DEF SchedInv, Phases
    <2> QED
        BY <1>1, <1>2, <1>3, <2>1 DEF SchedInv, ResultsByLevel
<1>7. InputsReady'
    BY <1>1, <1>3, InputsStay DEF SchedInv
<1> QED
    BY <1>4, <1>5, <1>6, <1>7 DEF SchedInv

(* A level all of whose groups have results has no open future.              *)
LEMMA LevelDoneStep ==
    ASSUME TypeOK, SchedInv, LevelDone
    PROVE  SchedInv'
<1>1. /\ pc = "collect" /\ \A g \in Range(Levels[lvl]) : results[g] # None
      /\ EnterLevel(lvl + 1) /\ UNCHANGED <<queue, work, seen, results>>
    BY DEF LevelDone
<1>2. \A g \in Groups : work[g] \in {"none", "ok"}
    BY <1>1 DEF SchedInv, OpenFutures
<1>3. queue = <<>>
    <2>1. queue \in Seq(Groups) /\ \A g \in Range(queue) : work[g] = "queued"
        BY DEF TypeOK, SchedInv, Lists
    <2> QED
        BY <1>2, <2>1, TakeFirst
<1>4. lvl \in 1 .. Len(Levels) /\ Range(Levels[lvl]) \subseteq Groups
    BY <1>1, LevelFacts DEF SchedInv, Phases
<1> QED
    BY <1>1, <1>2, <1>3, <1>4, EnterLevelStep

LEMMA SchedStep == TypeOK /\ SchedInv /\ [Next]_vars => SchedInv'
<1> SUFFICES ASSUME TypeOK, SchedInv, [Next]_vars PROVE SchedInv'
    OBVIOUS
<1>a. ASSUME queue # <<>> \/ AtWork # {} PROVE pc # "idle"
    BY <1>a DEF SchedInv, QuietBetweenRuns
<1>b. ASSUME pc \in {"scan", "assemble"} PROVE queue = <<>> /\ AtWork = {}
    BY <1>b DEF SchedInv, Phases, AtWork
<1>1. CASE StartRun
    BY <1>1, StartRunStep
<1>2. ASSUME NEW readable, LoadNext(readable) PROVE SchedInv'
    BY <1>2, LoadNextStep
<1>3. ASSUME NEW empty \in SUBSET FanoutsToExpand, Dispatch(empty) PROVE SchedInv'
    BY <1>3, DispatchStep
<1>4. ASSUME NEW g \in Groups, ExpansionFails(g) PROVE SchedInv'
    BY <1>4, <1>b, ControlMove DEF ExpansionFails
<1>5. ASSUME NEW g \in Groups, Collect(g) PROVE SchedInv'
    BY <1>5, CollectStep
<1>6. CASE LevelDone
    BY <1>6, LevelDoneStep
<1>7. ASSUME NEW g \in Groups, CollectFailure(g) PROVE SchedInv'
    BY <1>7, ControlMove DEF CollectFailure
<1>8. CASE Drained
    BY <1>8, ControlMove DEF Drained
<1>9. ASSUME NEW unlinked, Finish(unlinked) PROVE SchedInv'
    BY <1>9, ControlMove DEF Finish
<1>10. CASE Return
    BY <1>10, <1>b, ControlMove DEF Return
<1>11. CASE TakeNext
    <2> DEFINE g == Head(queue)
    <2>1. /\ queue # <<>> /\ Settle(g, "running") /\ queue' = Tail(queue)
          /\ UNCHANGED <<pc, level, seen, results>>
        BY <1>11 DEF TakeNext
    <2>2. g \in Groups /\ g \in Range(queue)
        BY <2>1, TakeFirst DEF TypeOK
    <2>3. work[g] = "queued" /\ pc # "idle"
        BY <2>1, <2>2, <1>a DEF SchedInv, Lists
    <2> HIDE DEF g
    <2> QED
        BY <2>1, <2>2, <2>3, WorkerMove DEF g
<1>12. ASSUME NEW g \in Groups, Worker(g) \/ WorkerFails(g) PROVE SchedInv'
    <2>1. \E state \in {"ran", "writing", "saved", "ok", "failed"} : Settle(g, state)
        BY <1>12 DEF Worker, RunGroup, SaveGroup, WriteEnds, ControllerStep, WorkerFails
    <2>2. work[g] \in {"running", "ran", "writing", "saved"}
        BY <1>12 DEF Worker, RunGroup, SaveGroup, WriteEnds, ControllerStep, WorkerFails
    <2>3. UNCHANGED <<pc, level, queue, seen, results>>
        BY <1>12 DEF Worker, RunGroup, SaveGroup, WriteEnds, ControllerStep, WorkerFails
    <2>4. pc # "idle"
        BY <2>2, <1>a DEF AtWork
    <2> QED
        BY <2>1, <2>2, <2>3, <2>4, WorkerMove
<1>13. CASE Crash
    <2>1. /\ pc' = "idle" /\ queue' = <<>> /\ work' = [g \in Groups |-> "none"]
          /\ todo' = todo /\ pend' = pend /\ pc # "idle"
        BY <1>13 DEF Crash, level
    <2>2. \A g \in Groups : work'[g] = "none"
        BY <2>1
    <2>3. Lists'
        BY <2>1, EmptyList DEF SchedInv, Lists
    <2> QED
        BY <2>1, <2>2, <2>3
        DEF SchedInv, QuietBetweenRuns, AtWork, Phases, OpenFutures, ResultsByLevel, Scanning,
            InputsReady
<1>14. CASE UNCHANGED vars
    <2>1. /\ pc' = pc /\ lvl' = lvl /\ todo' = todo /\ pend' = pend /\ queue' = queue
          /\ work' = work /\ seen' = seen /\ results' = results
        BY <1>14 DEF vars, level
    <2>2. InputsReady'
        BY <2>1 DEF SchedInv, InputsReady, TaskInputs, HasOutput
    <2> QED
        BY <2>1, <2>2
        DEF SchedInv, QuietBetweenRuns, AtWork, Phases, Lists, OpenFutures, ResultsByLevel,
            Scanning
<1> QED
    BY <1>1, <1>2, <1>3, <1>4, <1>5, <1>6, <1>7, <1>8, <1>9, <1>10, <1>11, <1>12, <1>13, <1>14
    DEF Next, Orchestrator

LEMMA SchedInvariant == Spec => []SchedInv
BY TypeInit, TypeStep, SchedInit, SchedStep, PTL DEF Spec

(* DAG-aware task chaining: in every state of every run, a group handed to   *)
(* the pool finds each of its dependencies settled, and its input holds the  *)
(* output of each that has one.                                              *)
THEOREM InputsAreReady == Spec => []InputsReady
<1>1. SchedInv => InputsReady
    BY DEF SchedInv
<1> QED
    BY <1>1, SchedInvariant, PTL

(* No worker outlives the run that started it, however the run ends.         *)
THEOREM RunsEndQuiet == Spec => []QuietBetweenRuns
<1>1. SchedInv => QuietBetweenRuns
    BY DEF SchedInv
<1> QED
    BY <1>1, SchedInvariant, PTL
-----------------------------------------------------------------------------
\* The refinement.

(* Within a run: some groups are handed to the pool, others get results.     *)
LEMMA AdvanceStep ==
    ASSUME TypeOK, pc # "idle", pc' # "idle",
           NEW start \in SUBSET Groups, NEW settle \in SUBSET Groups,
           \A g \in start : results[g] = None /\ work[g] = "none",
           \A g \in settle : results[g] = None,
           \A g \in start \cup settle : \A d \in GroupDeps[g] : results[d] # None,
           \A g \in Groups : (results'[g] # None) <=> (results[g] # None \/ g \in settle),
           \A g \in Groups : results'[g] = None =>
               ((work'[g] # "none") <=> (work[g] # "none" \/ g \in start))
    PROVE  Dag!Next
<1>1. ~ Ended /\ ~ Ended'
    BY DEF Ended
<1>2. Dag!Done = {g \in Groups : results[g] # None}
    BY <1>1 DEF Dag!Done
<1>3. \A g \in start \cup settle : Dag!Ready(g)
    <2>1. \A g \in Groups : GroupDeps[g] \subseteq Groups
        BY DepsAreEarlier
    <2> QED
        BY <1>2, <2>1 DEF Dag!Ready
<1>4. Dag!Advance(start, settle)
    BY <1>1, <1>3 DEF Dag!Advance
<1> QED
    BY <1>4 DEF Dag!Next

(* A step that neither hands a group to the pool nor settles one.            *)
LEMMA SilentStep ==
    ASSUME TypeOK, pc # "idle", pc' # "idle",
           \A g \in Groups : results'[g] = results[g],
           \A g \in Groups : (work'[g] # "none") <=> (work[g] # "none")
    PROVE  Dag!Next
<1> DEFINE none == {}
<1>1. none \in SUBSET Groups /\ \A g : g \notin none
    OBVIOUS
<1> HIDE DEF none
<1>2. \A g \in none \cup none : \A d \in GroupDeps[g] : results[d] # None
    BY <1>1
<1>3. \A g \in Groups : (results'[g] # None) <=> (results[g] # None \/ g \in none)
    BY <1>1
<1>4. \A g \in Groups : (work'[g] # "none") <=> (work[g] # "none" \/ g \in none)
    BY <1>1
<1> QED
    BY <1>1, <1>2, <1>3, <1>4, AdvanceStep

(* A run that raises, or is cut off by a crash.                              *)
LEMMA GiveUpStep ==
    ASSUME pc # "idle", pc' = "idle", last' # "returned"
    PROVE  Dag!Next
<1>1. Dag!GiveUp
    BY DEF Dag!GiveUp, Dag!AllWaiting, Ended
<1> QED
    BY <1>1 DEF Dag!Next

LEMMA DagInit == Init => Dag!Init
BY DEF Init, Dag!Init, Dag!AllWaiting, Ended

LEMMA DagStep == TypeOK /\ SchedInv /\ [Next]_vars => [Dag!Next]_(Dag!vars)
<1> SUFFICES ASSUME TypeOK, SchedInv, [Next]_vars PROVE [Dag!Next]_(Dag!vars)
    OBVIOUS
<1>a. /\ work \in [Groups -> {"none", "queued", "running", "ran", "writing", "saved",
                              "ok", "failed"}]
      /\ results \in [Groups -> Nat \cup {None, Skipped}]
      /\ todo \in Seq(Groups) /\ pend \in Seq(Groups) /\ queue \in Seq(Groups)
    BY DEF TypeOK
<1>b. ASSUME pc # "idle", NEW g \in Range(Levels[lvl])
      PROVE  g \in Groups /\ \A d \in GroupDeps[g] : results[d] # None
    BY <1>b, LevelFacts DEF SchedInv, Phases, ResultsByLevel
<1>1. CASE StartRun
    <2>1. \A g \in Groups : results'[g] = None /\ work'[g] = "none"
        BY <1>1 DEF StartRun, NoRecords
    <2>2. Dag!Begin
        BY <1>1, <2>1 DEF StartRun, Dag!Begin, Dag!AllWaiting, Ended
    <2> QED
        BY <2>2 DEF Dag!Next
<1>2. ASSUME NEW readable, LoadNext(readable) PROVE Dag!Next
    <2> DEFINE g == Head(todo)
               settle == IF ckpt'.cache[g] = None THEN {} ELSE {g}
    <2>1. /\ pc = "scan" /\ pc' = pc /\ todo # <<>> /\ work' = work
          /\ results' = [results EXCEPT ![g] = ckpt'.cache[g]]
        BY <1>2 DEF LoadNext
    <2>2. g \in Groups /\ g \in Range(todo)
        BY <1>a, <2>1, TakeFirst
    <2>3. g \in Range(Levels[lvl]) /\ results[g] = None
        <3>1. g \in Range(Levels[lvl])
            BY <2>2 DEF TypeOK
        <3> QED
            BY <2>1, <2>2, <3>1 DEF SchedInv, Scanning
    <2> HIDE DEF g
    <2>4. settle \in SUBSET Groups /\ \A h \in settle : h = g
        BY <2>2
    <2>5. \A h \in Groups : (results'[h] # None) <=> (results[h] # None \/ h \in settle)
        BY <1>a, <2>1, <2>2, <2>3
    <2>6. \A d \in GroupDeps[g] : results[d] # None
        BY <1>b, <2>1, <2>3
    <2> HIDE DEF settle
    <2>7. /\ {} \in SUBSET Groups /\ \A h \in settle : results[h] = None
          /\ \A h \in {} \cup settle : \A d \in GroupDeps[h] : results[d] # None
          /\ \A h \in Groups : (work'[h] # "none") <=> (work[h] # "none" \/ h \in {})
        BY <2>1, <2>3, <2>4, <2>6
    <2> QED
        BY <2>1, <2>4, <2>5, <2>7, AdvanceStep
<1>3. ASSUME NEW empty \in SUBSET FanoutsToExpand, Dispatch(empty) PROVE Dag!Next
    <2> DEFINE runnable == Keep(pend, Groups \ empty)
               sent == Range(runnable)
               start == {g \in sent : work[g] = "none"}
    <2>1. /\ pc = "scan" /\ todo = <<>> /\ pc' # "idle" /\ Skipped # None
          /\ results' = [g \in Groups |-> IF g \in empty THEN Skipped ELSE results[g]]
        BY <1>3, PipelineAssumption DEF Dispatch, EnterLevel
    <2>2. \A g \in sent : g \in Range(pend) /\ g \in Groups /\ g \notin empty
        BY <1>a, KeepProperties
    <2>3. work' = [g \in Groups |-> IF g \in sent THEN "queued" ELSE work[g]]
        <3>1. CASE runnable = <<>>
            <4>1. work' = work /\ sent = {}
                BY <1>3, <3>1, EmptyList DEF Dispatch
            <4> QED
                BY <1>a, <4>1
        <3>2. CASE runnable # <<>>
            BY <1>3, <3>2 DEF Dispatch
        <3> QED
            BY <3>1, <3>2
    <2> HIDE DEF runnable, sent
    <2>4. empty \subseteq Range(pend)
        BY DEF FanoutsToExpand
    <2>5. \A g \in Range(pend) : g \in Range(Levels[lvl]) /\ results[g] = None
        BY <1>b, <2>1 DEF TypeOK, SchedInv, Scanning
    <2>6. \A g \in start \cup empty : /\ g \in Groups /\ results[g] = None
                                      /\ \A d \in GroupDeps[g] : results[d] # None
        BY <1>b, <2>1, <2>2, <2>4, <2>5
    <2>7. \A g \in start : work[g] = "none"
        OBVIOUS
    <2>8. \A g \in Groups : (results'[g] # None) <=> (results[g] # None \/ g \in empty)
        BY <2>1
    <2>9. \A g \in Groups : (work'[g] # "none") <=> (work[g] # "none" \/ g \in start)
        BY <2>3
    <2>10. start \in SUBSET Groups /\ empty \in SUBSET Groups
        BY <2>6
    <2> HIDE DEF start
    <2> QED
        BY <2>1, <2>6, <2>7, <2>8, <2>9, <2>10, AdvanceStep
<1>4. ASSUME NEW g \in Groups, ExpansionFails(g) PROVE Dag!Next
    BY <1>4, GiveUpStep DEF ExpansionFails
<1>5. ASSUME NEW g \in Groups, Collect(g) PROVE Dag!Next
    <2>1. /\ pc = "collect" /\ pc' = pc /\ work' = work /\ work[g] = "ok" /\ results[g] = None
          /\ results' = [results EXCEPT ![g] = task]
        BY <1>5 DEF Collect
    <2>2. task # None
        BY PipelineAssumption, CheckpointAssumption DEF TypeOK
    <2>3. \A h \in Groups : (results'[h] # None) <=> (results[h] # None \/ h \in {g})
        BY <1>a, <2>1, <2>2
    <2>4. \A d \in GroupDeps[g] : results[d] # None
        BY <2>1 DEF SchedInv, InputsReady
    <2>5. /\ {} \in SUBSET Groups /\ {g} \in SUBSET Groups
          /\ \A h \in {g} : results[h] = None
          /\ \A h \in {} \cup {g} : \A d \in GroupDeps[h] : results[d] # None
          /\ \A h \in Groups : (work'[h] # "none") <=> (work[h] # "none" \/ h \in {})
        BY <2>1, <2>4
    <2> QED
        BY <2>1, <2>3, <2>5, AdvanceStep
<1>6. CASE LevelDone
    BY <1>6, SilentStep DEF LevelDone, EnterLevel
<1>7. ASSUME NEW g \in Groups, CollectFailure(g) PROVE Dag!Next
    BY <1>7, SilentStep DEF CollectFailure
<1>8. CASE Drained
    BY <1>8, GiveUpStep DEF Drained
<1>9. ASSUME NEW unlinked, Finish(unlinked) PROVE Dag!Next
    BY <1>9, SilentStep DEF Finish
<1>10. CASE Return
    <2>1. /\ pc = "assemble" /\ pc' = "idle" /\ last' = "returned"
          /\ results' = results /\ work' = work
          /\ \A g \in Groups : results[g] # None
        BY <1>10 DEF Return, SchedInv, ResultsByLevel
    <2>2. ~ Ended /\ ~ Ended'
        BY <2>1 DEF Ended
    <2>3. Dag!Done = Groups
        BY <2>1, <2>2 DEF Dag!Done
    <2>4. Dag!Return
        BY <2>1, <2>2, <2>3 DEF Dag!Return
    <2> QED
        BY <2>4 DEF Dag!Next
<1>11. CASE TakeNext
    <2> DEFINE g == Head(queue)
    <2>1. /\ queue # <<>> /\ work' = [work EXCEPT ![g] = "running"] /\ pc' = pc /\ results' = results
        BY <1>11 DEF TakeNext, Settle
    <2>2. g \in Groups /\ g \in Range(queue)
        BY <1>a, <2>1, TakeFirst
    <2>3. work[g] = "queued" /\ pc # "idle"
        BY <2>1, <2>2 DEF SchedInv, Lists, QuietBetweenRuns
    <2> HIDE DEF g
    <2>4. \A h \in Groups : (work'[h] # "none") <=> (work[h] # "none")
        BY <1>a, <2>1, <2>3
    <2> QED
        BY <2>1, <2>3, <2>4, SilentStep
<1>12. ASSUME NEW g \in Groups, Worker(g) \/ WorkerFails(g) PROVE Dag!Next
    <2>1. /\ work[g] \in {"running", "ran", "writing", "saved"}
          /\ pc' = pc /\ results' = results
          /\ \E state \in {"ran", "writing", "saved", "ok", "failed"} :
                 work' = [work EXCEPT ![g] = state]
        BY <1>12
        DEF Worker, RunGroup, SaveGroup, WriteEnds, ControllerStep, WorkerFails, Settle
    <2>2. pc # "idle"
        BY <2>1 DEF SchedInv, QuietBetweenRuns, AtWork
    <2>3. \A h \in Groups : (work'[h] # "none") <=> (work[h] # "none")
        BY <1>a, <2>1
    <2> QED
        BY <2>1, <2>2, <2>3, SilentStep
<1>13. CASE Crash
    BY <1>13, GiveUpStep DEF Crash
<1>14. CASE UNCHANGED vars
    BY <1>14 DEF vars, Dag!vars, Ended
<1> QED
    BY <1>1, <1>2, <1>3, <1>4, <1>5, <1>6, <1>7, <1>8, <1>9, <1>10, <1>11, <1>12, <1>13, <1>14
    DEF Next, Orchestrator

(* The executor implements DagExecution: whatever is replayed, skipped or    *)
(* dispatched, in whatever order futures complete, writes fail and the       *)
(* process crashes, a group starts after its dependencies, is done once per  *)
(* attempt, and a run returns only with every group done.                    *)
THEOREM DagImplemented == Spec => ImplementsDag
<1>1. Spec => [](TypeOK /\ SchedInv)
    BY TypeInit, TypeStep, SchedInit, SchedStep, PTL DEF Spec
<1> QED
    BY <1>1, DagInit, DagStep, PTL DEF Spec, ImplementsDag, Dag!Spec
-----------------------------------------------------------------------------
\* The records: whose task they are of, and what a crash leaves of them.

(* Outside the collecting of a level no worker is at work.                   *)
LEMMA NobodyWorks ==
    ASSUME TypeOK, SchedInv, NEW g \in Groups,
           work[g] \in {"running", "ran", "writing", "saved"}
    PROVE  pc \in {"collect", "drain"}
BY DEF TypeOK, SchedInv, Phases, QuietBetweenRuns, AtWork

\* The inductive invariant of the records' task: records of the task being run
\* only, none once it returned, and no file without a path.
TaskInv ==
    /\ \A g \in Groups : ckpt.cache[g] \in {None, task}
    /\ ckpt.file \in Records => \A g \in Groups : ckpt.file[g] \in {None, task}
    /\ ~ HasPath => ckpt.file = Missing
    /\ \A g \in Groups : work[g] = "writing" => HasPath
    /\ pc = "assemble" \/ (pc = "idle" /\ last = "returned") =>
           ckpt.cache = NoRecords /\ ckpt.file = Missing
    /\ ResultsOfThisTask

LEMMA TaskInit == Init => TaskInv
BY FileAssumption DEF Init, TaskInv, ResultsOfThisTask, NoRecords

(* A step that touches neither the records nor the results.                  *)
LEMMA TaskStays ==
    ASSUME TaskInv, task' = task, ckpt' = ckpt,
           \A g \in Groups : results'[g] \in {results[g], task, Skipped},
           \A g \in Groups : work'[g] = "writing" => work[g] = "writing",
           pc' = "assemble" \/ (pc' = "idle" /\ last' = "returned") =>
               pc = "assemble" \/ (pc = "idle" /\ last = "returned")
    PROVE  TaskInv'
BY DEF TaskInv, ResultsOfThisTask

LEMMA TaskStep ==
    ASSUME UnlinksMayFail = FALSE
    PROVE  TypeOK /\ SchedInv /\ TaskInv /\ [Next]_vars => TaskInv'
<1> SUFFICES ASSUME TypeOK, SchedInv, TaskInv, [Next]_vars PROVE TaskInv'
    OBVIOUS
<1>a. /\ work \in [Groups -> {"none", "queued", "running", "ran", "writing", "saved",
                              "ok", "failed"}]
      /\ results \in [Groups -> Nat \cup {None, Skipped}]
      /\ todo \in Seq(Groups) /\ queue \in Seq(Groups)
      /\ ckpt \in Checkpoint /\ task \in Nat
    BY PipelineAssumption DEF TypeOK
<1>b. /\ Missing \notin Records /\ Corrupt \notin Records
      /\ NoRecords \in Records /\ \A g \in Groups : NoRecords[g] = None
      /\ ckpt.file \in Records \cup {Missing, Corrupt}
    BY <1>a, FileAssumption, CheckpointOperations DEF NoRecords, Records
<1>1. CASE StartRun
    <2>1. /\ pc = "idle" /\ pc' = "scan" /\ results' = NoRecords
          /\ ckpt' = IF SharedCheckpoint THEN ckpt ELSE NewCheckpoint(ckpt)
          /\ work' = [g \in Groups |-> "none"]
          /\ last # "returned" => task' = task
        BY <1>1 DEF StartRun
    <2>2. /\ ckpt'.file = ckpt.file
          /\ ckpt'.cache = ckpt.cache \/ ckpt'.cache = NoRecords
        BY <1>a, <2>1, CheckpointOperations
    <2>3. CASE last = "returned"
        <3>1. ckpt.cache = NoRecords /\ ckpt.file = Missing
            BY <2>1, <2>3 DEF TaskInv
        <3> QED
            BY <1>b, <2>1, <2>2, <3>1 DEF TaskInv, ResultsOfThisTask
    <2>4. CASE last # "returned"
        BY <1>b, <2>1, <2>2, <2>4 DEF TaskInv, ResultsOfThisTask
    <2> QED
        BY <2>3, <2>4
<1>2. ASSUME NEW readable, LoadNext(readable) PROVE TaskInv'
    <2> DEFINE g == Head(todo)
    <2>1. /\ pc = "scan" /\ pc' = pc /\ todo # <<>> /\ work' = work /\ task' = task
          /\ ckpt' = LoadGroup(ckpt, g, readable)
          /\ results' = [results EXCEPT ![g] = ckpt'.cache[g]]
        BY <1>2 DEF LoadNext
    <2>2. g \in Groups
        BY <1>a, <2>1, TakeFirst
    <2>3. /\ ckpt'.file = ckpt.file
          /\ ckpt'.cache = ckpt.cache \/ (ckpt'.cache = ckpt.file /\ ckpt.file \in Records)
        BY <1>a, <1>b, <2>1, CheckpointOperations
    <2> HIDE DEF g
    <2>4. \A h \in Groups : ckpt'.cache[h] \in {None, task}
        BY <2>3 DEF TaskInv
    <2>5. \A h \in Groups : results'[h] \in {None, Skipped, task}
        BY <1>a, <2>1, <2>2, <2>4 DEF TaskInv, ResultsOfThisTask
    <2> QED
        BY <2>1, <2>3, <2>4, <2>5 DEF TaskInv, ResultsOfThisTask
<1>3. ASSUME NEW empty \in SUBSET FanoutsToExpand, Dispatch(empty) PROVE TaskInv'
    <2>1. /\ task' = task /\ ckpt' = ckpt /\ pc' \in {"scan", "collect", "finish"}
          /\ results' = [g \in Groups |-> IF g \in empty THEN Skipped ELSE results[g]]
        BY <1>3 DEF Dispatch, EnterLevel
    <2>2. \A g \in Groups : work'[g] = work[g] \/ work'[g] = "queued"
        BY <1>3 DEF Dispatch
    <2> QED
        BY <2>1, <2>2, TaskStays
<1>4. ASSUME NEW g \in Groups, ExpansionFails(g) PROVE TaskInv'
    BY <1>4, TaskStays DEF ExpansionFails
<1>5. ASSUME NEW g \in Groups, Collect(g) PROVE TaskInv'
    <2>1. \A h \in Groups : results'[h] \in {results[h], task, Skipped}
        BY <1>5, <1>a DEF Collect
    <2> QED
        BY <1>5, <2>1, TaskStays DEF Collect
<1>6. CASE LevelDone
    BY <1>6, TaskStays DEF LevelDone, EnterLevel
<1>7. ASSUME NEW g \in Groups, CollectFailure(g) PROVE TaskInv'
    BY <1>7, TaskStays DEF CollectFailure
<1>8. CASE Drained
    BY <1>8, TaskStays DEF Drained
<1>9. ASSUME NEW unlinked \in Outcomes(UnlinksMayFail), Finish(unlinked) PROVE TaskInv'
    <2>1. unlinked = TRUE
        BY DEF Outcomes
    <2>2. /\ ckpt' = Clear(ckpt, unlinked) /\ task' = task /\ results' = results /\ work' = work
        BY <1>9 DEF Finish
    <2>3. ckpt'.cache = NoRecords /\ ckpt'.file = Missing
        BY <1>a, <2>1, <2>2, CheckpointOperations DEF TaskInv
    <2> QED
        BY <1>b, <2>2, <2>3 DEF TaskInv, ResultsOfThisTask
<1>10. CASE Return
    BY <1>10, TaskStays DEF Return
<1>11. CASE TakeNext
    <2>1. \A h \in Groups : work'[h] = "writing" => work[h] = "writing"
        BY <1>11, <1>a DEF TakeNext, Settle
    <2> QED
        BY <1>11, <2>1, TaskStays DEF TakeNext
<1>12. ASSUME NEW g \in Groups, Worker(g) \/ WorkerFails(g) PROVE TaskInv'
    <2>1. ASSUME NEW state \in {"ran", "saved", "ok", "failed"}, Settle(g, state)
          PROVE  \A h \in Groups : work'[h] = "writing" => work[h] = "writing"
        BY <1>a, <2>1 DEF Settle
    <2>2. CASE RunGroup(g) \/ ControllerStep(g) \/ WorkerFails(g)
        <3>1. \A h \in Groups : work'[h] = "writing" => work[h] = "writing"
            BY <2>1, <2>2 DEF RunGroup, ControllerStep, WorkerFails
        <3> QED
            BY <2>2, <3>1, TaskStays DEF RunGroup, ControllerStep, WorkerFails
    <2>3. ASSUME NEW opened, SaveGroup(g, opened) PROVE TaskInv'
        <3> DEFINE cached == CacheGroup(ckpt, g, task)
        <3>1. /\ work[g] = "ran" /\ pc' = pc /\ task' = task /\ results' = results
              /\ ckpt' = IF HasPath /\ opened THEN OpenTaskFile(cached) ELSE cached
              /\ work' = [work EXCEPT ![g] = IF HasPath /\ opened THEN "writing" ELSE "saved"]
            BY <2>3 DEF SaveGroup, Settle
        <3>2. pc \in {"collect", "drain"}
            BY <3>1, NobodyWorks
        <3>3. /\ cached \in Checkpoint /\ cached.cache = [ckpt.cache EXCEPT ![g] = task]
              /\ cached.file = ckpt.file
            BY <1>a, CheckpointOperations
        <3> HIDE DEF cached
        <3>4. /\ ckpt'.cache = [ckpt.cache EXCEPT ![g] = task]
              /\ ckpt'.file = IF HasPath /\ opened THEN Corrupt ELSE ckpt.file
            BY <3>1, <3>3, CheckpointOperations
        <3>5. \A h \in Groups : ckpt'.cache[h] \in {None, task}
            <4>1. ckpt.cache \in Records
                BY <1>a, CheckpointOperations
            <4> QED
                BY <3>4, <4>1 DEF TaskInv, Records
        <3>6. \A h \in Groups : work'[h] = "writing" => HasPath
            BY <1>a, <3>1 DEF TaskInv
        <3>7. /\ ckpt'.file \in Records => \A h \in Groups : ckpt'.file[h] \in {None, task}
              /\ ~ HasPath => ckpt'.file = Missing
            BY <1>b, <3>4 DEF TaskInv
        <3> QED
            BY <3>1, <3>2, <3>5, <3>6, <3>7 DEF TaskInv, ResultsOfThisTask
    <2>4. ASSUME NEW complete, WriteEnds(g, complete) PROVE TaskInv'
        <3>1. /\ work[g] = "writing" /\ pc' = pc /\ task' = task /\ results' = results
              /\ ckpt' = IF complete THEN WriteTaskFile(ckpt) ELSE ckpt
              /\ Settle(g, "saved")
            BY <2>4 DEF WriteEnds
        <3>2. pc \in {"collect", "drain"} /\ HasPath
            BY <3>1, NobodyWorks DEF TaskInv
        <3>3. /\ ckpt'.cache = ckpt.cache
              /\ ckpt'.file = ckpt.cache \/ ckpt'.file = ckpt.file
            BY <1>a, <3>1, CheckpointOperations
        <3>4. \A h \in Groups : work'[h] = "writing" => work[h] = "writing"
            BY <2>1, <3>1
        <3> QED
            BY <3>1, <3>2, <3>3, <3>4 DEF TaskInv, ResultsOfThisTask
    <2> QED
        BY <1>12, <2>2, <2>3, <2>4 DEF Worker
<1>13. CASE Crash
    <2>1. /\ ckpt' = NewCheckpoint(ckpt) /\ task' = task /\ results' = results
          /\ last' = "crashed" /\ pc' = "idle" /\ \A g \in Groups : work'[g] = "none"
        BY <1>13 DEF Crash
    <2>2. ckpt'.cache = NoRecords /\ ckpt'.file = ckpt.file
        BY <1>a, <2>1, CheckpointOperations
    <2> QED
        BY <1>b, <2>1, <2>2 DEF TaskInv, ResultsOfThisTask
<1>14. CASE UNCHANGED vars
    BY <1>14, TaskStays DEF vars
<1> QED
    BY <1>1, <1>2, <1>3, <1>4, <1>5, <1>6, <1>7, <1>8, <1>9, <1>10, <1>11, <1>12, <1>13, <1>14
    DEF Next, Orchestrator

(* A next task under the same task_id is never answered with records of the  *)
(* one before, provided the file of a finished task could be removed: that   *)
(* is all it takes, whatever reads and writes fail and whenever the process  *)
(* crashes.                                                                  *)
THEOREM ResultsAreOfThisTask ==
    ASSUME UnlinksMayFail = FALSE
    PROVE  Spec => []ResultsOfThisTask
<1>1. TypeOK /\ SchedInv /\ TaskInv /\ [Next]_vars => TaskInv'
    BY TaskStep
<1>2. TaskInv => ResultsOfThisTask
    BY DEF TaskInv
<1> QED
    BY <1>1, <1>2, TypeInit, TypeStep, SchedInit, SchedStep, TaskInit, PTL DEF Spec
-----------------------------------------------------------------------------
\* Durability.

\* The run has looked at no checkpoint yet.
Fresh == pc = "scan" /\ lvl = 1 /\ todo = Levels[1]

Held(records) == \A g \in written : records[g] # None

\* What was written is in the file while nobody writes it, and in the cache from
\* the first look-up of a run on, so that no scan leaves it to be dispatched.
RecordsSafe ==
    /\ Writing = {} /\ written # {} => ckpt.file \in Records /\ Held(ckpt.file)
    /\ Held(ckpt.cache) \/ (ckpt.cache = NoRecords /\ (pc = "idle" \/ Fresh))
    /\ pc = "scan" => \A g \in Range(pend) : g \notin written

\* The inductive invariant of durability: one writer at a time, nothing written
\* without a path or of a task that has returned, and the records safe unless a
\* write was cut off.
DurableInv ==
    /\ \A g, h \in Writing : g = h
    /\ ~ HasPath => written = {} /\ Writing = {}
    /\ pc = "assemble" \/ (pc = "idle" /\ last = "returned") => written = {}
    /\ ~ torn => RecordsSafe

LEMMA DurableInit == Init => DurableInv
BY EmptyList DEF Init, DurableInv, RecordsSafe, Held, Writing

(* A run that has begun to collect, or is past its first level, has looked.  *)
LEMMA NotFresh ==
    ASSUME TypeOK, pc \notin {"idle", "scan"} \/ todo = <<>>
    PROVE  ~ Fresh
<1>1. 1 \in 1 .. Len(Levels) /\ Levels[1] # <<>>
    BY LevelFacts
<1> QED
    BY <1>1 DEF Fresh

(* A step that touches neither the records nor who writes them.              *)
LEMMA DurableStays ==
    ASSUME DurableInv, ~ Fresh, pc # "idle",
           ckpt' = ckpt, written' = written, torn' = torn, Writing' = Writing,
           pc' = "scan" => \A g \in Range(pend') : pc = "scan" /\ g \in Range(pend),
           pc' = "assemble" \/ (pc' = "idle" /\ last' = "returned") =>
               pc = "assemble" \/ (pc = "idle" /\ last = "returned")
    PROVE  DurableInv'
BY DEF DurableInv, RecordsSafe, Held

LEMMA DurableStep ==
    ASSUME ReadsMayFail = FALSE
    PROVE  TypeOK /\ SchedInv /\ DurableInv /\ [Next]_vars => DurableInv'
<1> SUFFICES ASSUME TypeOK, SchedInv, DurableInv, [Next]_vars PROVE DurableInv'
    OBVIOUS
<1>a. /\ work \in [Groups -> {"none", "queued", "running", "ran", "writing", "saved",
                              "ok", "failed"}]
      /\ todo \in Seq(Groups) /\ pend \in Seq(Groups) /\ queue \in Seq(Groups)
      /\ ckpt \in Checkpoint /\ task \in Nat /\ written \subseteq Groups
    BY PipelineAssumption DEF TypeOK
<1>b. /\ Missing \notin Records /\ Corrupt \notin Records
      /\ NoRecords \in Records /\ \A g \in Groups : NoRecords[g] = None
      /\ ckpt.file \in Records \cup {Missing, Corrupt} /\ ckpt.cache \in Records
    BY <1>a, FileAssumption, CheckpointOperations DEF NoRecords, Records
<1>c. ASSUME pc \in {"idle", "scan", "finish", "assemble"}
      PROVE  Writing = {}
    BY <1>c, NobodyWorks DEF Writing
<1>d. task # None
    BY <1>a, CheckpointAssumption
<1>1. CASE StartRun
    <2>1. /\ pc = "idle" /\ pc' = "scan" /\ lvl' = 1 /\ todo' = Levels[1] /\ pend' = <<>>
          /\ ckpt' = IF SharedCheckpoint THEN ckpt ELSE NewCheckpoint(ckpt)
          /\ work' = [g \in Groups |-> "none"] /\ written' = written
          /\ last # "returned" => torn' = torn
        BY <1>1 DEF StartRun
    <2>2. Writing' = {} /\ Writing = {} /\ Fresh'
        BY <1>c, <2>1 DEF Writing, Fresh
    <2>3. /\ ckpt'.file = ckpt.file
          /\ ckpt'.cache = ckpt.cache \/ ckpt'.cache = NoRecords
        BY <1>a, <2>1, CheckpointOperations
    <2>4. ASSUME ~ torn' PROVE RecordsSafe'
        <3>1. last = "returned" => written = {}
            BY <2>1 DEF DurableInv
        <3>2. last # "returned" => RecordsSafe
            BY <2>1, <2>4 DEF DurableInv
        <3>3. Writing' = {} /\ written' # {} => ckpt'.file \in Records /\ Held(ckpt.file)
            BY <2>1, <2>2, <2>3, <3>1, <3>2 DEF RecordsSafe
        <3>4. Held(ckpt.cache) \/ ckpt.cache = NoRecords
            BY <3>1, <3>2 DEF RecordsSafe, Held
        <3>5. \A g \in Range(pend') : g \notin written'
            BY <2>1, EmptyList
        <3> QED
            BY <2>1, <2>2, <2>3, <3>3, <3>4, <3>5 DEF RecordsSafe, Held
    <2> QED
        BY <2>1, <2>2, <2>4 DEF DurableInv
<1>2. ASSUME NEW readable \in Outcomes(ReadsMayFail), LoadNext(readable) PROVE DurableInv'
    <2> DEFINE g == Head(todo)
    <2>1. /\ pc = "scan" /\ pc' = pc /\ todo # <<>> /\ work' = work
          /\ written' = written /\ torn' = torn
          /\ ckpt' = LoadGroup(ckpt, g, readable)
          /\ pend' = IF ckpt'.cache[g] = None THEN Append(pend, g) ELSE pend
          /\ readable = TRUE
        BY <1>2 DEF LoadNext, Outcomes
    <2>2. g \in Groups
        BY <1>a, <2>1, TakeFirst
    <2>3. Range(Append(pend, g)) = Range(pend) \cup {g}
        BY <1>a, <2>2, AppendOne
    <2>4. /\ ckpt'.file = ckpt.file
          /\ ckpt'.cache = IF ckpt.cache[g] = None /\ HasPath /\ ckpt.file \notin {Missing, Corrupt}
                           THEN ckpt.file ELSE ckpt.cache
        <3> HIDE DEF g
        <3>1. /\ LoadGroup(ckpt, g, readable).file = ckpt.file
              /\ LoadGroup(ckpt, g, readable).cache =
                     IF ckpt.cache[g] = None /\ HasPath /\ readable
                        /\ ckpt.file \notin {Missing, Corrupt}
                     THEN ckpt.file ELSE ckpt.cache
            BY <1>a, CheckpointOperations
        <3> QED
            BY <2>1, <3>1
    <2> HIDE DEF g
    <2>5. Writing = {} /\ Writing' = {}
        BY <1>c, <2>1 DEF Writing
    <2>6. ASSUME ~ torn' PROVE RecordsSafe'
        <3>1. RecordsSafe
            BY <2>1, <2>6 DEF DurableInv
        <3>2. written # {} => ckpt.file \in Records /\ Held(ckpt.file) /\ HasPath
            BY <2>5, <3>1 DEF RecordsSafe, DurableInv
        <3>3. Held(ckpt'.cache)
            <4>1. CASE written = {}
                BY <4>1 DEF Held
            <4>2. CASE written # {} /\ ckpt.cache[g] = None
                BY <1>b, <2>4, <3>2, <4>2
            <4>3. CASE written # {} /\ ckpt.cache[g] # None
                BY <1>b, <2>2, <2>4, <3>1, <4>3 DEF RecordsSafe
            <4> QED
                BY <4>1, <4>2, <4>3
        <3>5. \A h \in Range(pend') : h \notin written'
            BY <2>1, <2>3, <3>1, <3>3 DEF RecordsSafe, Held
        <3> QED
            BY <2>1, <2>4, <3>2, <3>3, <3>5 DEF RecordsSafe, Held
    <2> QED
        BY <2>1, <2>5, <2>6 DEF DurableInv
<1>3. ASSUME NEW empty \in SUBSET FanoutsToExpand, Dispatch(empty) PROVE DurableInv'
    <2>1. /\ pc = "scan" /\ todo = <<>> /\ UNCHANGED <<ckpt, written, torn>>
          /\ pc' \in {"scan", "collect", "finish"} /\ (pc' = "scan" => pend' = <<>>)
        BY <1>3 DEF Dispatch, EnterLevel
    <2>2. \A g \in Groups : work'[g] = "writing" <=> work[g] = "writing"
        <3>1. \A g \in Groups : work[g] # "writing"
            BY <1>c, <2>1 DEF Writing
        <3>2. \A g \in Groups : work'[g] \in {work[g], "queued"}
            BY <1>3 DEF Dispatch
        <3> QED
            BY <3>1, <3>2
    <2>3. Writing' = Writing
        BY <2>2 DEF Writing
    <2> QED
        BY <2>1, <2>3, NotFresh, DurableStays, EmptyList
<1>4. ASSUME NEW g \in Groups, ExpansionFails(g) PROVE DurableInv'
    <2>1. /\ pc = "scan" /\ todo = <<>> /\ pc' = "idle" /\ last' = "raised"
          /\ UNCHANGED <<ckpt, written, torn, work, pend>>
        BY <1>4 DEF ExpansionFails, level
    <2> QED
        BY <2>1, NotFresh, DurableStays DEF Writing
<1>5. ASSUME NEW g \in Groups, Collect(g) PROVE DurableInv'
    BY <1>5, NotFresh, DurableStays DEF Collect, Writing
<1>6. CASE LevelDone
    <2>1. /\ pc = "collect" /\ UNCHANGED <<ckpt, written, torn, work>>
          /\ pc' \in {"scan", "finish"} /\ (pc' = "scan" => pend' = <<>>)
        BY <1>6 DEF LevelDone, EnterLevel
    <2> QED
        BY <2>1, NotFresh, DurableStays, EmptyList DEF Writing
<1>7. ASSUME NEW g \in Groups, CollectFailure(g) PROVE DurableInv'
    BY <1>7, NotFresh, DurableStays DEF CollectFailure, Writing
<1>8. CASE Drained
    BY <1>8, NotFresh, DurableStays DEF Drained, Writing
<1>9. ASSUME NEW unlinked, Finish(unlinked) PROVE DurableInv'
    <2>1. /\ pc = "finish" /\ pc' = "assemble" /\ written' = {} /\ work' = work
        BY <1>9 DEF Finish
    <2>2. Writing' = {}
        BY <1>c, <2>1 DEF Writing
    <2> QED
        BY <2>1, <2>2 DEF DurableInv, RecordsSafe, Held
<1>10. CASE Return
    <2>1. /\ pc = "assemble" /\ pc' = "idle" /\ written' = {} /\ work' = work
        BY <1>10 DEF Return, DurableInv
    <2>2. Writing' = {}
        BY <1>c, <2>1 DEF Writing
    <2> QED
        BY <2>1, <2>2 DEF DurableInv, RecordsSafe, Held
<1>e. ASSUME NEW g \in Groups, NEW state \in {"running", "ran", "saved", "ok", "failed"},
             Settle(g, state)
      PROVE  Writing' = Writing \ {g}
    BY <1>a, <1>e DEF Settle, Writing
<1>11. CASE TakeNext
    <2> DEFINE g == Head(queue)
    <2>1. /\ queue # <<>> /\ Settle(g, "running")
          /\ UNCHANGED <<pc, last, ckpt, written, torn, level>>
        BY <1>11 DEF TakeNext
    <2>2. g \in Groups /\ g \in Range(queue)
        BY <1>a, <2>1, TakeFirst
    <2>3. work[g] = "queued" /\ pc \in {"collect", "drain"}
        BY <2>1, <2>2 DEF SchedInv, Lists, Phases, QuietBetweenRuns, TypeOK
    <2> HIDE DEF g
    <2>4. Writing' = Writing
        BY <1>e, <2>1, <2>2, <2>3 DEF Writing
    <2> QED
        BY <2>1, <2>3, <2>4, NotFresh, DurableStays
<1>12. ASSUME NEW g \in Groups, Worker(g) \/ WorkerFails(g) PROVE DurableInv'
    <2>1. /\ work[g] \in {"running", "ran", "writing", "saved"}
          /\ UNCHANGED <<pc, last, level>>
        BY <1>12 DEF Worker, RunGroup, SaveGroup, WriteEnds, ControllerStep, WorkerFails
    <2>2. pc \in {"collect", "drain"} /\ pc' = pc /\ ~ Fresh
        BY <2>1, NobodyWorks, NotFresh
    <2>3. CASE RunGroup(g) \/ ControllerStep(g) \/ WorkerFails(g)
        <3>1. /\ \E state \in {"ran", "ok", "failed"} : Settle(g, state)
              /\ work[g] # "writing" /\ UNCHANGED <<ckpt, written, torn>>
            BY <2>3 DEF RunGroup, ControllerStep, WorkerFails
        <3>2. Writing' = Writing
            BY <1>e, <3>1 DEF Writing
        <3> QED
            BY <2>1, <2>2, <3>1, <3>2, DurableStays
    <2>4. ASSUME NEW opened, SaveGroup(g, opened) PROVE DurableInv'
        <3> DEFINE cached == CacheGroup(ckpt, g, task)
        <3>1. /\ Writing = {} /\ UNCHANGED <<written, torn>>
              /\ ckpt' = IF HasPath /\ opened THEN OpenTaskFile(cached) ELSE cached
              /\ work' = [work EXCEPT ![g] = IF HasPath /\ opened THEN "writing" ELSE "saved"]
            BY <2>4 DEF SaveGroup, Settle
        <3>2. /\ cached \in Checkpoint /\ cached.cache = [ckpt.cache EXCEPT ![g] = task]
              /\ cached.file = ckpt.file
            BY <1>a, CheckpointOperations
        <3> HIDE DEF cached
        <3>3. /\ ckpt'.cache = [ckpt.cache EXCEPT ![g] = task]
              /\ ckpt'.file = IF HasPath /\ opened THEN Corrupt ELSE ckpt.file
            BY <3>1, <3>2, CheckpointOperations
        <3>4. Writing' = IF HasPath /\ opened THEN {g} ELSE {}
            BY <1>a, <3>1 DEF Writing
        <3>5. ASSUME ~ torn' PROVE RecordsSafe'
            <4>1. RecordsSafe /\ Held(ckpt.cache)
                BY <2>2, <3>1, <3>5 DEF DurableInv, RecordsSafe
            <4>2. \A h \in Groups : ckpt.cache[h] # None => ckpt'.cache[h] # None
                BY <1>b, <1>d, <3>3 DEF Records
            <4>3. Held(ckpt'.cache)
                BY <1>a, <4>1, <4>2 DEF Held
            <4>4. Writing' = {} /\ written # {} => ckpt'.file \in Records /\ Held(ckpt'.file)
                BY <3>1, <3>3, <3>4, <4>1 DEF RecordsSafe
            <4> QED
                BY <2>2, <3>1, <4>3, <4>4 DEF RecordsSafe, Held
        <3> QED
            BY <2>2, <3>1, <3>4, <3>5 DEF DurableInv
    <2>5. ASSUME NEW complete, WriteEnds(g, complete) PROVE DurableInv'
        <3>1. /\ g \in Writing /\ Settle(g, "saved") /\ HasPath
            BY <2>5 DEF WriteEnds, Writing, DurableInv
        <3>2. Writing = {g} /\ Writing' = {}
            BY <1>e, <3>1 DEF DurableInv
        <3>3. CASE complete
            <4>1. /\ ckpt' = WriteTaskFile(ckpt) /\ torn' = torn
                  /\ written' = written \cup {h \in Groups : ckpt.cache[h] # None}
                BY <2>5, <3>3 DEF WriteEnds
            <4>2. ckpt'.cache = ckpt.cache /\ ckpt'.file = ckpt.cache
                BY <1>a, <4>1, CheckpointOperations
            <4>3. ASSUME ~ torn' PROVE RecordsSafe'
                <5>1. Held(ckpt.cache)
                    BY <2>2, <4>1, <4>3 DEF DurableInv, RecordsSafe
                <5>2. \A h \in written' : ckpt.cache[h] # None
                    BY <4>1, <5>1 DEF Held
                <5> QED
                    BY <1>b, <2>2, <4>2, <5>2 DEF RecordsSafe, Held
            <4> QED
                BY <2>2, <3>1, <3>2, <4>3 DEF DurableInv
        <3>4. CASE ~ complete
            <4>1. torn' = TRUE
                BY <2>5, <3>4 DEF WriteEnds
            <4> QED
                BY <2>2, <3>1, <3>2, <4>1 DEF DurableInv
        <3> QED
            BY <3>3, <3>4
    <2> QED
        BY <1>12, <2>3, <2>4, <2>5 DEF Worker
<1>13. CASE Crash
    <2>1. /\ ckpt' = NewCheckpoint(ckpt) /\ written' = written /\ torn' = (torn \/ Writing # {})
          /\ last' = "crashed" /\ pc' = "idle" /\ \A g \in Groups : work'[g] = "none"
        BY <1>13 DEF Crash
    <2>2. ckpt'.cache = NoRecords /\ ckpt'.file = ckpt.file /\ Writing' = {}
        BY <1>a, <2>1, CheckpointOperations DEF Writing
    <2>3. ASSUME ~ torn' PROVE RecordsSafe'
        <3>1. Writing = {} /\ RecordsSafe
            BY <2>1, <2>3 DEF DurableInv
        <3> QED
            BY <2>1, <2>2, <3>1 DEF RecordsSafe, Held
    <2> QED
        BY <2>1, <2>2, <2>3 DEF DurableInv
<1>14. CASE UNCHANGED vars
    BY <1>14 DEF vars, level, DurableInv, RecordsSafe, Held, Fresh, Writing
<1> QED
    BY <1>1, <1>2, <1>3, <1>4, <1>5, <1>6, <1>7, <1>8, <1>9, <1>10, <1>11, <1>12, <1>13, <1>14
    DEF Next, Orchestrator

(* Only a dispatch makes a future, and only of a group left to be dispatched. *)
LEMMA OnlyDispatchQueues ==
    ASSUME TypeOK, SchedInv, DurableInv, [Next]_vars, NEW g \in Groups, Redispatched(g)
    PROVE  torn
<1>a. /\ work \in [Groups -> {"none", "queued", "running", "ran", "writing", "saved",
                              "ok", "failed"}]
      /\ work[g] = "none" /\ work'[g] = "queued" /\ g \in written
    BY DEF TypeOK, Redispatched
<1>1. ASSUME NEW empty, Dispatch(empty) PROVE torn
    <2>1. pc = "scan" /\ g \in Range(Keep(pend, Groups \ empty))
        BY <1>1, <1>a DEF Dispatch
    <2>2. g \in Range(pend)
        BY <2>1, KeepProperties DEF TypeOK
    <2> QED
        BY <1>a, <2>1, <2>2 DEF DurableInv, RecordsSafe
<1>2. ASSUME \/ StartRun
             \/ \E readable : LoadNext(readable)
             \/ \E h \in Groups : ExpansionFails(h) \/ Collect(h) \/ CollectFailure(h)
             \/ LevelDone \/ Drained \/ Return \/ Crash
             \/ \E unlinked : Finish(unlinked)
             \/ UNCHANGED vars
      PROVE  FALSE
    BY <1>2, <1>a
    DEF StartRun, LoadNext, ExpansionFails, Collect, CollectFailure, LevelDone, Drained, Return,
        Crash, Finish, vars
<1>3. ASSUME TakeNext PROVE FALSE
    BY <1>3, <1>a DEF TakeNext, Settle
<1>4. ASSUME NEW h \in Groups, Worker(h) \/ WorkerFails(h) PROVE FALSE
    BY <1>4, <1>a
    DEF Worker, RunGroup, SaveGroup, WriteEnds, ControllerStep, WorkerFails, Settle
<1> QED
    BY <1>1, <1>2, <1>3, <1>4 DEF Next, Orchestrator

(* A group whose record reached the disk is not dispatched again for its     *)
(* task, however often the run fails or the process crashes, unless a write  *)
(* was cut off: provided the file can be read.                               *)
THEOREM WrittenIsNotRedone ==
    ASSUME ReadsMayFail = FALSE
    PROVE  Spec => WrittenIsReplayed
<1>1. TypeOK /\ SchedInv /\ DurableInv /\ [Next]_vars => DurableInv'
    BY DurableStep
<1>2. TypeOK /\ SchedInv /\ DurableInv /\ [Next]_vars =>
          [\A g \in Groups : Redispatched(g) => torn]_vars
    BY OnlyDispatchQueues
<1> QED
    BY <1>1, <1>2, TypeInit, TypeStep, SchedInit, SchedStep, DurableInit, PTL
    DEF Spec, WrittenIsReplayed
=============================================================================
