------------------------ MODULE SerialExecutorProofs ------------------------
(***************************************************************************)
(* Proofs about SerialExecutor, for pipelines of any length and any number *)
(* of tasks, failures and crashes.                                         *)
(***************************************************************************)
EXTENDS SerialExecutor, SequenceTheorems, RecursionLemmas

Final == Len(Declared)

(* The groups as they are declared: each once.                               *)
LEMMA DeclaredFacts ==
    /\ Final \in Nat /\ DOMAIN Declared = 1 .. Final
    /\ \A i \in 1 .. Final : Declared[i] \in Groups
    /\ \A i, j \in 1 .. Final : Declared[i] = Declared[j] => i = j
    /\ \A g \in Groups : \E i \in 1 .. Final : Declared[i] = g
<1>1. Declared \in Seq(Groups) /\ IsInjective(Declared) /\ Range(Declared) = Groups
    BY SerialAssumption
<1>2. Final \in Nat /\ DOMAIN Declared = 1 .. Final /\ \A i \in 1 .. Final : Declared[i] \in Groups
    BY <1>1, LenProperties, ElementOfSeq DEF Final
<1>3. \A i, j \in 1 .. Final : Declared[i] = Declared[j] => i = j
    BY <1>1, <1>2 DEF IsInjective
<1>4. \A g \in Groups : \E i \in 1 .. Final : Declared[i] = g
    BY <1>1, <1>2 DEF Range
<1> QED
    BY <1>2, <1>3, <1>4

(* The greatest of some indices is one of them, and no other is above it.    *)
LEMMA MaxProperties ==
    ASSUME NEW n \in Nat, NEW S \in SUBSET (1 .. n), S # {}
    PROVE  Max(S) \in S /\ \A y \in S : Max(S) >= y
<1> DEFINE T == {n - i : i \in S}
<1>1. T \in SUBSET Nat /\ T # {}
    OBVIOUS
<1>2. PICK m \in T : \A k \in T : m <= k
    BY <1>1, LeastNumber
<1>3. PICK x \in S : m = n - x
    BY <1>2
<1>4. \A y \in S : x >= y
    <2> TAKE y \in S
    <2>1. m <= n - y /\ x \in Nat /\ y \in Nat
        BY <1>2
    <2> QED
        BY <1>3, <2>1
<1> QED
    BY <1>3, <1>4 DEF Max

(* What the operations of a checkpoint do to its cache and its file.         *)
LEMMA CheckpointEffects ==
    ASSUME NEW c \in Checkpoint
    PROVE  /\ c.cache \in Records /\ c.file \in Records \cup {Missing, Corrupt}
           /\ NewCheckpoint(c) \in Checkpoint
           /\ NewCheckpoint(c).cache = NoRecords /\ NewCheckpoint(c).file = c.file
           /\ OpenTaskFile(c) \in Checkpoint
           /\ OpenTaskFile(c).cache = c.cache /\ OpenTaskFile(c).file = Corrupt
           /\ WriteTaskFile(c) \in Checkpoint
           /\ WriteTaskFile(c).cache = c.cache /\ WriteTaskFile(c).file = c.cache
           /\ \A unlinked :
                 /\ Clear(c, unlinked) \in Checkpoint
                 /\ Clear(c, unlinked).cache = NoRecords
                 /\ Clear(c, unlinked).file = IF HasPath /\ unlinked THEN Missing ELSE c.file
           /\ \A g \in Groups, n \in Nat :
                 /\ CacheGroup(c, g, n) \in Checkpoint
                 /\ CacheGroup(c, g, n).cache = [c.cache EXCEPT ![g] = n]
                 /\ CacheGroup(c, g, n).file = c.file
           /\ \A g, readable :
                 /\ LoadGroup(c, g, readable) \in Checkpoint
                 /\ LoadGroup(c, g, readable).file = c.file
                 /\ \/ LoadGroup(c, g, readable).cache = c.cache
                    \/ /\ LoadGroup(c, g, readable).cache = c.file
                       /\ c.file \in Records
<1>1. NoRecords \in Records
    BY DEF NoRecords, Records
<1>2. \A g \in Groups, n \in Nat, r \in Records : [r EXCEPT ![g] = n] \in Records
    BY DEF Records
<1>3. /\ c = [cache |-> c.cache, file |-> c.file]
      /\ c \in [cache : Records, file : Records \cup {Missing, Corrupt}]
    BY DEF Checkpoint
<1> QED
    BY <1>1, <1>2, <1>3
    DEF Checkpoint, NewCheckpoint, OpenTaskFile, WriteTaskFile, Clear, CacheGroup, LoadGroup,
        ReadTaskFile

-----------------------------------------------------------------------------
\* Types.

SerialType ==
    /\ pc \in {"idle", "load", "expand", "run", "save", "writing", "control", "assemble"}
    /\ task \in Nat
    /\ next \in Nat
    /\ fed = [g \in Groups |-> fed[g]]
    /\ results \in [Groups -> Nat \cup {None, Skipped}]
    /\ ckpt \in Checkpoint
    /\ pc \in {"expand", "run", "save", "writing", "control"} => next \in 1 .. Final
    /\ pc = "load" => next \in 1 .. Final + 1
    /\ pc = "assemble" => next = Final + 1
    /\ pc = "save" => results[Here] \in Nat

LEMMA SerialTypeInit == Init => SerialType
<1> SUFFICES ASSUME Init PROVE SerialType
    OBVIOUS
<1>1. NoRecords \in Records /\ ckpt \in Checkpoint
    BY DEF Init, NoRecords, Records, Checkpoint
<1> QED
    BY <1>1 DEF Init, SerialType, NoRecords

LEMMA SerialTypeStep == SerialType /\ [Next]_vars => SerialType'
<1> SUFFICES ASSUME SerialType, [Next]_vars PROVE SerialType'
    OBVIOUS
<1>a. /\ Final \in Nat /\ \A i \in 1 .. Final : Declared[i] \in Groups
      /\ Final = Len(Declared)
    BY DeclaredFacts DEF Final
<1>b. /\ task \in Nat /\ next \in Nat /\ ckpt \in Checkpoint
      /\ fed = [g \in Groups |-> fed[g]]
      /\ results \in [Groups -> Nat \cup {None, Skipped}]
    BY DEF SerialType
<1>c. \A t \in Nat, spoke \in BOOLEAN : Record(t, spoke) \in Nat
    BY DEF Record
<1>1. CASE StartRun
    <2>1. ckpt' \in Checkpoint
        BY <1>1, <1>b, CheckpointEffects DEF StartRun
    <2>2. task' \in Nat
        BY <1>1, <1>b DEF StartRun
    <2> QED
        BY <1>1, <1>a, <2>1, <2>2 DEF StartRun, SerialType, NoRecords
<1>2. ASSUME NEW readable, Load(readable) PROVE SerialType'
    <2>1. /\ pc = "load" /\ next \in 1 .. Final /\ Here \in Groups
          /\ ckpt' = LoadGroup(ckpt, Here, readable) /\ task' = task /\ fed' = fed
        BY <1>2, <1>a DEF Load, SerialType, Here
    <2>2. ckpt' \in Checkpoint /\ ckpt'.cache \in Records
        BY <1>b, <2>1, CheckpointEffects
    <2>3. CASE ckpt'.cache[Here] # None
        <3>1. ckpt'.cache[Here] \in Nat
            BY <2>1, <2>2, <2>3 DEF Records
        <3>2. /\ pc' = pc /\ next' = next + 1
              /\ results' = [results EXCEPT ![Here] = ckpt'.cache[Here]]
            BY <1>2, <2>3 DEF Load
        <3>3. results' \in [Groups -> Nat \cup {None, Skipped}]
            BY <1>b, <3>1, <3>2
        <3> QED
            BY <1>a, <1>b, <2>1, <2>2, <3>2, <3>3 DEF SerialType
    <2>4. CASE ckpt'.cache[Here] = None
        <3>1. pc' \in {"run", "expand"} /\ next' = next /\ results' = results
            BY <1>2, <2>4 DEF Load
        <3> QED
            BY <1>b, <2>1, <2>2, <3>1 DEF SerialType
    <2> QED
        BY <2>3, <2>4
<1>3. ASSUME NEW empty \in BOOLEAN, Expand(empty) PROVE SerialType'
    <2>1. /\ next \in 1 .. Final /\ task' = task /\ fed' = fed /\ ckpt' = ckpt
          /\ \/ pc' = "load" /\ next' = next + 1 /\ results' = [results EXCEPT ![Here] = Skipped]
             \/ pc' = "run" /\ next' = next /\ results' = results
        BY <1>3 DEF Expand, SerialType
    <2>2. results' \in [Groups -> Nat \cup {None, Skipped}]
        BY <1>b, <2>1
    <2> QED
        BY <1>a, <1>b, <2>1, <2>2 DEF SerialType
<1>4. ASSUME NEW spoke \in BOOLEAN, RunGroup(spoke) PROVE SerialType'
    <2>1. /\ next \in 1 .. Final /\ Here \in Groups /\ task' = task /\ ckpt' = ckpt
          /\ pc' = "save" /\ next' = next
          /\ results' = [results EXCEPT ![Here] = Record(task, spoke)]
          /\ fed' = [fed EXCEPT ![Here] = chain]
        BY <1>4, <1>a DEF RunGroup, SerialType, Here
    <2>2. /\ results' \in [Groups -> Nat \cup {None, Skipped}] /\ results'[Here] \in Nat
          /\ Here' = Here
        BY <1>b, <1>c, <2>1 DEF Here
    <2>3. fed' = [g \in Groups |-> fed'[g]]
        BY <1>b, <2>1
    <2> QED
        BY <1>b, <2>1, <2>2, <2>3 DEF SerialType
<1>5. ASSUME NEW opened, Save(opened) PROVE SerialType'
    <2>1. /\ pc = "save" /\ next \in 1 .. Final /\ Here \in Groups /\ results[Here] \in Nat
          /\ pc' \in {"writing", "control"}
          /\ UNCHANGED <<task, next, fed, results>>
        BY <1>5, <1>a DEF Save, SerialType, Here
    <2>2. CacheGroup(ckpt, Here, results[Here]) \in Checkpoint
        BY <1>b, <2>1, CheckpointEffects
    <2>3. ckpt' \in Checkpoint
        BY <1>5, <2>2, CheckpointEffects DEF Save
    <2> QED
        BY <1>b, <2>1, <2>3 DEF SerialType
<1>6. ASSUME NEW complete, WriteEnds(complete) PROVE SerialType'
    <2>1. ckpt' \in Checkpoint
        BY <1>6, <1>b, CheckpointEffects DEF WriteEnds
    <2> QED
        BY <1>6, <2>1 DEF WriteEnds, SerialType
<1>7. CASE ControllerStep
    BY <1>7, <1>a DEF ControllerStep, SerialType
<1>8. CASE Fails
    BY <1>8 DEF Fails, SerialType
<1>9. ASSUME NEW unlinked, Finish(unlinked) PROVE SerialType'
    <2>1. ckpt' \in Checkpoint
        BY <1>9, <1>b, CheckpointEffects DEF Finish
    <2>2. next = Final + 1
        BY <1>9, <1>a DEF Finish, SerialType
    <2> QED
        BY <1>9, <2>1, <2>2 DEF Finish, SerialType
<1>10. CASE Return
    BY <1>10 DEF Return, SerialType
<1>11. CASE Crash
    <2>1. ckpt' \in Checkpoint
        BY <1>11, <1>b, CheckpointEffects DEF Crash
    <2> QED
        BY <1>11, <2>1 DEF Crash, SerialType
<1>12. CASE UNCHANGED vars
    BY <1>12 DEF vars, SerialType, Here
<1> QED
    BY <1>1, <1>2, <1>3, <1>4, <1>5, <1>6, <1>7, <1>8, <1>9, <1>10, <1>11, <1>12 DEF Next

-----------------------------------------------------------------------------
\* The chain of final outputs.

\* The groups before the n-th that have spoken, and what the chain is after
\* them.
Spoken(n) == {j \in 1 .. n - 1 : Speaks(results[Declared[j]])}

ChainAt(n) ==
    IF Spoken(n) = {} THEN None
    ELSE [from   |-> Declared[Max(Spoken(n))],
          record |-> results[Declared[Max(Spoken(n))]]]

(* The chain depends on the groups before only.                              *)
LEMMA ChainSame ==
    ASSUME NEW n \in 1 .. Final + 1,
           \A j \in 1 .. n - 1 : results'[Declared[j]] = results[Declared[j]]
    PROVE  ChainAt(n)' = ChainAt(n)
<1>1. Spoken(n)' = Spoken(n)
    BY DEF Spoken
<1>2. CASE Spoken(n) = {}
    BY <1>1, <1>2 DEF ChainAt
<1>3. CASE Spoken(n) # {}
    <2>1. n - 1 \in Nat /\ Spoken(n) \in SUBSET (1 .. n - 1)
        BY DeclaredFacts DEF Spoken
    <2>2. Max(Spoken(n)) \in 1 .. n - 1
        BY <1>3, <2>1, MaxProperties
    <2> QED
        BY <1>1, <1>3, <2>2 DEF ChainAt
<1> QED
    BY <1>2, <1>3

(* A group that speaks is the chain's next; one that does not leaves it.     *)
LEMMA ChainNext ==
    ASSUME NEW n \in 1 .. Final,
           \A j \in 1 .. n - 1 : results'[Declared[j]] = results[Declared[j]]
    PROVE  ChainAt(n + 1)' = IF Speaks(results'[Declared[n]])
                             THEN [from |-> Declared[n], record |-> results'[Declared[n]]]
                             ELSE ChainAt(n)
<1>a. n \in 1 .. Final + 1 /\ (n + 1) - 1 = n /\ n \in 1 .. n /\ n \in Nat
    BY DeclaredFacts
<1>1. CASE ~ Speaks(results'[Declared[n]])
    <2>1. Spoken(n + 1)' = Spoken(n)'
        BY <1>a, <1>1 DEF Spoken
    <2>2. ChainAt(n + 1)' = ChainAt(n)'
        BY <2>1 DEF ChainAt
    <2> QED
        BY <1>1, <1>a, <2>2, ChainSame
<1>2. CASE Speaks(results'[Declared[n]])
    <2> DEFINE S == Spoken(n + 1)'
    <2>1. n \in S /\ S \in SUBSET (1 .. n)
        BY <1>a, <1>2 DEF Spoken
    <2> HIDE DEF S
    <2>2. Max(S) = n
        <3>1. Max(S) \in S /\ \A y \in S : Max(S) >= y
            BY <1>a, <2>1, MaxProperties
        <3>2. Max(S) \in 1 .. n /\ Max(S) >= n
            BY <2>1, <3>1
        <3> QED
            BY <1>a, <3>2
    <2>3. Max(Spoken(n + 1)') = n /\ Spoken(n + 1)' # {}
        BY <2>1, <2>2 DEF S
    <2> QED
        BY <1>2, <2>3 DEF ChainAt
<1> QED
    BY <1>1, <1>2

\* The index from which on no group has been reached.
Entered == IF pc \in {"save", "writing", "control"} THEN next + 1 ELSE next

\* The inductive invariant of the loop: groups before Entered have results, the
\* others have none and were fed nothing, and the chain is that of the former.
LoopInv ==
    pc # "idle" =>
        /\ \A i \in 1 .. Final : i < Entered => results[Declared[i]] # None
        /\ \A i \in 1 .. Final : i >= Entered => /\ results[Declared[i]] = None
                                                /\ fed[Declared[i]] = Skipped
        /\ chain = ChainAt(Entered)

\* Each group was fed the chain of the groups before it.
FedInv == \A i \in 1 .. Final : fed[Declared[i]] # Skipped => fed[Declared[i]] = ChainAt(i)

LEMMA LoopInit == Init => LoopInv /\ FedInv
BY DeclaredFacts DEF Init, LoopInv, FedInv

(* A step that leaves results, inputs and chain alone.                       *)
LEMMA LoopStays ==
    ASSUME SerialType, LoopInv, FedInv,
           UNCHANGED <<results, fed>>,
           pc' # "idle" => pc # "idle" /\ chain' = chain /\ Entered' = Entered
    PROVE  LoopInv' /\ FedInv'
<1>1. \A n : ChainAt(n)' = ChainAt(n)
    BY DEF ChainAt, Spoken
<1>2. FedInv'
    BY <1>1 DEF FedInv
<1>3. LoopInv'
    <2> SUFFICES ASSUME pc' # "idle" PROVE LoopInv'
        BY DEF LoopInv
    <2>1. ChainAt(Entered)' = ChainAt(Entered)
        BY DEF ChainAt, Spoken
    <2> QED
        BY <2>1 DEF LoopInv
<1> QED
    BY <1>2, <1>3

(* The group the loop is at gets its result.                                 *)
LEMMA LoopMoves ==
    ASSUME SerialType, LoopInv, FedInv, pc \in {"load", "expand", "run"}, pc' # "idle",
           next \in 1 .. Final, Entered' = next + 1,
           NEW record \in Nat \cup {Skipped},
           results' = [results EXCEPT ![Here] = record],
           chain' = IF Speaks(record) THEN [from |-> Here, record |-> record] ELSE chain,
           fed' = fed \/ fed' = [fed EXCEPT ![Here] = chain]
    PROVE  LoopInv' /\ FedInv'
<1>a. /\ Here = Declared[next] /\ Here \in Groups /\ Entered = next
      /\ \A i \in 1 .. Final : Declared[i] \in Groups /\ (Declared[i] = Here => i = next)
      /\ results \in [Groups -> Nat \cup {None, Skipped}]
      /\ fed = [g \in Groups |-> fed[g]] /\ Final \in Nat
      /\ record # None
    BY DeclaredFacts, SerialAssumption, CheckpointAssumption DEF Here, Entered, SerialType
<1>b. /\ \A i \in 1 .. Final : i < next => results[Declared[i]] # None
      /\ \A i \in 1 .. Final : i >= next => /\ results[Declared[i]] = None
                                           /\ fed[Declared[i]] = Skipped
      /\ chain = ChainAt(next)
    BY <1>a DEF LoopInv
<1>1. /\ results'[Declared[next]] = record
      /\ \A i \in 1 .. Final : i # next => results'[Declared[i]] = results[Declared[i]]
    BY <1>a
<1>2. \A i \in 1 .. Final : i # next => fed'[Declared[i]] = fed[Declared[i]]
    BY <1>a
<1>3. fed'[Declared[next]] = fed[Declared[next]] \/ fed'[Declared[next]] = chain
    BY <1>a
<1>4. \A n \in 1 .. next : ChainAt(n)' = ChainAt(n)
    <2> TAKE n \in 1 .. next
    <2>1. n \in 1 .. Final + 1 /\ \A j \in 1 .. n - 1 : j \in 1 .. Final /\ j # next
        BY <1>a
    <2> QED
        BY <1>1, <2>1, ChainSame
<1>5. ChainAt(Entered)' = chain'
    <2>1. PICK n \in 1 .. Final : n = next
        OBVIOUS
    <2>2. \A j \in 1 .. n - 1 : j \in 1 .. Final /\ j # next
        BY <1>a, <2>1
    <2>3. \A j \in 1 .. n - 1 : results'[Declared[j]] = results[Declared[j]]
        BY <1>1, <2>2
    <2>4. ChainAt(n + 1)' = IF Speaks(results'[Declared[n]])
                            THEN [from |-> Declared[n], record |-> results'[Declared[n]]]
                            ELSE ChainAt(n)
        BY <2>3, ChainNext
    <2>5. ChainAt(Entered)' = ChainAt(n + 1)'
        BY <2>1 DEF ChainAt, Spoken
    <2> QED
        BY <1>a, <1>b, <1>1, <2>1, <2>4, <2>5
<1>6. LoopInv'
    <2>1. \A i \in 1 .. Final : i < Entered' => results'[Declared[i]] # None
        BY <1>a, <1>b, <1>1
    <2>2. \A i \in 1 .. Final : i >= Entered' => /\ results'[Declared[i]] = None
                                                /\ fed'[Declared[i]] = Skipped
        BY <1>a, <1>b, <1>1, <1>2
    <2> QED
        BY <1>5, <2>1, <2>2 DEF LoopInv
<1>7. FedInv'
    <2> SUFFICES ASSUME NEW i \in 1 .. Final, fed'[Declared[i]] # Skipped
                 PROVE  fed'[Declared[i]] = ChainAt(i)'
        BY DEF FedInv
    <2>1. CASE i < next
        <3>1. i \in 1 .. next /\ i # next
            BY <1>a, <2>1
        <3> QED
            BY <1>2, <1>4, <3>1 DEF FedInv
    <2>2. CASE i = next
        <3>1. next \in 1 .. next
            BY <1>a
        <3> QED
            BY <1>a, <1>b, <1>3, <1>4, <2>2, <3>1
    <2>3. CASE i > next
        BY <1>a, <1>b, <1>2, <2>3
    <2> QED
        BY <1>a, <2>1, <2>2, <2>3
<1> QED
    BY <1>6, <1>7

LEMMA LoopStep == SerialType /\ LoopInv /\ FedInv /\ [Next]_vars => LoopInv' /\ FedInv'
<1> SUFFICES ASSUME SerialType, LoopInv, FedInv, [Next]_vars PROVE LoopInv' /\ FedInv'
    OBVIOUS
<1>a. Final = Len(Declared) /\ Final \in Nat
    BY DeclaredFacts DEF Final
<1>1. CASE StartRun
    <2>1. /\ pc' = "load" /\ next' = 1 /\ chain' = None /\ results' = NoRecords
          /\ fed' = [g \in Groups |-> Skipped]
        BY <1>1 DEF StartRun
    <2>2. \A i \in 1 .. Final : results'[Declared[i]] = None /\ fed'[Declared[i]] = Skipped
        BY <2>1, DeclaredFacts DEF NoRecords
    <2>3. Entered' = 1 /\ Spoken(Entered)' = {}
        BY <2>1 DEF Entered, Spoken
    <2> QED
        BY <2>1, <2>2, <2>3 DEF LoopInv, FedInv, ChainAt
<1>2. ASSUME NEW readable, Load(readable) PROVE LoopInv' /\ FedInv'
    <2>1. /\ pc = "load" /\ next \in 1 .. Final /\ fed' = fed
          /\ ckpt' = LoadGroup(ckpt, Here, readable)
        BY <1>2, <1>a DEF Load, SerialType
    <2>2. Here \in Groups /\ ckpt'.cache \in Records
        BY <2>1, CheckpointEffects, DeclaredFacts DEF Here, SerialType
    <2>3. CASE ckpt'.cache[Here] # None
        <3>1. ckpt'.cache[Here] \in Nat
            BY <2>2, <2>3 DEF Records
        <3>2. /\ pc' = pc /\ next' = next + 1
              /\ results' = [results EXCEPT ![Here] = ckpt'.cache[Here]]
              /\ chain' = Chained(Here, ckpt'.cache[Here])
            BY <1>2, <2>3 DEF Load
        <3>3. Entered' = next + 1
            BY <2>1, <3>2 DEF Entered
        <3> QED
            BY <2>1, <3>1, <3>2, <3>3, LoopMoves DEF Chained
    <2>4. CASE ckpt'.cache[Here] = None
        <3>1. pc' \in {"run", "expand"} /\ next' = next /\ results' = results /\ chain' = chain
            BY <1>2, <2>4 DEF Load
        <3>2. Entered' = Entered
            BY <2>1, <3>1 DEF Entered
        <3> QED
            BY <2>1, <3>1, <3>2, LoopStays
    <2> QED
        BY <2>3, <2>4
<1>3. ASSUME NEW empty \in BOOLEAN, Expand(empty) PROVE LoopInv' /\ FedInv'
    <2>1. pc = "expand" /\ next \in 1 .. Final /\ fed' = fed /\ chain' = chain
        BY <1>3 DEF Expand, SerialType
    <2>2. CASE empty
        <3>1. /\ pc' = "load" /\ next' = next + 1
              /\ results' = [results EXCEPT ![Here] = Skipped]
            BY <1>3, <2>2 DEF Expand
        <3>2. Entered' = next + 1 /\ ~ Speaks(Skipped)
            BY <3>1, SerialAssumption DEF Entered, Speaks
        <3> QED
            BY <2>1, <3>1, <3>2, LoopMoves
    <2>3. CASE ~ empty
        <3>1. pc' = "run" /\ next' = next /\ results' = results
            BY <1>3, <2>3 DEF Expand
        <3>2. Entered' = Entered
            BY <2>1, <3>1 DEF Entered
        <3> QED
            BY <2>1, <3>1, <3>2, LoopStays
    <2> QED
        BY <2>2, <2>3
<1>4. ASSUME NEW spoke \in BOOLEAN, RunGroup(spoke) PROVE LoopInv' /\ FedInv'
    <2> DEFINE record == Record(task, spoke)
    <2>1. /\ pc = "run" /\ next \in 1 .. Final /\ pc' = "save" /\ next' = next
          /\ results' = [results EXCEPT ![Here] = record]
          /\ chain' = Chained(Here, record)
          /\ fed' = [fed EXCEPT ![Here] = chain]
        BY <1>4 DEF RunGroup, SerialType
    <2>2. record \in Nat
        BY DEF Record, SerialType
    <2>3. Entered' = next + 1
        BY <2>1 DEF Entered
    <2> HIDE DEF record
    <2> QED
        BY <2>1, <2>2, <2>3, LoopMoves DEF Chained
<1>5. ASSUME NEW opened, Save(opened) PROVE LoopInv' /\ FedInv'
    <2>1. /\ pc = "save" /\ pc' \in {"writing", "control"} /\ next' = next
          /\ UNCHANGED <<results, fed, chain>>
        BY <1>5 DEF Save
    <2>2. Entered' = Entered
        BY <2>1 DEF Entered
    <2> QED
        BY <2>1, <2>2, LoopStays
<1>6. ASSUME NEW complete, WriteEnds(complete) PROVE LoopInv' /\ FedInv'
    <2>1. Entered' = Entered
        BY <1>6 DEF WriteEnds, Entered
    <2> QED
        BY <1>6, <2>1, LoopStays DEF WriteEnds
<1>7. CASE ControllerStep
    <2>1. Entered' = Entered
        BY <1>7 DEF ControllerStep, Entered
    <2> QED
        BY <1>7, <2>1, LoopStays DEF ControllerStep
<1>8. CASE Fails
    BY <1>8, LoopStays DEF Fails
<1>9. ASSUME NEW unlinked, Finish(unlinked) PROVE LoopInv' /\ FedInv'
    <2>1. Entered' = Entered
        BY <1>9 DEF Finish, Entered
    <2> QED
        BY <1>9, <2>1, LoopStays DEF Finish
<1>10. CASE Return
    BY <1>10, LoopStays DEF Return
<1>11. CASE Crash
    BY <1>11, LoopStays DEF Crash
<1>12. CASE UNCHANGED vars
    <2>1. Entered' = Entered
        BY <1>12 DEF vars, Entered
    <2> QED
        BY <1>12, <2>1, LoopStays DEF vars
<1> QED
    BY <1>1, <1>2, <1>3, <1>4, <1>5, <1>6, <1>7, <1>8, <1>9, <1>10, <1>11, <1>12 DEF Next

-----------------------------------------------------------------------------
\* Whose task the records are of.

OfTask(r) == r \in {None, Skipped} \/ TaskOf(r) = task

\* The inductive invariant of the records' task: records of the task being run
\* only, none once it returned, and no file without a path.
RecordsInv ==
    /\ \A g \in Groups : OfTask(ckpt.cache[g])
    /\ ckpt.file \in Records => \A g \in Groups : OfTask(ckpt.file[g])
    /\ ~ HasPath => ckpt.file = Missing
    /\ pc = "writing" => HasPath
    /\ pc = "assemble" \/ (pc = "idle" /\ last = "returned") =>
           ckpt.cache = NoRecords /\ ckpt.file = Missing
    /\ \A g \in Groups : OfTask(results[g])
    /\ OfTask(output)

LEMMA RecordsInit == Init => RecordsInv
BY FileAssumption DEF Init, RecordsInv, OfTask, NoRecords

(* A step that leaves the checkpoint and the task alone.                     *)
LEMMA RecordsStay ==
    ASSUME RecordsInv, UNCHANGED <<task, ckpt>>,
           \A g \in Groups : results'[g] = results[g] \/ OfTask(results'[g]),
           OfTask(output'),
           pc' # "writing",
           pc' = "assemble" \/ (pc' = "idle" /\ last' = "returned") =>
               pc = "assemble" \/ (pc = "idle" /\ last = "returned")
    PROVE  RecordsInv'
BY DEF RecordsInv, OfTask

LEMMA RecordsStep ==
    ASSUME UnlinksMayFail = FALSE
    PROVE  SerialType /\ RecordsInv /\ [Next]_vars => RecordsInv'
<1> SUFFICES ASSUME SerialType, RecordsInv, [Next]_vars PROVE RecordsInv'
    OBVIOUS
<1>a. /\ results \in [Groups -> Nat \cup {None, Skipped}]
      /\ ckpt \in Checkpoint /\ task \in Nat
    BY DEF SerialType
<1>b. /\ Missing \notin Records /\ Corrupt \notin Records
      /\ \A g \in Groups : NoRecords[g] = None
      /\ ckpt.cache \in Records
    BY <1>a, FileAssumption, CheckpointEffects DEF NoRecords
<1>c. ASSUME pc \in {"load", "expand", "run", "save", "writing", "control"}, pc # "load" \/ next <= Final
      PROVE  Here \in Groups
    BY <1>c, DeclaredFacts DEF SerialType, Here
<1>d. \A spoke \in BOOLEAN : OfTask(Record(task, spoke))
    <2>1. (2 * task + 1) \div 2 = task /\ (2 * task) \div 2 = task
        BY <1>a
    <2> QED
        BY <2>1 DEF OfTask, TaskOf, Record
<1>e. OfTask(output)
    BY DEF RecordsInv
<1>1. CASE StartRun
    <2>1. /\ pc = "idle" /\ pc' = "load" /\ results' = NoRecords /\ output' = None
          /\ ckpt' = IF SharedCheckpoint THEN ckpt ELSE NewCheckpoint(ckpt)
          /\ last # "returned" => task' = task
        BY <1>1 DEF StartRun
    <2>2. /\ ckpt'.file = ckpt.file
          /\ ckpt'.cache = ckpt.cache \/ ckpt'.cache = NoRecords
        BY <1>a, <2>1, CheckpointEffects
    <2>3. CASE last = "returned"
        <3>1. ckpt.cache = NoRecords /\ ckpt.file = Missing
            BY <2>1, <2>3 DEF RecordsInv
        <3> QED
            BY <1>b, <2>1, <2>2, <3>1 DEF RecordsInv, OfTask
    <2>4. CASE last # "returned"
        BY <1>b, <2>1, <2>2, <2>4 DEF RecordsInv, OfTask
    <2> QED
        BY <2>3, <2>4
<1>2. ASSUME NEW readable, Load(readable) PROVE RecordsInv'
    <2>1. /\ pc = "load" /\ pc' \in {"load", "run", "expand"} /\ UNCHANGED <<task, output>>
          /\ ckpt' = LoadGroup(ckpt, Here, readable)
          /\ results' = results \/ results' = [results EXCEPT ![Here] = ckpt'.cache[Here]]
        BY <1>2 DEF Load
    <2>2. Here \in Groups
        BY <1>2, <1>c DEF Load, Final
    <2>3. /\ ckpt'.file = ckpt.file
          /\ ckpt'.cache = ckpt.cache \/ (ckpt'.cache = ckpt.file /\ ckpt.file \in Records)
        BY <1>a, <2>1, CheckpointEffects
    <2>4. \A g \in Groups : OfTask(ckpt'.cache[g])
        BY <2>3 DEF RecordsInv
    <2>5. \A g \in Groups : OfTask(results'[g])
        BY <1>a, <2>1, <2>2, <2>4 DEF RecordsInv
    <2> QED
        BY <2>1, <2>3, <2>4, <2>5 DEF RecordsInv, OfTask
<1>3. ASSUME NEW empty \in BOOLEAN, Expand(empty) PROVE RecordsInv'
    <2>1. /\ pc' \in {"load", "run"} /\ UNCHANGED <<task, ckpt, output>>
          /\ results' = results \/ results' = [results EXCEPT ![Here] = Skipped]
        BY <1>3 DEF Expand
    <2>2. \A g \in Groups : results'[g] = results[g] \/ OfTask(results'[g])
        BY <1>a, <2>1 DEF OfTask
    <2> QED
        BY <1>e, <2>1, <2>2, RecordsStay
<1>4. ASSUME NEW spoke \in BOOLEAN, RunGroup(spoke) PROVE RecordsInv'
    <2>1. \A g \in Groups : results'[g] = results[g] \/ OfTask(results'[g])
        BY <1>4, <1>a, <1>d DEF RunGroup
    <2> QED
        BY <1>4, <1>e, <2>1, RecordsStay DEF RunGroup
<1>5. ASSUME NEW opened, Save(opened) PROVE RecordsInv'
    <2> DEFINE cached == CacheGroup(ckpt, Here, results[Here])
    <2>1. /\ pc = "save" /\ UNCHANGED <<task, output, results>>
          /\ ckpt' = IF HasPath /\ opened THEN OpenTaskFile(cached) ELSE cached
          /\ pc' = IF HasPath /\ opened THEN "writing" ELSE "control"
        BY <1>5 DEF Save
    <2>2. Here \in Groups /\ results[Here] \in Nat
        BY <2>1, <1>c DEF SerialType
    <2>3. /\ cached \in Checkpoint /\ cached.cache = [ckpt.cache EXCEPT ![Here] = results[Here]]
          /\ cached.file = ckpt.file
        BY <1>a, <2>2, CheckpointEffects
    <2> HIDE DEF cached
    <2>4. /\ ckpt'.cache = [ckpt.cache EXCEPT ![Here] = results[Here]]
          /\ ckpt'.file = IF HasPath /\ opened THEN Corrupt ELSE ckpt.file
        BY <2>1, <2>3, CheckpointEffects
    <2>5. \A g \in Groups : OfTask(ckpt'.cache[g])
        BY <1>b, <2>2, <2>4 DEF RecordsInv, Records
    <2>6. /\ ckpt'.file \in Records => \A g \in Groups : OfTask(ckpt'.file[g])
          /\ ~ HasPath => ckpt'.file = Missing
        BY <1>b, <2>4 DEF RecordsInv
    <2> QED
        BY <2>1, <2>5, <2>6 DEF RecordsInv, OfTask
<1>6. ASSUME NEW complete, WriteEnds(complete) PROVE RecordsInv'
    <2>1. /\ pc = "writing" /\ pc' = "control" /\ UNCHANGED <<task, output, results>>
          /\ ckpt' = IF complete THEN WriteTaskFile(ckpt) ELSE ckpt
        BY <1>6 DEF WriteEnds
    <2>2. /\ ckpt'.cache = ckpt.cache
          /\ ckpt'.file = ckpt.cache \/ ckpt'.file = ckpt.file
        BY <1>a, <2>1, CheckpointEffects
    <2> QED
        BY <2>1, <2>2 DEF RecordsInv, OfTask
<1>7. CASE ControllerStep
    BY <1>7, <1>e, RecordsStay DEF ControllerStep
<1>8. CASE Fails
    BY <1>8, <1>e, RecordsStay DEF Fails
<1>9. ASSUME NEW unlinked \in Outcomes(UnlinksMayFail), Finish(unlinked) PROVE RecordsInv'
    <2>1. unlinked = TRUE
        BY DEF Outcomes
    <2>2. ckpt' = Clear(ckpt, unlinked) /\ pc' = "assemble" /\ UNCHANGED <<task, results, output>>
        BY <1>9 DEF Finish
    <2>3. ckpt'.cache = NoRecords /\ ckpt'.file = Missing
        BY <1>a, <2>1, <2>2, CheckpointEffects DEF RecordsInv
    <2> QED
        BY <1>b, <2>2, <2>3 DEF RecordsInv, OfTask
<1>10. CASE Return
    <2>1. OfTask(output')
        <3>1. CASE Answering = {}
            BY <1>10, <3>1 DEF Return, OfTask
        <3>2. CASE Answering # {}
            <4>1. Final \in Nat /\ Answering \in SUBSET (1 .. Final)
                BY DeclaredFacts DEF Answering
            <4>2. Max(Answering) \in 1 .. Final
                BY <3>2, <4>1, MaxProperties
            <4>3. Declared[Max(Answering)] \in Groups
                BY <4>2, DeclaredFacts
            <4> QED
                BY <1>10, <3>2, <4>3 DEF Return, RecordsInv
        <3> QED
            BY <3>1, <3>2
    <2> QED
        BY <1>10, <2>1, RecordsStay DEF Return
<1>11. CASE Crash
    <2>1. /\ ckpt' = NewCheckpoint(ckpt) /\ UNCHANGED <<task, results, output>>
          /\ last' = "crashed" /\ pc' = "idle"
        BY <1>11 DEF Crash
    <2>2. ckpt'.cache = NoRecords /\ ckpt'.file = ckpt.file
        BY <1>a, <2>1, CheckpointEffects
    <2> QED
        BY <1>b, <2>1, <2>2 DEF RecordsInv, OfTask
<1>12. CASE UNCHANGED vars
    BY <1>12 DEF vars, RecordsInv, OfTask
<1> QED
    BY <1>1, <1>2, <1>3, <1>4, <1>5, <1>6, <1>7, <1>8, <1>9, <1>10, <1>11, <1>12 DEF Next

(* Task augmentation: a group is run with the final output of the last group *)
(* before it that has one, also when that group was replayed after failures  *)
(* and crashes, and nothing of a run is of another task, provided the file   *)
(* of a finished task could be removed.                                      *)
THEOREM InputsAreChained ==
    ASSUME UnlinksMayFail = FALSE
    PROVE  Spec => []ChainedInput
<1>1. SerialType /\ RecordsInv /\ [Next]_vars => RecordsInv'
    BY RecordsStep
<1>2. SerialType /\ FedInv /\ RecordsInv => ChainedInput
    <2> SUFFICES ASSUME SerialType, FedInv, RecordsInv PROVE ChainedInput
        OBVIOUS
    <2>1. DOMAIN Declared = 1 .. Final
        BY DeclaredFacts
    <2>2. \A r \in Range(results) \cup {output} : r \in {None, Skipped} \/ TaskOf(r) = task
        BY DEF RecordsInv, OfTask, SerialType, Range
    <2> QED
        BY <2>1, <2>2 DEF ChainedInput, FedInv, ChainAt, Spoken
<1> QED
    BY <1>1, <1>2, SerialTypeInit, SerialTypeStep, LoopInit, LoopStep, RecordsInit, PTL DEF Spec

-----------------------------------------------------------------------------
\* The refinement.

(* What comes before a group, by its index.                                  *)
LEMMA EarlierGroups ==
    ASSUME NEW i \in 1 .. Final
    PROVE  \A h : h \in Earlier[Declared[i]] <=>
                      h \in Groups /\ \E j \in 1 .. Final : j < i /\ Declared[j] = h
<1>1. /\ Final \in Nat /\ DOMAIN Declared = 1 .. Final /\ Declared[i] \in Groups
      /\ \A j \in 1 .. Final : Declared[j] = Declared[i] => j = i
    BY DeclaredFacts
<1>2. Earlier[Declared[i]] = {h \in Groups : \E k, j \in 1 .. Final :
                                  k < j /\ Declared[k] = h /\ Declared[j] = Declared[i]}
    BY <1>1 DEF Earlier
<1> QED
    BY <1>1, <1>2

(* Within a run: the group the loop is at is started or settled, or nothing  *)
(* is.                                                                       *)
LEMMA SerialAdvance ==
    ASSUME SerialType, LoopInv, pc # "idle", pc' # "idle",
           NEW start \in SUBSET Groups, NEW settle \in SUBSET Groups,
           start \cup settle # {} => next \in 1 .. Final /\ Entered = next,
           \A g \in start \cup settle : g = Here,
           \A g \in start : pc # "run",
           \A g \in Groups : (results'[g] # None) <=> (results[g] # None \/ g \in settle),
           \A g \in Groups : results'[g] = None =>
               ((pc' = "run" /\ Here' = g) <=> ((pc = "run" /\ Here = g) \/ g \in start))
    PROVE  Dag!Next
<1>1. ~ Ended /\ ~ Ended'
    BY DEF Ended
<1>2. Dag!Done = {g \in Groups : results[g] # None}
    BY <1>1 DEF Dag!Done
<1>3. \A g \in start \cup settle : Dag!Ready(g) /\ results[g] = None
    <2> SUFFICES ASSUME start \cup settle # {}
                 PROVE  Dag!Ready(Here) /\ results[Here] = None
        OBVIOUS
    <2>1. /\ \A i \in 1 .. Final : i < next => results[Declared[i]] # None
          /\ results[Here] = None
        BY DeclaredFacts DEF LoopInv, Here
    <2>2. Earlier[Here] \subseteq {g \in Groups : results[g] # None}
        BY <2>1, EarlierGroups DEF Here
    <2> QED
        BY <1>2, <2>1, <2>2 DEF Dag!Ready
<1>4. Dag!Advance(start, settle)
    BY <1>1, <1>3 DEF Dag!Advance
<1> QED
    BY <1>4 DEF Dag!Next

LEMMA SerialSilent ==
    ASSUME SerialType, LoopInv, pc # "idle", pc' # "idle", results' = results,
           pc # "run", pc' # "run"
    PROVE  Dag!Next
<1> DEFINE none == {}
<1>1. none \in SUBSET Groups /\ \A g : g \notin none
    OBVIOUS
<1> HIDE DEF none
<1>2. none \cup none = {}
    BY <1>1
<1> QED
    BY <1>1, <1>2, SerialAdvance

LEMMA SerialGiveUp ==
    ASSUME pc # "idle", pc' = "idle", last' # "returned"
    PROVE  Dag!Next
<1>1. Dag!GiveUp
    BY DEF Dag!GiveUp, Dag!AllWaiting, Ended
<1> QED
    BY <1>1 DEF Dag!Next

(* The group the loop is at starts.                                          *)
LEMMA SerialStarts ==
    ASSUME SerialType, LoopInv, pc \in {"load", "expand"}, pc' = "run",
           next \in 1 .. Final, next' = next, results' = results
    PROVE  Dag!Next
<1> DEFINE none == {}
           start == {Here}
<1>1. Here \in Groups /\ Here' = Here /\ Entered = next
    BY DeclaredFacts DEF Here, Entered
<1>2. none \in SUBSET Groups /\ \A g : g \notin none
    OBVIOUS
<1>3. start \in SUBSET Groups /\ \A g : g \in start <=> g = Here
    BY <1>1
<1> HIDE DEF none, start
<1> QED
    BY <1>1, <1>2, <1>3, SerialAdvance

(* The group the loop is at gets its result.                                 *)
LEMMA SerialSettles ==
    ASSUME SerialType, LoopInv, pc \in {"load", "expand", "run"}, pc' \in {"load", "save"},
           next \in 1 .. Final, NEW record, record # None,
           results' = [results EXCEPT ![Here] = record]
    PROVE  Dag!Next
<1> DEFINE none == {}
           settle == {Here}
<1>1. Here \in Groups /\ Entered = next /\ results \in [Groups -> Nat \cup {None, Skipped}]
    BY DeclaredFacts DEF Here, Entered, SerialType
<1>2. none \in SUBSET Groups /\ \A g : g \notin none
    OBVIOUS
<1>3. settle \in SUBSET Groups /\ \A g : g \in settle <=> g = Here
    BY <1>1
<1> HIDE DEF none, settle
<1>4. \A g \in Groups : (results'[g] # None) <=> (results[g] # None \/ g \in settle)
    BY <1>1, <1>3
<1>5. \A g \in Groups : results'[g] = None => g # Here
    BY <1>1
<1> QED
    BY <1>1, <1>2, <1>3, <1>4, <1>5, SerialAdvance

LEMMA SerialDagInit == Init => Dag!Init
BY DEF Init, Dag!Init, Dag!AllWaiting, Ended

LEMMA SerialDagStep == SerialType /\ LoopInv /\ [Next]_vars => [Dag!Next]_(Dag!vars)
<1> SUFFICES ASSUME SerialType, LoopInv, [Next]_vars PROVE [Dag!Next]_(Dag!vars)
    OBVIOUS
<1>a. Final = Len(Declared) /\ Final \in Nat /\ None \notin Nat /\ Skipped # None
    BY DeclaredFacts, CheckpointAssumption, SerialAssumption DEF Final
<1>1. CASE StartRun
    <2>1. pc = "idle" /\ pc' = "load" /\ \A g \in Groups : results'[g] = None
        BY <1>1 DEF StartRun, NoRecords
    <2>2. Dag!Begin
        BY <2>1 DEF Dag!Begin, Dag!AllWaiting, Ended
    <2> QED
        BY <2>2 DEF Dag!Next
<1>2. ASSUME NEW readable, Load(readable) PROVE Dag!Next
    <2>1. pc = "load" /\ next \in 1 .. Final
        BY <1>2, <1>a DEF Load, SerialType
    <2>2. CASE ckpt'.cache[Here] # None
        BY <1>2, <2>1, <2>2, SerialSettles DEF Load
    <2>3. CASE ckpt'.cache[Here] = None /\ FanoutSource[Here] = None
        BY <1>2, <2>1, <2>3, SerialStarts DEF Load
    <2>4. CASE ckpt'.cache[Here] = None /\ FanoutSource[Here] # None
        BY <1>2, <2>1, <2>4, SerialSilent DEF Load
    <2> QED
        BY <2>2, <2>3, <2>4
<1>3. ASSUME NEW empty \in BOOLEAN, Expand(empty) PROVE Dag!Next
    <2>1. pc = "expand" /\ next \in 1 .. Final
        BY <1>3 DEF Expand, SerialType
    <2>2. CASE empty
        BY <1>3, <1>a, <2>1, <2>2, SerialSettles DEF Expand
    <2>3. CASE ~ empty
        BY <1>3, <2>1, <2>3, SerialStarts DEF Expand
    <2> QED
        BY <2>2, <2>3
<1>4. ASSUME NEW spoke \in BOOLEAN, RunGroup(spoke) PROVE Dag!Next
    <2> DEFINE record == Record(task, spoke)
    <2>1. /\ pc = "run" /\ next \in 1 .. Final /\ pc' = "save"
          /\ results' = [results EXCEPT ![Here] = record]
        BY <1>4 DEF RunGroup, SerialType
    <2>2. record # None
        <3>1. record \in Nat
            BY DEF Record, SerialType
        <3> QED
            BY <1>a, <3>1
    <2> HIDE DEF record
    <2> QED
        BY <2>1, <2>2, SerialSettles
<1>5. ASSUME NEW opened, Save(opened) PROVE Dag!Next
    BY <1>5, SerialSilent DEF Save
<1>6. ASSUME NEW complete, WriteEnds(complete) PROVE Dag!Next
    BY <1>6, SerialSilent DEF WriteEnds
<1>7. CASE ControllerStep
    BY <1>7, SerialSilent DEF ControllerStep
<1>8. CASE Fails
    BY <1>8, SerialGiveUp DEF Fails
<1>9. ASSUME NEW unlinked, Finish(unlinked) PROVE Dag!Next
    BY <1>9, SerialSilent DEF Finish
<1>10. CASE Return
    <2>1. pc = "assemble" /\ pc' = "idle" /\ last' = "returned" /\ results' = results
        BY <1>10 DEF Return
    <2>2. ~ Ended /\ ~ Ended'
        BY <2>1 DEF Ended
    <2>3. \A i \in 1 .. Final : results[Declared[i]] # None
        BY <1>a, <2>1 DEF LoopInv, SerialType, Entered
    <2>4. \A g \in Groups : results[g] # None
        BY <2>3, DeclaredFacts
    <2>5. Dag!Done = Groups
        BY <2>2, <2>4 DEF Dag!Done
    <2>6. Dag!Return
        BY <2>1, <2>2, <2>4, <2>5 DEF Dag!Return
    <2> QED
        BY <2>6 DEF Dag!Next
<1>11. CASE Crash
    BY <1>11, SerialGiveUp DEF Crash
<1>12. CASE UNCHANGED vars
    BY <1>12 DEF vars, Dag!vars, Ended, Here
<1> QED
    BY <1>1, <1>2, <1>3, <1>4, <1>5, <1>6, <1>7, <1>8, <1>9, <1>10, <1>11, <1>12 DEF Next

(* The serial executor implements DagExecution with every earlier group as a *)
(* dependency: the promise ParallelExecutor keeps, through replays, skipped  *)
(* fan-outs, failures and crashes.                                           *)
THEOREM SerialDagImplemented == Spec => ImplementsDag
BY SerialTypeInit, SerialTypeStep, LoopInit, LoopStep, SerialDagInit, SerialDagStep, PTL
DEF Spec, ImplementsDag, Dag!Spec
=============================================================================
