--------------------------- MODULE RecursionLemmas ---------------------------
(***************************************************************************)
(* Induction over the naturals and functions defined by recursion, with    *)
(* sets and functions in the place of predicates, and what the recursive   *)
(* operators on lists and graphs return: KahnOrder, Reached, CompileEdges, *)
(* Partition, and the community modules' FlattenSeq.                       *)
(***************************************************************************)
EXTENDS CapsuleGraph, SequenceTheorems, FiniteSetTheorems, TLAPS

(* The least number principle, from the well-foundedness of the finite sets  *)
(* 0 .. n under strict inclusion.                                            *)
LEMMA LeastNumber ==
    ASSUME NEW T \in SUBSET Nat, T # {}
    PROVE  \E m \in T : \A n \in T : m <= n
<1> DEFINE R == StrictSubsetOrdering(Nat)
           U == {0 .. n : n \in T}
<1>1. IsWellFoundedOn(R, FiniteSubsetsOf(Nat))
    BY FS_StrictSubsetOrderingWellFounded
<1>2. U \subseteq FiniteSubsetsOf(Nat) /\ U # {}
    <2>1. \A n \in T : IsFiniteSet(0 .. n) /\ 0 .. n \in SUBSET Nat
        BY FS_Interval
    <2> QED
        BY <2>1 DEF FiniteSubsetsOf
<1> HIDE DEF R
<1>3. PICK u \in U : \A v \in U : ~ (<<v, u>> \in R)
    BY <1>1, <1>2, WFMin
<1>4. PICK m \in T : u = 0 .. m
    OBVIOUS
<1>5. ASSUME NEW n \in T, n < m
      PROVE  FALSE
    <2>1. 0 .. n \subseteq 0 .. m /\ 0 .. n # 0 .. m
        BY <1>5
    <2>2. <<0 .. n, u>> \in R
        BY <2>1, <1>4 DEF R, StrictSubsetOrdering
    <2> QED
        BY <2>2, <1>3
<1> QED
    BY <1>5

(* Mathematical induction: a set that has 0, and the successor of each of    *)
(* its numbers, has them all.                                                *)
LEMMA Induction ==
    ASSUME NEW T, 0 \in T, \A n \in Nat : n \in T => n + 1 \in T
    PROVE  \A n \in Nat : n \in T
<1> SUFFICES ASSUME Nat \ T # {} PROVE FALSE
    OBVIOUS
<1>1. PICK m \in Nat \ T : \A n \in Nat \ T : m <= n
    BY LeastNumber
<1>2. m - 1 \in Nat /\ m - 1 \in T
    BY <1>1
<1> QED
    BY <1>1, <1>2

(* The same up to a bound.                                                   *)
LEMMA BoundedInduction ==
    ASSUME NEW N \in Nat, NEW T, 0 \in T, \A n \in 0 .. N - 1 : n \in T => n + 1 \in T
    PROVE  \A n \in 0 .. N : n \in T
<1> DEFINE U == {n \in Nat : n <= N => n \in T}
<1>1. 0 \in U
    OBVIOUS
<1>2. \A n \in Nat : n \in U => n + 1 \in U
    OBVIOUS
<1> HIDE DEF U
<1>3. \A n \in Nat : n \in U
    BY <1>1, <1>2, Induction
<1> QED
    BY <1>3 DEF U

\* h is computed on 0 .. N from its value at 0, step by step, within D.
Computed(h, N, D, base, step) ==
    /\ h \in [0 .. N -> D]
    /\ h[0] = base
    /\ \A n \in 1 .. N : h[n] = step[n][h[n - 1]]

(* A function is defined on 0 .. N by its value at 0 and a step.             *)
LEMMA Recursion ==
    ASSUME NEW N \in Nat, NEW D, NEW base \in D, NEW step \in [1 .. N -> [D -> D]]
    PROVE  \E h : Computed(h, N, D, base, step)
<1> DEFINE T == {m \in 0 .. N : \E h : Computed(h, m, D, base, step)}
<1>1. 0 \in T
    <2> DEFINE g == [n \in 0 .. 0 |-> base]
    <2>1. Computed(g, 0, D, base, step)
        BY DEF Computed
    <2> QED
        BY <2>1
<1>2. ASSUME NEW m \in 0 .. N - 1, m \in T
      PROVE  m + 1 \in T
    <2>1. PICK h : Computed(h, m, D, base, step)
        BY <1>2
    <2> DEFINE g == [n \in 0 .. m + 1 |-> IF n <= m THEN h[n] ELSE step[m + 1][h[m]]]
    <2>2. g \in [0 .. m + 1 -> D]
        <3>1. m + 1 \in 1 .. N /\ h[m] \in D /\ h \in [0 .. m -> D]
            BY <2>1 DEF Computed
        <3>2. step[m + 1][h[m]] \in D
            BY <3>1
        <3> QED
            BY <3>1, <3>2
    <2>3. g[0] = base /\ \A n \in 1 .. m + 1 : g[n] = step[n][g[n - 1]]
        <3>1. g[0] = base /\ \A n \in 0 .. m : g[n] = h[n]
            BY <2>1 DEF Computed
        <3>2. g[m + 1] = step[m + 1][g[m]]
            BY <3>1
        <3>3. ASSUME NEW n \in 1 .. m + 1
              PROVE  g[n] = step[n][g[n - 1]]
            <4>1. CASE n = m + 1
                BY <3>2, <4>1
            <4>2. CASE n \in 1 .. m
                BY <2>1, <3>1, <4>2 DEF Computed
            <4> QED
                BY <4>1, <4>2
        <3> QED
            BY <3>1, <3>3
    <2> HIDE DEF g
    <2>4. Computed(g, m + 1, D, base, step)
        BY <2>2, <2>3 DEF Computed
    <2> QED
        BY <2>4
<1> HIDE DEF T
<1>3. \A n \in 0 .. N - 1 : n \in T => n + 1 \in T
    BY <1>2
<1>4. \A n \in 0 .. N : n \in T
    BY <1>1, <1>3, BoundedInduction
<1>5. N \in T
    BY <1>4
<1> QED
    BY <1>5 DEF T

-----------------------------------------------------------------------------
(* The list that Keep builds, after each element of s.                       *)
LEMMA KeepIsComputed ==
    ASSUME NEW A, NEW s \in Seq(A), NEW S
    PROVE  \E kept : /\ kept[0] = <<>>
                     /\ \A n \in 1 .. Len(s) :
                            kept[n] = IF s[n] \in S THEN Append(kept[n - 1], s[n])
                                      ELSE kept[n - 1]
                     /\ Keep(s, S) = kept[Len(s)]
<1> DEFINE N == Len(s)
           Body(f, n) == IF n = 0 THEN <<>>
                         ELSE IF s[n] \in S THEN Append(f[n - 1], s[n]) ELSE f[n - 1]
           kept == CHOOSE f : f = [n \in 0 .. N |-> Body(f, n)]
           step == [n \in 1 .. N |-> [v \in Seq(A) |->
                                         IF s[n] \in S THEN Append(v, s[n]) ELSE v]]
<1>1. N \in Nat /\ \A n \in 1 .. N : s[n] \in A
    BY LenProperties, ElementOfSeq
<1>2. kept = [n \in 0 .. N |-> Body(kept, n)]
    <2> DEFINE D == Seq(A)
               base == <<>>
    <2>1. \A v \in D, x \in A : Append(v, x) \in D
        BY AppendProperties
    <2>2. step \in [1 .. N -> [D -> D]] /\ base \in D
        BY <1>1, <2>1, EmptySeq
    <2> HIDE DEF step, D, base, N
    <2>3. PICK h : Computed(h, N, D, base, step)
        BY <1>1, <2>2, Recursion DEF N
    <2>a. /\ h \in [0 .. N -> D] /\ h[0] = base
          /\ \A n \in 1 .. N : h[n] = step[n][h[n - 1]]
        BY <2>3 DEF Computed
    <2>4. \A n \in 1 .. N : h[n - 1] \in D
        <3>1. \A n \in 1 .. N : n - 1 \in 0 .. N
            BY <1>1
        <3> QED
            BY <2>a, <3>1
    <2>5. ASSUME NEW n \in 0 .. N
          PROVE  h[n] = Body(h, n)
        <3>1. CASE n = 0
            BY <2>a, <3>1 DEF base
        <3>2. CASE n \in 1 .. N
            <4>1. h[n] = step[n][h[n - 1]] /\ h[n - 1] \in D
                BY <2>a, <2>4, <3>2
            <4>2. step[n][h[n - 1]] = IF s[n] \in S THEN Append(h[n - 1], s[n]) ELSE h[n - 1]
                BY <3>2, <4>1 DEF step, D
            <4> QED
                BY <3>2, <4>1, <4>2
        <3> QED
            BY <1>1, <3>1, <3>2
    <2>6. h = [n \in 0 .. N |-> Body(h, n)]
        BY <2>a, <2>5
    <2> HIDE DEF Body
    <2> QED
        BY <2>6 DEF kept
<1> HIDE DEF kept
<1>3. kept[0] = <<>> /\ \A n \in 1 .. N :
          kept[n] = IF s[n] \in S THEN Append(kept[n - 1], s[n]) ELSE kept[n - 1]
    <2>1. \A n \in 0 .. N : kept[n] = Body(kept, n)
        <3> HIDE DEF Body, N
        <3> QED
            BY <1>2, Zenon
    <2>2. 0 \in 0 .. N /\ \A n \in 1 .. N : n \in 0 .. N /\ n # 0
        BY <1>1
    <2> QED
        BY <2>1, <2>2, Zenon
<1>4. Keep(s, S) = kept[N]
    BY DEF Keep, kept
<1> QED
    BY <1>3, <1>4

(* Keep drops the elements outside S and changes nothing else.               *)
LEMMA KeepProperties ==
    ASSUME NEW A, NEW s \in Seq(A), NEW S
    PROVE  /\ Keep(s, S) \in Seq(A)
           /\ \A x : x \in Range(Keep(s, S)) <=> x \in Range(s) /\ x \in S
           /\ IsInjective(s) => IsInjective(Keep(s, S))
<1> DEFINE N == Len(s)
<1>1. N \in Nat /\ \A n \in 1 .. N : s[n] \in A
    BY LenProperties, ElementOfSeq
<1>2. PICK kept : /\ kept[0] = <<>>
                  /\ \A n \in 1 .. N :
                         kept[n] = IF s[n] \in S THEN Append(kept[n - 1], s[n]) ELSE kept[n - 1]
                  /\ Keep(s, S) = kept[N]
    BY KeepIsComputed
<1>3. kept[0] = <<>> /\ \A n \in 1 .. N :
          kept[n] = IF s[n] \in S THEN Append(kept[n - 1], s[n]) ELSE kept[n - 1]
    BY <1>2
<1> DEFINE From(v, n) == \A a \in 1 .. Len(v) : \E j \in 1 .. n : v[a] = s[j] /\ s[j] \in S
           Has(v, n) == \A j \in 1 .. n : s[j] \in S => \E a \in 1 .. Len(v) : v[a] = s[j]
           Inj(v) == \A a, b \in 1 .. Len(v) : v[a] = v[b] => a = b
           T == {n \in 0 .. N : /\ kept[n] \in Seq(A) /\ From(kept[n], n) /\ Has(kept[n], n)
                                /\ IsInjective(s) => Inj(kept[n])}
<1>4. 0 \in T
    <2>1. <<>> \in Seq(A) /\ Len(<<>>) = 0
        BY EmptySeq
    <2>2. /\ kept[0] \in Seq(A) /\ From(kept[0], 0) /\ Has(kept[0], 0)
          /\ IsInjective(s) => Inj(kept[0])
        BY <1>3, <2>1
    <2> QED
        BY <1>1, <2>2
<1>5. ASSUME NEW n \in 0 .. N - 1, n \in T
      PROVE  n + 1 \in T
    <2> DEFINE v == kept[n]
               w == kept[n + 1]
    <2>1. v \in Seq(A) /\ From(v, n) /\ Has(v, n) /\ (IsInjective(s) => Inj(v)) /\ n + 1 \in 1 .. N
        BY <1>1, <1>5
    <2>2. w = IF s[n + 1] \in S THEN Append(v, s[n + 1]) ELSE v
        BY <1>3, <2>1
    <2>3. CASE s[n + 1] \in S
        <3> DEFINE x == s[n + 1]
        <3>1. /\ w \in Seq(A) /\ Len(w) = Len(v) + 1 /\ Len(v) \in Nat
              /\ \A a \in 1 .. Len(v) : w[a] = v[a]
              /\ w[Len(v) + 1] = x
            BY <1>1, <2>1, <2>2, <2>3, AppendProperties
        <3> HIDE DEF v, w
        <3>2. From(w, n + 1) /\ Has(w, n + 1)
            <4>1. From(w, n + 1)
                <5> SUFFICES ASSUME NEW a \in 1 .. Len(w)
                             PROVE  \E j \in 1 .. n + 1 : w[a] = s[j] /\ s[j] \in S
                    OBVIOUS
                <5>1. CASE a \in 1 .. Len(v)
                    <6>1. PICK j \in 1 .. n : v[a] = s[j] /\ s[j] \in S
                        BY <2>1, <5>1
                    <6> QED
                        BY <3>1, <5>1, <6>1
                <5>2. CASE a = Len(v) + 1
                    BY <2>1, <2>3, <3>1, <5>2
                <5> QED
                    BY <3>1, <5>1, <5>2
            <4>2. Has(w, n + 1)
                <5> SUFFICES ASSUME NEW j \in 1 .. n + 1, s[j] \in S
                             PROVE  \E a \in 1 .. Len(w) : w[a] = s[j]
                    OBVIOUS
                <5>1. CASE j \in 1 .. n
                    <6>1. PICK a \in 1 .. Len(v) : v[a] = s[j]
                        BY <2>1, <5>1
                    <6> QED
                        BY <3>1, <6>1
                <5>2. CASE j = n + 1
                    BY <3>1, <5>2
                <5> QED
                    BY <2>1, <5>1, <5>2
            <4> QED
                BY <4>1, <4>2
        <3>3. ASSUME IsInjective(s) PROVE Inj(w)
            <4>1. \A a \in 1 .. Len(v) : v[a] # x
                <5>1. \A j \in 1 .. n : s[j] # x
                    BY <1>1, <2>1, <3>3, LenProperties DEF IsInjective
                <5> QED
                    BY <2>1, <5>1
            <4>2. Inj(v) /\ \A a \in 1 .. Len(w) : a \in 1 .. Len(v) \/ a = Len(v) + 1
                BY <2>1, <3>1, <3>3
            <4> SUFFICES ASSUME NEW a \in 1 .. Len(w), NEW b \in 1 .. Len(w), w[a] = w[b]
                         PROVE  a = b
                OBVIOUS
            <4>3. CASE a \in 1 .. Len(v) /\ b \in 1 .. Len(v)
                BY <3>1, <4>2, <4>3
            <4>4. CASE a = Len(v) + 1 /\ b \in 1 .. Len(v)
                BY <3>1, <4>1, <4>4
            <4>5. CASE a \in 1 .. Len(v) /\ b = Len(v) + 1
                BY <3>1, <4>1, <4>5
            <4> QED
                BY <4>2, <4>3, <4>4, <4>5
        <3>4. n + 1 \in 0 .. N
            BY <2>1
        <3> QED
            BY <3>1, <3>2, <3>3, <3>4 DEF w
    <2>4. CASE s[n + 1] \notin S
        <3>1. w = v
            BY <2>2, <2>4
        <3> HIDE DEF v, w
        <3>2. From(w, n + 1) /\ Has(w, n + 1)
            <4>1. n \in Nat /\ \A j \in 1 .. n + 1 : j \in 1 .. n \/ j = n + 1
                BY <1>5
            <4>2. \A j \in 1 .. n : j \in 1 .. n + 1
                BY <4>1
            <4>3. From(v, n) /\ Has(v, n)
                BY <2>1
            <4> HIDE DEF T
            <4>4. From(w, n + 1)
                BY <3>1, <4>2, <4>3, Zenon
            <4>5. Has(w, n + 1)
                BY <2>4, <3>1, <4>1, <4>3, Zenon
            <4> QED
                BY <4>4, <4>5
        <3>3. n + 1 \in 0 .. N
            BY <2>1
        <3>4. w \in Seq(A) /\ (IsInjective(s) => Inj(w))
            BY <2>1, <3>1
        <3> QED
            BY <3>2, <3>3, <3>4 DEF w
    <2> QED
        BY <2>3, <2>4
<1>6. N \in T
    <2> HIDE DEF T
    <2>1. \A n \in 0 .. N : n \in T
        BY <1>1, <1>4, <1>5, BoundedInduction
    <2> QED
        BY <1>1, <2>1
<1>7. Keep(s, S) = kept[N]
    BY <1>2
<1> DEFINE w == Keep(s, S)
<1>8. /\ w \in Seq(A) /\ From(w, N) /\ Has(w, N)
      /\ IsInjective(s) => Inj(w)
    BY <1>6, <1>7
<1> HIDE DEF w
<1>9. DOMAIN w = 1 .. Len(w) /\ DOMAIN s = 1 .. N
    BY <1>8, LenProperties
<1>10. \A x : x \in Range(w) <=> x \in Range(s) /\ x \in S
    <2> TAKE x
    <2>1. ASSUME x \in Range(w) PROVE x \in Range(s) /\ x \in S
        <3>1. PICK a \in 1 .. Len(w) : x = w[a]
            BY <1>9, <2>1 DEF Range
        <3>2. PICK j \in 1 .. N : w[a] = s[j] /\ s[j] \in S
            BY <1>8
        <3> QED
            BY <1>9, <3>1, <3>2 DEF Range
    <2>2. ASSUME x \in Range(s), x \in S PROVE x \in Range(w)
        <3>1. PICK j \in 1 .. N : x = s[j]
            BY <1>9, <2>2 DEF Range
        <3>2. PICK a \in 1 .. Len(w) : w[a] = s[j]
            BY <1>8, <2>2, <3>1
        <3> QED
            BY <1>9, <3>1, <3>2 DEF Range
    <2> QED
        BY <2>1, <2>2
<1>11. IsInjective(s) => IsInjective(w)
    BY <1>8, <1>9 DEF IsInjective
<1> QED
    BY <1>8, <1>10, <1>11 DEF w

(* Keep keeps a list of elements of S, and a first element in S first.       *)
LEMMA KeepAll ==
    ASSUME NEW A, NEW s \in Seq(A), NEW S, Range(s) \subseteq S
    PROVE  Keep(s, S) = s
<1> DEFINE N == Len(s)
<1>1. N \in Nat /\ DOMAIN s = 1 .. N /\ \A n \in 1 .. N : s[n] \in A /\ s[n] \in S
    <2>1. N \in Nat /\ DOMAIN s = 1 .. N
        BY LenProperties
    <2> QED
        BY <2>1, ElementOfSeq DEF Range
<1>2. PICK kept : /\ kept[0] = <<>>
                  /\ \A n \in 1 .. N :
                         kept[n] = IF s[n] \in S THEN Append(kept[n - 1], s[n]) ELSE kept[n - 1]
                  /\ Keep(s, S) = kept[N]
    BY KeepIsComputed
<1> DEFINE T == {n \in 0 .. N : /\ kept[n] \in Seq(A) /\ Len(kept[n]) = n
                                /\ \A a \in 1 .. n : kept[n][a] = s[a]}
<1>3. 0 \in T
    <2>1. kept[0] \in Seq(A) /\ Len(kept[0]) = 0 /\ 0 \in 0 .. N
        BY <1>1, <1>2, EmptySeq
    <2> QED
        BY <2>1
<1>4. ASSUME NEW n \in 0 .. N - 1, n \in T
      PROVE  n + 1 \in T
    <2>1. n \in Nat /\ n + 1 \in 1 .. N /\ n + 1 \in 0 .. N /\ (n + 1) - 1 = n
        BY <1>1
    <2>2. kept[n + 1] = Append(kept[n], s[n + 1])
        BY <1>1, <1>2, <2>1
    <2>3. /\ kept[n + 1] \in Seq(A) /\ Len(kept[n + 1]) = n + 1
          /\ \A a \in 1 .. n : kept[n + 1][a] = kept[n][a]
          /\ kept[n + 1][n + 1] = s[n + 1]
        BY <1>1, <1>4, <2>1, <2>2, AppendProperties
    <2>4. \A a \in 1 .. n + 1 : a \in 1 .. n \/ a = n + 1
        BY <2>1
    <2> QED
        BY <1>4, <2>1, <2>3, <2>4
<1>5. N \in T
    <2> HIDE DEF T
    <2>1. \A n \in 0 .. N : n \in T
        BY <1>1, <1>3, <1>4, BoundedInduction
    <2> QED
        BY <1>1, <2>1
<1>6. kept[N] \in Seq(A) /\ Len(kept[N]) = N /\ \A a \in 1 .. N : kept[N][a] = s[a]
    BY <1>5
<1> QED
    BY <1>1, <1>2, <1>6, SeqEqual

LEMMA KeepFirst ==
    ASSUME NEW A, NEW s \in Seq(A), s # <<>>, NEW S, s[1] \in S
    PROVE  Keep(s, S) # <<>> /\ Keep(s, S)[1] = s[1]
<1> DEFINE N == Len(s)
<1>1. N \in Nat /\ N # 0 /\ \A n \in 1 .. N : s[n] \in A
    BY LenProperties, ElementOfSeq, EmptySeq
<1>2. PICK kept : /\ kept[0] = <<>>
                  /\ \A n \in 1 .. N :
                         kept[n] = IF s[n] \in S THEN Append(kept[n - 1], s[n]) ELSE kept[n - 1]
                  /\ Keep(s, S) = kept[N]
    BY KeepIsComputed
<1> DEFINE T == {n \in 0 .. N : /\ kept[n] \in Seq(A)
                                /\ n # 0 => Len(kept[n]) >= 1 /\ kept[n][1] = s[1]}
<1>3. 0 \in T
    <2>1. kept[0] \in Seq(A) /\ Len(kept[0]) = 0 /\ 0 \in 0 .. N
        BY <1>1, <1>2, EmptySeq
    <2> QED
        BY <2>1
<1>4. ASSUME NEW n \in 0 .. N - 1, n \in T
      PROVE  n + 1 \in T
    <2>1. n \in Nat /\ n + 1 \in 1 .. N /\ n + 1 \in 0 .. N /\ (n + 1) - 1 = n
        BY <1>1
    <2>2. kept[n + 1] = IF s[n + 1] \in S THEN Append(kept[n], s[n + 1]) ELSE kept[n]
        BY <1>1, <1>2, <2>1
    <2>3. CASE s[n + 1] \in S
        <3>1. /\ kept[n + 1] \in Seq(A) /\ Len(kept[n + 1]) = Len(kept[n]) + 1
              /\ Len(kept[n]) \in Nat
              /\ \A a \in 1 .. Len(kept[n]) : kept[n + 1][a] = kept[n][a]
              /\ kept[n + 1][Len(kept[n]) + 1] = s[n + 1]
            BY <1>1, <1>4, <2>1, <2>2, <2>3, AppendProperties, LenProperties
        <3>2. CASE n = 0
            <4>1. Len(kept[n]) = 0
                BY <1>2, <3>2, EmptySeq
            <4> QED
                BY <2>1, <3>1, <3>2, <4>1
        <3>3. CASE n # 0
            BY <1>4, <2>1, <3>1, <3>3
        <3> QED
            BY <3>2, <3>3
    <2>4. CASE s[n + 1] \notin S
        BY <1>4, <2>1, <2>2, <2>4
    <2> QED
        BY <2>3, <2>4
<1>5. N \in T
    <2> HIDE DEF T
    <2>1. \A n \in 0 .. N : n \in T
        BY <1>1, <1>3, <1>4, BoundedInduction
    <2> QED
        BY <1>1, <2>1
<1>6. Len(kept[N]) >= 1 /\ kept[N][1] = s[1]
    BY <1>1, <1>5
<1> QED
    BY <1>2, <1>6, EmptySeq

(* A dict built from a list that names nothing twice has the list as keys.   *)
LEMMA DictKeysInjective ==
    ASSUME NEW A, NEW s \in Seq(A), IsInjective(s)
    PROVE  DictKeys(s) = s
<1> DEFINE N == Len(s)
           Body(f, n) == IF n = 0 THEN <<>>
                         ELSE IF s[n] \in Range(f[n - 1]) THEN f[n - 1]
                         ELSE Append(f[n - 1], s[n])
           keys == CHOOSE f : f = [n \in 0 .. N |-> Body(f, n)]
           D == Seq(A)
           base == <<>>
           step == [n \in 1 .. N |-> [v \in D |->
                       IF s[n] \in Range(v) THEN v ELSE Append(v, s[n])]]
<1>1. N \in Nat /\ DOMAIN s = 1 .. N /\ \A n \in 1 .. N : s[n] \in A
    BY LenProperties, ElementOfSeq
<1>2. \A v \in D, x \in A : Append(v, x) \in D
    BY AppendProperties
<1>3. step \in [1 .. N -> [D -> D]] /\ base \in D
    BY <1>1, <1>2, EmptySeq
<1>4. \A n \in 1 .. N, v \in D :
          step[n][v] = IF s[n] \in Range(v) THEN v ELSE Append(v, s[n])
    OBVIOUS
<1> HIDE DEF step, D, base, N
<1>5. PICK h : Computed(h, N, D, base, step)
    BY <1>1, <1>3, Recursion
<1>6. /\ h \in [0 .. N -> D] /\ h[0] = base
      /\ \A n \in 1 .. N : h[n] = step[n][h[n - 1]]
    BY <1>5 DEF Computed
<1>7. /\ \A n \in 1 .. N : n - 1 \in 0 .. N /\ n # 0 /\ n \in 0 .. N
      /\ \A n \in 0 .. N : n = 0 \/ n \in 1 .. N
      /\ 0 \in 0 .. N
    BY <1>1
<1>8. h = [n \in 0 .. N |-> Body(h, n)]
    <2>1. \A n \in 1 .. N : h[n] = Body(h, n)
        BY <1>4, <1>6, <1>7
    <2>2. h[0] = Body(h, 0)
        BY <1>6 DEF base
    <2>3. \A n \in 0 .. N : h[n] = Body(h, n)
        <3> HIDE DEF Body
        <3> QED
            BY <1>7, <2>1, <2>2
    <2> HIDE DEF Body
    <2> QED
        BY <1>6, <2>3
<1>9. keys = [n \in 0 .. N |-> Body(keys, n)]
    <2> HIDE DEF Body
    <2> QED
        BY <1>8 DEF keys
<1> HIDE DEF keys
<1>10. keys[0] = <<>> /\ \A n \in 1 .. N :
           keys[n] = IF s[n] \in Range(keys[n - 1]) THEN keys[n - 1]
                     ELSE Append(keys[n - 1], s[n])
    <2>1. \A n \in 0 .. N : keys[n] = Body(keys, n)
        <3> HIDE DEF Body
        <3> QED
            BY <1>9, Zenon
    <2> QED
        BY <1>7, <2>1, Zenon
<1> DEFINE T == {n \in 0 .. N : /\ keys[n] \in Seq(A) /\ Len(keys[n]) = n
                                /\ \A i \in 1 .. n : keys[n][i] = s[i]}
<1>11. 0 \in T
    <2>1. keys[0] \in Seq(A) /\ Len(keys[0]) = 0
        BY <1>10, EmptySeq
    <2>2. \A i \in 1 .. 0 : keys[0][i] = s[i]
        OBVIOUS
    <2> QED
        BY <1>7, <2>1, <2>2
<1>12. ASSUME NEW n \in 0 .. N - 1, n \in T
       PROVE  n + 1 \in T
    <2> DEFINE v == keys[n]
               x == s[n + 1]
    <2>1. /\ v \in Seq(A) /\ Len(v) = n /\ \A i \in 1 .. n : v[i] = s[i]
          /\ n \in Nat /\ n + 1 \in 1 .. N /\ n + 1 \in 0 .. N /\ x \in A
        BY <1>1, <1>12
    <2>2. keys[n + 1] = IF x \in Range(v) THEN v ELSE Append(v, x)
        BY <1>10, <2>1
    <2> HIDE DEF v, T
    <2>3. x \notin Range(v)
        <3>1. DOMAIN v = 1 .. n
            BY <2>1, LenProperties
        <3>2. \A i \in 1 .. n : s[i] # x
            BY <1>1, <2>1 DEF IsInjective
        <3> HIDE DEF x
        <3> QED
            BY <2>1, <3>1, <3>2 DEF Range
    <2>4. /\ Append(v, x) \in Seq(A) /\ Len(Append(v, x)) = n + 1
          /\ \A i \in 1 .. n : Append(v, x)[i] = v[i]
          /\ Append(v, x)[n + 1] = x
        BY <2>1, AppendProperties
    <2>5. keys[n + 1] = Append(v, x)
        BY <2>2, <2>3
    <2>6. \A i \in 1 .. n + 1 : Append(v, x)[i] = s[i]
        BY <2>1, <2>4
    <2> QED
        BY <2>1, <2>4, <2>5, <2>6 DEF T
<1>13. N \in T
    <2> HIDE DEF T
    <2>1. \A n \in 0 .. N : n \in T
        BY <1>1, <1>11, <1>12, BoundedInduction
    <2> QED
        BY <1>7, <1>1, <2>1
<1>14. DictKeys(s) = keys[N]
    BY DEF DictKeys, keys, N
<1>15. DictKeys(s) \in Seq(A) /\ Len(DictKeys(s)) = N /\ \A i \in 1 .. N : DictKeys(s)[i] = s[i]
    BY <1>13, <1>14
<1> QED
    BY <1>15, SeqEqual DEF N

-----------------------------------------------------------------------------
(* Taking the first of a list.                                               *)
LEMMA TakeFirstOf ==
    ASSUME NEW A, NEW s \in Seq(A), s # <<>>
    PROVE  /\ Head(s) \in A /\ Tail(s) \in Seq(A) /\ Tail(s) # s
           /\ Range(s) = {Head(s)} \cup Range(Tail(s))
           /\ IsInjective(s) => IsInjective(Tail(s)) /\ Head(s) \notin Range(Tail(s))
<1> DEFINE N == Len(s)
           t == Tail(s)
<1>1. /\ N \in Nat \ {0} /\ DOMAIN s = 1 .. N /\ \A i \in 1 .. N : s[i] \in A
      /\ Head(s) = s[1] /\ t \in Seq(A) /\ Len(t) = N - 1
      /\ \A i \in 1 .. N - 1 : t[i] = s[i + 1]
    BY HeadTailProperties, LenProperties, ElementOfSeq, EmptySeq
<1>2. DOMAIN t = 1 .. N - 1
    BY <1>1, LenProperties
<1> HIDE DEF t
<1>3. t # s
    <2>1. N \in Nat /\ Len(t) = N - 1 /\ N = Len(s)
        BY <1>1
    <2> HIDE DEF N
    <2>2. Len(t) # N
        BY <2>1
    <2> QED
        BY <2>1, <2>2
<1> HIDE DEF N
<1>4. Range(s) = {s[1]} \cup Range(t)
    <2>1. ASSUME NEW i \in 1 .. N PROVE s[i] \in {s[1]} \cup Range(t)
        <3>1. CASE i = 1
            BY <3>1
        <3>2. CASE i # 1
            <4>1. i - 1 \in 1 .. N - 1 /\ t[i - 1] = s[i]
                BY <1>1, <3>2
            <4> QED
                BY <1>2, <4>1 DEF Range
        <3> QED
            BY <3>1, <3>2
    <2>2. ASSUME NEW i \in 1 .. N - 1 PROVE t[i] \in Range(s)
        <3>1. i + 1 \in 1 .. N
            BY <1>1
        <3> QED
            BY <1>1, <3>1 DEF Range
    <2>3. s[1] \in Range(s)
        BY <1>1 DEF Range
    <2> QED
        BY <1>1, <1>2, <2>1, <2>2, <2>3 DEF Range
<1>5. ASSUME IsInjective(s) PROVE IsInjective(t) /\ s[1] \notin Range(t)
    <2>1. \A i \in 1 .. N - 1 : i + 1 \in 1 .. N /\ i + 1 # 1
        BY <1>1
    <2>2. 1 \in 1 .. N
        BY <1>1
    <2>3. s[1] \notin Range(t)
        <3>1. ASSUME NEW i \in 1 .. N - 1 PROVE t[i] # s[1]
            <4>1. i + 1 \in DOMAIN s /\ 1 \in DOMAIN s /\ t[i] = s[i + 1]
                BY <1>1, <1>2, <2>1, <2>2
            <4> QED
                BY <1>5, <2>1, <4>1 DEF IsInjective
        <3> QED
            BY <1>2, <3>1 DEF Range
    <2>4. ASSUME NEW i \in 1 .. N - 1, NEW j \in 1 .. N - 1, t[i] = t[j]
          PROVE  i + 1 = j + 1
        <3>1. s[i + 1] = s[j + 1] /\ i + 1 \in DOMAIN s /\ j + 1 \in DOMAIN s
            BY <1>1, <2>1, <2>4
        <3> QED
            BY <1>5, <3>1 DEF IsInjective
    <2> QED
        BY <1>1, <1>2, <2>3, <2>4 DEF IsInjective
<1> QED
    BY <1>1, <1>3, <1>4, <1>5 DEF t

(* Appending to a list.                                                      *)
LEMMA AppendOneTo ==
    ASSUME NEW A, NEW s \in Seq(A), NEW g \in A
    PROVE  /\ Append(s, g) \in Seq(A)
           /\ Range(Append(s, g)) = Range(s) \cup {g}
           /\ IsInjective(s) /\ g \notin Range(s) => IsInjective(Append(s, g))
<1> DEFINE N == Len(s)
           t == Append(s, g)
<1>1. /\ N \in Nat /\ DOMAIN s = 1 .. N /\ t \in Seq(A) /\ Len(t) = N + 1
      /\ \A i \in 1 .. N : t[i] = s[i]
      /\ t[N + 1] = g
    BY AppendProperties, LenProperties
<1>2. DOMAIN t = 1 .. N + 1
    BY <1>1, LenProperties
<1> HIDE DEF t, N
<1>3. \A i \in 1 .. N + 1 : i \in 1 .. N \/ i = N + 1
    BY <1>1
<1>4. N + 1 \in 1 .. N + 1 /\ \A i \in 1 .. N : i \in 1 .. N + 1
    BY <1>1
<1>5. Range(t) = Range(s) \cup {g}
    BY <1>1, <1>2, <1>3, <1>4 DEF Range
<1>6. IsInjective(s) /\ g \notin Range(s) => IsInjective(t)
    BY <1>1, <1>2, <1>3 DEF IsInjective, Range
<1> QED
    BY <1>1, <1>5, <1>6 DEF t

(* Two lists without a common element, one after the other.                  *)
LEMMA ConcatTwo ==
    ASSUME NEW A, NEW s \in Seq(A), NEW t \in Seq(A)
    PROVE  /\ s \o t \in Seq(A)
           /\ Range(s \o t) = Range(s) \cup Range(t)
           /\ IsInjective(s) /\ IsInjective(t) /\ Range(s) \cap Range(t) = {} =>
                  IsInjective(s \o t)
<1> DEFINE M == Len(s)
           N == Len(t)
           u == s \o t
<1>1. /\ M \in Nat /\ DOMAIN s = 1 .. M /\ N \in Nat /\ DOMAIN t = 1 .. N
      /\ u \in Seq(A) /\ Len(u) = M + N
      /\ \A i \in 1 .. M + N : u[i] = IF i <= M THEN s[i] ELSE t[i - M]
    BY ConcatProperties, LenProperties
<1>2. DOMAIN u = 1 .. M + N
    BY <1>1, LenProperties
<1>3. Range(u) = Range(s) \cup Range(t)
    BY RangeConcatenation
<1> HIDE DEF u, M, N
<1>4. ASSUME IsInjective(s), IsInjective(t), Range(s) \cap Range(t) = {}
      PROVE  IsInjective(u)
    <2>1. \A i \in 1 .. M + N : i \in 1 .. M \/ (i - M \in 1 .. N /\ ~(i <= M))
        BY <1>1
    <2>2. \A i \in 1 .. M : u[i] = s[i] /\ u[i] \in Range(s)
        <3>1. \A i \in 1 .. M : s[i] \in Range(s)
            BY <1>1 DEF Range
        <3>2. \A i \in 1 .. M : i \in 1 .. M + N /\ i <= M
            BY <1>1
        <3>3. \A i \in 1 .. M : u[i] = s[i]
            BY <1>1, <3>2
        <3> QED
            BY <3>1, <3>3
    <2>3. ASSUME NEW i \in 1 .. M + N, i - M \in 1 .. N, ~(i <= M)
          PROVE  u[i] = t[i - M] /\ u[i] \in Range(t)
        <3>1. u[i] = t[i - M]
            BY <1>1, <2>3
        <3>2. \A k \in 1 .. N : t[k] \in Range(t)
            BY <1>1 DEF Range
        <3> QED
            BY <2>3, <3>1, <3>2
    <2>4. \A i, j \in 1 .. M : s[i] = s[j] => i = j
        BY <1>1, <1>4 DEF IsInjective
    <2>5. \A i, j \in 1 .. N : t[i] = t[j] => i = j
        BY <1>1, <1>4 DEF IsInjective
    <2> SUFFICES ASSUME NEW i \in 1 .. M + N, NEW j \in 1 .. M + N, u[i] = u[j]
                 PROVE  i = j
        BY <1>2 DEF IsInjective
    <2>6. CASE i \in 1 .. M /\ j \in 1 .. M
        BY <2>2, <2>4, <2>6
    <2>7. CASE i - M \in 1 .. N /\ ~(i <= M) /\ j - M \in 1 .. N /\ ~(j <= M)
        <3>1. i - M = j - M
            BY <2>3, <2>5, <2>7
        <3> QED
            BY <1>1, <3>1
    <2>8. CASE \/ i \in 1 .. M /\ j - M \in 1 .. N /\ ~(j <= M)
               \/ j \in 1 .. M /\ i - M \in 1 .. N /\ ~(i <= M)
        BY <1>4, <2>2, <2>3, <2>8
    <2> QED
        BY <2>1, <2>6, <2>7, <2>8
<1> QED
    BY <1>1, <1>3, <1>4 DEF u

(* A list that names nothing twice is as long as the set of its elements.    *)
LEMMA InjectiveLength ==
    ASSUME NEW A, NEW s \in Seq(A), IsInjective(s)
    PROVE  IsFiniteSet(Range(s)) /\ Cardinality(Range(s)) = Len(s)
<1> DEFINE N == Len(s)
<1>1. N \in Nat /\ DOMAIN s = 1 .. N /\ s \in [1 .. N -> A]
    BY LenProperties
<1>2. IsFiniteSet(1 .. N) /\ Cardinality(1 .. N) = N
    BY <1>1, FS_Interval
<1>3. s \in Surjection(1 .. N, Range(s)) /\ s \in Injection(1 .. N, Range(s))
    BY <1>1 DEF Surjection, Injection, IsInjective, Range
<1> QED
    BY <1>2, <1>3, FS_Surjection

-----------------------------------------------------------------------------
(* Kahn's algorithm, as an invariant of one turn, which both the function    *)
(* KahnOrder and the steps of compute_order take.                            *)

\* The names of the list that n waits for.
Waiting(names, edges, n) == DepsOf(edges, n) \cap Range(names)

\* Kahn's invariant: nothing is ordered or queued twice; the names ordered or
\* queued are those whose dependencies are ordered; an order is one in which
\* dependencies come first.
KahnInv(names, edges, ord, que) ==
    /\ ord \in Seq(Range(names)) /\ que \in Seq(Range(names))
    /\ IsInjective(ord) /\ IsInjective(que) /\ Range(ord) \cap Range(que) = {}
    /\ \A n \in Range(names) : n \in Range(ord) \cup Range(que) <=>
                                   Waiting(names, edges, n) \subseteq Range(ord)
    /\ \A i \in 1 .. Len(ord) :
           Waiting(names, edges, ord[i]) \subseteq {ord[j] : j \in 1 .. i - 1}

LEMMA ToSetIsRange == \A s : ToSet(s) = Range(s)
BY DEF ToSet, Range

(* A list is a list of its own elements.                                     *)
LEMMA OfItsElements ==
    ASSUME NEW A, NEW s \in Seq(A)
    PROVE  s \in Seq(Range(s)) /\ IsFiniteSet(1 .. Len(s)) /\ Range(s) \subseteq A
<1>1. Len(s) \in Nat
    OBVIOUS
<1> QED
    BY <1>1, SeqOfRange, RangeOfSeq, FS_Interval

-----------------------------------------------------------------------------
(* The start: the names that wait for nothing are queued.                    *)
LEMMA KahnStarts ==
    ASSUME NEW A, NEW names \in Seq(A), IsInjective(names), NEW edges,
           NEW que \in Seq(Range(names)), IsInjective(que),
           \A n : n \in Range(que) <=>
                      n \in Range(names) /\ Waiting(names, edges, n) = {}
    PROVE  KahnInv(names, edges, <<>>, que)
<1>1. <<>> \in Seq(Range(names)) /\ Range(<<>>) = {} /\ IsInjective(<<>>) /\ Len(<<>>) = 0
    BY EmptySeq DEF Range, IsInjective
<1> QED
    BY <1>1 DEF KahnInv

(* A turn: the first name of the queue is ordered, and the names that it was *)
(* the last dependency of are queued.                                        *)
LEMMA KahnTurns1 ==
    ASSUME NEW names, NEW edges, NEW ord, NEW que, KahnInv(names, edges, ord, que),
           que # <<>>, NEW new \in Seq(Range(names)), IsInjective(new),
           \A m : m \in Range(new) <=>
                      /\ m \in Range(names)
                      /\ Head(que) \in Waiting(names, edges, m)
                      /\ Waiting(names, edges, m) \subseteq Range(ord) \cup {Head(que)}
    PROVE  KahnInv(names, edges, Append(ord, Head(que)), Tail(que) \o new)
<1> DEFINE S == Range(names)
           W(n) == Waiting(names, edges, n)
           h == Head(que)
           t == Tail(que)
           o == Append(ord, h)
           q == t \o new
           L == Len(ord)
<1>1. /\ ord \in Seq(S) /\ que \in Seq(S)
      /\ IsInjective(ord) /\ IsInjective(que) /\ Range(ord) \cap Range(que) = {}
      /\ \A n \in S : n \in Range(ord) \cup Range(que) <=> W(n) \subseteq Range(ord)
      /\ \A i \in 1 .. L : W(ord[i]) \subseteq {ord[j] : j \in 1 .. i - 1}
    BY DEF KahnInv
<1>2. /\ h \in S /\ t \in Seq(S)
      /\ Range(que) = {h} \cup Range(t)
      /\ IsInjective(t) /\ h \notin Range(t)
    BY <1>1, TakeFirstOf
<1>3. h \notin Range(ord) /\ W(h) \subseteq Range(ord)
    BY <1>1, <1>2
<1>4. o \in Seq(S) /\ Range(o) = Range(ord) \cup {h} /\ IsInjective(o)
    <2> HIDE DEF h
    <2> QED
        BY <1>1, <1>2, <1>3, AppendOneTo
<1>5. \A m : m \in Range(new) <=> m \in S /\ h \in W(m) /\ W(m) \subseteq Range(ord) \cup {h}
    OBVIOUS
<1> HIDE DEF W, h, t, S
<1>6. Range(new) \cap (Range(ord) \cup Range(que)) = {}
    BY <1>1, <1>3, <1>5
<1>7. Range(t) \cap Range(new) = {} /\ Range(o) \cap (Range(t) \cup Range(new)) = {}
    BY <1>1, <1>2, <1>4, <1>6
<1>8. new \in Seq(S)
    BY DEF S
<1>9. q \in Seq(S) /\ Range(q) = Range(t) \cup Range(new) /\ IsInjective(q)
    BY <1>2, <1>7, <1>8, ConcatTwo
<1>10. ASSUME NEW n \in S
       PROVE  n \in Range(o) \cup Range(q) <=> W(n) \subseteq Range(o)
    <2>1. n \in Range(o) \cup Range(q) <=> n \in Range(ord) \cup Range(que) \/ n \in Range(new)
        BY <1>2, <1>4, <1>9
    <2>2. W(n) \subseteq Range(o) <=>
              W(n) \subseteq Range(ord) \/ (h \in W(n) /\ W(n) \subseteq Range(ord) \cup {h})
        BY <1>4
    <2> QED
        BY <1>1, <1>5, <2>1, <2>2
<1>11. /\ L \in Nat /\ Len(o) = L + 1 /\ \A i \in 1 .. L : o[i] = ord[i]
       /\ o[L + 1] = h
    BY <1>1, <1>2, AppendProperties
<1>12. Range(ord) = {ord[j] : j \in 1 .. L}
    BY <1>1, RangeEquality
<1> HIDE DEF o, q, L
<1>13. ASSUME NEW i \in 1 .. L + 1
       PROVE  W(o[i]) \subseteq {o[j] : j \in 1 .. i - 1}
    <2>1. CASE i \in 1 .. L
        <3>1. \A j \in 1 .. i - 1 : o[j] = ord[j]
            BY <1>11, <2>1
        <3>2. {o[j] : j \in 1 .. i - 1} = {ord[j] : j \in 1 .. i - 1}
            BY <3>1
        <3> QED
            BY <1>1, <1>11, <2>1, <3>2
    <2>2. CASE i = L + 1
        <3>1. {o[j] : j \in 1 .. i - 1} = {ord[j] : j \in 1 .. L}
            BY <1>11, <2>2
        <3> QED
            BY <1>3, <1>11, <1>12, <2>2, <3>1
    <2> QED
        BY <1>11, <2>1, <2>2
<1>14. KahnInv(names, edges, o, q)
    BY <1>4, <1>7, <1>9, <1>10, <1>11, <1>13 DEF KahnInv, S, W
<1> QED
    BY <1>14 DEF o, q, h, t

-----------------------------------------------------------------------------
(* The turns of Kahn's algorithm, one after the other.                       *)

(* What the first name of the queue frees is a list of names.                *)
LEMMA FreedByIsKept ==
    ASSUME NEW A, NEW names \in Seq(A), IsInjective(names), NEW n, NEW done, NEW edges
    PROVE  /\ FreedBy(n, done, names, edges) \in Seq(A)
           /\ IsInjective(FreedBy(n, done, names, edges))
           /\ \A m : m \in Range(FreedBy(n, done, names, edges)) <=>
                         /\ m \in Range(names)
                         /\ n \in DepsOf(edges, m)
                         /\ Waiting(names, edges, m) \subseteq done \cup {n}
<1> DEFINE F == {m \in ToSet(names) : /\ n \in DepsOf(edges, m)
                                     /\ DepsOf(edges, m) \cap ToSet(names) \subseteq done \cup {n}}
<1>1. FreedBy(n, done, names, edges) = Keep(names, F)
    BY DEF FreedBy
<1>2. \A m : m \in F <=> /\ m \in Range(names)
                         /\ n \in DepsOf(edges, m)
                         /\ Waiting(names, edges, m) \subseteq done \cup {n}
    BY ToSetIsRange DEF Waiting
<1> HIDE DEF F
<1> QED
    BY <1>1, <1>2, KeepProperties

(* The roots are the names that wait for nothing.                            *)
LEMMA RootsAreKept ==
    ASSUME NEW A, NEW names \in Seq(A), IsInjective(names), NEW edges
    PROVE  /\ Roots(names, edges) \in Seq(A)
           /\ IsInjective(Roots(names, edges))
           /\ \A m : m \in Range(Roots(names, edges)) <=>
                         m \in Range(names) /\ Waiting(names, edges, m) = {}
<1> DEFINE F == {n \in ToSet(names) : DepsOf(edges, n) \cap ToSet(names) = {}}
<1>1. Roots(names, edges) = Keep(names, F)
    BY DEF Roots
<1>2. \A m : m \in F <=> m \in Range(names) /\ Waiting(names, edges, m) = {}
    BY ToSetIsRange DEF Waiting
<1> HIDE DEF F
<1> QED
    BY <1>1, <1>2, KeepProperties

(* KahnTurns is defined: it starts with the roots and takes turns.           *)
LEMMA KahnIsComputed ==
    ASSUME NEW A, NEW names \in Seq(A), IsInjective(names), NEW edges, NEW N \in Nat
    PROVE  /\ KahnTurns(names, edges, N)[0] = [order |-> <<>>, queue |-> Roots(names, edges)]
           /\ \A n \in 1 .. N : KahnTurns(names, edges, N)[n] =
                                    KahnTurn(KahnTurns(names, edges, N)[n - 1], names, edges)
<1> DEFINE D == [order : Seq(A), queue : Seq(A)]
           base == [order |-> <<>>, queue |-> Roots(names, edges)]
           Turn(s) == KahnTurn(s, names, edges)
           Body(f, n) == IF n = 0 THEN base ELSE Turn(f[n - 1])
           turn == CHOOSE f : f = [n \in 0 .. N |-> Body(f, n)]
           step == [n \in 1 .. N |-> [s \in D |-> Turn(s)]]
<1>1. base \in D
    BY EmptySeq, RootsAreKept
<1>2. ASSUME NEW s \in D
      PROVE  Turn(s) \in D
    <2>1. CASE s.queue = <<>>
        BY <2>1 DEF KahnTurn
    <2>2. CASE s.queue # <<>>
        <3> DEFINE F == FreedBy(Head(s.queue), ToSet(s.order), names, edges)
        <3>1. Head(s.queue) \in A /\ Tail(s.queue) \in Seq(A) /\ s.order \in Seq(A)
            BY <2>2, HeadTailProperties
        <3>2. F \in Seq(A)
            BY FreedByIsKept
        <3> HIDE DEF F
        <3>3. Append(s.order, Head(s.queue)) \in Seq(A) /\ Tail(s.queue) \o F \in Seq(A)
            BY <3>1, <3>2, AppendProperties, ConcatProperties
        <3>4. Turn(s) = [order |-> Append(s.order, Head(s.queue)), queue |-> Tail(s.queue) \o F]
            BY <2>2 DEF KahnTurn, F
        <3> HIDE DEF Turn
        <3> QED
            BY <3>3, <3>4
    <2> HIDE DEF Turn
    <2> QED
        BY <2>1, <2>2
<1> HIDE DEF D, base, Turn
<1>3. step \in [1 .. N -> [D -> D]] /\ \A n \in 1 .. N, s \in D : step[n][s] = Turn(s)
    BY <1>2
<1> HIDE DEF step
<1>4. PICK h : Computed(h, N, D, base, step)
    BY <1>1, <1>3, Recursion
<1>5. /\ h \in [0 .. N -> D] /\ h[0] = base
      /\ \A n \in 1 .. N : h[n] = step[n][h[n - 1]]
    BY <1>4 DEF Computed
<1>6. /\ \A n \in 1 .. N : n - 1 \in 0 .. N /\ n # 0 /\ n \in 0 .. N
      /\ \A n \in 0 .. N : n = 0 \/ n \in 1 .. N
      /\ 0 \in 0 .. N
    OBVIOUS
<1>7. \A n \in 0 .. N : h[n] = Body(h, n)
    <2>1. \A n \in 1 .. N : h[n] = Turn(h[n - 1])
        BY <1>3, <1>5, <1>6
    <2> QED
        BY <1>5, <1>6, <2>1
<1> HIDE DEF Body
<1>8. h = [n \in 0 .. N |-> Body(h, n)]
    BY <1>5, <1>7
<1>9. turn = [n \in 0 .. N |-> Body(turn, n)]
    BY <1>8 DEF turn
<1> HIDE DEF turn
<1>10. \A n \in 0 .. N : turn[n] = Body(turn, n)
    BY <1>9, Zenon
<1>11. turn[0] = base /\ \A n \in 1 .. N : turn[n] = Turn(turn[n - 1])
    BY <1>6, <1>10, Zenon DEF Body
<1>12. KahnTurns(names, edges, N) = turn
    BY DEF KahnTurns, turn, Body, base, Turn
<1> QED
    BY <1>11, <1>12 DEF base, Turn

(* A turn keeps Kahn's invariant.                                            *)
LEMMA KahnTurnKeeps ==
    ASSUME NEW A, NEW names \in Seq(A), IsInjective(names), NEW edges,
           NEW ord, NEW que, KahnInv(names, edges, ord, que), que # <<>>
    PROVE  LET new == FreedBy(Head(que), ToSet(ord), names, edges)
           IN  KahnInv(names, edges, Append(ord, Head(que)), Tail(que) \o new)
<1> DEFINE new == FreedBy(Head(que), ToSet(ord), names, edges)
<1>1. names \in Seq(Range(names))
    BY OfItsElements
<1>2. /\ new \in Seq(Range(names))
      /\ IsInjective(new)
      /\ \A m : m \in Range(new) <=> /\ m \in Range(names)
                                     /\ Head(que) \in DepsOf(edges, m)
                                     /\ Waiting(names, edges, m) \subseteq ToSet(ord) \cup {Head(que)}
    BY <1>1, FreedByIsKept
<1>3. Head(que) \in Range(names) /\ ToSet(ord) = Range(ord)
    BY HeadTailProperties, ToSetIsRange DEF KahnInv
<1> HIDE DEF new
<1>4. \A m : m \in Range(new) <=> /\ m \in Range(names)
                                  /\ Head(que) \in Waiting(names, edges, m)
                                  /\ Waiting(names, edges, m) \subseteq Range(ord) \cup {Head(que)}
    BY <1>2, <1>3 DEF Waiting
<1>5. KahnInv(names, edges, Append(ord, Head(que)), Tail(que) \o new)
    BY <1>2, <1>4, KahnTurns1
<1> QED
    BY <1>5 DEF new

(* Every turn of KahnTurns satisfies Kahn's invariant, and its order has one *)
(* name more than the one before, until the queue is empty.                  *)
LEMMA KahnTurnsKeep ==
    ASSUME NEW A, NEW names \in Seq(A), IsInjective(names), NEW edges, NEW N \in Nat,
           NEW n \in 0 .. N
    PROVE  LET s == KahnTurns(names, edges, N)[n]
           IN  /\ KahnInv(names, edges, s.order, s.queue)
               /\ s.queue # <<>> => Len(s.order) = n
<1> DEFINE t == KahnTurns(names, edges, N)
           T == {k \in 0 .. N : /\ KahnInv(names, edges, t[k].order, t[k].queue)
                                /\ t[k].queue # <<>> => Len(t[k].order) = k}
<1>1. /\ t[0] = [order |-> <<>>, queue |-> Roots(names, edges)]
      /\ \A k \in 1 .. N : t[k] = KahnTurn(t[k - 1], names, edges)
    BY KahnIsComputed
<1> HIDE DEF t
<1>2. 0 \in T
    <2>1. /\ Roots(names, edges) \in Seq(Range(names))
          /\ IsInjective(Roots(names, edges))
          /\ \A m : m \in Range(Roots(names, edges)) <=>
                        m \in Range(names) /\ Waiting(names, edges, m) = {}
        BY OfItsElements, RootsAreKept
    <2>2. KahnInv(names, edges, <<>>, Roots(names, edges))
        BY <2>1, KahnStarts
    <2>3. t[0].order = <<>> /\ t[0].queue = Roots(names, edges)
        BY <1>1
    <2>4. Len(<<>>) = 0 /\ 0 \in 0 .. N
        OBVIOUS
    <2> QED
        BY <2>2, <2>3, <2>4
<1>3. ASSUME NEW k \in 0 .. N - 1, k \in T
      PROVE  k + 1 \in T
    <2>1. /\ KahnInv(names, edges, t[k].order, t[k].queue)
          /\ t[k].queue # <<>> => Len(t[k].order) = k
          /\ k \in Nat /\ k + 1 \in 0 .. N /\ k + 1 \in 1 .. N /\ (k + 1) - 1 = k
        BY <1>3
    <2>2. t[k + 1] = KahnTurn(t[k], names, edges)
        BY <1>1, <2>1
    <2> HIDE DEF T
    <2>3. CASE t[k].queue = <<>>
        <3>1. t[k + 1] = t[k]
            BY <2>2, <2>3 DEF KahnTurn
        <3> QED
            BY <2>1, <2>3, <3>1 DEF T
    <2>4. CASE t[k].queue # <<>>
        <3> DEFINE o == Append(t[k].order, Head(t[k].queue))
                   q == Tail(t[k].queue) \o
                            FreedBy(Head(t[k].queue), ToSet(t[k].order), names, edges)
        <3>1. t[k + 1] = [order |-> o, queue |-> q]
            BY <2>2, <2>4 DEF KahnTurn
        <3>2. KahnInv(names, edges, o, q)
            BY <2>1, <2>4, KahnTurnKeeps
        <3>3. Len(o) = k + 1
            <4>1. t[k].order \in Seq(Range(names)) /\ Head(t[k].queue) \in Range(names)
                BY <2>1, <2>4, HeadTailProperties DEF KahnInv
            <4> QED
                BY <2>1, <2>4, <4>1, AppendProperties
        <3> HIDE DEF o, q
        <3>4. t[k + 1].order = o /\ t[k + 1].queue = q
            BY <3>1
        <3> QED
            BY <2>1, <3>2, <3>3, <3>4 DEF T
    <2> QED
        BY <2>3, <2>4
<1>4. \A k \in 0 .. N : k \in T
    <2> HIDE DEF T
    <2> QED
        BY <1>2, <1>3, BoundedInduction
<1>5. n \in T
    BY <1>4
<1>6. KahnInv(names, edges, t[n].order, t[n].queue) /\ (t[n].queue # <<>> => Len(t[n].order) = n)
    BY <1>5
<1> QED
    BY <1>6 DEF t

(* Once the queue is empty the order stays.                                  *)
LEMMA KahnStays ==
    ASSUME NEW A, NEW names \in Seq(A), IsInjective(names), NEW edges, NEW N \in Nat,
           NEW n \in 0 .. N, KahnTurns(names, edges, N)[n].queue = <<>>
    PROVE  KahnTurns(names, edges, N)[N] = KahnTurns(names, edges, N)[n]
<1> DEFINE t == KahnTurns(names, edges, N)
           T == {k \in 0 .. N : k >= n => t[k] = t[n]}
<1>1. t[n].queue = <<>> /\ \A k \in 1 .. N : t[k] = KahnTurn(t[k - 1], names, edges)
    BY KahnIsComputed
<1> HIDE DEF t
<1>2. 0 \in T
    OBVIOUS
<1>3. ASSUME NEW k \in 0 .. N - 1, k \in T
      PROVE  k + 1 \in T
    <2>1. k \in Nat /\ k + 1 \in 0 .. N /\ k + 1 \in 1 .. N /\ (k + 1) - 1 = k
        OBVIOUS
    <2>2. CASE k >= n
        <3>1. t[k] = t[n]
            BY <1>3, <2>2
        <3>2. t[k + 1] = t[k]
            BY <1>1, <2>1, <3>1 DEF KahnTurn
        <3> QED
            BY <2>1, <3>1, <3>2
    <2>3. CASE ~(k >= n)
        <3>1. k + 1 >= n => k + 1 = n
            BY <2>1, <2>3
        <3> QED
            BY <2>1, <3>1
    <2> QED
        BY <2>2, <2>3
<1>4. \A k \in 0 .. N : k \in T
    <2> HIDE DEF T
    <2> QED
        BY <1>2, <1>3, BoundedInduction
<1>5. N \in T /\ N >= n
    BY <1>4
<1>6. t[N] = t[n]
    BY <1>5
<1> QED
    BY <1>6 DEF t

(* An order within Kahn's invariant has no more names than the list, and as  *)
(* many only if it has them all.                                             *)
LEMMA SortFits ==
    ASSUME NEW A, NEW names \in Seq(A), IsInjective(names),
           NEW edges, NEW ord, NEW que, KahnInv(names, edges, ord, que)
    PROVE  /\ ord \in Seq(Range(names)) /\ que \in Seq(Range(names))
           /\ IsInjective(ord) /\ IsInjective(que)
           /\ Len(ord) \in 0 .. Len(names)
           /\ Len(ord) = Len(names) <=> Range(ord) = Range(names)
<1>1. /\ ord \in Seq(Range(names)) /\ que \in Seq(Range(names))
      /\ IsInjective(ord) /\ IsInjective(que)
    BY DEF KahnInv
<1>2. IsFiniteSet(Range(ord)) /\ Cardinality(Range(ord)) = Len(ord) /\ Len(ord) \in Nat
    BY <1>1, InjectiveLength, LenProperties
<1>3. Range(ord) \subseteq Range(names)
    BY <1>1, RangeOfSeq
<1>4. IsFiniteSet(Range(names)) /\ Cardinality(Range(names)) = Len(names) /\ Len(names) \in Nat
    BY InjectiveLength, LenProperties
<1>5. /\ Cardinality(Range(ord)) <= Cardinality(Range(names))
      /\ Cardinality(Range(names)) = Cardinality(Range(ord)) => Range(names) = Range(ord)
    BY <1>3, <1>4, FS_Subset
<1> QED
    BY <1>1, <1>2, <1>4, <1>5

(* KahnOrder stays within the invariant, with nothing queued at its end; it  *)
(* has all the names if it is as long as the list.                           *)
LEMMA KahnOrderIsSorted ==
    ASSUME NEW A, NEW names \in Seq(A), IsInjective(names), NEW edges
    PROVE  LET ord == KahnOrder(names, edges)
           IN  /\ \E que : KahnInv(names, edges, ord, que)
               /\ ord \in Seq(Range(names)) /\ IsInjective(ord)
               /\ Len(ord) = Len(names) <=> Range(ord) = Range(names)
               /\ \A i \in 1 .. Len(ord) :
                      Waiting(names, edges, ord[i]) \subseteq {ord[j] : j \in 1 .. i - 1}
<1> DEFINE ord == KahnOrder(names, edges)
           s == KahnTurns(names, edges, Len(names))[Len(names)]
<1>1. DictKeys(names) = names /\ Len(names) \in 0 .. Len(names) /\ Len(names) \in Nat
    BY DictKeysInjective, LenProperties
<1>2. KahnInv(names, edges, s.order, s.queue)
    BY <1>1, KahnTurnsKeep
<1>3. ord = s.order
    BY <1>1 DEF KahnOrder
<1> HIDE DEF s, ord
<1>4. /\ s.order \in Seq(Range(names)) /\ IsInjective(s.order)
      /\ Len(s.order) = Len(names) <=> Range(s.order) = Range(names)
    BY <1>2, SortFits
<1>5. \A i \in 1 .. Len(s.order) :
          Waiting(names, edges, s.order[i]) \subseteq {s.order[j] : j \in 1 .. i - 1}
    BY <1>2 DEF KahnInv
<1>6. /\ KahnInv(names, edges, ord, s.queue)
      /\ ord \in Seq(Range(names)) /\ IsInjective(ord)
      /\ Len(ord) = Len(names) <=> Range(ord) = Range(names)
      /\ \A i \in 1 .. Len(ord) :
             Waiting(names, edges, ord[i]) \subseteq {ord[j] : j \in 1 .. i - 1}
    <2>1. KahnInv(names, edges, ord, s.queue)
        BY <1>2, <1>3
    <2>2. /\ ord \in Seq(Range(names)) /\ IsInjective(ord)
          /\ Len(ord) = Len(names) <=> Range(ord) = Range(names)
        BY <1>3, <1>4
    <2>3. \A i \in 1 .. Len(ord) :
              Waiting(names, edges, ord[i]) \subseteq {ord[j] : j \in 1 .. i - 1}
        BY <1>3, <1>5
    <2> QED
        BY <2>1, <2>2, <2>3
<1> QED
    BY <1>6 DEF ord

(* A first name that waits for nothing is ordered first.                     *)
LEMMA KahnFirst ==
    ASSUME NEW A, NEW names \in Seq(A), IsInjective(names), NEW edges, names # <<>>,
           Waiting(names, edges, names[1]) = {}
    PROVE  KahnOrder(names, edges) # <<>> /\ KahnOrder(names, edges)[1] = names[1]
<1> DEFINE N == Len(names)
           t == KahnTurns(names, edges, N)
           First(k) == t[k].order # <<>> /\ t[k].order[1] = names[1]
           T == {k \in 0 .. N : k # 0 => First(k)}
<1>1. /\ DictKeys(names) = names /\ N \in Nat /\ N # 0
      /\ names[1] \in Range(names) /\ names \in Seq(Range(names))
    BY DictKeysInjective, LenProperties, EmptySeq, OfItsElements DEF Range
<1>2. /\ t[0] = [order |-> <<>>, queue |-> Roots(names, edges)]
      /\ \A k \in 1 .. N : t[k] = KahnTurn(t[k - 1], names, edges)
    BY <1>1, KahnIsComputed
<1>3. Roots(names, edges) # <<>> /\ Head(Roots(names, edges)) = names[1]
    <2> DEFINE F == {n \in ToSet(names) : DepsOf(edges, n) \cap ToSet(names) = {}}
    <2>1. names[1] \in F
        BY <1>1, ToSetIsRange DEF Waiting
    <2> HIDE DEF F
    <2>2. Keep(names, F) # <<>> /\ Keep(names, F)[1] = names[1] /\ Keep(names, F) \in Seq(A)
        BY <2>1, KeepFirst, KeepProperties
    <2>3. Roots(names, edges) = Keep(names, F)
        BY DEF Roots, F
    <2> QED
        BY <2>2, <2>3, HeadTailProperties
<1>4. \A k \in 0 .. N : t[k].order \in Seq(Range(names)) /\ t[k].queue \in Seq(Range(names))
    BY <1>1, KahnTurnsKeep DEF KahnInv
<1> HIDE DEF t
<1>5. 0 \in T
    BY <1>1
<1>6. ASSUME NEW k \in 0 .. N - 1, k \in T
      PROVE  k + 1 \in T
    <2>1. k \in Nat /\ k + 1 \in 1 .. N /\ k + 1 \in 0 .. N /\ (k + 1) - 1 = k /\ k \in 0 .. N
        BY <1>1
    <2>2. t[k + 1] = KahnTurn(t[k], names, edges)
        BY <1>2, <2>1
    <2>3. CASE t[k].queue = <<>>
        <3>1. k # 0 /\ t[k + 1] = t[k]
            BY <1>2, <1>3, <2>2, <2>3 DEF KahnTurn
        <3> QED
            BY <1>6, <2>1, <3>1
    <2>4. CASE t[k].queue # <<>>
        <3> DEFINE q == Tail(t[k].queue) \o
                            FreedBy(Head(t[k].queue), ToSet(t[k].order), names, edges)
                   h == Head(t[k].queue)
        <3>1. t[k + 1] = [order |-> Append(t[k].order, h), queue |-> q]
            BY <2>2, <2>4 DEF KahnTurn
        <3> HIDE DEF q, h
        <3>2. t[k + 1].order = Append(t[k].order, h) /\ h \in Range(names)
            BY <1>4, <2>1, <2>4, <3>1, HeadTailProperties DEF h
        <3>3. /\ t[k + 1].order # <<>>
              /\ t[k].order # <<>> => t[k + 1].order[1] = t[k].order[1]
              /\ t[k].order = <<>> => t[k + 1].order[1] = h
            <4> DEFINE o == t[k].order
            <4>1. o \in Seq(Range(names)) /\ Len(o) \in Nat /\ (Len(o) = 0 <=> o = <<>>)
                BY <1>4, <2>1, LenProperties, EmptySeq
            <4> HIDE DEF o
            <4>2. /\ Append(o, h) # <<>> /\ Append(o, h)[Len(o) + 1] = h
                  /\ \A a \in 1 .. Len(o) : Append(o, h)[a] = o[a]
                BY <3>2, <4>1, AppendProperties
            <4>3. /\ o # <<>> => Append(o, h)[1] = o[1]
                  /\ o = <<>> => Append(o, h)[1] = h
                BY <4>1, <4>2
            <4> QED
                BY <3>2, <4>2, <4>3 DEF o
        <3>4. CASE k = 0
            <4>1. t[k].order = <<>> /\ h = names[1]
                BY <1>2, <1>3, <3>4 DEF h
            <4> QED
                BY <2>1, <3>3, <4>1
        <3>5. CASE k # 0
            BY <1>6, <2>1, <3>3, <3>5
        <3> QED
            BY <3>4, <3>5
    <2> QED
        BY <2>3, <2>4
<1>7. N \in T
    <2> HIDE DEF T
    <2>1. \A k \in 0 .. N : k \in T
        BY <1>1, <1>5, <1>6, BoundedInduction
    <2> QED
        BY <1>1, <2>1
<1>8. KahnOrder(names, edges) = t[N].order
    BY <1>1 DEF KahnOrder, t
<1> QED
    BY <1>1, <1>7, <1>8

(* A list in which each name waits for the one before it is its own order.   *)
IsChain(names, edges) ==
    \A k \in 1 .. Len(names) : /\ k = 1 => Waiting(names, edges, names[k]) = {}
                              /\ k > 1 => Waiting(names, edges, names[k]) = {names[k - 1]}

DepsFirst(names, edges, ord) ==
    \A i \in 1 .. Len(ord) : Waiting(names, edges, ord[i]) \subseteq {ord[j] : j \in 1 .. i - 1}

LEMMA ChainsAreOrdered ==
    ASSUME NEW A, NEW names \in Seq(A), IsInjective(names), NEW edges, IsChain(names, edges),
           NEW ord \in Seq(Range(names)), IsInjective(ord), Len(ord) <= Len(names),
           DepsFirst(names, edges, ord)
    PROVE  \A i \in 1 .. Len(ord) : ord[i] = names[i]
<1> DEFINE L == Len(ord)
           M == Len(names)
           W(n) == Waiting(names, edges, n)
           T == {k \in 0 .. L : \A j \in 1 .. k : ord[j] = names[j]}
<1>1. M \in Nat /\ L \in 0 .. M /\ DOMAIN names = 1 .. M /\ DOMAIN ord = 1 .. L
    BY LenProperties
<1>2. /\ \A k \in 1 .. M : k > 1 => k - 1 \in 1 .. M /\ W(names[k]) = {names[k - 1]}
      /\ \A k \in 1 .. L : W(ord[k]) \subseteq {ord[j] : j \in 1 .. k - 1}
    BY <1>1 DEF IsChain, DepsFirst
<1>3. /\ \A j, k \in 1 .. L : ord[j] = ord[k] => j = k
      /\ \A j, k \in 1 .. M : names[j] = names[k] => j = k
      /\ \A j \in 1 .. L : ord[j] \in Range(names)
    BY <1>1, ElementOfSeq DEF IsInjective
<1>4. \A x \in Range(names) : \E k \in 1 .. M : x = names[k]
    BY <1>1 DEF Range
<1> HIDE DEF L, M, W
<1>5. 0 \in T
    BY <1>1
<1>6. ASSUME NEW k \in 0 .. L - 1, k \in T
      PROVE  k + 1 \in T
    <2>1. /\ \A j \in 1 .. k : ord[j] = names[j]
          /\ k \in Nat /\ k + 1 \in 1 .. L /\ k + 1 \in 0 .. L /\ (k + 1) - 1 = k
          /\ \A j \in 1 .. k : j \in 1 .. L /\ j \in 1 .. M
        BY <1>1, <1>6
    <2>2. PICK m \in 1 .. M : ord[k + 1] = names[m]
        BY <1>3, <1>4, <2>1
    <2>3. W(names[m]) \subseteq {ord[j] : j \in 1 .. k}
        BY <1>2, <2>1, <2>2
    <2>4. ASSUME m \in 1 .. k PROVE FALSE
        <3>1. ord[m] = ord[k + 1] /\ m \in 1 .. L
            BY <2>1, <2>2, <2>4
        <3>2. m = k + 1
            BY <1>3, <2>1, <3>1
        <3> QED
            BY <2>1, <2>4, <3>2
    <2>5. ASSUME m > 1 PROVE m <= k + 1
        <3>1. m - 1 \in 1 .. M /\ names[m - 1] \in {ord[j] : j \in 1 .. k}
            BY <1>2, <2>3, <2>5
        <3>2. PICK j \in 1 .. k : names[m - 1] = ord[j]
            BY <3>1
        <3>3. m - 1 = j
            BY <1>3, <2>1, <3>1, <3>2
        <3> QED
            BY <2>1, <3>3
    <2>6. m = k + 1
        BY <2>1, <2>4, <2>5
    <2>7. \A j \in 1 .. k + 1 : j \in 1 .. k \/ j = k + 1
        BY <2>1
    <2>8. \A j \in 1 .. k + 1 : ord[j] = names[j]
        BY <2>1, <2>2, <2>6, <2>7
    <2> QED
        BY <2>1, <2>8
<1>7. L \in T
    <2> HIDE DEF T
    <2>1. L \in Nat /\ L \in 0 .. L
        BY <1>1
    <2>2. \A k \in 0 .. L : k \in T
        BY <1>5, <1>6, <2>1, BoundedInduction
    <2> QED
        BY <2>1, <2>2
<1> QED
    BY <1>7 DEF L

-----------------------------------------------------------------------------
(* An order of all names reaches them all from the roots (rule 4): each is   *)
(* reached after as many steps as there are names before it.                 *)

LEMMA ReachedIsComputed ==
    ASSUME NEW S, NEW edges, NEW N \in Nat
    PROVE  /\ Reached(S, edges, N)[0] = {m \in S : DepsOf(edges, m) \cap S = {}}
           /\ \A n \in 1 .. N : Reached(S, edges, N)[n] =
                  Reached(S, edges, N)[n - 1]
                      \cup {m \in S : DepsOf(edges, m) \cap Reached(S, edges, N)[n - 1] # {}}
<1> DEFINE D == SUBSET S
           base == {m \in S : DepsOf(edges, m) \cap S = {}}
           More(R) == R \cup {m \in S : DepsOf(edges, m) \cap R # {}}
           Body(f, n) == IF n = 0 THEN base ELSE More(f[n - 1])
           reach == CHOOSE f : f = [n \in 0 .. N |-> Body(f, n)]
           step == [n \in 1 .. N |-> [R \in D |-> More(R)]]
<1>1. base \in D /\ \A R \in D : More(R) \in D
    OBVIOUS
<1>2. Reached(S, edges, N) = reach
    BY DEF Reached
<1> HIDE DEF D, base, More
<1>3. step \in [1 .. N -> [D -> D]] /\ \A n \in 1 .. N, R \in D : step[n][R] = More(R)
    BY <1>1
<1> HIDE DEF step
<1>4. PICK h : Computed(h, N, D, base, step)
    BY <1>1, <1>3, Recursion
<1>5. /\ h \in [0 .. N -> D] /\ h[0] = base
      /\ \A n \in 1 .. N : h[n] = step[n][h[n - 1]]
    BY <1>4 DEF Computed
<1>6. /\ \A n \in 1 .. N : n - 1 \in 0 .. N /\ n # 0 /\ n \in 0 .. N
      /\ \A n \in 0 .. N : n = 0 \/ n \in 1 .. N
      /\ 0 \in 0 .. N
    OBVIOUS
<1>7. \A n \in 0 .. N : h[n] = Body(h, n)
    <2>1. \A n \in 1 .. N : h[n] = More(h[n - 1])
        BY <1>3, <1>5, <1>6
    <2> QED
        BY <1>5, <1>6, <2>1
<1> HIDE DEF Body
<1>8. h = [n \in 0 .. N |-> Body(h, n)]
    BY <1>5, <1>7
<1>9. reach = [n \in 0 .. N |-> Body(reach, n)]
    BY <1>8 DEF reach
<1> HIDE DEF reach
<1>10. \A n \in 0 .. N : reach[n] = Body(reach, n)
    BY <1>9, Zenon
<1>11. reach[0] = base /\ \A n \in 1 .. N : reach[n] = More(reach[n - 1])
    BY <1>6, <1>10, Zenon DEF Body
<1> QED
    BY <1>2, <1>11 DEF base, More

LEMMA OrdersReach ==
    ASSUME NEW A, NEW names \in Seq(A), NEW edges, NEW ord, NEW que,
           KahnInv(names, edges, ord, que), NEW N \in Nat, Len(ord) = N,
           Range(ord) = Range(names)
    PROVE  Reached(Range(names), edges, N)[N] = Range(names)
<1> DEFINE S == Range(names)
           R == Reached(S, edges, N)
           T == {k \in 0 .. N : /\ R[k] \subseteq S /\ R[0] \subseteq R[k]
                                /\ \A i \in 1 .. k : ord[i] \in R[k]}
<1>1. /\ R[0] = {m \in S : DepsOf(edges, m) \cap S = {}}
      /\ \A n \in 1 .. N : R[n] = R[n - 1] \cup {m \in S : DepsOf(edges, m) \cap R[n - 1] # {}}
    BY ReachedIsComputed
<1>2. /\ ord \in Seq(S) /\ \A i \in 1 .. N : ord[i] \in S
      /\ \A i \in 1 .. N : Waiting(names, edges, ord[i]) \subseteq {ord[j] : j \in 1 .. i - 1}
    BY ElementOfSeq DEF KahnInv
<1>3. Range(ord) = {ord[i] : i \in 1 .. N}
    BY <1>2, RangeEquality
<1>4. \A n : Waiting(names, edges, n) = DepsOf(edges, n) \cap S
    BY DEF Waiting
<1> HIDE DEF R, S
<1>5. 0 \in T
    <2>1. R[0] \subseteq S /\ R[0] \subseteq R[0] /\ 0 \in 0 .. N
        BY <1>1
    <2>2. \A i \in 1 .. 0 : ord[i] \in R[0]
        OBVIOUS
    <2> QED
        BY <2>1, <2>2
<1>6. ASSUME NEW k \in 0 .. N - 1, k \in T
      PROVE  k + 1 \in T
    <2>1. /\ R[k] \subseteq S /\ R[0] \subseteq R[k] /\ \A i \in 1 .. k : ord[i] \in R[k]
          /\ k \in Nat /\ k + 1 \in 1 .. N /\ k + 1 \in 0 .. N /\ (k + 1) - 1 = k
        BY <1>6
    <2>2. R[k + 1] = R[k] \cup {m \in S : DepsOf(edges, m) \cap R[k] # {}}
        BY <1>1, <2>1
    <2> DEFINE x == ord[k + 1]
    <2>3. x \in S /\ Waiting(names, edges, x) \subseteq {ord[j] : j \in 1 .. k}
        BY <1>2, <2>1
    <2> HIDE DEF x, T
    <2>4. x \in R[k + 1]
        <3>1. CASE Waiting(names, edges, x) = {}
            <4>1. x \in R[0]
                BY <1>1, <1>4, <2>3, <3>1
            <4> QED
                BY <2>1, <2>2, <4>1
        <3>2. CASE Waiting(names, edges, x) # {}
            <4>1. PICK d : d \in Waiting(names, edges, x)
                BY <3>2
            <4>2. d \in R[k] /\ d \in DepsOf(edges, x)
                BY <1>4, <2>1, <2>3, <4>1
            <4> QED
                BY <2>2, <2>3, <4>2
        <3> QED
            BY <3>1, <3>2
    <2>5. \A i \in 1 .. k + 1 : i \in 1 .. k \/ i = k + 1
        BY <2>1
    <2>6. \A i \in 1 .. k + 1 : ord[i] \in R[k + 1]
        BY <2>1, <2>2, <2>4, <2>5 DEF x
    <2> QED
        BY <2>1, <2>2, <2>6 DEF T
<1>7. \A k \in 0 .. N : k \in T
    <2> HIDE DEF T
    <2> QED
        BY <1>5, <1>6, BoundedInduction
<1>8. N \in T
    BY <1>7
<1>9. R[N] \subseteq S /\ \A i \in 1 .. N : ord[i] \in R[N]
    BY <1>8
<1>10. S = {ord[i] : i \in 1 .. N}
    BY <1>3 DEF S
<1>11. R[N] = S
    BY <1>9, <1>10
<1> QED
    BY <1>11 DEF R, S

(* What the rules decide: rule 4 accepts what rule 3 accepts.                *)
LEMMA TerminationReaches ==
    ASSUME NEW A, NEW names \in Seq(A), IsInjective(names), NEW edges,
           Range(KahnOrder(names, edges)) = Range(names)
    PROVE  Reachability(names, edges)
<1> DEFINE ord == KahnOrder(names, edges)
<1>1. PICK que : KahnInv(names, edges, ord, que)
    BY KahnOrderIsSorted
<1>2. Len(ord) = Len(names) /\ Len(names) \in Nat
    BY KahnOrderIsSorted, LenProperties
<1> HIDE DEF ord
<1>3. Range(ord) = Range(names)
    BY DEF ord
<1>4. Reached(Range(names), edges, Len(names))[Len(names)] = Range(names)
    BY <1>1, <1>2, <1>3, OrdersReach
<1> QED
    BY <1>4, ToSetIsRange DEF Reachability

(* The edges _compile_group derives for specs that name nothing twice: what  *)
(* is declared, or else the one declared just before.                        *)
LEMMA EdgesAreCompiled ==
    ASSUME NEW specs, NEW n \in Nat, DOMAIN specs = 1 .. n,
           \A j, k \in 1 .. n : specs[j].name = specs[k].name => j = k,
           NEW i \in 1 .. n
    PROVE  DepsOf(CompileEdges(specs), specs[i].name) =
               IF specs[i].dependsOn # None THEN specs[i].dependsOn
               ELSE IF i > 1 THEN {specs[i - 1].name} ELSE {}
<1> DEFINE Sets == {j \in DOMAIN specs : specs[j].dependsOn # None \/ j > 1}
           Is(m, j) == /\ specs[j].name = m
                       /\ \A k \in Sets : specs[k].name = m => k <= j
           Latest(m) == CHOOSE j \in Sets : Is(m, j)
           E(m) == IF specs[Latest(m)].dependsOn # None THEN specs[Latest(m)].dependsOn
                   ELSE {specs[Latest(m) - 1].name}
           N == {specs[j].name : j \in Sets}
           name == specs[i].name
<1>1. CompileEdges(specs) = [m \in N |-> E(m)]
    BY Zenon DEF CompileEdges
<1>2. i \in Sets <=> specs[i].dependsOn # None \/ i > 1
    OBVIOUS
<1>3. name \in N <=> i \in Sets
    OBVIOUS
<1>4. ASSUME i \in Sets PROVE Latest(name) = i
    <2>1. Is(name, i) /\ \A j \in Sets : Is(name, j) => j = i
        OBVIOUS
    <2> HIDE DEF Is, Sets, name
    <2>2. Latest(name) \in Sets /\ Is(name, Latest(name))
        BY <1>4, <2>1
    <2> QED
        BY <2>1, <2>2
<1>5. ASSUME i \in Sets
      PROVE  E(name) = IF specs[i].dependsOn # None THEN specs[i].dependsOn
                       ELSE {specs[i - 1].name}
    <2> HIDE DEF Latest, Sets, name
    <2> QED
        BY <1>4, <1>5
<1> HIDE DEF E, N, Sets, name
<1>6. CASE i \in Sets
    <2>1. DepsOf(CompileEdges(specs), name) = E(name)
        BY <1>1, <1>3, <1>6 DEF DepsOf
    <2> QED
        BY <1>2, <1>5, <1>6, <2>1 DEF name
<1>7. CASE i \notin Sets
    <2>1. DepsOf(CompileEdges(specs), name) = {}
        BY <1>1, <1>3, <1>7 DEF DepsOf
    <2> QED
        BY <1>2, <1>7, <2>1 DEF name
<1> QED
    BY <1>6, <1>7

-----------------------------------------------------------------------------
(* The batches of an iteration have every item.                              *)
LEMMA Quotient ==
    ASSUME NEW a \in Nat, NEW k \in Nat \ {0}
    PROVE  \E q \in Nat : a \div k = q /\ q * k \in Nat /\ q * k <= a /\ a < q * k + k
<1>1. a \div k \in Nat /\ a = k * (a \div k) + (a % k) /\ (a % k) \in 0 .. k - 1
    OBVIOUS
<1> QED
    BY <1>1

LEMMA Product ==
    ASSUME NEW b \in Int, NEW c \in Int, NEW k \in Nat
    PROVE  /\ b * k \in Int /\ (b - 1) * k = b * k - k /\ (b + 1) * k = b * k + k
           /\ b <= c => b * k <= c * k
OBVIOUS

LEMMA PartitionCovers ==
    ASSUME NEW n \in Nat, NEW k \in Nat \ {0}
    PROVE  LET p == Partition(n, k)
           IN  /\ p \in Seq(Range(p))
               /\ \A batch \in Range(p) : /\ batch \in Seq(1 .. n) /\ batch # <<>>
                                          /\ Len(batch) <= k
               /\ \A i \in 1 .. n : \E batch \in Range(p) : i \in Range(batch)
<1> DEFINE p == Partition(n, k)
           Size(b) == IF b * k <= n THEN k ELSE n - (b - 1) * k
<1>1. PICK B \in Nat : /\ (n + k - 1) \div k = B /\ B * k \in Nat
                       /\ B * k <= n + k - 1 /\ n + k - 1 < B * k + k
    BY Quotient, n + k - 1 \in Nat
<1>2. /\ DOMAIN p = 1 .. B
      /\ \A b \in 1 .. B : p[b] = [i \in 1 .. Size(b) |-> (b - 1) * k + i]
    BY <1>1 DEF Partition
<1>3. ASSUME NEW b \in 1 .. B
      PROVE  /\ b * k \in Int /\ (b - 1) * k \in Nat /\ (b - 1) * k = b * k - k
             /\ Size(b) \in 1 .. k /\ (b - 1) * k + Size(b) <= n
    <2>1. b \in Int /\ b - 1 \in Int /\ B \in Int /\ k \in Nat /\ b <= B /\ 0 <= b - 1
        OBVIOUS
    <2>2. b * k \in Int /\ (b - 1) * k = b * k - k /\ b * k <= B * k
        BY <2>1, Product
    <2>3. 0 * k <= (b - 1) * k /\ (b - 1) * k \in Int
        BY <2>1, Product
    <2>4. (b - 1) * k \in Nat
        BY <2>3
    <2>5. (b - 1) * k <= n - 1
        BY <1>1, <2>1, <2>2
    <2> QED
        BY <2>1, <2>2, <2>4, <2>5
<1>4. ASSUME NEW b \in 1 .. B
      PROVE  /\ p[b] \in Seq(1 .. n) /\ p[b] # <<>> /\ Len(p[b]) <= k
             /\ Len(p[b]) = Size(b) /\ \A i \in 1 .. Size(b) : p[b][i] = (b - 1) * k + i
    <2>1. Size(b) \in Nat \ {0} /\ Size(b) <= k /\ (b - 1) * k \in Nat /\ (b - 1) * k + Size(b) <= n
        BY <1>3
    <2>2. p[b] = [i \in 1 .. Size(b) |-> (b - 1) * k + i]
        BY <1>2
    <2> HIDE DEF Size, p
    <2>3. \A i \in 1 .. Size(b) : (b - 1) * k + i \in 1 .. n
        BY <2>1
    <2>4. p[b] \in Seq(1 .. n) /\ Len(p[b]) = Size(b)
        BY <2>1, <2>2, <2>3
    <2>5. \A i \in 1 .. Size(b) : p[b][i] = (b - 1) * k + i
        BY <2>2
    <2> QED
        BY <2>1, <2>4, <2>5, EmptySeq
<1>5. p \in Seq(Range(p))
    <2>1. p \in [1 .. B -> Range(p)]
        BY <1>2 DEF Range, Partition
    <2> QED
        BY <1>1, <2>1
<1>6. \A batch \in Range(p) : batch \in Seq(1 .. n) /\ batch # <<>> /\ Len(batch) <= k
    BY <1>2, <1>4 DEF Range
<1>7. ASSUME NEW i \in 1 .. n
      PROVE  \E batch \in Range(p) : i \in Range(batch)
    <2>1. PICK q \in Nat : q * k \in Nat /\ q * k <= i - 1 /\ i - 1 < q * k + k
        BY Quotient, i - 1 \in Nat
    <2> DEFINE b == q + 1
               j == i - q * k
    <2>2. b \in Int /\ b - 1 = q /\ B \in Int /\ k \in Nat
        OBVIOUS
    <2>3. b * k = q * k + k /\ (b - 1) * k = q * k
        BY <2>2, Product
    <2>4. b <= B
        <3> SUFFICES ASSUME B + 1 <= b PROVE FALSE
            BY <2>2
        <3>1. (B + 1) * k = B * k + k /\ B + 1 \in Int
            BY <2>2, Product
        <3>2. (B + 1) * k <= b * k
            BY <2>2, <3>1, Product
        <3> QED
            BY <1>1, <2>1, <2>3, <3>1, <3>2
    <2>5. b \in 1 .. B
        BY <2>2, <2>4
    <2>6. j \in 1 .. Size(b)
        BY <1>3, <2>1, <2>3, <2>5
    <2>7. p[b][j] = i
        BY <1>4, <2>1, <2>3, <2>5, <2>6
    <2>8. j \in DOMAIN p[b] /\ b \in DOMAIN p
        BY <1>2, <1>4, <2>5, <2>6, LenProperties
    <2> HIDE DEF p, b, j
    <2> QED
        BY <2>7, <2>8 DEF Range
<1> HIDE DEF p
<1> QED
    BY <1>5, <1>6, <1>7 DEF p
-----------------------------------------------------------------------------
(* Two lists, one after the other.                                           *)
LEMMA Joined ==
    ASSUME NEW A, NEW s \in Seq(A), NEW t \in Seq(A)
    PROVE  /\ s \o t \in Seq(A) /\ Len(s) \in Nat /\ Len(t) \in Nat
           /\ DOMAIN s = 1 .. Len(s) /\ DOMAIN t = 1 .. Len(t)
           /\ Len(s \o t) = Len(s) + Len(t) /\ DOMAIN (s \o t) = 1 .. Len(s) + Len(t)
           /\ \A i \in 1 .. Len(s) : (s \o t)[i] = s[i] /\ i \in 1 .. Len(s) + Len(t)
           /\ \A i \in 1 .. Len(t) : /\ (s \o t)[Len(s) + i] = t[i]
                                     /\ Len(s) + i \in 1 .. Len(s) + Len(t)
           /\ \A i \in 1 .. Len(s) + Len(t) :
                  i \in 1 .. Len(s) \/ \E j \in 1 .. Len(t) : i = Len(s) + j
<1>1. Len(s) \in Nat /\ Len(t) \in Nat /\ DOMAIN s = 1 .. Len(s) /\ DOMAIN t = 1 .. Len(t)
    BY LenProperties
<1>2. /\ s \o t \in Seq(A) /\ Len(s \o t) = Len(s) + Len(t)
      /\ \A i \in 1 .. Len(s) + Len(t) : (s \o t)[i] = IF i <= Len(s) THEN s[i] ELSE t[i - Len(s)]
    BY ConcatProperties
<1>3. DOMAIN (s \o t) = 1 .. Len(s) + Len(t)
    BY <1>2, LenProperties
<1>4. \A i \in 1 .. Len(s) : (s \o t)[i] = s[i] /\ i \in 1 .. Len(s) + Len(t)
    BY <1>1, <1>2
<1>5. ASSUME NEW i \in 1 .. Len(t)
      PROVE  (s \o t)[Len(s) + i] = t[i] /\ Len(s) + i \in 1 .. Len(s) + Len(t)
    <2>1. Len(s) + i \in 1 .. Len(s) + Len(t) /\ ~(Len(s) + i <= Len(s)) /\ Len(s) + i - Len(s) = i
        BY <1>1
    <2> QED
        BY <1>2, <2>1
<1>6. ASSUME NEW i \in 1 .. Len(s) + Len(t), i \notin 1 .. Len(s)
      PROVE  \E j \in 1 .. Len(t) : i = Len(s) + j
    <2>1. i - Len(s) \in 1 .. Len(t) /\ i = Len(s) + (i - Len(s))
        BY <1>1, <1>6
    <2> QED
        BY <2>1
<1> QED
    BY <1>1, <1>2, <1>3, <1>4, <1>5, <1>6

-----------------------------------------------------------------------------
(* FlattenSeq joins the lists of a list from the left.                       *)
LEMMA FlattenIsComputed ==
    ASSUME NEW A, NEW s \in Seq(Seq(A))
    PROVE  \E flat : /\ flat \in [0 .. Len(s) -> Seq(A)] /\ flat[0] = <<>>
                     /\ \A n \in 1 .. Len(s) : flat[n] = flat[n - 1] \o s[n]
                     /\ FlattenSeq(s) = flat[Len(s)]
<1> DEFINE N == Len(s)
           D == Seq(A)
           base == <<>>
           step == [n \in 1 .. N |-> [v \in D |-> v \o s[n]]]
           Body(f, i) == IF i = 1 THEN s[i] ELSE f[i - 1] \o s[i]
           flatten == CHOOSE f : f = [i \in 1 .. N |-> Body(f, i)]
<1>1. N \in Nat /\ (N = 0 => s = <<>>) /\ \A n \in 1 .. N : s[n] \in D
    BY LenProperties, ElementOfSeq, EmptySeq
<1>2. base \in D /\ \A v \in D, w \in D : v \o w \in D
    BY EmptySeq, ConcatProperties
<1>3. \A w \in D : base \o w = w
    BY ConcatEmptySeq
<1>4. FlattenSeq(s) = IF N = 0 THEN s ELSE flatten[N]
    BY DEF FlattenSeq
<1> HIDE DEF N, D
<1>5. step \in [1 .. N -> [D -> D]] /\ \A n \in 1 .. N, v \in D : step[n][v] = v \o s[n]
    BY <1>1, <1>2
<1> HIDE DEF step, base
<1>6. PICK h : Computed(h, N, D, base, step)
    BY <1>1, <1>2, <1>5, Recursion
<1>7. /\ h \in [0 .. N -> D] /\ h[0] = base
      /\ \A n \in 1 .. N : h[n] = step[n][h[n - 1]]
    BY <1>6 DEF Computed
<1>8. \A n \in 1 .. N : h[n] = h[n - 1] \o s[n]
    <2>1. \A n \in 1 .. N : n - 1 \in 0 .. N
        BY <1>1
    <2> QED
        BY <1>5, <1>7, <2>1
<1>9. CASE N = 0
    <2>1. FlattenSeq(s) = h[N]
        BY <1>1, <1>4, <1>7, <1>9 DEF base
    <2> QED
        BY <1>7, <1>8, <2>1 DEF N, D, base
<1>10. CASE N # 0
    <2> DEFINE g == [i \in 1 .. N |-> h[i]]
    <2>1. ASSUME NEW i \in 1 .. N PROVE g[i] = Body(g, i)
        <3>1. CASE i = 1
            <4>1. 1 \in 1 .. N /\ 1 - 1 = 0
                BY <3>1
            <4>2. h[1] = h[1 - 1] \o s[1]
                BY <1>8, <4>1
            <4>3. h[1] = base \o s[1]
                BY <1>7, <4>1, <4>2
            <4> QED
                BY <1>1, <1>3, <3>1, <4>1, <4>3
        <3>2. CASE i # 1
            <4>1. i - 1 \in 1 .. N
                BY <1>1, <3>2
            <4> QED
                BY <1>8, <3>2, <4>1
        <3> QED
            BY <3>1, <3>2
    <2>2. g = [i \in 1 .. N |-> Body(g, i)]
        <3>1. DOMAIN g = 1 .. N /\ g = [i \in 1 .. N |-> g[i]]
            OBVIOUS
        <3> HIDE DEF g, Body
        <3> QED
            BY <2>1, <3>1
    <2> HIDE DEF g, Body
    <2>3. flatten = [i \in 1 .. N |-> Body(flatten, i)]
        BY <2>2 DEF flatten
    <2> HIDE DEF flatten
    <2>4. \A i \in 1 .. N : flatten[i] = Body(flatten, i)
        BY <2>3, Zenon
    <2> DEFINE T == {n \in 0 .. N : n = 0 \/ flatten[n] = h[n]}
    <2>5. ASSUME NEW n \in 0 .. N - 1, n \in T PROVE n + 1 \in T
        <3>1. n + 1 \in 1 .. N /\ (n + 1) - 1 = n
            BY <1>1
        <3>2. flatten[n + 1] = IF n + 1 = 1 THEN s[n + 1] ELSE flatten[n] \o s[n + 1]
            BY <2>4, <3>1 DEF Body
        <3>3. h[n + 1] = h[n] \o s[n + 1]
            BY <1>8, <3>1
        <3>4. CASE n = 0
            <4>1. h[n + 1] = base \o s[n + 1]
                BY <1>7, <3>3, <3>4
            <4>2. flatten[n + 1] = h[n + 1]
                <5>1. n + 1 = 1
                    BY <3>4
                <5>2. flatten[n + 1] = s[n + 1]
                    BY <3>2, <5>1
                <5>3. base \o s[n + 1] = s[n + 1]
                    BY <1>1, <1>3, <3>1
                <5> QED
                    BY <4>1, <5>2, <5>3
            <4> QED
                BY <3>1, <4>2
        <3>5. CASE n # 0
            <4>1. flatten[n] = h[n]
                BY <2>5, <3>5
            <4>2. n + 1 # 1
                BY <3>5
            <4>3. flatten[n + 1] = flatten[n] \o s[n + 1]
                BY <3>2, <4>2
            <4>4. flatten[n + 1] = h[n + 1]
                BY <3>3, <4>1, <4>3
            <4> QED
                BY <3>1, <4>4
        <3> QED
            BY <3>4, <3>5
    <2>6. 0 \in T
        BY <1>1
    <2> HIDE DEF T
    <2>7. \A n \in 0 .. N : n \in T
        BY <1>1, <2>5, <2>6, BoundedInduction
    <2>8. flatten[N] = h[N]
        BY <1>1, <1>10, <2>7 DEF T
    <2>9. FlattenSeq(s) = h[N]
        BY <1>4, <1>10, <2>8 DEF flatten
    <2> QED
        BY <1>7, <1>8, <2>9 DEF N, D, base
<1> QED
    BY <1>9, <1>10

LEMMA FlattenIs ==
    ASSUME NEW A, NEW s \in Seq(Seq(A)), NEW g, g[0] = <<>>,
           \A n \in 1 .. Len(s) : g[n] = g[n - 1] \o s[n]
    PROVE  FlattenSeq(s) = g[Len(s)] /\ FlattenSeq(s) \in Seq(A)
<1>1. Len(s) \in Nat
    BY LenProperties
<1>2. PICK flat : /\ flat \in [0 .. Len(s) -> Seq(A)] /\ flat[0] = <<>>
                  /\ \A n \in 1 .. Len(s) : flat[n] = flat[n - 1] \o s[n]
                  /\ FlattenSeq(s) = flat[Len(s)]
    BY FlattenIsComputed
<1> DEFINE T == {n \in 0 .. Len(s) : flat[n] = g[n]}
<1>3. ASSUME NEW n \in 0 .. Len(s) - 1, n \in T PROVE n + 1 \in T
    <2>1. n + 1 \in 1 .. Len(s) /\ n + 1 \in 0 .. Len(s) /\ (n + 1) - 1 = n
        BY <1>1
    <2>2. flat[n + 1] = flat[n] \o s[n + 1] /\ g[n + 1] = g[n] \o s[n + 1]
        BY <1>2, <2>1
    <2> QED
        BY <1>3, <2>1, <2>2
<1>4. 0 \in T
    BY <1>1, <1>2
<1> HIDE DEF T
<1>5. \A n \in 0 .. Len(s) : n \in T
    BY <1>1, <1>3, <1>4, BoundedInduction
<1>6. Len(s) \in 0 .. Len(s) /\ Len(s) \in T
    BY <1>1, <1>5
<1> QED
    BY <1>2, <1>6 DEF T

LEMMA FlattenAppend ==
    ASSUME NEW A, NEW s \in Seq(Seq(A)), NEW x \in Seq(A)
    PROVE  /\ FlattenSeq(Append(s, x)) = FlattenSeq(s) \o x
           /\ FlattenSeq(s) \in Seq(A) /\ FlattenSeq(Append(s, x)) \in Seq(A)
<1> DEFINE N == Len(s)
           u == Append(s, x)
<1>1. /\ N \in Nat /\ u \in Seq(Seq(A)) /\ Len(u) = N + 1
      /\ \A n \in 1 .. N : u[n] = s[n]
      /\ u[N + 1] = x
    BY LenProperties, AppendProperties
<1>2. PICK flat : /\ flat \in [0 .. N -> Seq(A)] /\ flat[0] = <<>>
                  /\ \A n \in 1 .. N : flat[n] = flat[n - 1] \o s[n]
                  /\ FlattenSeq(s) = flat[N]
    BY FlattenIsComputed
<1> DEFINE g == [n \in 0 .. N + 1 |-> IF n <= N THEN flat[n] ELSE flat[N] \o x]
<1> HIDE DEF N, u
<1>3. /\ \A n \in 0 .. N : g[n] = flat[n]
      /\ g[N + 1] = flat[N] \o x
    BY <1>1
<1> HIDE DEF g
<1>4. ASSUME NEW n \in 1 .. Len(u) PROVE g[n] = g[n - 1] \o u[n]
    <2>1. CASE n = N + 1
        <3>1. n - 1 = N /\ N \in 0 .. N
            BY <1>1, <2>1
        <3>2. g[n - 1] = flat[N] /\ g[n] = flat[N] \o x /\ u[n] = x
            BY <1>1, <1>3, <2>1, <3>1
        <3> QED
            BY <3>2
    <2>2. CASE n \in 1 .. N
        <3>1. n - 1 \in 0 .. N /\ n \in 0 .. N
            BY <1>1, <2>2
        <3> QED
            BY <1>1, <1>2, <1>3, <2>2, <3>1
    <2> QED
        BY <1>1, <2>1, <2>2
<1>5. g[0] = <<>>
    BY <1>1, <1>2, <1>3
<1>6. FlattenSeq(u) = g[Len(u)] /\ FlattenSeq(u) \in Seq(A)
    BY <1>1, <1>4, <1>5, FlattenIs
<1>7. FlattenSeq(s) \in Seq(A)
    <2>1. N \in 0 .. N
        BY <1>1
    <2> QED
        BY <1>2, <2>1
<1> QED
    BY <1>1, <1>2, <1>3, <1>6, <1>7 DEF u

(* Empty lists at the end add nothing.                                       *)
LEMMA FlattenEmpties ==
    ASSUME NEW A, NEW s \in Seq(Seq(A)), NEW t \in Seq(Seq(A)),
           \A i \in 1 .. Len(t) : t[i] = <<>>
    PROVE  FlattenSeq(s \o t) = FlattenSeq(s)
<1> DEFINE N == Len(s)
           u == s \o t
<1>1. /\ N \in Nat /\ Len(t) \in Nat /\ u \in Seq(Seq(A)) /\ Len(u) = N + Len(t)
      /\ \A n \in 1 .. N + Len(t) : u[n] = IF n <= N THEN s[n] ELSE t[n - N]
    BY LenProperties, ConcatProperties
<1>2. PICK flat : /\ flat \in [0 .. N -> Seq(A)] /\ flat[0] = <<>>
                  /\ \A n \in 1 .. N : flat[n] = flat[n - 1] \o s[n]
                  /\ FlattenSeq(s) = flat[N]
    BY FlattenIsComputed
<1> DEFINE g == [n \in 0 .. Len(u) |-> IF n <= N THEN flat[n] ELSE flat[N]]
<1>3. flat[N] \o <<>> = flat[N]
    <2>1. N \in 0 .. N
        BY <1>1
    <2>2. flat[N] \in Seq(A)
        BY <1>2, <2>1
    <2> QED
        BY <2>2, ConcatEmptySeq
<1> HIDE DEF N, u
<1>4. \A n \in 0 .. Len(u) : g[n] = IF n <= N THEN flat[n] ELSE flat[N]
    OBVIOUS
<1> HIDE DEF g
<1>5. ASSUME NEW n \in 1 .. Len(u) PROVE g[n] = g[n - 1] \o u[n]
    <2>1. CASE n <= N
        <3>1. n \in 1 .. N /\ n \in 0 .. Len(u) /\ n - 1 \in 0 .. Len(u) /\ n - 1 <= N
            BY <1>1, <2>1
        <3>2. g[n] = flat[n] /\ g[n - 1] = flat[n - 1] /\ u[n] = s[n]
            BY <1>1, <1>4, <2>1, <3>1
        <3> QED
            BY <1>2, <3>1, <3>2
    <2>2. CASE ~(n <= N)
        <3>1. /\ n \in 0 .. Len(u) /\ n - 1 \in 0 .. Len(u) /\ n - N \in 1 .. Len(t)
              /\ n - 1 <= N => n - 1 = N
              /\ n \in 1 .. N + Len(t)
            BY <1>1, <2>2
        <3>2. g[n] = flat[N] /\ g[n - 1] = flat[N]
            BY <1>4, <2>2, <3>1
        <3>3. u[n] = <<>>
            BY <1>1, <2>2, <3>1
        <3> QED
            BY <1>3, <3>2, <3>3
    <2> QED
        BY <2>1, <2>2
<1>6. g[0] = <<>> /\ g[Len(u)] = flat[N]
    <2>1. /\ 0 \in 0 .. Len(u) /\ 0 <= N /\ Len(u) \in 0 .. Len(u)
          /\ Len(u) <= N => Len(u) = N
        BY <1>1
    <2>2. g[0] = flat[0] /\ g[Len(u)] = flat[N]
        BY <1>4, <2>1
    <2> QED
        BY <1>2, <2>2
<1>7. FlattenSeq(u) = g[Len(u)]
    BY <1>1, <1>5, <1>6, FlattenIs
<1> QED
    BY <1>2, <1>6, <1>7 DEF u

LEMMA FlattenOne ==
    ASSUME NEW A, NEW r \in Seq(A)
    PROVE  FlattenSeq(<<r>>) = r
<1>1. << >> \in Seq(Seq(A)) /\ FlattenSeq(<< >>) = << >>
    BY DEF FlattenSeq
<1>2. Append(<< >>, r) = <<r>> /\ << >> \o r = r
    BY ConcatEmptySeq
<1>3. FlattenSeq(Append(<< >>, r)) = FlattenSeq(<< >>) \o r
    BY <1>1, FlattenAppend
<1> QED
    BY <1>1, <1>2, <1>3

LEMMA FlattenSingles ==
    ASSUME NEW A, NEW r \in Seq(A)
    PROVE  FlattenSeq([i \in 1 .. Len(r) |-> <<r[i]>>]) = r
<1> DEFINE N == Len(r)
           s == [i \in 1 .. N |-> <<r[i]>>]
           g == [n \in 0 .. N |-> [j \in 1 .. n |-> r[j]]]
<1>1. N \in Nat /\ \A i \in 1 .. N : r[i] \in A
    BY LenProperties, ElementOfSeq
<1>2. \A i \in 1 .. N : <<r[i]>> \in Seq(A)
    BY <1>1
<1>3. s \in Seq(Seq(A)) /\ Len(s) = N
    BY <1>1, <1>2
<1>4. ASSUME NEW n \in 1 .. N PROVE g[n] = g[n - 1] \o s[n]
    <2>1. n - 1 \in 0 .. N /\ n \in 0 .. N /\ n - 1 \in Nat /\ (n - 1) + 1 = n
        BY <1>1
    <2> DEFINE before == [j \in 1 .. n - 1 |-> r[j]]
    <2>2. before \in Seq(A) /\ Len(before) = n - 1
        <3>1. \A j \in 1 .. n - 1 : r[j] \in A
            BY <1>1
        <3> QED
            BY <2>1, <3>1
    <2>3. g[n - 1] = before /\ g[n] = [j \in 1 .. n |-> r[j]] /\ s[n] = <<r[n]>> /\ r[n] \in A
        BY <1>1, <2>1
    <2>4. before \o <<r[n]>> = Append(before, r[n])
        BY <2>2, <2>3, AppendIsConcat
    <2>5. Append(before, r[n]) = [j \in 1 .. n |-> r[j]]
        BY <2>1, <2>2, <2>3
    <2> QED
        BY <2>3, <2>4, <2>5
<1>5. g[0] = <<>> /\ g[N] = r
    BY <1>1
<1> HIDE DEF g, s, N
<1>6. FlattenSeq(s) = g[N]
    BY <1>3, <1>4, <1>5, FlattenIs
<1> QED
    BY <1>5, <1>6 DEF s, N
=============================================================================
