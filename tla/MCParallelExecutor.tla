------------------------- MODULE MCParallelExecutor -------------------------
(***************************************************************************)
(* Instances of ParallelExecutor.                                          *)
(***************************************************************************)
EXTENDS ParallelExecutor, TLC

CONSTANTS a, b, c, d

\* A source, two groups after it, and a group that reads all three.
DiamondGroups   == {a, b, c, d}
DiamondDeclared == <<a, b, c, d>>
DiamondDeps     == (a :> {}) @@ (b :> {a}) @@ (c :> {a}) @@ (d :> {a, b, c})
PlainGroups     == [g \in {a, b, c, d} |-> None]
\* b is a fan-out group over an agent of a.
FanoutB         == [g \in {a, b, c, d} |-> IF g = b THEN a ELSE None]

\* Two independent groups, one after both, all declared without a fan-out.
JoinGroups   == {a, b, c}
JoinDeclared == <<a, b, c>>
JoinDeps     == (a :> {}) @@ (b :> {}) @@ (c :> {a, b})
JoinPlain    == [g \in {a, b, c} |-> None]

\* b and c independent after a, the rest by the implicit chain: c follows b
\* in declaration order unless it says otherwise.
ChainDeps == (a :> None) @@ (b :> None) @@ (c :> {a})
=============================================================================
