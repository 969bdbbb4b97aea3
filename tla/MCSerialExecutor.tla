-------------------------- MODULE MCSerialExecutor --------------------------
(***************************************************************************)
(* A group, a fan-out over it, and two groups after both.                     *)
(***************************************************************************)
EXTENDS SerialExecutor, TLC

InOrder == <<"retrieve", "analyze", "write", "review">>
Fanouts == [g \in Groups |-> IF g = "analyze" THEN "retrieve" ELSE None]
=============================================================================
