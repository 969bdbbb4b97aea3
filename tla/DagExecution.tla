---------------------------- MODULE DagExecution ----------------------------
(***************************************************************************)
(* What a pipeline executor promises about one task: a group starts only   *)
(* when every group it depends on is done, a group is done once per        *)
(* attempt and stays so, and an attempt returns only when all groups are   *)
(* done.  An attempt may be given up at any time, and a new one begins     *)
(* from nothing.  How groups are scheduled, replayed from a checkpoint or  *)
(* skipped is left open.                                                   *)
(***************************************************************************)
CONSTANTS
    Groups,
    DependsOn    \* group -> the groups it depends on

VARIABLES
    status,      \* group -> "waiting", "running" or "done"
    verdict      \* of the attempt: "open", "returned" or "given up"

vars == <<status, verdict>>

AllWaiting == [g \in Groups |-> "waiting"]
Done       == {g \in Groups : status[g] = "done"}
Ready(g)   == DependsOn[g] \subseteq Done

Init == status = AllWaiting /\ verdict = "given up"

Begin ==
    /\ verdict # "open"
    /\ verdict' = "open"
    /\ status' = AllWaiting

\* Some groups start while others are settled (replayed, skipped, delivered).
Advance(start, settle) ==
    /\ verdict = "open"
    /\ \A g \in start : status[g] = "waiting" /\ Ready(g)
    /\ \A g \in settle : status[g] # "done" /\ Ready(g)
    /\ status' = [g \in Groups |-> IF g \in settle THEN "done"
                                   ELSE IF g \in start THEN "running"
                                   ELSE status[g]]
    /\ UNCHANGED verdict

Return ==
    /\ verdict = "open"
    /\ Done = Groups
    /\ verdict' = "returned"
    /\ UNCHANGED status

GiveUp ==
    /\ verdict = "open"
    /\ verdict' = "given up"
    /\ status' = AllWaiting

Next ==
    \/ Begin
    \/ \E start, settle \in SUBSET Groups : Advance(start, settle)
    \/ Return
    \/ GiveUp

Spec == Init /\ [][Next]_vars
=============================================================================
