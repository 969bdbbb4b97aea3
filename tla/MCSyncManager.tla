---------------------------- MODULE MCSyncManager ----------------------------
(***************************************************************************)
(* Two processes: one that runs capsules and has two readers, one that      *)
(* reads.  sync is a synchronous key, async an asynchronous one.           *)
(***************************************************************************)
EXTENDS SyncManager, TLC

CONSTANTS m1, m2, p1, c1, c2, c3, sync, async

Placed  == (p1 :> m1) @@ (c1 :> m1) @@ (c2 :> m1) @@ (c3 :> m2)
OwnedBy == [k \in Keys |-> p1]
=============================================================================
