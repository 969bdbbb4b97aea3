---------------------------- MODULE MCScheduler ----------------------------
(***************************************************************************)
(* Every declaration of a group of four agents with up to two dependencies *)
(* each, itself and a stranger among them.                                 *)
(***************************************************************************)
EXTENDS Scheduler

FourAgents == <<"a", "b", "c", "d">>
UpToTwo    == {None, {}, {Outsider}}
                  \cup {{m, n} : m, n \in ToSet(FourAgents)}
=============================================================================
