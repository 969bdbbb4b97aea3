-------------------------- MODULE MCGroupController --------------------------
(***************************************************************************)
(* Instances of GroupController.  Observations are 0 (below decompose_at), *)
(* 1 (between the thresholds) and 2 (above compose_at); the evaluator      *)
(* scores 0 or 2 around a floor of 1; a COMPOUND run takes 1 or 4 ms       *)
(* around a threshold of 2.                                                *)
(***************************************************************************)
EXTENDS GroupController

\* Reports of runs that left no telemetry.
NoTelemetry == [score |-> 0, latency |-> 0, tokens |-> 0, output |-> 0]

\* Low and high observations; COMPOUND runs fast or slow, cheaper or dearer than FINE.
GateSignals ==
    [fine     |-> {NoTelemetry} \cup
                  [score : {0, 2}, latency : {1}, tokens : {2}, output : {1}],
     compound |-> [score : {0, 2}, latency : {1, 4}, tokens : {1, 3}, output : {1}]]

\* FINE runs terse or verbose, COMPOUND runs unremarkable.
QualitySignals ==
    [fine     |-> [score : {1, 2}, latency : {1}, tokens : {2}, output : {1, 6}],
     compound |-> [score : {0, 2}, latency : {1}, tokens : {1}, output : {1}]]
=============================================================================
