--------------------------- MODULE MCGranularity ---------------------------
(***************************************************************************)
(* Four measurements: coordination-heavy, lean, in a full context window,  *)
(* and skipped; the controller's default thresholds.                       *)
(***************************************************************************)
EXTENDS Granularity, TLC

Rec(tokens, coord, errors, context) ==
    [tokens |-> tokens, coord |-> coord, errors |-> errors, batch |-> 1, context |-> context]

Measurements == {Rec(10, 6, 0, 20), Rec(10, 2, 0, 20), Rec(10, 2, 0, 100), Rec(0, 0, 0, 0)}
Defaults     == [high |-> 40, low |-> 15, error |-> 15, context |-> 85]
Sweep        == <<"FINE", "COMPOUND">>
CallsAt      == ("FINE" :> 2) @@ ("COMPOUND" :> 1)
=============================================================================
