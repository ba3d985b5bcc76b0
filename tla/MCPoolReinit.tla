---------------------------- MODULE MCPoolReinit ----------------------------
(* Instances of PoolReinit for TLC.                                        *)
EXTENDS PoolReinit, TLC

CONSTANTS d1, d2, e1, e2, e3

\* One DC that moves from one endpoint to another, with hardswap on.
MovingDC == [maps |-> {d1 :> {e1}, d1 :> {e2}}, floor |-> 2, passes |-> 1, toggle |-> FALSE,
             changes |-> 1, dials |-> 1, cycles |-> 3]

\* Two DCs, of which the first one moves, with hardswap on, off or flipped.
TwoDCs == [maps |-> {d1 :> {e1} @@ d2 :> {e2}, d1 :> {e3} @@ d2 :> {e2}}, floor |-> 1, passes |-> 0,
           toggle |-> TRUE, changes |-> 2, dials |-> 0, cycles |-> 2]

ThePlans == {MovingDC, TwoDCs}

\* One cycle of hardswap on a map that does not change.
OneCycle == {[MovingDC EXCEPT !.floor = 1, !.passes = 0, !.changes = 0, !.dials = 0, !.cycles = 1]}

=============================================================================
