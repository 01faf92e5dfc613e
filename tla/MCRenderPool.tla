---------------------------- MODULE MCRenderPool -----------------------------
(* Small fleets for TLC: instance m1 has one seat, the others two.         *)
EXTENDS RenderPool, TLC

CONSTANT m1
MCSeats == [m \in Member |-> IF m = m1 THEN 1 ELSE 2]
OnlyFirst == {Member \ {m1}}
NoSkip == {{}}
==============================================================================
