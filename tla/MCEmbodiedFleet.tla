--------------------------- MODULE MCEmbodiedFleet ---------------------------
(* A small fleet for TLC: every instance has one seat, the environments    *)
(* share a trainer process and its pool, and only e1 is reset a second     *)
(* time.                                                                   *)
EXTENDS EmbodiedFleet

CONSTANT e1
OneSeat == [m \in Member |-> 1]
SharedProcess == [e \in Env |-> "trainer"]
SecondReset == [e \in Env |-> IF e = e1 THEN 2 ELSE 1]
==============================================================================
