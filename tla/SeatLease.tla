------------------------------ MODULE SeatLease ------------------------------
(***************************************************************************)
(* What RenderPool.lease_embodied promises its callers, with nothing about *)
(* how: an episode holds one seat on one instance or none at all, and an   *)
(* instance never carries more episodes than it has seats.  RenderPool and *)
(* EmbodiedFleet are the detailed specifications shown to implement it.    *)
(***************************************************************************)
EXTENDS Naturals, FiniteSets

CONSTANTS Member,    \* the render instances listed in endpoints.json
          Episode,   \* embodied episodes, each driven by one env thread
          Seats      \* Seats[m]: the couriers instance m carries at once

VARIABLE leases      \* leases[m]: the episodes holding a seat on m

Init == leases = [m \in Member |-> {}]

Holders == UNION {leases[m] : m \in Member}

Take(e, m) ==
  /\ e \notin Holders
  /\ Cardinality(leases[m]) < Seats[m]
  /\ leases' = [leases EXCEPT ![m] = @ \union {e}]

Give(e, m) ==
  /\ e \in leases[m]
  /\ leases' = [leases EXCEPT ![m] = @ \ {e}]

Next == \E e \in Episode, m \in Member : Take(e, m) \/ Give(e, m)

Spec == Init /\ [][Next]_leases
==============================================================================
