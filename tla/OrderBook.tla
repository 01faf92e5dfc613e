------------------------------ MODULE OrderBook ------------------------------
(***************************************************************************)
(* The courier's queue of orders (runtime/city/courier_env.py): orders are *)
(* issued up to the queue depth, collected, handed over, paid, and taken   *)
(* back when they are overdue, against a clock every tool call moves.      *)
(*                                                                         *)
(* Nothing runs in the background.  An order is overdue the moment the     *)
(* clock passes, but the environment only notices in _issue, which some    *)
(* calls make before they act, some after, some not at all; the model      *)
(* keeps that order.  The courier may make any call at any time; streets   *)
(* are a set of places, each at a distance from every door.                *)
(***************************************************************************)
EXTENDS Integers, FiniteSets, FiniteSetsExt

CONSTANTS
  Jobs,             \* how many orders the shift has, or may draw
  Depth,            \* queue_depth
  Window,           \* Window[o]: deadline_s, from the moment it is issued
  EXPIRY_MULTIPLE,  \* ORDER_EXPIRY_MULTIPLE, 3 in the code
  Fee,              \* Fee[o], in hundredths
  LATE_PCT,         \* LATE_FEE_FRACTION in percent, 50 in the code
  Spoils,           \* Spoils[o]: seconds until the bag spoils, or Never
  SpoilPct,         \* SpoilPct[o]: COLD_ or MELT_FEE_FRACTION in percent
  Never,
  HANDLING,         \* HANDLING_SECONDS and the body's stop overhead
  DoorHandling,     \* DoorHandling[o]: the same at the customer's door, by note
  Place, Pickup, Dropoff,  \* Pickup[o], Dropoff[o]: doors
  Gap,              \* Gap[p][d]: distance from place p to door d
  TOLERANCE,        \* ARRIVAL_TOLERANCE_CM
  WalkSeconds, PauseSeconds, ConsultSeconds, RefusalSeconds,
  SHIFT,            \* shift_seconds
  MaxTurns          \* bound: calls the policy makes

Job == 1..Jobs

ASSUME BookAssumption ==
  /\ Jobs \in Nat /\ Depth \in Nat \ {0}
  /\ Window \in [Job -> Nat] /\ EXPIRY_MULTIPLE \in Nat \ {0}
  /\ Fee \in [Job -> Nat] /\ LATE_PCT \in 0..100
  /\ Never \notin Nat /\ Spoils \in [Job -> Nat \union {Never}]
  /\ SpoilPct \in [Job -> 0..100]
  /\ HANDLING \in Nat \ {0} /\ DoorHandling \in [Job -> Nat \ {0}]
  /\ WalkSeconds \union PauseSeconds \union ConsultSeconds \union RefusalSeconds
       \subseteq Nat \ {0}
  /\ SHIFT \in Nat /\ MaxTurns \in Nat /\ TOLERANCE \in Nat

VARIABLES
  orders,    \* Order objects, by index
  sim,       \* sim_seconds
  here,      \* node_id, as one of the places
  earnings, turns,
  rejected,  \* rejected_actions
  finished,
  endless    \* Difficulty.ENDLESS: orders are drawn on demand

vars == <<orders, sim, here, earnings, turns, rejected, finished,
          endless>>

LiveStage == {"issued", "carried"}
Stage == LiveStage \union {"waiting", "delivered", "expired"}

Order == [stage : Stage, issuedAt : Nat, pickedAt : Nat, paid : Nat]
Blank == [stage |-> "waiting", issuedAt |-> 0, pickedAt |-> 0, paid |-> 0]

------------------------------------------------------------------------------
(* The live queue.  os is the list of orders a call is in the middle of    *)
(* changing.                                                               *)

LiveIn(os) == {o \in Job : os[o].stage \in LiveStage}
Waiting(os) == {o \in Job : os[o].stage = "waiting"}
DueAt(os, o) == os[o].issuedAt + Window[o]
ExpiresAt(os, o) == os[o].issuedAt + EXPIRY_MULTIPLE * Window[o]

Overdue(os, now) == {o \in LiveIn(os) : now > ExpiresAt(os, o)}

Expire(os, now) ==
  [o \in Job |-> IF o \in Overdue(os, now)
                 THEN [os[o] EXCEPT !.stage = "expired"] ELSE os[o]]

(* How many orders a top-up hands out.  A bounded shift has its list; an   *)
(* endless one draws, and a draw may find no pair of addresses.            *)
TopUp(os) ==
  LET room == Depth - Cardinality(LiveIn(os))
      most == Min({room, Cardinality(Waiting(os))})
  IN IF endless THEN 0..most ELSE {most}

(* The n lowest-numbered waiting orders.                                   *)
Oldest(os, n) ==
  {o \in Waiting(os) : Cardinality({w \in Waiting(os) : w < o}) < n}

Hand(os, picks, now) ==
  [o \in Job |-> IF o \in picks
                 THEN [os[o] EXCEPT !.stage = "issued", !.issuedAt = now] ELSE os[o]]

(* Mutant: sweep after the top-up.                                         *)
Issue_SweepLast(os, now) ==
  {Expire(Hand(os, Oldest(os, n), now), now) : n \in TopUp(os)}

(* _issue: take back what is overdue, then refill to the depth.            *)
Issue(os, now) ==
  LET swept == Expire(os, now)
  IN {Hand(swept, Oldest(swept, n), now) : n \in TopUp(swept)}

(* Mutant: the tightest deadline, as it once was.                          *)
Focus_Tightest(os) ==
  {o \in LiveIn(os) : \A q \in LiveIn(os) \ {o} :
     \/ DueAt(os, o) < DueAt(os, q)
     \/ DueAt(os, o) = DueAt(os, q) /\ o < q}

(* active_order: the oldest job in the bag, else the oldest in the queue.  *)
Focus(os) ==
  LET carried == {o \in Job : os[o].stage = "carried"}
  IN IF carried # {} THEN {Min(carried)}
     ELSE IF LiveIn(os) # {} THEN {Min(LiveIn(os))} ELSE {}

------------------------------------------------------------------------------
(* What the calls share.                                                   *)

ShiftOver == sim >= SHIFT

(* The session stops calling once the shift is over or finished.           *)
Called == ~finished /\ ~ShiftOver /\ turns < MaxTurns /\ turns' = turns + 1

Takes(seconds) == sim' = sim + seconds

Refuse(os) ==
  /\ rejected' = rejected + 1 /\ \E s \in RefusalSeconds : Takes(s)
  /\ orders' = os
  /\ UNCHANGED <<here, earnings, finished>>

------------------------------------------------------------------------------
(* The tools.                                                              *)

Init ==
  /\ endless \in BOOLEAN
  /\ orders \in Issue([o \in Job |-> Blank], 0)
  /\ sim = 0 /\ here \in Place
  /\ earnings = 0 /\ turns = 0 /\ rejected = 0 /\ finished = FALSE

(* walk_to and follow_street: a run of one waypoint or (the bound) two,    *)
(* each topping the queue up, and perhaps stopped by a barrier, which      *)
(* costs its time after the queue was last read.  A run is one turn, and a *)
(* barrier met on the way is no refusal; a refused walk reads no order.    *)
Walk ==
  /\ Called
  /\ \/ /\ here' \in Place \ {here}
        /\ \E s \in WalkSeconds : \E first \in Issue(orders, sim + s) :
             \/ Takes(s) /\ orders' = first
             \/ \E t \in WalkSeconds : Takes(s + t) /\ orders' \in Issue(first, sim')
             \/ \E r \in RefusalSeconds : Takes(s + r) /\ orders' = first
        /\ UNCHANGED <<earnings, rejected, finished>>
     \/ Refuse(orders)

(* wait, rest and charge_phone; the last two may be refused.               *)
Pause ==
  /\ Called
  /\ \/ /\ \E s \in PauseSeconds : Takes(s)
        /\ orders' \in Issue(orders, sim')
        /\ UNCHANGED <<here, earnings, rejected, finished>>
     \/ Refuse(orders)

(* look and check_map read no order; check_order and navigate read the     *)
(* live queue, so they sweep it, before the call is charged for.           *)
Consult ==
  /\ Called
  /\ \E os \in {orders} \union Issue(orders, sim) :
       \/ /\ \E s \in ConsultSeconds : Takes(s)
          /\ orders' = os
          /\ UNCHANGED <<here, earnings, rejected, finished>>
       \/ Refuse(os)

(* _order_at_hand: the nearest order whose next door is within reach.      *)
AtDoor(os, stage, Door) ==
  LET near == {o \in Job : os[o].stage = stage /\ Gap[here][Door[o]] <= TOLERANCE}
  IN {o \in near : \A q \in near :
        \/ Gap[here][Door[o]] < Gap[here][Door[q]]
        \/ Gap[here][Door[o]] = Gap[here][Door[q]] /\ o <= q}

(* Mutant: the queue is read without sweeping it.                          *)
Collect_Unswept ==
  /\ Called
  /\ \/ AtDoor(orders, "issued", Pickup) = {} /\ Refuse(orders)
     \/ \E o \in AtDoor(orders, "issued", Pickup) :
          /\ Takes(HANDLING)
          /\ orders' \in Issue([orders EXCEPT ![o].stage = "carried",
                                              ![o].pickedAt = sim'], sim')
          /\ UNCHANGED <<here, earnings, rejected, finished>>

Collect ==
  /\ Called
  /\ \E os \in Issue(orders, sim) :
       \/ AtDoor(os, "issued", Pickup) = {} /\ Refuse(os)
       \/ \E o \in AtDoor(os, "issued", Pickup) :
            /\ Takes(HANDLING)
            /\ orders' \in Issue([os EXCEPT ![o].stage = "carried",
                                            ![o].pickedAt = sim'], sim')
            /\ UNCHANGED <<here, earnings, rejected, finished>>

OnTime(os, o, now) == now <= DueAt(os, o)
Spoilt(os, o, now) == Spoils[o] # Never /\ now - os[o].pickedAt > Spoils[o]

(* Late and spoilt multiply.                                               *)
Pay(os, o, now) ==
  (Fee[o] * (IF OnTime(os, o, now) THEN 100 ELSE LATE_PCT)
          * (IF Spoilt(os, o, now) THEN SpoilPct[o] ELSE 100)) \div 10000

(* Mutant: the courier is paid and the slip is not marked.                 *)
HandOver_NoSlip ==
  /\ Called
  /\ \E os \in Issue(orders, sim) : \E o \in AtDoor(os, "carried", Dropoff) :
       /\ Takes(DoorHandling[o])
       /\ earnings' = earnings + Pay(os, o, sim')
       /\ orders' \in Issue([os EXCEPT ![o].stage = "delivered"], sim')
       /\ finished' = (LiveIn(orders') = {} \/ sim' >= SHIFT)
       /\ UNCHANGED <<here, rejected>>

HandOver ==
  /\ Called
  /\ \E os \in Issue(orders, sim) :
       \/ AtDoor(os, "carried", Dropoff) = {} /\ Refuse(os)
       \/ \E o \in AtDoor(os, "carried", Dropoff) :
            LET paid == Pay(os, o, sim + DoorHandling[o])
            IN /\ Takes(DoorHandling[o])
               /\ earnings' = earnings + paid
               /\ orders' \in Issue([os EXCEPT ![o].stage = "delivered",
                                               ![o].paid = paid], sim')
               /\ finished' = (LiveIn(orders') = {} \/ sim' >= SHIFT)
               /\ UNCHANGED <<here, rejected>>

(* live_orders and active_order, as the session reads them between calls.  *)
Observe ==
  /\ orders' \in Issue(orders, sim)
  /\ UNCHANGED <<sim, here, earnings, turns, rejected, finished>>

Next ==
  /\ Walk \/ Pause \/ Consult \/ Collect \/ HandOver \/ Observe
  /\ UNCHANGED endless

Spec == Init /\ [][Next]_vars

------------------------------------------------------------------------------
(* Properties.                                                             *)

(* The courier never has more live orders than the queue is deep, and an   *)
(* order taken back or delivered is replaced in the same breath: a bounded *)
(* shift is short of work only when its list has run out.                  *)
RefilledAtOnce ==
  /\ Cardinality(LiveIn(orders)) <= Depth
  /\ endless \/ Cardinality(LiveIn(orders)) = Depth \/ Waiting(orders) = {}

(* The earnings are the sum of what the slips say was paid, and only a     *)
(* delivered order was paid.                                               *)
EarningsAreTheSlips ==
  /\ earnings = MapThenSumSet(LAMBDA o : orders[o].paid, Job)
  /\ \A o \in Job : orders[o].paid > 0 => orders[o].stage = "delivered"

(* Collected or handed over in this step, and perhaps overdue by its end.  *)
Served(o) ==
  \/ orders'[o].pickedAt # orders[o].pickedAt
  \/ orders'[o].stage = "delivered" /\ orders[o].stage # "delivered"

(* An order the clock has already overtaken is never served, although it   *)
(* stays live in the list until something reads the queue.                 *)
OverdueNeverServed ==
  [][\A o \in Job : Served(o) =>
       sim <= ExpiresAt(orders, o) \/ orders[o].stage = "waiting"]_vars

(* The focus of the observation moves only because its order was settled   *)
(* or the courier served an order: time alone never flips it.              *)
FocusSteady ==
  [][\A o \in Focus(orders) :
       \/ o \in Focus(orders')
       \/ orders'[o].stage \in {"delivered", "expired"}
       \/ \E q \in Job : Served(q)]_vars
==============================================================================
