----------------------------- MODULE PhoneScreen -----------------------------
(***************************************************************************)
(* The map on the courier's phone (runtime/city/courier_env.py), on top of *)
(* the order queue.  Every top-up of the queue relights the screen on the  *)
(* job in hand, unless navigate has put a route of the courier's own       *)
(* there; walking under a lit map drains the battery, a dead phone shows   *)
(* nothing, and collecting, handing over or reviving takes the screen      *)
(* back.  Each action is the queue's action of that name together with     *)
(* what it does to the phone.                                              *)
(***************************************************************************)
EXTENDS OrderBook

CONSTANTS
  Address,      \* addresses navigate may be asked for: every door, and others
  Phone,        \* the condition has a phone (not NO_PHONE, not VISUAL)
  Full,         \* a full battery, 100 in the code
  WalkDrain,    \* PHONE_BATTERY_SCREEN_PCT, 0 without the battery flag
  RouteDrain,   \* PHONE_BATTERY_NAVIGATE_PCT, 0 without the battery flag
  CHARGE,       \* PHONE_RECHARGE_PCT, 0 when there is no power bank
  NoTarget

ASSUME PhoneAssumption ==
  /\ Phone \in BOOLEAN /\ NoTarget \notin Address
  /\ Pickup \in [Job -> Address] /\ Dropoff \in [Job -> Address]
  /\ Full \in Nat \ {0} /\ WalkDrain \in Nat /\ RouteDrain \in Nat /\ CHARGE \in Nat

VARIABLES
  battery,  \* phone_battery
  screen    \* screen_target and _screen_route_owner

phone == <<battery, screen>>
phoneVars == <<vars, battery, screen>>

Dark == [target |-> NoTarget, owner |-> "none"]

NextDoor(os, o) == IF os[o].stage = "carried" THEN Dropoff[o] ELSE Pickup[o]
OnJob(os) ==
  {[target |-> NextDoor(os, o), owner |-> "automatic"] : o \in Focus(os)}

(* Mutants: light only a dark screen; take an explicit route for one of    *)
(* the phone's own.                                                        *)
Light_OnlyDark(os, shown, charge, reclaim) ==
  IF ~Phone \/ charge = 0 \/ (shown # Dark /\ ~reclaim) THEN shown
  ELSE CHOOSE s \in IF Focus(os) = {} THEN {Dark} ELSE OnJob(os) : TRUE

Light_NoOwner(os, shown, charge, reclaim) ==
  IF ~Phone \/ charge = 0 THEN shown
  ELSE CHOOSE s \in IF Focus(os) = {} THEN {Dark} ELSE OnJob(os) : TRUE

(* _light_the_screen                                                       *)
Light(os, shown, charge, reclaim) ==
  IF ~Phone \/ charge = 0 \/ (shown.owner = "explicit" /\ ~reclaim) THEN shown
  ELSE CHOOSE s \in IF Focus(os) = {} THEN {Dark} ELSE OnJob(os) : TRUE

Drained(percent) == IF battery > percent THEN battery - percent ELSE 0
Refused == rejected' # rejected
Sweep == screen' = Light(orders', screen, battery', FALSE)

------------------------------------------------------------------------------
PhoneInit == Init /\ battery = Full /\ screen = Light(orders, Dark, Full, FALSE)

(* _drain_screen at each waypoint reached under a lit map, before the      *)
(* queue is topped up.  A run of two waypoints may find the screen dark at *)
(* one of them, so it drains at one or at both.                            *)
PhoneWalk ==
  /\ Walk
  /\ IF Refused THEN UNCHANGED phone
     ELSE \E blocks \in IF screen = Dark THEN 0..1 ELSE 1..2 :
            /\ battery' = Drained(blocks * WalkDrain)
            /\ screen' = Light(orders', IF battery' = 0 THEN Dark ELSE screen,
                               battery', FALSE)

(* wait and rest relight what they sweep; charge_phone also takes the      *)
(* screen back when it revives a dead phone.                               *)
PhonePause ==
  /\ Pause
  /\ IF Refused THEN UNCHANGED phone
     ELSE /\ battery' \in {battery, Min({Full, battery + CHARGE})}
          /\ screen' = Light(orders', screen, battery', battery = 0 /\ battery' # 0)

(* look and check_map leave the queue and the screen unread.               *)
PhoneConsult ==
  /\ Consult
  /\ battery' = battery
  /\ (orders' = orders /\ screen' = screen) \/ Sweep

(* navigate: no phone, or a dead one; else it is charged for first, and    *)
(* may die of it; then an address it cannot find, no job to route to, or   *)
(* an address that is right here, out of reach, or drawn on the screen.    *)
Navigate ==
  /\ Called
  /\ \/ (~Phone \/ battery = 0) /\ Refuse(orders) /\ UNCHANGED phone
     \/ /\ Phone /\ battery > 0 /\ battery' = Drained(RouteDrain)
        /\ \/ battery' = 0 /\ screen' = Dark /\ Refuse(orders)
           \/ battery' > 0 /\ screen' = screen /\ Refuse(orders)
           \/ battery' > 0 /\ \E os \in Issue(orders, sim) :
                \/ Refuse(os) /\ Sweep
                \/ /\ \E s \in ConsultSeconds : Takes(s)
                   /\ orders' = os
                   /\ UNCHANGED <<here, earnings, rejected, finished>>
                   /\ \/ Focus(os) = {} /\ Sweep
                      \/ \E d \in Address :
                           IF Gap[here][d] <= TOLERANCE THEN Sweep
                           ELSE screen' = [target |-> d, owner |-> "explicit"]

PhoneCollect ==
  /\ Collect
  /\ battery' = battery
  /\ screen' = Light(orders', screen, battery, ~Refused)

PhoneHandOver ==
  /\ HandOver
  /\ battery' = battery
  /\ screen' = Light(orders', screen, battery, ~Refused)

PhoneObserve == Observe /\ battery' = battery /\ Sweep

PhoneNext ==
  /\ \/ PhoneWalk \/ PhonePause \/ PhoneConsult \/ Navigate
     \/ PhoneCollect \/ PhoneHandOver \/ PhoneObserve
  /\ UNCHANGED endless

PhoneSpec == PhoneInit /\ [][PhoneNext]_phoneVars

------------------------------------------------------------------------------
(* Properties.                                                             *)

(* A route the phone drew by itself leads to the next door of the job in   *)
(* hand: not to a door already served, nor to an order taken back.  A dead *)
(* phone shows nothing and remembers no route of its owner's, so the one   *)
(* that is revived is free to show the job; and a courier with work and a  *)
(* charged phone always has a route on it, also after the phone died and   *)
(* was revived or the queue ran empty and filled.                          *)
JobOnScreen ==
  /\ screen.owner = "automatic" => screen \in OnJob(orders)
  /\ battery = 0 => screen = Dark
  /\ Phone /\ battery > 0 /\ LiveIn(orders) # {} => screen.target # NoTarget

(* A route the courier asked for is not taken off the screen by the clock, *)
(* by expiring or arriving orders or by reading the queue: only by another *)
(* request, by collecting or handing over, or by the battery.              *)
ChosenRouteStands ==
  [][screen.owner = "explicit" =>
       \/ screen' = screen \/ screen'.owner = "explicit" \/ battery' = 0
       \/ \E o \in Job : Served(o)]_phoneVars
==============================================================================
