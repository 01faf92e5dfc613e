------------------------------ MODULE StreetWalk ------------------------------
(***************************************************************************)
(* The courier on the streets (runtime/city/courier_env.py and             *)
(* obstacles.py): barriers and crowded pavements drawn for the shift,      *)
(* pedestrian lamps, walk_to at both strides, follow_street, and what the  *)
(* observation says of a street before it is walked.  Between two calls    *)
(* the training adapter (training/vagen_courier_env.py) sends the pictures *)
(* and tells the environment which lamps were among them.                  *)
(*                                                                         *)
(* A run along a street is taken hop by hop, as the code's loop takes it;  *)
(* where the live jobs' doors are is the order queue's business and any    *)
(* set of doors may be live whenever the clock has moved.  The clock is    *)
(* kept within one cycle of the lamps, and turns, rejected and reds count  *)
(* from the last observation.  Distances, stamina and the money are out.   *)
(***************************************************************************)
EXTENDS Integers, FiniteSets, Sequences, SequencesExt

CONSTANTS
  Node,
  Edge,         \* two-way, as sets of two nodes
  EdgeOrder,    \* the edges in the order of their keys
  StreetAt,     \* StreetAt[n]: the street node n is on
  NorthSouth,   \* the edges whose bearing is on that axis
  Signalised,
  Album,        \* <<n, m>>: approaches whose lamp the album shows
  Hashed,       \* edges the site hash picks
  Photographed, \* <<n, m>>: approaches whose obstacle the album shows
  Door,         \* kerb nodes a job may be at
  PHASE, HopSeconds, SLOW, BLOCKED, REJECTED, RED_PENALTY, WAIT,
  MAX_FOLLOW,
  All,          \* signals_shown is None
  NoNode

ASSUME StreetAssumption ==
  /\ IsFiniteSet(Node) /\ EdgeOrder \in Seq(Edge)
  /\ \A e \in Edge : \E n \in Node : \E m \in Node \ {n} : e = {n, m}
  /\ Edge = {EdgeOrder[i] : i \in DOMAIN EdgeOrder}
  /\ NorthSouth \subseteq Edge /\ Hashed \subseteq Edge
  /\ Signalised \subseteq Node /\ Door \subseteq Node
  /\ Album \subseteq Node \X Node /\ Photographed \subseteq Node \X Node
  /\ PHASE \in Nat \ {0} /\ HopSeconds \subseteq Nat
  /\ {SLOW, BLOCKED, REJECTED, RED_PENALTY, WAIT, MAX_FOLLOW} \subseteq Nat
  /\ NoNode \notin Node

VARIABLES
  field,      \* ObstacleField.by_site, "none" where a site is not live
  stride,     \* "waypoint" or "block"
  node, arrived,
  clock,      \* sim_seconds, modulo two phases
  turns, rejected, reds,
  doors,      \* where the live jobs' next doors are
  shown,      \* signals_shown
  line,       \* the candidate lines of the pending observation
  pc,         \* "observe", "act" or "run"
  run         \* the locals of _run_street, and what was said of the street

vars == <<field, stride, node, arrived, clock, turns, rejected, reds,
          doors, shown, line, pc, run>>
NoRun == [street |-> "none"]
NoLine == [lamps |-> {}]

------------------------------------------------------------------------------
(* The road network.                                                       *)

Neighbours(n) == {m \in Node : {n, m} \in Edge}

(* edge_street: a step onto another street is named after that street, so  *)
(* an edge between two streets has a name for each way it is walked.       *)
EdgeStreet(n, m) == IF StreetAt[n] = StreetAt[m] THEN StreetAt[n] ELSE StreetAt[m]

Onward(n, from, street) ==
  {m \in Neighbours(n) \ {from} : EdgeStreet(n, m) = street}

Reach(n, roads) ==
  LET ring[i \in 0..Cardinality(Node)] ==
        IF i = 0 THEN {n}
        ELSE LET near == ring[i - 1]
             IN near \union {m \in Node : \E k \in near : {k, m} \in roads}
  IN ring[Cardinality(Node)]

(* bridges, by what it computes.                                           *)
Bridges(roads) ==
  {e \in roads : \E n \in e : ~(e \subseteq Reach(n, roads \ {e}))}

------------------------------------------------------------------------------
(* What stands on the streets.                                             *)

ObstacleSites == {e \in Hashed : e \notin Bridges(Edge)}

(* Mutant: each barrier is tried against the intact network.               *)
Accepted_Alone(kinds) ==
  [e \in Edge |-> IF kinds[e] = "block" /\ e \in Bridges(Edge)
                  THEN "slow" ELSE kinds[e]]

(* ObstacleField.generate: the barriers one by one, in the order of their  *)
(* keys; one that would cut what is left becomes a crowded pavement.       *)
Accepted(kinds) ==
  FoldLeft(LAMBDA acc, e :
             IF kinds[e] # "block" THEN acc
             ELSE IF e \in Bridges(acc.left)
             THEN [acc EXCEPT !.kind[e] = "slow"]
             ELSE [acc EXCEPT !.left = @ \ {e}],
           [left |-> Edge, kind |-> kinds], EdgeOrder).kind

(* Live or not, and of which kind, is a hash of the seed.                  *)
Generate ==
  {Accepted([e \in Edge |-> IF e \in ObstacleSites THEN draw[e] ELSE "none"]) :
     draw \in [ObstacleSites -> {"none", "slow", "block"}]}

InEffect(n, m) ==
  IF {<<n, m>>, <<m, n>>} \subseteq Photographed THEN field[{n, m}] ELSE "none"
Blocks(n, m) == InEffect(n, m) = "block"
Delay(n, m) == IF InEffect(n, m) = "slow" THEN SLOW ELSE 0

------------------------------------------------------------------------------
(* The lamps.                                                              *)

Red(n, m) == ((clock \div PHASE) % 2 = 1) = ({n, m} \in NorthSouth)
SignalInAlbum(n, m) == n \in Signalised /\ <<n, m>> \in Album
SignalIsVisible(n, m) ==
  SignalInAlbum(n, m) /\ (shown # All => <<n, m>> \in shown)

(* signal_frame_for each leg of this junction: the lamps it has pictures   *)
(* of to attach, judged by what was sent the turn before.                  *)
LampLegs == {<<node, m>> : m \in {k \in Neighbours(node) : SignalIsVisible(node, k)}}

------------------------------------------------------------------------------
(* What the observation says of a street: its hops in walking order from n *)
(* to m, as long as one node only is onward and the hop there is no halt.  *)

Ahead(n, m, halts) ==
  LET at[i \in 0..Cardinality(Node)] ==
        IF i = 0 THEN <<n, m>>
        ELSE LET hop == at[i - 1]
                 next == {hop[2]} \X Onward(hop[2], hop[1], EdgeStreet(n, m))
             IN IF Cardinality(next) # 1 \/ next \subseteq halts THEN hop
                ELSE CHOOSE h \in next : TRUE
  IN at

(* Mutants: the photograph and the words are about the first hop only; the *)
(* preview looks past the side turnings.                                   *)
BlockChain_FirstHop(n, m) == {<<n, m>>}

BlockChain(n, m) ==
  IF stride = "waypoint" THEN {<<n, m>>}
  ELSE Range(Ahead(n, m, {h \in Node \X Node : Cardinality(Neighbours(h[1])) # 2}))

(* _blocked_along                                                          *)
ToldBlocked(n, m) == \E h \in BlockChain(n, m) : Blocks(h[1], h[2])

(* Where _block_preview says the walk will end.  It reads signals_shown,   *)
(* which is the last turn's still when the lines are written.              *)
BlockPreview_NoCorner(n, m) ==
  Ahead(n, m, {h \in Node \X Node :
                 \/ h[1] \in doors
                 \/ SignalIsVisible(h[1], h[2])})[Cardinality(Node)][2]

BlockPreview(n, m) ==
  Ahead(n, m, {h \in Node \X Node :
                 \/ h[1] \in doors
                 \/ Cardinality(Neighbours(h[1])) > 2
                 \/ SignalIsVisible(h[1], h[2])})[Cardinality(Node)][2]

------------------------------------------------------------------------------
(* The moves.                                                              *)

ClockOn(seconds) == clock' = (clock + seconds) % (2 * PHASE)
JobsMayMove == doors' \in SUBSET Door

(* _refuse                                                                 *)
Refuse(seconds) ==
  /\ turns' = turns + 1 /\ rejected' = rejected + 1
  /\ ClockOn(seconds) /\ JobsMayMove
  /\ UNCHANGED <<node, arrived, reds>>

(* _step_to, past a barrier's refusal.                                     *)
StepTo(m) ==
  LET crossed == SignalIsVisible(node, m) /\ Red(node, m)
  IN /\ reds' = IF crossed THEN reds + 1 ELSE reds
     /\ \E s \in HopSeconds :
          ClockOn((IF crossed THEN RED_PENALTY ELSE 0) + s + Delay(node, m))
     /\ turns' = turns + 1 /\ rejected' = rejected
     /\ arrived' = node /\ node' = m
     /\ JobsMayMove

(* The session builds its observation, and only then the adapter sends     *)
(* some of the lamps' pictures with it and says which; without any to send *)
(* it leaves None.  Lines are kept as the list in force when they were     *)
(* written, and the end they give each street.                             *)
Observe ==
  /\ pc = "observe" /\ pc' = "act"
  /\ line' = [lamps |-> shown, end |-> [m \in Neighbours(node) |-> BlockPreview(node, m)]]
  /\ \E sent \in SUBSET LampLegs : shown' = IF LampLegs = {} THEN All ELSE sent
  /\ turns' = 0 /\ rejected' = 0 /\ reds' = 0
  /\ UNCHANGED <<node, arrived, clock, doors, run>>

(* The call returns; the observation it acted on is used up.               *)
Returns == pc' = "observe" /\ run' = NoRun /\ line' = NoLine /\ shown' = shown

(* A street that does not leave this junction.                             *)
NoSuchStreet == pc = "act" /\ Refuse(REJECTED) /\ Returns

(* The first hop of a run, and what the loop then keeps.                   *)
SetOff(m, limit, corner) ==
  /\ StepTo(m) /\ pc' = "run" /\ UNCHANGED <<shown, line>>
  /\ run' = [street |-> EdgeStreet(node, m), left |-> limit - 1, corner |-> corner,
             turns |-> turns, rejected |-> rejected,
             told |-> ToldBlocked(node, m), end |-> line.end[m], calm |-> doors' = doors]

WalkTo ==
  /\ pc = "act"
  /\ \E m \in Neighbours(node) :
       \/ Blocks(node, m) /\ Refuse(BLOCKED) /\ Returns
       \/ ~Blocks(node, m) /\ stride = "waypoint" /\ StepTo(m) /\ Returns
       \/ ~Blocks(node, m) /\ stride = "block" /\ SetOff(m, Cardinality(Node), TRUE)

FollowStreet ==
  /\ pc = "act"
  /\ \E m \in Neighbours(node), n \in 1..MAX_FOLLOW :
       \/ Blocks(node, m) /\ Refuse(BLOCKED) /\ Returns
       \/ ~Blocks(node, m) /\ SetOff(m, n, FALSE)

(* wait: the rest of the phase at a signalised junction.                   *)
Wait ==
  /\ pc = "act"
  /\ ClockOn(IF node \in Signalised THEN PHASE - (clock % PHASE) ELSE WAIT)
  /\ turns' = turns + 1 /\ JobsMayMove
  /\ UNCHANGED <<node, arrived, rejected, reds>> /\ Returns

(* Mutant: the loop goes by the lamps that were sent.                       *)
Stops_Shown ==
  LET on == Onward(node, arrived, run.street)
  IN \/ run.left = 0
     \/ node \in doors
     \/ Cardinality(on) # 1
     \/ \E m \in on : SignalIsVisible(node, m)
     \/ run.corner /\ Cardinality(Neighbours(node)) > 2

(* Why _run_street takes no further hop: the limit, a door, an end or a    *)
(* fork, a lamp, and at block stride any side turning.                     *)
Stops ==
  LET on == Onward(node, arrived, run.street)
  IN \/ run.left = 0
     \/ node \in doors
     \/ Cardinality(on) # 1
     \/ \E m \in on : SignalInAlbum(node, m)
     \/ run.corner /\ Cardinality(Neighbours(node)) > 2

RunOn ==
  /\ pc = "run" /\ ~Stops
  /\ \E m \in Onward(node, arrived, run.street) : ~Blocks(node, m) /\ StepTo(m)
  /\ run' = [run EXCEPT !.left = @ - 1, !.calm = @ /\ doors' = doors]
  /\ UNCHANGED <<pc, shown, line>>

RunStops ==
  /\ pc = "run" /\ Stops
  /\ turns' = run.turns + 1
  /\ UNCHANGED <<node, arrived, clock, doors, rejected, reds>> /\ Returns

(* Mutant: the inner refusal stays on the books.                           *)
RunBarred_Booked ==
  /\ pc = "run" /\ ~Stops
  /\ \E m \in Onward(node, arrived, run.street) : Blocks(node, m)
  /\ ClockOn(BLOCKED) /\ JobsMayMove
  /\ turns' = run.turns + 1 /\ rejected' = rejected + 1
  /\ UNCHANGED <<node, arrived, reds>> /\ Returns

(* A barrier on the way: its refusal's time stands, its turn and its mark  *)
(* are taken back, for the walk so far was accepted.                       *)
RunBarred ==
  /\ pc = "run" /\ ~Stops
  /\ \E m \in Onward(node, arrived, run.street) : Blocks(node, m)
  /\ ClockOn(BLOCKED) /\ JobsMayMove
  /\ turns' = run.turns + 1 /\ rejected' = run.rejected
  /\ UNCHANGED <<node, arrived, reds>> /\ Returns

------------------------------------------------------------------------------
Init ==
  /\ field \in Generate /\ stride \in {"waypoint", "block"}
  /\ node \in {n \in Node : Cardinality(Neighbours(n)) > 1} /\ arrived = NoNode
  /\ clock = 0 /\ turns = 0 /\ rejected = 0 /\ reds = 0
  /\ doors \in SUBSET Door
  /\ shown = All /\ line = NoLine /\ pc = "observe" /\ run = NoRun

Running == (RunOn \/ RunStops \/ RunBarred) /\ UNCHANGED <<field, stride>>

Next ==
  \/ Running
  \/ /\ Observe \/ NoSuchStreet \/ WalkTo \/ FollowStreet \/ Wait
     /\ UNCHANGED <<field, stride>>

Spec == Init /\ [][Next]_vars

(* The loop of a run is straight-line code; when the next call comes is    *)
(* up to the policy.                                                       *)
FairSpec == Spec /\ WF_vars(Running)

------------------------------------------------------------------------------
(* Properties.                                                             *)

(* Whatever barriers the seed draws, every corner of the city, and so      *)
(* every address an order can name, can be walked to from wherever the     *)
(* courier stands.                                                         *)
OpenRoads == {e \in Edge : \A n \in e : \A m \in e \ {n} : ~Blocks(n, m)}
NobodyIsStranded == Reach(node, OpenRoads) = Node

(* What the observation says of a block is what the walk finds.  A street  *)
(* told clear has no barrier anywhere a walk_to down it gets to.  And as   *)
(* long as no job comes or goes meanwhile, the walk never passes the end   *)
(* the candidate line gave, whatever lamps were sent; it stops there       *)
(* unless a barrier stops it first, or a lamp that was not among those     *)
(* sent the turn before: that one the line looked past.                    *)
ToldClearIsClear ==
  pc = "run" /\ run.corner =>
    run.told \/ Stops \/ \A m \in Onward(node, arrived, run.street) : ~Blocks(node, m)
LookedPast(n, m) ==
  SignalInAlbum(n, m) /\ line.lamps # All /\ <<n, m>> \notin line.lamps
WalksAsFarAsSaid ==
  pc = "run" /\ run.corner /\ run.calm =>
    /\ node = run.end => Stops
    /\ Stops /\ node # run.end =>
         \E m \in Onward(node, arrived, run.street) : LookedPast(node, m)
AdviceIsTheWalk == ToldClearIsClear /\ WalksAsFarAsSaid

(* A run never takes the courier over a crossing whose lamp the album can  *)
(* show: only the hop it was called for may, whatever was sent that turn.  *)
LampsStopRuns ==
  [][pc = "run" /\ node' # node => ~SignalInAlbum(node, node')]_vars

(* A walk that got going comes to an end, as one turn and no refusal,      *)
(* however many junctions it passed and whatever stopped it.               *)
WalkIsOneTurn ==
  pc = "run" ~> pc = "observe" /\ turns = 1 /\ rejected = 0

(* Refuted.  A red light costs only where its picture came with this       *)
(* turn's observation.                                                     *)
ChargedLampsWereSent ==
  [][reds' > reds => shown # All /\ <<node, node'>> \in shown]_vars
==============================================================================
