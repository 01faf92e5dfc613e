----------------------------- MODULE PixelGoal -----------------------------
(***************************************************************************)
(* A Pixel Goal courier (runtime/live/embodied_env.py with the SPEAR       *)
(* backend of tools/pixel_goal_courier_backend.py).  The policy is shown   *)
(* photographs and points at a pixel of one of them.  With two views the   *)
(* engine walks the pawn straight there; with four the pixel is only       *)
(* resolved, and the harness walks the pawn to the node it means over the  *)
(* certified legs of the pool, one leg at a time.                          *)
(***************************************************************************)
EXTENDS PoolLegs, PixelRuntime

CONSTANTS
  Pools,              \* the versions of the pool at hand
  Spawn,              \* the stop the episode starts at
  MaxReplans,         \* MAX_LEG_REPLANS
  NoNode

ASSUME PixelAssumption ==
  /\ Spot = Node                    \* the pawn stands at nodes of the pool
  /\ Pools \subseteq Pool
  /\ Spawn \in Node /\ \A file \in Pools : Spawn \in file.stops
  /\ MaxReplans \in Nat /\ NoNode \notin Node \union {Away}

VARIABLES
  quad,         \* four views, with a turner and a mover; two without
  pool,         \* the pool the harness loaded
  node,         \* node_id, where the graph believes the courier stands
  pose,         \* ue_pose and the client's _pose
  pairs,        \* the pawn's pose at the first of the view pairs
  shown,        \* the photographs of the turn have not been used
  pc,           \* where walk_to_pixel is, or "down": there is no harness
  walk,         \* the locals of _execute_pedestrian_legs
  outcome       \* code of the last StepOutcome

course == <<node, pose, pairs, shown>>
vars == <<runtime, quad, pool, course, pc, walk, outcome>>

NoWalk == [dest |-> NoNode, node |-> NoNode, queue |-> <<>>, refused |-> {},
           replans |-> 0, count |-> 0, broken |-> FALSE]
NoPairs == [at |-> NoNode, off |-> "near", yaw |-> 0]

Code == {"none", "refused", "unwalkable_pixel", "stale", "already_here",
         "no_pedestrian_way", "arrived", "stuck", "walk_timeout"}

(* load_validated_delivery_pool raises for the others.                     *)
Loaded == {[stops |-> file.stops, legs |-> file.legs, moves |-> CertifiedMoves(file)] :
             file \in {f \in Pools : Loads(f)}}

Home == [at |-> Spawn, off |-> "on", yaw |-> 0]

(* The game is up, the pawn at its spawn, and no harness attached yet.     *)
Init ==
  /\ RuntimeInit(Spawn)
  /\ quad \in BOOLEAN /\ pool \in Loaded
  /\ node = Spawn /\ pose = Home /\ pairs = NoPairs /\ shown = FALSE
  /\ pc = "down" /\ walk = NoWalk /\ outcome = "none"

------------------------------------------------------------------------------
(* Attaching to the game and losing it.                                    *)

(* What dies with the harness's process; the game, and a move it was asked *)
(* for, go on.                                                             *)
Down ==
  /\ drive' = Idle /\ result' = "none"
  /\ node' = Spawn /\ pose' = Home /\ pairs' = NoPairs /\ shown' = FALSE
  /\ pc' = "down" /\ walk' = NoWalk /\ outcome' = "none"
  /\ UNCHANGED <<quad, pool>>

(* An exception out of a call, or the process killed at any point.         *)
Dies == pc # "down" /\ Down /\ UNCHANGED <<pawn, move>>

(* A new process with the same arguments sets up, which a game that is set *)
(* up answers at once, and resets the trial: refused while a move is under *)
(* way, otherwise the pawn is back at its spawn and every photograph of    *)
(* the game is void.                                                       *)
Attach ==
  /\ pc = "down" /\ move.state # "moving"
  /\ pawn' = Home /\ move' = NoMove /\ pc' = "ready"
  /\ UNCHANGED <<drive, result, quad, pool, course, walk, outcome>>

------------------------------------------------------------------------------
(* Observing.                                                              *)

(* _front_rear_frames and observe_views: a pair ahead and behind, with     *)
(* four views a second one a quarter turn to the right, and the pawn       *)
(* turned back.                                                            *)
Observe ==
  /\ pc = "ready"
  /\ pairs' = pawn /\ pose' = pawn /\ shown' = TRUE
  /\ outcome' = "none" /\ walk' = NoWalk
  /\ UNCHANGED <<runtime, quad, pool, node, pc>>

(* A capture that fails leaves nothing to point at; failing at the second  *)
(* pair, it leaves the pawn turned.                                        *)
ObserveFails ==
  /\ pc = "ready"
  /\ pawn' \in {pawn} \union
       (IF quad THEN {[pawn EXCEPT !.yaw = (@ + 1) % 4]} ELSE {})
  /\ Down /\ UNCHANGED move

------------------------------------------------------------------------------
(* Pointing at a pixel.                                                    *)

Clear_Never == UNCHANGED shown

(* The finally clause of walk_to_pixel: a photograph serves one call.      *)
Clear == shown' = FALSE

(* bad_pixel, unknown_pixel_view, missing_pixel_view, out_of_range.        *)
RefusedBeforeEngine ==
  /\ pc = "ready"
  /\ outcome' = "refused" /\ Clear
  /\ UNCHANGED <<runtime, quad, pool, node, pose, pairs, pc, walk>>

(* The views of the photographs: 0 for front and rear, 1 for the second    *)
(* pair.                                                                   *)
Views == IF quad THEN {0, 1} ELSE {0}

SnapshotPose(view) == [pairs EXCEPT !.yaw = (@ + view) % 4]

(* _frame_for: the pawn is turned to the yaw its pair was taken at.        *)
FrameFor(view) ==
  IF quad THEN [pawn EXCEPT !.yaw = SnapshotPose(view).yaw] ELSE pawn

(* The engine (external) judges a pixel only while the pawn stands as it   *)
(* did when the snapshot was taken.                                        *)
Stale(view) == FrameFor(view) # SnapshotPose(view)

(* Two views: the pixel is executed.  The engine refuses it, or sets off   *)
(* for it.                                                                 *)
PairRejects ==
  /\ pc = "ready" /\ shown /\ ~quad
  /\ outcome' \in IF Stale(0) THEN {"stale"} ELSE {"unwalkable_pixel"}
  /\ Clear
  /\ UNCHANGED <<runtime, quad, pool, node, pose, pairs, pc, walk>>

PairWalks ==
  /\ pc = "ready" /\ shown /\ ~quad /\ ~Stale(0)
  /\ \E goal \in Node \union {Away} : Start({goal}, {pawn.at, goal, Away})
  /\ pc' = "driving" /\ Clear
  /\ UNCHANGED <<pawn, quad, pool, node, pose, pairs, walk, outcome>>

(* _pedestrian_destination after a resolve-only call, accepted or not: the *)
(* stop the hit means, if any, and the route there.                        *)
Destination(dest) ==
  LET plans == PlanPoolLegs(pool.moves, node, dest, {})
      refused(code) == outcome' = code /\ UNCHANGED <<pc, walk>>
  IN CASE dest = NoNode -> refused("unwalkable_pixel")
       [] dest = node -> refused("already_here")
       [] dest \in pool.stops \ {node} /\ plans = {} -> refused("no_pedestrian_way")
       [] OTHER ->
            /\ \E plan \in plans :
                 walk' = [NoWalk EXCEPT !.dest = dest, !.node = node, !.queue = plan]
            /\ outcome' = "none" /\ pc' = "legs"

(* _resolve_only, accepted: the pawn is turned back and the pose kept.     *)
ResolveAccepts(view) ==
  /\ pc = "ready" /\ shown /\ quad /\ ~Stale(view)
  /\ pawn' = [FrameFor(view) EXCEPT !.yaw = pairs.yaw]
  /\ \E dest \in pool.stops \union {NoNode} : Destination(dest)
  /\ Clear
  /\ UNCHANGED <<move, drive, result, quad, pool, node, pose, pairs>>

(* _resolve_only, rejected: the pawn stays turned; the hit of the          *)
(* rejection may still name a destination.                                 *)
ResolveRejects(view) ==
  /\ pc = "ready" /\ shown /\ quad
  /\ pawn' = FrameFor(view)
  /\ IF Stale(view) THEN outcome' = "stale" /\ UNCHANGED <<pc, walk>>
                    ELSE \E dest \in pool.stops \union {NoNode} : Destination(dest)
  /\ Clear
  /\ UNCHANGED <<move, drive, result, quad, pool, node, pose, pairs>>

(* The probe's poll or cancellation raises.                                *)
ResolveRaises(view) ==
  /\ pc = "ready" /\ shown /\ quad /\ ~Stale(view)
  /\ pawn' = FrameFor(view)
  /\ Down /\ UNCHANGED move

------------------------------------------------------------------------------
(* Walking the legs.                                                       *)

CanNudge(n) == pose.at = n

(* _nudge_onto, when it can: a pawn a step or more off its node is set     *)
(* down on it, facing as the client last knew.  That K2_TeleportTo puts it *)
(* exactly there is an assumption: the code logs the residual and does not *)
(* check it.                                                               *)
Nudged(n) == IF pose.off = "on" THEN pawn
                                ELSE [at |-> n, off |-> "on", yaw |-> pose.yaw]
NudgedPose(n) == IF pose.off = "on" THEN pose ELSE Nudged(n)

LegCanStart == CanNudge(walk.node)

LegDue == pc = "legs" /\ ~walk.broken /\ walk.queue # <<>>

(* The walk's node is out of a nudge's reach: the harness has lost the     *)
(* pawn.                                                                   *)
PawnLost ==
  /\ LegDue /\ ~LegCanStart
  /\ walk' = [walk EXCEPT !.broken = TRUE]
  /\ UNCHANGED <<runtime, quad, pool, course, pc, outcome>>

Bearing(a, b) == CASE Dx(a, b) > 0 -> 0 [] Dy(a, b) > 0 -> 1
                   [] Dx(a, b) < 0 -> 2 [] OTHER -> 3

Leg == <<walk.node, Head(walk.queue).aim>>

Facing == IF CanNudge(walk.node)
          THEN [Nudged(walk.node) EXCEPT !.yaw = Bearing(Leg[1], Leg[2])]
          ELSE pawn

ReplanFrom(w, from, refused, avoid, limit) ==
  LET plans == IF from \in pool.stops
               THEN PlanPoolLegs(pool.moves, from, w.dest, avoid) ELSE {}
      count == w.replans + 1
  IN IF count <= limit /\ plans # {}
     THEN \E plan \in plans :
            walk' = [w EXCEPT !.node = from, !.queue = plan, !.refused = refused,
                              !.replans = count]
     ELSE walk' = [w EXCEPT !.refused = refused, !.replans = count, !.broken = TRUE]

Replan_Forgets(w, from, refused) == ReplanFrom(w, from, refused, {}, MaxReplans)

Replan_Endless(w, from, refused) ==
  ReplanFrom([w EXCEPT !.replans = 0], from, {}, {}, MaxReplans)

(* The walk goes round the legs that did not do, MaxReplans times at most. *)
Replan(w, from, refused) == ReplanFrom(w, from, refused, refused, MaxReplans)

(* walk_world raises with a reason: the engine refuses the leg, the probe  *)
(* does, the aim is outside the picture, or the view pair is not whole.    *)
(* The pawn has turned to the leg; the pose does not say so.               *)
LegRefused ==
  /\ LegDue /\ LegCanStart
  /\ pawn' = Facing /\ pose' = NudgedPose(walk.node)
  /\ Replan(walk, walk.node, walk.refused \union {Leg})
  /\ UNCHANGED <<move, drive, result, quad, pool, node, pairs, shown, pc,
                 outcome>>

(* walk_world: the pawn faces the aim and walks to the stop, or, as the    *)
(* controller projects the aim, to some other place along the leg.         *)
LegStarts ==
  /\ LegDue /\ LegCanStart
  /\ pawn' = Facing /\ pose' = NudgedPose(walk.node)
  /\ LET chain == Walked(Leg, Head(walk.queue).stop) \union {Away}
     IN Start(chain, chain)
  /\ pc' = "driving"
  /\ UNCHANGED <<quad, pool, node, pairs, shown, walk, outcome>>

LegRaises ==
  /\ LegDue /\ LegCanStart
  /\ pawn' = Facing
  /\ Down /\ UNCHANGED move

------------------------------------------------------------------------------
(* Driving.                                                                *)

Drive ==
  /\ pc = "driving" /\ drive.at # "idle" /\ Host
  /\ UNCHANGED <<quad, pool, course, pc, walk, outcome>>

(* Nobody asks about a move once its result was read.                      *)
Forget == move' = NoMove /\ result' = "none"

Answered == pc = "driving" /\ drive.at = "idle"

(* PixelGoalExecutionError and PixelGoalInfrastructureTimeout reach the    *)
(* harness.                                                                *)
MoveRaises ==
  /\ Answered /\ result = "raised"
  /\ Down /\ UNCHANGED <<pawn, move>>

(* Two views: the graph follows the pawn (_match_pose_node).               *)
PairLands ==
  /\ Answered /\ ~quad /\ result # "raised"
  /\ pose' = pawn
  /\ node' \in Node
  /\ outcome' = CASE result = "accepted" -> "arrived"
                  [] result = "failed" -> "stuck"
                  [] OTHER -> "walk_timeout"
  /\ pc' = "ready" /\ Forget
  /\ UNCHANGED <<pawn, drive, quad, pool, pairs, shown, walk>>

LegEnds(arrived) ==
  /\ Answered /\ quad /\ result # "raised"
  /\ (result = "accepted") = arrived
  /\ pose' = pawn /\ pc' = "legs" /\ Forget
  /\ UNCHANGED <<pawn, drive, quad, pool, node, pairs, shown, outcome>>

Done == [walk EXCEPT !.count = 1]      \* only count > 0 is asked

LegUnfinished ==
  /\ LegEnds(FALSE)
  /\ walk' = [Done EXCEPT !.broken = TRUE]

LegArrives ==
  /\ LegEnds(TRUE) /\ pawn.at = Head(walk.queue).stop
  /\ walk' = [Done EXCEPT !.node = pawn.at, !.queue = Tail(@)]

(* Arrived, but further than a nudge from the stop: the walk goes on from  *)
(* the stop the pawn is near, if there is one.                             *)
StoppedShort ==
  /\ LegEnds(TRUE) /\ pawn.at # Head(walk.queue).stop
  /\ Replan(Done, pawn.at, walk.refused \union {Leg})

------------------------------------------------------------------------------
(* The end of a walk.                                                      *)

LegsOver == pc = "legs" /\ (walk.broken \/ walk.queue = <<>>)

LegsEnd_NoNudge ==
  /\ LegsOver
  /\ LET snapped == walk.broken /\ pose.at # walk.node /\ pose.at \in pool.stops
     IN node' = IF snapped THEN pose.at ELSE walk.node
  /\ outcome' = IF walk.broken THEN "stuck" ELSE "arrived"
  /\ pc' = "ready"
  /\ UNCHANGED <<runtime, pose, quad, pool, pairs, shown, walk>>

(* The pawn is set onto the node the walk ended on; a walk that did not    *)
(* get there credits the stop the pawn is near, or else the last one known.*)
LegsEnd ==
  /\ LegsOver
  /\ LET nudge == walk.count > 0 /\ CanNudge(walk.node)
         complete == ~walk.broken /\ (walk.count > 0 => nudge)
         snapped == ~complete /\ pose.at # walk.node /\ pose.at \in pool.stops
     IN /\ pawn' = IF nudge THEN Nudged(walk.node) ELSE pawn
        /\ pose' = IF nudge THEN NudgedPose(walk.node) ELSE pose
        /\ node' = IF snapped THEN pose.at ELSE walk.node
        /\ outcome' = IF complete THEN "arrived" ELSE "stuck"
  /\ pc' = "ready"
  /\ UNCHANGED <<move, drive, result, quad, pool, pairs, shown, walk>>

------------------------------------------------------------------------------
Resolve == \E view \in Views :
             ResolveAccepts(view) \/ ResolveRejects(view) \/ ResolveRaises(view)

Leave == \/ PawnLost \/ LegRefused \/ LegStarts \/ LegRaises
         \/ MoveRaises \/ PairLands \/ LegUnfinished \/ LegArrives \/ StoppedShort
         \/ LegsEnd

Watchdog == WatchdogPasses /\ UNCHANGED <<quad, pool, course, pc, walk, outcome>>
Moves == Engine /\ UNCHANGED <<quad, pool, course, pc, walk, outcome>>

Next == \/ Observe \/ ObserveFails \/ RefusedBeforeEngine
        \/ PairRejects \/ PairWalks \/ Resolve
        \/ Leave \/ Drive \/ Watchdog \/ Moves \/ Dies \/ Attach

Spec == Init /\ [][Next]_vars

(* The harness runs, and so does the wall clock the watchdog reads; the    *)
(* engine and the policy owe nothing.                                      *)
FairSpec == Spec /\ WF_vars(Leave) /\ WF_vars(Drive) /\ WF_vars(Watchdog)

------------------------------------------------------------------------------
(* A pixel is judged where its photograph was taken: no sequence of looks, *)
(* refused pixels, broken walks and re-planned legs lets the engine be     *)
(* asked about a photograph the pawn no longer stands at.                  *)
PixelsStayFresh == outcome # "stale"

(* Whatever legs the engine accepted, a harness that is about to attach    *)
(* can load the pool the tool wrote for them: no leg's chain falls apart   *)
(* with the nodes and edges that went, and none leads out of the pool.     *)
PrunedPoolsLoad == pc = "down" => EveryPruneLoads

(* A leg starts with the engine's pawn on the very node it was certified   *)
(* from, and is neither uncertified nor one this walk was refused before,  *)
(* however short the legs before it stopped.                               *)
LegsAreCertifiedHere ==
  [][pc = "legs" /\ pc' = "driving" =>
       /\ pawn'.at = walk.node /\ pawn'.off = "on"
       /\ Leg \in pool.legs \ walk.refused]_vars

(* Between calls the client knows where the pawn is, the graph has the     *)
(* stop the pawn is at, and a walk that arrived left the pawn on the node  *)
(* the pixel meant, not only near it.                                      *)
NodeTracksPawn ==
  pc = "ready" /\ quad =>
    /\ pose.at = pawn.at /\ pose.off = pawn.off
    /\ pawn.at \in pool.stops => node = pawn.at
    /\ outcome = "arrived" => node = walk.dest /\ pawn.at = node /\ pawn.off = "on"

(* The pools the loader admits have a way from every stop to every other:  *)
(* no pixel on a stop is refused for want of one, wherever earlier walks   *)
(* broke off.                                                              *)
EveryStopHasAWay == outcome # "no_pedestrian_way"

(* A walk ends, with the pawn somewhere or an exception, although legs may *)
(* be refused, stop short or never end.                                    *)
EveryWalkEnds == pc \in {"legs", "driving"} ~> pc \in {"ready", "down"}

==============================================================================
