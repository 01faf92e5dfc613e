---------------------------- MODULE PixelRuntime ----------------------------
(***************************************************************************)
(* LivePixelGoalRuntime (runtime/pixel_goal.py): the host starts a move,   *)
(* polls it, cancels it when the engine's clock or the wall clock says so, *)
(* and reads the result the engine reports.  The game process (the         *)
(* SpPixelGoalSubsystem of the UE plugin) runs beside it: it moves the     *)
(* pawn and ends the move at any point between two calls.                  *)
(***************************************************************************)
EXTENDS Naturals

CONSTANTS
  Spot,         \* the spots the pawn can stand at
  Away          \* anywhere further than NUDGE_MAX_CM from every spot

ASSUME RuntimeAssumption == Away \notin Spot

VARIABLES
  pawn,         \* where the game's pawn stands and faces
  move,         \* the game's audit of the move (its State and the
                \* ControllerResult it says), and where it may end
  drive,        \* where _drive is
  result        \* outcome of the last ControllerResult, or the exception

runtime == <<pawn, move, drive, result>>

(* A pawn at a node is on it (within NUDGE_MIN_CM) or near it (within      *)
(* NUDGE_MAX_CM); it faces one of four quarter turns.                      *)
Pose == {p \in [at : Spot \union {Away}, off : {"on", "near"}, yaw : 0..3] :
           p.at = Away => p.off = "near"}

Outcome == {"none", "accepted", "failed", "timeout", "raised"}

Idle == [at |-> "idle", late |-> FALSE, reason |-> "none"]
NoMove == [state |-> "none", said |-> "none", goals |-> {}, path |-> {}]

RuntimeInit(place) ==
  /\ pawn = [at |-> place, off |-> "on", yaw |-> 0]
  /\ move = NoMove /\ drive = Idle /\ result = "none"

------------------------------------------------------------------------------
(* The game.                                                               *)

(* HandleMoveCompleted writes the state and the controller's result of a   *)
(* move together.  A move that ends well ends at one of its goals,         *)
(* at once when the pawn is there already; one that is broken off ends     *)
(* anywhere on its path.                                                   *)
EngineCompletes ==
  /\ move.state = "moving"
  /\ \E p \in Pose : p.at \in move.goals /\ p.yaw = pawn.yaw /\ pawn' = p
  /\ move' = [move EXCEPT !.state = "completed", !.said = "success"]
  /\ UNCHANGED <<drive, result>>

StopsOnPath == \E p \in Pose : p.at \in move.path /\ p.yaw = pawn.yaw /\ pawn' = p

EngineFails ==
  /\ move.state = "moving"
  /\ StopsOnPath
  /\ move' = [move EXCEPT !.state = "failed", !.said = "other"]
  /\ UNCHANGED <<drive, result>>

------------------------------------------------------------------------------
(* The host.                                                               *)

(* start: the engine accepts the pixel and the pawn sets off.              *)
Start(goals, path) ==
  /\ drive.at = "idle"
  /\ move' = [state |-> "moving", said |-> "none", goals |-> goals, path |-> path]
  /\ drive' = [Idle EXCEPT !.at = "poll"]
  /\ result' = "none"

(* _terminal_result without a forced outcome: a completed move the         *)
(* controller does not call a success counts as failed.                    *)
TerminalResult ==
  IF move.state = "completed" /\ move.said = "success" THEN "accepted" ELSE "failed"

Finish(outcome) ==
  /\ drive' = Idle /\ result' = outcome

Poll ==
  /\ drive.at = "poll" /\ ~drive.late
  /\ IF move.state \in {"completed", "failed"}
     THEN Finish(TerminalResult)
     ELSE drive' = [drive EXCEPT !.at = "polled"] /\ UNCHANGED result
  /\ UNCHANGED <<pawn, move>>

(* The sleep between two polls.                                            *)
Sleep ==
  /\ drive.at = "polled"
  /\ drive' = [drive EXCEPT !.at = "poll"]
  /\ UNCHANGED <<pawn, move, result>>

(* The status just read says movement_timeout_sim_s of simulation passed.  *)
ExecutionTimeout ==
  /\ drive.at = "polled"
  /\ drive' = [drive EXCEPT !.at = "cancel", !.reason = "execution_timeout"]
  /\ UNCHANGED <<pawn, move, result>>

WatchdogPasses ==
  /\ drive.at \in {"poll", "polled"} /\ ~drive.late
  /\ drive' = [drive EXCEPT !.late = TRUE]
  /\ UNCHANGED <<pawn, move, result>>

WallWatchdog ==
  /\ drive.at = "poll" /\ drive.late
  /\ drive' = [drive EXCEPT !.at = "cancel", !.reason = "wall_watchdog_timeout"]
  /\ UNCHANGED <<pawn, move, result>>

(* The watchdog raises PixelGoalInfrastructureTimeout for whatever result  *)
(* the cancellation returned, unless that is an accepted one.              *)
AfterCancel(outcome) ==
  IF drive.reason = "wall_watchdog_timeout" /\ outcome # "accepted"
  THEN "raised" ELSE outcome

CancelTooLate_Relabels ==
  /\ drive.at = "cancel" /\ move.state \in {"completed", "failed"}
  /\ Finish(AfterCancel("timeout"))
  /\ UNCHANGED <<pawn, move>>

(* cancel, of a move that became terminal after the last poll.             *)
CancelTooLate ==
  /\ drive.at = "cancel" /\ move.state \in {"completed", "failed"}
  /\ Finish(AfterCancel(TerminalResult))
  /\ UNCHANGED <<pawn, move>>

(* PixelGoal_CancelMoveJson stops the controller and fails the audit with  *)
(* the host's reason: "cancelled" here.                                    *)
Cancel ==
  /\ drive.at = "cancel" /\ move.state = "moving"
  /\ StopsOnPath
  /\ move' = [move EXCEPT !.state = "cancelled", !.said = "other"]
  /\ Finish(AfterCancel("timeout"))

(* A poll or a cancellation that fails raises out of execute; the move is  *)
(* left to the engine.                                                     *)
CallFails ==
  /\ drive.at = "cancel" \/ (drive.at = "poll" /\ ~drive.late)
  /\ Finish("raised")
  /\ UNCHANGED <<pawn, move>>

Host == \/ Poll \/ Sleep \/ ExecutionTimeout \/ WallWatchdog
        \/ CancelTooLate \/ Cancel \/ CallFails

Engine == EngineCompletes \/ EngineFails
RuntimeNext == Host \/ WatchdogPasses \/ Engine

------------------------------------------------------------------------------
(* The outcome of a walk is what became of the move, also when the move    *)
(* ended between the last poll and the cancellation: accepted only for a   *)
(* move completed with success, a timeout only for one the host cut short. *)
ReportedIsWhatHappened ==
  drive.at = "idle" =>
    /\ result = "accepted" => move.state = "completed" /\ move.said = "success"
    /\ result = "failed" => move.state = "failed"
    /\ result = "timeout" => move.state = "cancelled"
==============================================================================
