---------------------------- MODULE EmbodiedFleet ----------------------------
(***************************************************************************)
(* Embodied episodes on a shared fleet (runtime/live/embodied_env.py and   *)
(* the embodied gym adapter).  Every training environment opens episodes   *)
(* one after the other; an episode leases a seat from the pool of its own  *)
(* process, has the render service spawn a pawn at the courier's junction, *)
(* and walks the pawn hop by hop.  The pool is SeatLease, the contract     *)
(* RenderPool implements; the services are external: any call to them may  *)
(* be answered, refused, or carried out and its answer lost.               *)
(***************************************************************************)
EXTENDS Naturals, FiniteSets

CONSTANTS
  Env,            \* the training environments of all processes
  Process,        \* trainer worker processes, each with a pool of its own
  ProcessOf,      \* ProcessOf[e]: the process environment e runs in
  Member,         \* render instances, shared by the processes
  Seats,          \* Seats[m]: max_episodes of instance m
  Place, Start,   \* junctions of the road network and the reset junction
  MaxReseats,     \* max_reseats, 8 in the code
  AllowFallback,  \* allow_album_fallback
  MaxEpisodes,    \* bound: the episodes an environment opens, MaxEpisodes[e]
  Away,           \* where a pawn stands that stopped between junctions
  NoMember

ASSUME FleetAssumption ==
  /\ IsFiniteSet(Env) /\ IsFiniteSet(Member)
  /\ ProcessOf \in [Env -> Process]
  /\ Seats \in [Member -> Nat \ {0}]
  /\ Start \in Place /\ Away \notin Place
  /\ MaxReseats \in Nat /\ MaxEpisodes \in [Env -> Nat]
  /\ AllowFallback \in BOOLEAN
  /\ NoMember \notin Member

Episode == UNION {{e} \X (1..MaxEpisodes[e]) : e \in Env}

VARIABLES
  pc,        \* where the environment's thread is
  frame,     \* the locals of the call it is in
  seq,       \* _episode_seq: unique ids, never reused
  node,      \* node_id, where the graph believes the courier stands
  seat,      \* the instance of _lease and _client
  open,      \* _episode_open
  degraded,  \* live_degraded
  stranded,  \* a reopen_failed row with no re-anchoring since
  leases,    \* leases[<<p, m>>]: _Member.leases of m in process p's pool
  struck,    \* the <<p, m>> struck when a lease ended
  pawn,      \* external: pawn[m], the pawns on m by episode: where each
             \* stands, and whether a call about it failed since it opened
  free       \* history: environments credited with a hop of no ticks

course == <<seq, node, degraded, stranded>>
fleet == <<leases, struck>>
vars == <<pc, frame, seq, node, seat, open, degraded, stranded, leases, struck,
          pawn, free>>

Id(e) == <<e, seq[e]>>
Seat(e) == <<ProcessOf[e], seat[e]>>

Pool == INSTANCE SeatLease WITH
          Member <- Process \X Member,
          Seats <- [s \in Process \X Member |-> Seats[s[2]]]

Label == {"out", "spawn", "busy", "pause", "ready", "walk", "rewalk",
          "respawn", "relook", "raised", "end", "give"}
Reason == {"none", "reset", "walk", "look", "move", "close"}

(* why /episode is sent or the environment closed, the junction walked to, *)
(* the instance _move_instance gave up, and reseats and monotonic() >=     *)
(* deadline of _episode_when_free.                                         *)
Frame == [why : Reason, to : Place, left : Member \union {NoMember},
          reseats : 0..MaxReseats, late : BOOLEAN]
EmptyFrame == [why |-> "none", to |-> Start, left |-> NoMember,
               reseats |-> 0, late |-> FALSE]

Init ==
  /\ pc = [e \in Env |-> "out"] /\ frame = [e \in Env |-> EmptyFrame]
  /\ seq = [e \in Env |-> 0]
  /\ node = [e \in Env |-> Start]
  /\ seat = [e \in Env |-> NoMember] /\ open = [e \in Env |-> FALSE]
  /\ degraded = [e \in Env |-> FALSE] /\ stranded = [e \in Env |-> FALSE]
  /\ Pool!Init /\ struck = {}
  /\ pawn = [m \in Member |-> <<>>]
  /\ free = {}

Goto(e, label) == pc' = [pc EXCEPT ![e] = label] /\ UNCHANGED frame

(* A call ends, with a return or an exception, and its locals go with it.  *)
Return(e, label) ==
  /\ pc' = [pc EXCEPT ![e] = label]
  /\ frame' = [frame EXCEPT ![e] = EmptyFrame]

------------------------------------------------------------------------------
(* The pool, as _ue and _release_lease use it.                             *)

LeaseEnter_Unmarked(e, m) ==
  /\ pc[e] \in {"spawn", "walk"} /\ seat[e] = NoMember
  /\ leases' = [leases EXCEPT ![<<ProcessOf[e], m>>] = @ \union {Id(e)}]
  /\ seat' = [seat EXCEPT ![e] = m]
  /\ UNCHANGED <<pc, frame, course, open, struck, pawn, free>>

(* _ue: a seat is taken at the first call that finds no client.            *)
LeaseEnter(e, m) ==
  /\ pc[e] \in {"spawn", "walk"} /\ seat[e] = NoMember
  /\ Pool!Take(Id(e), <<ProcessOf[e], m>>)
  /\ seat' = [seat EXCEPT ![e] = m]
  /\ UNCHANGED <<pc, frame, course, open, struck, pawn, free>>

(* The end of a lease: an error that reaches the generator strikes the     *)
(* instance, a plain exit does not.                                        *)
LeaseExit(e, error) ==
  /\ Pool!Give(Id(e), Seat(e))
  /\ struck' = IF error \in {"unreachable", "engine_down", "render_failed"}
               THEN struck \union {Seat(e)} ELSE struck
  /\ seat' = [seat EXCEPT ![e] = NoMember]

(* Mutant: an episode that is closed over keeps its lease on the books.    *)
ReleaseLease_Forgotten(e) ==
  seat' = [seat EXCEPT ![e] = NoMember] /\ UNCHANGED <<leases, struck>>

(* _release_lease calls lease.__exit__(None, None, None) whatever happened. *)
ReleaseLease(e) ==
  IF seat[e] = NoMember THEN UNCHANGED <<leases, struck, seat>>
                        ELSE LeaseExit(e, "none")

------------------------------------------------------------------------------
(* The render service (external).                                          *)

On(m) == DOMAIN pawn[m]

Without(f, S) == [x \in DOMAIN f \ S |-> f[x]]

(* /episode spawns, or respawns the pawn of the same id; a new id on a     *)
(* full instance tears down one of the pawns there.                        *)
ServiceSpawns(e, cut) ==
  LET m == seat[e]
      full == Id(e) \notin On(m) /\ Cardinality(On(m)) >= Seats[m]
  IN  \E torn \in IF full THEN {{x} : x \in On(m)} ELSE {{}} :
        pawn' = [pawn EXCEPT ![m] =
                   [x \in (DOMAIN @ \ torn) \union {Id(e)} |->
                      IF x = Id(e) THEN [at |-> node[e], cut |-> cut] ELSE @[x]]]

ServiceMoves(e, place, cut) ==
  pawn' = [pawn EXCEPT ![seat[e]][Id(e)] = [at |-> place, cut |-> @.cut \/ cut]]

ServiceDespawns(e) == pawn' = [pawn EXCEPT ![seat[e]] = Without(@, {Id(e)})]

(* An instance that restarts comes back without its pawns.                 *)
ServiceRestarts(m) ==
  /\ On(m) # {}
  /\ pawn' = [pawn EXCEPT ![m] = <<>>]
  /\ UNCHANGED <<pc, frame, course, seat, open, fleet, free>>

Active(e) == seat[e] # NoMember /\ Id(e) \in On(seat[e])

PawnAt(e) == pawn[seat[e]][Id(e)].at

(* A call to the instance fails without being carried out. *)
NothingDone(e) ==
  pawn' = IF Active(e) THEN [pawn EXCEPT ![seat[e]][Id(e)].cut = TRUE] ELSE pawn

------------------------------------------------------------------------------
(* Opening an episode: _episode_when_free, for reset and _reopen_episode.  *)

EpisodeWhenFree(e, reason) ==
  /\ pc' = [pc EXCEPT ![e] = "spawn"]
  /\ frame' = [frame EXCEPT ![e] = [EmptyFrame EXCEPT !.why = reason, !.to = frame[e].to]]

(* An exception leaves _episode_when_free.  A photograph contains it: busy  *)
(* is left to the next look, anything else degrades the episode.           *)
OpeningRaises(e, busy) ==
  /\ UNCHANGED <<seq, node, stranded>>
  /\ IF frame[e].why # "look" THEN Return(e, "raised") /\ UNCHANGED degraded
     ELSE IF busy THEN Return(e, "ready") /\ UNCHANGED degraded
     ELSE /\ Return(e, IF AllowFallback THEN "ready" ELSE "raised")
          /\ degraded' = [degraded EXCEPT ![e] = TRUE]

(* The pool found no instance, or no seat within lease_timeout_s.          *)
LeaseRefused(e) ==
  /\ pc[e] \in {"spawn", "walk"} /\ seat[e] = NoMember
  /\ IF pc[e] = "spawn" THEN OpeningRaises(e, FALSE)
     ELSE Return(e, "raised") /\ UNCHANGED course
  /\ UNCHANGED <<seat, open, fleet, pawn, free>>

Continue(reason) == IF reason = "walk" THEN "rewalk" ELSE "relook"

SpawnAnswered(e) ==
  /\ pc[e] = "spawn" /\ seat[e] # NoMember
  /\ ServiceSpawns(e, FALSE)
  /\ IF frame[e].why \in {"walk", "look"} THEN Goto(e, Continue(frame[e].why))
                                       ELSE Return(e, "ready")
  /\ open' = [open EXCEPT ![e] = TRUE]
  /\ stranded' = [stranded EXCEPT ![e] = FALSE]
  /\ UNCHANGED <<seq, node, degraded, seat, fleet, free>>

(* Busy: another episode holds the instance, and this one is not on it (an *)
(* /episode of an id the service holds is a respawn).  The wait goes on    *)
(* until episode_busy_timeout_s has passed.                                *)
SpawnBusy(e) ==
  /\ pc[e] = "spawn" /\ seat[e] # NoMember
  /\ On(seat[e]) # {} /\ ~Active(e)
  /\ IF frame[e].late THEN OpeningRaises(e, TRUE)
     ELSE Goto(e, "busy") /\ UNCHANGED course
  /\ UNCHANGED <<seat, open, fleet, pawn, free>>

SpawnLost_Uncounted(e) ==
  /\ pc[e] = "spawn" /\ seat[e] # NoMember
  /\ NothingDone(e)
  /\ pc' = [pc EXCEPT ![e] = "pause"]
  /\ ReleaseLease(e)
  /\ UNCHANGED <<frame, course, open, free>>

(* Unreachable, engine_down or render_failed: the seat goes back and, after *)
(* a pause, another is asked for, max_reseats times.                       *)
SpawnLost(e) ==
  /\ pc[e] = "spawn" /\ seat[e] # NoMember
  /\ ServiceSpawns(e, TRUE) \/ NothingDone(e)
  /\ IF frame[e].reseats >= MaxReseats
     THEN OpeningRaises(e, FALSE) /\ UNCHANGED <<seat, leases, struck>>
     ELSE /\ frame' = [frame EXCEPT ![e].reseats = @ + 1]
          /\ pc' = [pc EXCEPT ![e] = "pause"]
          /\ ReleaseLease(e)
          /\ UNCHANGED course
  /\ UNCHANGED <<open, free>>

(* Any other error, or a response that breaks the protocol.                *)
SpawnRefused(e) ==
  /\ pc[e] = "spawn" /\ seat[e] # NoMember
  /\ OpeningRaises(e, FALSE) /\ NothingDone(e)
  /\ UNCHANGED <<seat, open, fleet, free>>

Wake(e) ==
  /\ pc[e] \in {"busy", "pause"}
  /\ Goto(e, "spawn")
  /\ UNCHANGED <<course, seat, open, fleet, pawn, free>>

DeadlinePasses(e) ==
  /\ pc[e] \in {"spawn", "busy"} /\ ~frame[e].late
  /\ frame' = [frame EXCEPT ![e].late = TRUE]
  /\ UNCHANGED <<pc, course, seat, open, fleet, pawn, free>>

------------------------------------------------------------------------------
(* A hop: _step_to, _walk_to_point and _move_instance.                     *)

StepTo(e, to) ==
  /\ pc[e] = "ready" /\ to # node[e]
  /\ pc' = [pc EXCEPT ![e] = "walk"]
  /\ frame' = [frame EXCEPT ![e].to = to]
  /\ UNCHANGED <<course, seat, open, fleet, pawn, free>>

Walking(e) == pc[e] \in {"walk", "rewalk"} /\ seat[e] # NoMember

WalkArrives(e) ==
  /\ Walking(e) /\ Active(e)
  /\ ServiceMoves(e, frame[e].to, FALSE)
  /\ node' = [node EXCEPT ![e] = frame[e].to]
  /\ free' = IF PawnAt(e) = frame[e].to THEN free \union {e} ELSE free
  /\ stranded' = [stranded EXCEPT ![e] = FALSE]
  /\ Return(e, "ready")
  /\ UNCHANGED <<seq, degraded, seat, open, fleet>>

WalkStops_NoRespawn(e) ==
  /\ Walking(e) /\ Active(e)
  /\ ServiceMoves(e, Away, FALSE)
  /\ Return(e, "ready")
  /\ UNCHANGED <<course, seat, open, fleet, free>>

(* Stuck or out of time: the pawn stays where physics stopped it.          *)
WalkStops(e) ==
  /\ Walking(e) /\ Active(e)
  /\ ServiceMoves(e, Away, FALSE)
  /\ Return(e, "respawn")
  /\ UNCHANGED <<course, seat, open, fleet, free>>

(* The service does not hold the episode: it is opened again once.         *)
WalkNotActive(e) ==
  /\ Walking(e) /\ ~Active(e)
  /\ IF pc[e] = "rewalk"
     THEN Return(e, "raised") /\ UNCHANGED open
     ELSE /\ EpisodeWhenFree(e, "walk")
          /\ open' = [open EXCEPT ![e] = FALSE]
  /\ UNCHANGED <<course, seat, fleet, pawn, free>>

(* No answer: the pawn may have gone nowhere, part of the way or all of    *)
(* it.  The seat is given back, the walk is not sent again, and the        *)
(* episode is opened wherever the pool finds a seat.                       *)
WalkUnanswered(e) ==
  /\ Walking(e)
  /\ \/ NothingDone(e)
     \/ Active(e) /\ \E at \in {frame[e].to, Away} : ServiceMoves(e, at, TRUE)
  /\ IF pc[e] = "rewalk"
     THEN Return(e, "raised") /\ UNCHANGED <<open, seat, fleet>>
     ELSE /\ ReleaseLease(e)
          /\ open' = [open EXCEPT ![e] = FALSE]
          /\ pc' = [pc EXCEPT ![e] = "pause"]
          /\ frame' = [frame EXCEPT ![e] = [EmptyFrame EXCEPT !.why = "move",
                                                             !.left = seat[e]]]
  /\ UNCHANGED <<course, free>>

WalkRefused(e) ==
  /\ Walking(e)
  /\ Return(e, "raised")
  /\ UNCHANGED <<course, seat, open, fleet, pawn, free>>

(* _respawn_at_current_node, after a walk that stopped short.              *)
Respawned(e) ==
  /\ pc[e] = "respawn"
  /\ ServiceSpawns(e, ~open[e])
  /\ stranded' = [stranded EXCEPT ![e] = FALSE]
  /\ Goto(e, "ready")
  /\ UNCHANGED <<seq, node, degraded, seat, open, fleet, free>>

RespawnFails(e) ==
  /\ pc[e] = "respawn"
  /\ ServiceSpawns(e, TRUE) \/ NothingDone(e)
  /\ stranded' = [stranded EXCEPT ![e] = TRUE]
  /\ Goto(e, "ready")
  /\ UNCHANGED <<seq, node, degraded, seat, open, fleet, free>>

------------------------------------------------------------------------------
(* A photograph: _plain_frame.  One that succeeds changes nothing here.    *)

LookNotActive(e) ==
  /\ pc[e] = "ready" /\ ~degraded[e] /\ seat[e] # NoMember /\ ~Active(e)
  /\ EpisodeWhenFree(e, "look")
  /\ open' = [open EXCEPT ![e] = FALSE]
  /\ UNCHANGED <<course, seat, fleet, pawn, free>>

LookFails(e) ==
  /\ \/ pc[e] = "relook"
     \/ pc[e] = "ready" /\ ~degraded[e] /\ seat[e] # NoMember
  /\ degraded' = [degraded EXCEPT ![e] = TRUE]
  /\ Return(e, IF AllowFallback THEN "ready" ELSE "raised")
  /\ UNCHANGED <<seq, node, stranded, seat, open, fleet, pawn, free>>

LookAgain(e) ==
  /\ pc[e] = "relook"
  /\ Return(e, "ready")
  /\ UNCHANGED <<course, seat, open, fleet, pawn, free>>

------------------------------------------------------------------------------
(* The gym adapter: _reset_impl closes the old environment first.          *)

NewEpisode(e) ==
  /\ seq[e] < MaxEpisodes[e]
  /\ seq' = [seq EXCEPT ![e] = @ + 1]
  /\ node' = [node EXCEPT ![e] = Start]
  /\ degraded' = [degraded EXCEPT ![e] = FALSE]
  /\ stranded' = [stranded EXCEPT ![e] = FALSE]
  /\ free' = free \ {e}
  /\ EpisodeWhenFree(e, "reset")

Reset(e) ==
  /\ pc[e] = "out" /\ NewEpisode(e)
  /\ UNCHANGED <<seat, open, fleet, pawn>>

Close(e, reason) ==
  /\ pc[e] \in {"ready", "raised"} /\ reason \in {"reset", "close"}
  /\ reason = "reset" => seq[e] < MaxEpisodes[e]
  /\ pc' = [pc EXCEPT ![e] = "end"]
  /\ frame' = [frame EXCEPT ![e].why = reason]
  /\ UNCHANGED <<course, seat, open, fleet, pawn, free>>

EpisodeEnd_Skipped(e) ==
  /\ pc[e] = "end"
  /\ Goto(e, "give")
  /\ UNCHANGED <<course, seat, open, fleet, pawn, free>>

EpisodeEnd(e) ==
  /\ pc[e] = "end"
  /\ Goto(e, "give")
  /\ IF open[e] /\ seat[e] # NoMember
     THEN ServiceDespawns(e) \/ NothingDone(e)
     ELSE UNCHANGED pawn
  /\ UNCHANGED <<course, seat, open, fleet, free>>

CloseReleases(e) ==
  /\ pc[e] = "give"
  /\ open' = [open EXCEPT ![e] = FALSE]
  /\ ReleaseLease(e)
  /\ IF frame[e].why = "reset" THEN NewEpisode(e)
                               ELSE Return(e, "out") /\ UNCHANGED <<course, free>>
  /\ UNCHANGED pawn

------------------------------------------------------------------------------
Open(e) == \/ SpawnAnswered(e) \/ SpawnBusy(e) \/ SpawnLost(e) \/ SpawnRefused(e)
           \/ LeaseRefused(e) \/ (\E m \in Member : LeaseEnter(e, m)) \/ Wake(e)

Walk(e) == \/ WalkArrives(e) \/ WalkStops(e) \/ WalkNotActive(e)
           \/ WalkUnanswered(e) \/ WalkRefused(e)
           \/ Respawned(e) \/ RespawnFails(e)

Look(e) == LookNotActive(e) \/ LookFails(e) \/ LookAgain(e)

Gym(e) == Reset(e) \/ \E reason \in {"reset", "close"} : Close(e, reason)

(* Every environment has had its episodes and is closed. *)
Quiesced ==
  /\ \A e \in Env : pc[e] = "out" /\ seq[e] = MaxEpisodes[e]
  /\ UNCHANGED vars

Next ==
  \/ Quiesced
  \/ \E e \in Env : \/ Open(e) \/ DeadlinePasses(e) \/ Walk(e) \/ Look(e)
                    \/ Gym(e) \/ EpisodeEnd(e) \/ CloseReleases(e)
                    \/ \E to \in Place : StepTo(e, to)
  \/ \E m \in Member : ServiceRestarts(m)

Spec == Init /\ [][Next]_vars

(* Calls return, sleeps and deadlines end: an environment inside an open,  *)
(* a walk or a close keeps running.  Nothing makes the gym ask for more.   *)
Fairness ==
  \A e \in Env : /\ WF_vars(Open(e)) /\ WF_vars(DeadlinePasses(e))
                 /\ WF_vars(Walk(e)) /\ WF_vars(LookAgain(e))
                 /\ WF_vars(EpisodeEnd(e)) /\ WF_vars(CloseReleases(e))

FairSpec == Spec /\ Fairness

------------------------------------------------------------------------------
(* A lease a pool has on its books is the seat of exactly one environment: *)
(* re-seating, moving, raising and closing neither leak a seat nor leave   *)
(* an environment driving an instance it has given up.                     *)
LeasesAreSeats ==
  \A s \in Process \X Member : leases[s] = {Id(e) : e \in {f \in Env : Seat(f) = s}}

(* A pawn whose episode has no seat on that instance is left of a call to  *)
(* the instance that failed: closing, resetting and re-opening despawn     *)
(* what they leave behind whenever the service answers.                    *)
GhostsHaveACause ==
  \A m \in Member : \A x \in On(m) :
    x \in UNION {leases[<<p, m>>] : p \in Process} \/ pawn[m][x].cut

Standing(e) == pc[e] \in {"ready", "walk", "rewalk"} /\ Active(e)

(* When a hop begins the pawn stands on the junction the graph believes in, *)
(* unless the log has a reopen_failed row or the episode is degraded, and  *)
(* no hop is credited that the engine took no ticks for.                   *)
PawnWhereTheGraphSays ==
  \A e \in Env :
    /\ Standing(e) => \/ PawnAt(e) = node[e]
                      \/ stranded[e] \/ degraded[e]
    /\ ~degraded[e] => e \notin free

(* Each process's pool is used as the contract it implements allows.       *)
ImplementsSeatLease == Pool!Spec

(* An episode that is being opened opens or raises: a busy fleet runs into *)
(* the deadline and a broken one into max_reseats.                         *)
EveryOpeningEnds ==
  \A e \in Env : pc[e] \in {"spawn", "busy", "pause"} ~>
                 pc[e] \notin {"spawn", "busy", "pause"}
==============================================================================
