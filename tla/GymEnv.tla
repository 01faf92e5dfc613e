------------------------------- MODULE GymEnv -------------------------------
(***************************************************************************)
(* The training interface around a session                                 *)
(* (training/vagen_courier_env.py): reset builds a new world and session,  *)
(* step passes a reply on and pays the difference between what the world   *)
(* counts now and what it counted when last asked.  The live and embodied  *)
(* adapters (runtime/live/gym_adapter.py) inherit step and write a reset   *)
(* of their own; Cleared is what a reset puts back.                        *)
(***************************************************************************)
EXTENDS CourierSession

CONSTANTS
  Cleared,      \* bookkeeping a reset starts anew
  MAX_TURNS,    \* max_turns values to try; 0 is no limit
  Horizon,      \* turns at which the earnings are photographed
  MaxEpisodes   \* bound: resets after the first

ASSUME GymAssumption ==
  /\ Cleared \subseteq Count \union {"blocked", "earnings_at"}
  /\ MAX_TURNS \subseteq Nat /\ Horizon \subseteq Nat \ {0} /\ MaxEpisodes \in Nat

VARIABLES
  seen,        \* _last_earnings, _last_delivered, _last_red
  blocked,     \* _blocked_attempts
  earningsAt,  \* _earnings_at
  maxTurns, turns,  \* max_turns, _turns
  done,
  paid,        \* rewards of the episode so far, by what they are paid for
  episode

gym == <<seen, blocked, earningsAt, maxTurns, turns, done, paid, episode>>
vars == <<session, gym>>

Zero == [c \in Count |-> 0]
NoHorizon == [h \in {} |-> 0]

GymInit ==
  /\ SessionInit
  /\ seen = Zero /\ blocked = 0 /\ earningsAt = NoHorizon
  /\ maxTurns \in MAX_TURNS /\ turns = 0 /\ done = FALSE
  /\ paid = Zero /\ episode = 1

(* What every reset renews: the world, the session, the count of turns.    *)
Renewed ==
  /\ episode <= MaxEpisodes /\ episode' = episode + 1
  /\ clock' = 0 /\ tally' = Zero /\ spend' = [l \in Limit |-> 0]
  /\ repeats' = 0 /\ lastRefused' = Nothing /\ log' = <<>> /\ reason' = ""
  /\ turns' = 0 /\ done' = FALSE /\ paid' = Zero
  /\ UNCHANGED <<chunk, maxTurns>>

(* Mutants: the reset of the live adapters, in what it leaves standing.    *)
Reset_KeepsCounts ==
  /\ Renewed
  /\ seen' = [seen EXCEPT !.earnings = 0] /\ blocked' = 0 /\ earningsAt' = NoHorizon

Reset_KeepsHorizons ==
  Renewed /\ seen' = Zero /\ blocked' = 0 /\ UNCHANGED earningsAt

(* reset, at any time: an episode may be given up half way.                *)
Reset ==
  /\ Renewed
  /\ seen' = [c \in Count |-> IF c \in Cleared THEN 0 ELSE seen[c]]
  /\ blocked' = IF "blocked" \in Cleared THEN 0 ELSE blocked
  /\ earningsAt' = IF "earnings_at" \in Cleared THEN NoHorizon ELSE earningsAt

(* A horizon is overwritten when its turn comes, and filled in at the end  *)
(* only if it is still open.                                               *)
Photograph ==
  LET open == IF done' THEN Horizon \ DOMAIN earningsAt ELSE {}
      now == open \union (Horizon \intersect {turns'})
  IN earningsAt' = [h \in DOMAIN earningsAt \union now |->
                      IF h \in now THEN tally'.earnings ELSE earningsAt[h]]

(* What a step pays for each count: the difference since the last one, but *)
(* a red is charged only where there is a difference.                      *)
Due(c) == IF c = "red" /\ tally'[c] < seen[c] THEN 0 ELSE tally'[c] - seen[c]

(* Mutant: only max_turns ends the episode.                                *)
Step_OnlyMaxTurns ==
  /\ ~done /\ Reply
  /\ turns' = turns + 1
  /\ paid' = [c \in Count |-> paid[c] + Due(c)]
  /\ seen' = tally'
  /\ blocked' = blocked + IF Last(log').status = "way_blocked" THEN 1 ELSE 0
  /\ done' = (maxTurns > 0 /\ turns' >= maxTurns)
  /\ Photograph
  /\ UNCHANGED <<maxTurns, episode>>

(* step, around the session's own.                                         *)
Step ==
  /\ ~done /\ Reply
  /\ turns' = turns + 1
  /\ paid' = [c \in Count |-> paid[c] + Due(c)]
  /\ seen' = tally'
  /\ blocked' = blocked + IF Last(log').status = "way_blocked" THEN 1 ELSE 0
  /\ done' = (reason' # "" \/ (maxTurns > 0 /\ turns' >= maxTurns))
  /\ Photograph
  /\ UNCHANGED <<maxTurns, episode>>

GymNext == Reset \/ Step

(* The rollout steps an environment until it is done; when it resets one   *)
(* is its own affair.                                                      *)
GymSpec == GymInit /\ [][GymNext]_vars /\ WF_vars(Step)

------------------------------------------------------------------------------
(* Properties.                                                             *)

(* The rewards of an episode sum to what its shift earned, delivered and   *)
(* crossed at red, whatever the environment was used for before.           *)
RewardsSumToTheShift == paid = tally

(* Earned in the first h turns of the episode: a parcel each, in the model.*)
EarnedBy(h) ==
  Cardinality({i \in DOMAIN log :
    i <= h /\ log[i].status = "accepted" /\ log[i].action \in HandOver})

(* A finished episode has a figure for every horizon, and it is what this  *)
(* shift had earned by that turn, or in all when it ended earlier; the     *)
(* blocked streets it reports are those of its own turns.                  *)
FiguresAreThisShift ==
  /\ blocked = Cardinality({i \in DOMAIN log : log[i].status = "way_blocked"})
  /\ \A h \in DOMAIN earningsAt : earningsAt[h] = EarnedBy(h)
  /\ done => DOMAIN earningsAt = Horizon

(* Every episode comes to an end: the session stops, or max_turns does.    *)
EpisodeEnds == []<>done
==============================================================================
