---------------------------- MODULE CourierSession ----------------------------
(***************************************************************************)
(* One shift, reply by reply (agent/courier/session.py, chunk.py): a reply *)
(* of the model is parsed, its call executed against the world, the turn   *)
(* charged and recorded, and the session ended by delivery, by the clock,  *)
(* by four identical refusals in a row or by a budget.                     *)
(*                                                                         *)
(* The world is the clock and what summary() counts; OrderBook says how it *)
(* moves.  A chunk of calls carries out its first call only, so it differs *)
(* from a single call in the refusal of one that is too long, and in what  *)
(* is looked at after a refusal.                                           *)
(***************************************************************************)
EXTENDS Integers, FiniteSets, SequencesExt

CONSTANTS
  ActionChunk,      \* action_chunk values to try: 1 is the stock session
  Call,             \* calls a reply may name, as rendered
  HandOver,         \* those that hand a parcel over; the others may be walks
  LongReply,        \* over-long chunks, by their length
  Nothing,          \* no refusal to compare with
  Budget,           \* Budgets, by the name of the limit
  STUCK_REPEATS,    \* 4 in the code
  SHIFT,            \* shift_seconds
  CallSeconds, RefusalSeconds, FloorSeconds

Limits == <<"steps", "tool_calls", "sim", "format", "truncated">>
Limit == Range(Limits)

ASSUME SessionAssumption ==
  /\ ActionChunk \subseteq Nat \ {0} /\ HandOver \subseteq Call
  /\ Nothing \notin Call \union LongReply /\ Call \intersect LongReply = {}
  /\ Budget \in [Limit -> Nat \ {0}] /\ STUCK_REPEATS \in Nat \ {0}
  /\ SHIFT \in Nat \ {0}
  /\ CallSeconds \union RefusalSeconds \subseteq Nat
  /\ FloorSeconds \in Nat \ {0}

VARIABLES
  chunk,      \* the session's action_chunk
  clock,      \* env.sim_seconds
  tally,      \* env.summary(): earnings, delivered, red_crossings
  spend,      \* Spend; "format" is consecutive_format_errors
  repeats, lastRefused,  \* _repeats, _last_refused
  log,        \* run.turns
  reason      \* termination_reason, "" while the session runs

session == <<chunk, clock, tally, spend, repeats, lastRefused, log, reason>>

Count == {"earnings", "delivered", "red"}
Status == {"accepted", "way_blocked", "rejected", "format_error", "truncated_reply"}
Refusal == {"way_blocked", "rejected"}
Charged == {"accepted"} \union Refusal

Running == reason = ""

(* budget_exceeded: the first limit that is used up.                       *)
Exceeded(sp) ==
  LET over == {i \in DOMAIN Limits : sp[Limits[i]] >= Budget[Limits[i]]}
  IN IF over = {} THEN "" ELSE Limits[Min(over)]

Record(status, action) == log' = Append(log, [status |-> status, action |-> action])

------------------------------------------------------------------------------
(* Replies that name no call.                                              *)

(* Each is checked against its own limit only.                             *)
Unread(status, limit) ==
  /\ Running
  /\ spend' = [spend EXCEPT ![limit] = @ + 1]
  /\ reason' = IF Exceeded(spend') = limit THEN limit ELSE ""
  /\ Record(status, Nothing)
  /\ UNCHANGED <<chunk, clock, tally, repeats, lastRefused>>

Truncated == Unread("truncated_reply", "truncated")
Malformed == Unread("format_error", "format")

------------------------------------------------------------------------------
(* Replies that name one.                                                  *)

(* A parsed reply clears the row of format errors, not the truncations.    *)
Charge(seconds) ==
  /\ clock' = clock + seconds
  /\ spend' = [spend EXCEPT !.steps = @ + 1, !.tool_calls = @ + 1, !.format = 0,
                            !.sim = @ + seconds]

(* Mutant: any refusal in a row counts, whatever was refused.              *)
Track_AnyRefusal(action, ok) ==
  /\ repeats' = IF ok THEN 0 ELSE repeats + 1
  /\ lastRefused' = IF ok THEN Nothing ELSE action

Track(action, ok) ==
  /\ repeats' = IF ok THEN 0 ELSE IF action = lastRefused THEN repeats + 1 ELSE 1
  /\ lastRefused' = IF ok THEN Nothing ELSE action

(* Mutant: the clock is looked at after an accepted call only.             *)
Judge_OnlyAccepted(finished, looks) ==
  reason' = IF finished THEN "delivered"
            ELSE IF repeats' = 0 /\ clock' >= SHIFT THEN "shift_over"
            ELSE IF repeats' >= STUCK_REPEATS THEN "stuck" ELSE Exceeded(spend')

(* What ends the session, in the order it is asked; looks: the clock is.   *)
Judge(finished, looks) ==
  reason' = IF finished THEN "delivered"
            ELSE IF looks /\ clock' >= SHIFT THEN "shift_over"
            ELSE IF repeats' >= STUCK_REPEATS THEN "stuck" ELSE Exceeded(spend')

Accept(action, seconds, finished) ==
  /\ Running
  /\ Charge(seconds) /\ Track(action, TRUE) /\ Record("accepted", action)
  /\ Judge(finished, TRUE)
  /\ UNCHANGED chunk

(* A call that is not a hand-over; a walk may cross at red.                *)
Work ==
  \E action \in Call \ HandOver, seconds \in CallSeconds, reds \in {0, 1} :
    /\ reds > 0 => seconds > 0
    /\ tally' = [tally EXCEPT !.red = @ + reds]
    /\ Accept(action, seconds, FALSE)

(* hand_over; it finishes the shift when no order is left or time is up.   *)
Deliver ==
  \E action \in HandOver, seconds \in CallSeconds \ {0}, last \in BOOLEAN :
    /\ tally' = [tally EXCEPT !.earnings = @ + 1, !.delivered = @ + 1]
    /\ Accept(action, seconds, last \/ clock + seconds >= SHIFT)

(* A refusal ends a chunk before its session looks at the clock.           *)
Reject ==
  /\ Running
  /\ \E action \in Call, seconds \in RefusalSeconds, status \in Refusal :
       /\ status = "way_blocked" => action \notin HandOver /\ seconds > 0
       /\ Charge(seconds) /\ Track(action, FALSE) /\ Record(status, action)
       /\ Judge(FALSE, chunk = 1)
  /\ UNCHANGED <<chunk, tally>>

(* Mutant: the five seconds of the refusal are not booked.                 *)
RefuseOverLong_Unbooked ==
  /\ Running /\ chunk > 1
  /\ clock' = clock + FloorSeconds
  /\ spend' = [spend EXCEPT !.steps = @ + 1, !.tool_calls = @ + 1, !.format = 0]
  /\ \E action \in LongReply : Track(action, FALSE) /\ Record("rejected", action)
  /\ Judge(FALSE, FALSE)
  /\ UNCHANGED <<chunk, tally>>

(* _refuse_over_long: refused whole, and charged like any refusal.         *)
RefuseOverLong ==
  /\ Running /\ chunk > 1
  /\ \E action \in LongReply :
       Charge(FloorSeconds) /\ Track(action, FALSE) /\ Record("rejected", action)
  /\ Judge(FALSE, FALSE)
  /\ UNCHANGED <<chunk, tally>>

SessionInit ==
  /\ chunk \in ActionChunk
  /\ clock = 0 /\ tally = [c \in Count |-> 0]
  /\ spend = [l \in Limit |-> 0]
  /\ repeats = 0 /\ lastRefused = Nothing /\ log = <<>> /\ reason = ""

Reply == Truncated \/ Malformed \/ Work \/ Deliver \/ Reject \/ RefuseOverLong

------------------------------------------------------------------------------
(* Properties.                                                             *)

(* The turns that were charged for, by their number in the log.            *)
ChargedTurns == {i \in DOMAIN log : log[i].status \in Charged}

(* The last n charged turns, or more, are one refusal made over and over.  *)
RefusedRow(n) ==
  \E from \in DOMAIN log, action \in Call \union LongReply :
    LET row == {i \in ChargedTurns : i >= from}
    IN /\ Cardinality(row) >= n
       /\ \A i \in row : log[i].status # "accepted" /\ log[i].action = action

(* The seconds the budget is held to are the seconds the world has moved,  *)
(* and its steps are the turns in which a call was answered.  No reply is  *)
(* thrown away unread and no budget overrun: while the session still takes *)
(* replies nothing is used up, so the check at the top of a step never     *)
(* fires.                                                                  *)
BudgetStopsInTime ==
  /\ spend.sim = clock
  /\ spend.steps = Cardinality(ChargedTurns) /\ spend.tool_calls = spend.steps
  /\ Running => Exceeded(spend) = ""
  /\ \A l \in Limit \ {"sim"} : spend[l] <= Budget[l]

(* A session is stopped as stuck for a row of identical refusals and only  *)
(* for that; format errors in between neither break the row nor extend it. *)
StuckIsARow ==
  /\ reason = "stuck" => RefusedRow(STUCK_REPEATS)
  /\ Running => ~RefusedRow(STUCK_REPEATS)

(* The shift ends on the clock, except that in a chunked session a refusal *)
(* is not looked at: calls go on until one is accepted or a budget ends.   *)
ClockEndsTheShift ==
  Running /\ clock >= SHIFT =>
    /\ chunk > 1
    /\ \E i \in ChargedTurns :
         /\ log[i].status # "accepted"
         /\ \A j \in ChargedTurns : j <= i
==============================================================================
