---------------------------- MODULE GymEnvProofs ----------------------------
(***************************************************************************)
(* Proofs about CourierSession and GymEnv for all budgets, calls, horizons *)
(* and any number of episodes.                                             *)
(***************************************************************************)
EXTENDS GymEnv, FiniteSetTheorems, TLAPS

Answerable == Call \union LongReply
Turn == [status : Status, action : Answerable \union {Nothing}]
Reason == {"", "delivered", "shift_over", "stuck"} \union Limit

SessionTypes ==
  /\ chunk \in Nat \ {0} /\ clock \in Nat /\ tally \in [Count -> Nat]
  /\ spend \in [Limit -> Nat] /\ repeats \in Nat
  /\ lastRefused \in Answerable \union {Nothing}
  /\ log \in Seq(Turn) /\ reason \in Reason

(* b is the charged turn that broke the last row of refusals and l the     *)
(* last charged turn, 0 for none: the row is what was charged after b.     *)
RowSince(b, l) ==
  /\ b <= l /\ \A i \in ChargedTurns : i <= l
  /\ repeats = Cardinality({i \in ChargedTurns : i > b})
  /\ \A i \in ChargedTurns :
       i > b => log[i].status # "accepted" /\ log[i].action = lastRefused
  /\ b > 0 => \/ log[b].status = "accepted"
              \/ repeats > 0 /\ log[b].action # lastRefused
  /\ repeats = 0 <=> b = l
  /\ repeats = 0 <=> lastRefused = Nothing

RowInv ==
  /\ \E b, l \in ChargedTurns \union {0} : RowSince(b, l)
  /\ reason = "stuck" => repeats >= STUCK_REPEATS
  /\ Running => repeats < STUCK_REPEATS

SessionInv == SessionTypes /\ RowInv /\ BudgetStopsInTime /\ ClockEndsTheShift

------------------------------------------------------------------------------
(* Limits and budgets.                                                     *)

LEMMA LimitsAre ==
  /\ DOMAIN Limits = 1..5
  /\ \A i \in 1..5 : Limits[i] \in Limit
  /\ Limit = {"steps", "tool_calls", "sim", "format", "truncated"}
<1>1. DOMAIN Limits = 1..5
  BY DEF Limits
<1>2. /\ Limits[1] = "steps" /\ Limits[2] = "tool_calls" /\ Limits[3] = "sim"
      /\ Limits[4] = "format" /\ Limits[5] = "truncated"
  BY DEF Limits
<1>3. 1..5 = {1, 2, 3, 4, 5}
  OBVIOUS
<1>4. Limit = {Limits[i] : i \in {1, 2, 3, 4, 5}}
  BY <1>1, <1>3 DEF Limit, Range
<1>5. QED
  BY <1>1, <1>2, <1>3, <1>4

LEMMA MinOfSome ==
  ASSUME NEW S \in SUBSET (1..5), S # {}
  PROVE  Min(S) \in S
<1>1. \E x \in S : \A y \in S : x =< y
  <2>1. CASE 1 \in S
    BY <2>1
  <2>2. CASE 1 \notin S /\ 2 \in S
    BY <2>2
  <2>3. CASE 1 \notin S /\ 2 \notin S /\ 3 \in S
    BY <2>3
  <2>4. CASE 1 \notin S /\ 2 \notin S /\ 3 \notin S /\ 4 \in S
    BY <2>4
  <2>5. CASE 1 \notin S /\ 2 \notin S /\ 3 \notin S /\ 4 \notin S
    <3>1. \A y \in S : y = 5
      BY <2>5
    <3>2. 5 \in S
      BY <3>1
    <3>3. QED
      BY <3>1, <3>2
  <2>6. QED
    BY <2>1, <2>2, <2>3, <2>4, <2>5
<1>2. QED
  BY <1>1 DEF Min

(* What budget_exceeded answers: nothing if and only if no limit is used   *)
(* up, and else one that is.                                               *)
LEMMA ExceededSays ==
  ASSUME NEW sp \in [Limit -> Nat]
  PROVE  /\ Exceeded(sp) = "" <=> \A l \in Limit : sp[l] < Budget[l]
         /\ Exceeded(sp) # "" =>
              Exceeded(sp) \in Limit /\ sp[Exceeded(sp)] >= Budget[Exceeded(sp)]
<1> DEFINE over == {i \in DOMAIN Limits : sp[Limits[i]] >= Budget[Limits[i]]}
<1>1. over \in SUBSET (1..5) /\ "" \notin Limit
  BY LimitsAre
<1>2. \A l \in Limit : sp[l] \in Nat /\ Budget[l] \in Nat
  BY SessionAssumption
<1>3. Exceeded(sp) = IF over = {} THEN "" ELSE Limits[Min(over)]
  BY DEF Exceeded
<1>4. CASE over = {}
  <2>1. \A i \in 1..5 : ~(sp[Limits[i]] >= Budget[Limits[i]])
    BY <1>4, LimitsAre
  <2>2. \A l \in Limit : \E i \in 1..5 : l = Limits[i]
    BY LimitsAre DEF Limit, Range
  <2>3. \A l \in Limit : sp[l] < Budget[l]
    BY <2>1, <2>2, <1>2
  <2>4. QED
    BY <2>3, <1>3, <1>4
<1>5. CASE over # {}
  <2> HIDE DEF over
  <2>1. Min(over) \in over
    BY <1>1, <1>5, MinOfSome
  <2>2. PICK i \in over : i = Min(over)
    BY <2>1
  <2>3. i \in 1..5 /\ sp[Limits[i]] >= Budget[Limits[i]] /\ Limits[i] \in Limit
    BY <2>2, LimitsAre DEF over
  <2>4. Exceeded(sp) = Limits[i]
    BY <1>3, <1>5, <2>2
  <2>5. ~(sp[Limits[i]] < Budget[Limits[i]])
    BY <2>3, <1>2
  <2>6. QED
    BY <2>3, <2>4, <2>5, <1>1
<1>6. QED
  BY <1>4, <1>5

------------------------------------------------------------------------------
(* The log.                                                                *)

LEMMA OneMore ==
  ASSUME NEW n \in Nat, NEW S \in SUBSET (1..n)
  PROVE  /\ IsFiniteSet(S) /\ Cardinality(S) \in Nat
         /\ Cardinality(S \union {n + 1}) = Cardinality(S) + 1
<1>1. IsFiniteSet(1..n)
  BY FS_Interval
<1>2. IsFiniteSet(S)
  BY <1>1, FS_Subset
<1>3. n + 1 \notin S
  OBVIOUS
<1>4. QED
  BY <1>2, <1>3, FS_CardinalityType, FS_AddElement

LEMMA ChargedInLog ==
  ASSUME SessionTypes
  PROVE  /\ ChargedTurns \subseteq 1..Len(log) /\ Len(log) \in Nat
         /\ DOMAIN log = 1..Len(log) /\ \A i \in 1..Len(log) : log[i] \in Turn
BY DEF SessionTypes, ChargedTurns

(* What recording a turn does to the log and to the charged turns.         *)
LEMMA Recorded ==
  ASSUME SessionTypes, NEW status \in Status,
         NEW action \in Answerable \union {Nothing}, Record(status, action)
  PROVE  /\ log' \in Seq(Turn) /\ Len(log') = Len(log) + 1
         /\ DOMAIN log' = 1..(Len(log) + 1)
         /\ \A i \in 1..Len(log) : log'[i] = log[i]
         /\ log'[Len(log) + 1].status = status
         /\ log'[Len(log) + 1].action = action
         /\ status \in Charged => ChargedTurns' = ChargedTurns \union {Len(log) + 1}
         /\ status \notin Charged => ChargedTurns' = ChargedTurns
<1> DEFINE t == [status |-> status, action |-> action]
<1>1. t \in Turn /\ t.status = status /\ t.action = action
  BY DEF Turn
<1>2. log \in Seq(Turn) /\ log' = Append(log, t)
  BY DEF SessionTypes, Record
<1> HIDE DEF t
<1>3. /\ log' \in Seq(Turn) /\ Len(log') = Len(log) + 1 /\ Len(log) \in Nat
      /\ DOMAIN log' = 1..(Len(log) + 1) /\ DOMAIN log = 1..Len(log)
      /\ \A i \in 1..Len(log) : log'[i] = log[i]
      /\ log'[Len(log) + 1] = t
  BY <1>1, <1>2
<1>4. \A i : i \in 1..(Len(log) + 1) <=> i \in 1..Len(log) \/ i = Len(log) + 1
  BY <1>3
<1>5. ChargedTurns' = {i \in 1..(Len(log) + 1) : log'[i].status \in Charged}
  BY <1>3 DEF ChargedTurns
<1>6. ChargedTurns = {i \in 1..Len(log) : log[i].status \in Charged}
  BY <1>3 DEF ChargedTurns
<1>7. \A i \in 1..Len(log) : log'[i].status = log[i].status
  BY <1>3
<1>8. log'[Len(log) + 1].status = status
  BY <1>1, <1>3
<1>9. status \in Charged => ChargedTurns' = ChargedTurns \union {Len(log) + 1}
  BY <1>4, <1>5, <1>6, <1>7, <1>8
<1>10. status \notin Charged => ChargedTurns' = ChargedTurns
  BY <1>4, <1>5, <1>6, <1>7, <1>8
<1>11. QED
  BY <1>1, <1>3, <1>9, <1>10

------------------------------------------------------------------------------
(* Replies come in two kinds.                                              *)

(* A call was answered: carried out, or refused without a look at the      *)
(* clock, which only a chunked session does.                               *)
Answer(status, action, seconds, finished, looks) ==
  /\ Running /\ Charge(seconds) /\ Track(action, status = "accepted")
  /\ Record(status, action) /\ Judge(finished, looks) /\ UNCHANGED chunk
  /\ tally' \in [Count -> Nat]
  /\ tally'.red >= tally.red
  /\ tally'.earnings = tally.earnings + IF status = "accepted" /\ action \in HandOver
                                        THEN 1 ELSE 0
  /\ ~looks => chunk > 1 /\ status # "accepted"

Answers ==
  \E status \in Charged, action \in Answerable, seconds \in Nat,
     finished \in BOOLEAN, looks \in BOOLEAN :
    Answer(status, action, seconds, finished, looks)

Unreads ==
  \/ Unread("truncated_reply", "truncated")
  \/ Unread("format_error", "format")

LEMMA ReplyKinds ==
  ASSUME SessionTypes, Reply
  PROVE  Answers \/ Unreads
<1>1. /\ CallSeconds \subseteq Nat /\ RefusalSeconds \subseteq Nat /\ FloorSeconds \in Nat
      /\ HandOver \subseteq Answerable /\ Call \subseteq Answerable
      /\ LongReply \subseteq Answerable /\ Call \intersect LongReply = {}
      /\ HandOver \subseteq Call /\ SHIFT \in Nat
  BY SessionAssumption DEF Answerable
<1>2. /\ tally \in [Count -> Nat] /\ clock \in Nat /\ chunk \in Nat \ {0}
      /\ tally.earnings \in Nat /\ tally.delivered \in Nat /\ tally.red \in Nat
  BY DEF SessionTypes, Count
<1>3. CASE Truncated \/ Malformed
  BY <1>3 DEF Truncated, Malformed, Unreads
<1>4. CASE Work
  <2>1. PICK action \in Call \ HandOver, seconds \in CallSeconds, reds \in {0, 1} :
          /\ tally' = [tally EXCEPT !.red = @ + reds]
          /\ Accept(action, seconds, FALSE)
    BY <1>4 DEF Work
  <2>2. /\ tally' \in [Count -> Nat] /\ tally'.earnings = tally.earnings
        /\ tally'.red >= tally.red
    BY <2>1, <1>2 DEF Count
  <2>3. tally'.earnings = tally.earnings
                           + IF "accepted" = "accepted" /\ action \in HandOver THEN 1 ELSE 0
    BY <2>1, <2>2, <1>2
  <2>4. Answer("accepted", action, seconds, FALSE, TRUE)
    BY <2>1, <2>2, <2>3 DEF Answer, Accept
  <2>5. "accepted" \in Charged /\ action \in Answerable /\ seconds \in Nat
    BY <1>1 DEF Charged
  <2>6. QED
    BY <2>4, <2>5 DEF Answers
<1>5. CASE Deliver
  <2>1. PICK action \in HandOver, seconds \in CallSeconds \ {0}, last \in BOOLEAN :
          /\ tally' = [tally EXCEPT !.earnings = @ + 1, !.delivered = @ + 1]
          /\ Accept(action, seconds, last \/ clock + seconds >= SHIFT)
    BY <1>5 DEF Deliver
  <2>2. /\ tally' \in [Count -> Nat] /\ tally'.earnings = tally.earnings + 1
        /\ tally'.red >= tally.red
    <3>1. tally.earnings + 1 \in Nat /\ tally.delivered + 1 \in Nat
      BY <1>2
    <3>2. tally' \in [Count -> Nat] /\ tally'.earnings = tally.earnings + 1
      BY <2>1, <1>2, <3>1 DEF Count
    <3>3. tally'.red = tally.red
      BY <2>1, <1>2 DEF Count
    <3>4. QED
      BY <1>2, <3>2, <3>3
  <2>3. Answer("accepted", action, seconds, last \/ clock + seconds >= SHIFT, TRUE)
    BY <2>1, <2>2 DEF Answer, Accept
  <2>4. /\ "accepted" \in Charged /\ action \in Answerable /\ seconds \in Nat
        /\ (last \/ clock + seconds >= SHIFT) \in BOOLEAN
    BY <1>1, <1>2 DEF Charged
  <2>5. QED
    BY <2>3, <2>4 DEF Answers
<1>6. CASE Reject
  <2>1. PICK action \in Call, seconds \in RefusalSeconds, status \in Refusal :
          /\ Charge(seconds) /\ Track(action, FALSE) /\ Record(status, action)
          /\ Judge(FALSE, chunk = 1)
    BY <1>6 DEF Reject
  <2>2. Running /\ chunk' = chunk /\ tally' = tally
    BY <1>6 DEF Reject
  <2>3. status # "accepted" /\ status \in Charged
    BY DEF Refusal, Charged
  <2>4. chunk # 1 => chunk > 1
    BY <1>2
  <2>5. (status = "accepted") = FALSE
    BY <2>3
  <2>6. tally'.earnings = tally.earnings
                           + IF status = "accepted" /\ action \in HandOver THEN 1 ELSE 0
    BY <2>2, <2>3, <1>2
  <2>r. tally'.red >= tally.red
    BY <2>2, <1>2
  <2>7. Answer(status, action, seconds, FALSE, chunk = 1)
    BY <2>1, <2>2, <2>3, <2>4, <2>5, <2>6, <2>r, <1>2 DEF Answer
  <2>8. action \in Answerable /\ seconds \in Nat /\ (chunk = 1) \in BOOLEAN
    BY <1>1
  <2>9. QED
    BY <2>3, <2>7, <2>8 DEF Answers
<1>7. CASE RefuseOverLong
  <2>1. PICK action \in LongReply :
          /\ Charge(FloorSeconds) /\ Track(action, FALSE) /\ Record("rejected", action)
    BY <1>7 DEF RefuseOverLong
  <2>2. /\ Running /\ chunk' = chunk /\ tally' = tally /\ chunk > 1
        /\ Judge(FALSE, FALSE)
    BY <1>7 DEF RefuseOverLong
  <2>3. ("rejected" = "accepted") = FALSE
    OBVIOUS
  <2>4. tally'.earnings = tally.earnings
                           + IF "rejected" = "accepted" /\ action \in HandOver THEN 1 ELSE 0
    BY <2>2, <1>2
  <2>r. tally'.red >= tally.red
    BY <2>2, <1>2
  <2>5. Answer("rejected", action, FloorSeconds, FALSE, FALSE)
    BY <2>1, <2>2, <2>3, <2>4, <2>r, <1>2 DEF Answer
  <2>6. "rejected" \in Charged /\ action \in Answerable /\ FloorSeconds \in Nat
    BY <1>1 DEF Charged, Refusal
  <2>7. QED
    BY <2>5, <2>6 DEF Answers
<1>8. QED
  BY <1>3, <1>4, <1>5, <1>6, <1>7 DEF Reply

------------------------------------------------------------------------------
(* A new session, at the first episode and after every reset.              *)

Fresh ==
  /\ chunk \in Nat \ {0} /\ clock = 0 /\ tally = Zero /\ spend = [l \in Limit |-> 0]
  /\ repeats = 0 /\ lastRefused = Nothing /\ log = <<>> /\ reason = ""

LEMMA FreshInv == Fresh => SessionInv
<1>1. SUFFICES ASSUME Fresh PROVE SessionInv
  OBVIOUS
<1>2. /\ \A l \in Limit : Budget[l] \in Nat \ {0}
      /\ STUCK_REPEATS > 0 /\ SHIFT > 0
      /\ STUCK_REPEATS \in Int /\ SHIFT \in Int
  BY SessionAssumption
<1>3. /\ clock = 0 /\ repeats = 0 /\ lastRefused = Nothing /\ reason = ""
      /\ chunk \in Nat \ {0}
  BY <1>1 DEF Fresh
<1>4. log \in Seq(Turn) /\ Len(log) = 0
  <2>1. log = <<>>
    BY <1>1 DEF Fresh
  <2>2. QED
    BY <2>1
<1>5. spend \in [Limit -> Nat] /\ \A l \in Limit : spend[l] = 0
  BY <1>1 DEF Fresh
<1>6. tally \in [Count -> Nat]
  BY <1>1 DEF Fresh, Zero
<1>7. SessionTypes
  BY <1>3, <1>4, <1>5, <1>6 DEF SessionTypes, Reason
<1>8. ChargedTurns = {}
  BY <1>4, <1>7, ChargedInLog
<1>9. RowInv
  <2>1. {i \in ChargedTurns : i > 0} = {} /\ ~(0 > 0) /\ 0 <= 0
    BY <1>8
  <2>2. repeats = Cardinality({i \in ChargedTurns : i > 0})
    BY <1>3, <2>1, FS_EmptySet
  <2>3. RowSince(0, 0)
    BY <1>3, <1>8, <2>1, <2>2 DEF RowSince
  <2>4. repeats < STUCK_REPEATS /\ reason # "stuck"
    BY <1>2, <1>3
  <2>5. QED
    BY <2>3, <2>4 DEF RowInv
<1>10. BudgetStopsInTime
  <2>1. Exceeded(spend) = ""
    <3>1. \A l \in Limit : spend[l] < Budget[l]
      BY <1>2, <1>5
    <3>2. QED
      BY <1>5, <3>1, ExceededSays
  <2>2. spend.sim = 0 /\ spend.steps = 0 /\ spend.tool_calls = 0
    BY <1>5, LimitsAre
  <2>3. Cardinality(ChargedTurns) = 0
    BY <1>8, FS_EmptySet
  <2>4. \A l \in Limit : spend[l] <= Budget[l]
    BY <1>2, <1>5
  <2>5. QED
    BY <1>3, <2>1, <2>2, <2>3, <2>4 DEF BudgetStopsInTime
<1>11. ClockEndsTheShift
  <2>1. clock = 0 /\ SHIFT > 0 /\ SHIFT \in Int
    BY <1>2, <1>3
  <2>2. ~(clock >= SHIFT)
    BY <2>1
  <2>3. QED
    BY <2>2 DEF ClockEndsTheShift
<1>12. QED
  BY <1>7, <1>9, <1>10, <1>11 DEF SessionInv

LEMMA FreshInvNext == Fresh' => SessionInv'
BY FreshInv, PTL

------------------------------------------------------------------------------
(* The types, and what a charge does to the budget.                        *)

LEMMA Charges ==
  ASSUME SessionTypes, NEW seconds \in Nat, Charge(seconds)
  PROVE  /\ clock' = clock + seconds /\ clock' \in Nat /\ spend' \in [Limit -> Nat]
         /\ spend'.steps = spend.steps + 1 /\ spend'.tool_calls = spend.tool_calls + 1
         /\ spend'.sim = spend.sim + seconds /\ spend'.format = 0
         /\ spend'.truncated = spend.truncated
<1>1. /\ spend \in [Limit -> Nat] /\ clock \in Nat
      /\ spend.steps \in Nat /\ spend.tool_calls \in Nat /\ spend.sim \in Nat
  BY LimitsAre DEF SessionTypes
<1>2. /\ spend.steps + 1 \in Nat /\ spend.tool_calls + 1 \in Nat /\ 0 \in Nat
      /\ spend.sim + seconds \in Nat /\ clock + seconds \in Nat
  BY <1>1
<1>3. spend' = [spend EXCEPT !.steps = @ + 1, !.tool_calls = @ + 1, !.format = 0,
                             !.sim = @ + seconds]
  BY DEF Charge
<1>4. /\ DOMAIN spend = Limit /\ "steps" \in Limit /\ "tool_calls" \in Limit
      /\ "sim" \in Limit /\ "format" \in Limit /\ "truncated" \in Limit
  BY <1>1, LimitsAre
<1>5. /\ spend'.steps = spend.steps + 1 /\ spend'.tool_calls = spend.tool_calls + 1
      /\ spend'.sim = spend.sim + seconds /\ spend'.format = 0
      /\ spend'.truncated = spend.truncated /\ DOMAIN spend' = Limit
  BY <1>1, <1>3, <1>4
<1>6. spend' \in [Limit -> Nat]
  BY <1>1, <1>2, <1>3, <1>4
<1>7. clock' = clock + seconds
  BY DEF Charge
<1>8. QED
  BY <1>1, <1>2, <1>5, <1>6, <1>7

LEMMA UnreadSpends ==
  ASSUME SessionTypes, NEW status, NEW limit \in Limit, Unread(status, limit)
  PROVE  /\ spend' \in [Limit -> Nat] /\ spend'[limit] = spend[limit] + 1
         /\ \A l \in Limit \ {limit} : spend'[l] = spend[l]
<1>1. spend \in [Limit -> Nat] /\ spend[limit] \in Nat /\ spend[limit] + 1 \in Nat
  BY DEF SessionTypes
<1>2. spend' = [spend EXCEPT ![limit] = @ + 1]
  BY DEF Unread
<1>3. QED
  BY <1>1, <1>2

LEMMA TypesKept ==
  ASSUME SessionTypes, Answers \/ Unreads
  PROVE  SessionTypes'
<1>1. CASE Answers
  <2>1. PICK status \in Charged, action \in Answerable, seconds \in Nat,
             finished \in BOOLEAN, looks \in BOOLEAN :
          Answer(status, action, seconds, finished, looks)
    BY <1>1 DEF Answers
  <2>2. status \in Status
    BY DEF Charged, Refusal, Status
  <2>3. log' \in Seq(Turn)
    BY <2>1, <2>2, Recorded DEF Answer
  <2>4. clock' \in Nat /\ spend' \in [Limit -> Nat]
    BY <2>1, Charges DEF Answer
  <2>5. repeats' \in Nat /\ lastRefused' \in Answerable \union {Nothing}
    BY <2>1 DEF Answer, Track, SessionTypes
  <2>6. reason' \in Reason
    <3>1. Exceeded(spend') \in Reason
      BY <2>4, ExceededSays DEF Reason
    <3>2. QED
      BY <2>1, <3>1 DEF Answer, Judge, Reason
  <2>7. QED
    BY <2>1, <2>3, <2>4, <2>5, <2>6 DEF Answer, SessionTypes
<1>2. CASE Unreads
  <2>1. PICK status \in Status, limit \in Limit : Unread(status, limit)
    BY <1>2, LimitsAre DEF Unreads, Status
  <2>2. log' \in Seq(Turn)
    BY <2>1, Recorded DEF Unread
  <2>3. spend' \in [Limit -> Nat]
    BY <2>1, UnreadSpends
  <2>4. reason' \in Reason
    BY <2>1 DEF Unread, Reason
  <2>5. QED
    BY <2>1, <2>2, <2>3, <2>4 DEF Unread, SessionTypes
<1>3. QED
  BY <1>1, <1>2

------------------------------------------------------------------------------
(* The budget.                                                             *)

LEMMA BudgetKept ==
  ASSUME SessionTypes, BudgetStopsInTime, Answers \/ Unreads
  PROVE  BudgetStopsInTime'
<1>1. /\ ChargedTurns \subseteq 1..Len(log) /\ Len(log) \in Nat
      /\ \A l \in Limit : Budget[l] \in Nat /\ spend[l] \in Nat
      /\ spend \in [Limit -> Nat]
  BY ChargedInLog, SessionAssumption DEF SessionTypes
<1>2. Running => \A l \in Limit : spend[l] < Budget[l]
  BY <1>1, ExceededSays DEF BudgetStopsInTime
<1>3. CASE Answers
  <2>1. PICK status \in Charged, action \in Answerable, seconds \in Nat,
             finished \in BOOLEAN, looks \in BOOLEAN :
          Answer(status, action, seconds, finished, looks)
    BY <1>3 DEF Answers
  <2>2. status \in Status
    BY DEF Charged, Refusal, Status
  <2>3. ChargedTurns' = ChargedTurns \union {Len(log) + 1}
    BY <2>1, <2>2, Recorded DEF Answer
  <2>4. Cardinality(ChargedTurns') = Cardinality(ChargedTurns) + 1
    BY <1>1, <2>3, OneMore
  <2>5. /\ clock' = clock + seconds /\ spend' \in [Limit -> Nat]
        /\ spend'.steps = spend.steps + 1 /\ spend'.tool_calls = spend.tool_calls + 1
        /\ spend'.sim = spend.sim + seconds /\ spend'.format = 0
        /\ spend'.truncated = spend.truncated
    BY <2>1, Charges DEF Answer
  <2>6. Running' => Exceeded(spend') = ""
    BY <2>1 DEF Answer, Judge, Running
  <2>7. \A l \in Limit \ {"sim"} : spend'[l] <= Budget[l]
    <3>1. \A l \in Limit : spend[l] < Budget[l]
      BY <2>1, <1>2 DEF Answer
    <3>2. \A l \in Limit \ {"sim"} : spend'[l] <= spend[l] + 1
      <4>1. SUFFICES ASSUME NEW l \in Limit \ {"sim"}
                     PROVE  spend'[l] <= spend[l] + 1
        OBVIOUS
      <4>2. l \in {"steps", "tool_calls", "format", "truncated"}
        BY LimitsAre
      <4>3. spend[l] \in Nat
        BY <1>1
      <4>4. QED
        BY <2>5, <4>2, <4>3
    <3>3. \A l \in Limit : spend'[l] \in Nat
      BY <2>5
    <3>4. QED
      BY <1>1, <3>1, <3>2, <3>3
  <2>8. QED
    BY <2>4, <2>5, <2>6, <2>7 DEF BudgetStopsInTime
<1>4. CASE Unreads
  <2>1. PICK status \in {"truncated_reply", "format_error"},
             limit \in {"truncated", "format"} :
          Unread(status, limit)
    BY <1>4 DEF Unreads
  <2>2. status \in Status /\ status \notin Charged /\ limit \in Limit
    BY LimitsAre DEF Charged, Refusal, Status
  <2>3. ChargedTurns' = ChargedTurns
    BY <2>1, <2>2, Recorded DEF Unread
  <2>4. /\ spend' \in [Limit -> Nat] /\ spend'[limit] = spend[limit] + 1
        /\ \A l \in Limit \ {limit} : spend'[l] = spend[l]
    BY <2>1, <2>2, UnreadSpends
  <2>5. spend'.sim = spend.sim /\ spend'.steps = spend.steps
        /\ spend'.tool_calls = spend.tool_calls /\ clock' = clock
    BY <2>1, <2>4, LimitsAre DEF Unread
  <2>6. \A l \in Limit : spend[l] < Budget[l]
    BY <2>1, <1>2 DEF Unread
  <2>7. Running' => Exceeded(spend') = ""
    <3>1. SUFFICES ASSUME Running', Exceeded(spend') # "" PROVE FALSE
      OBVIOUS
    <3>2. Exceeded(spend') # limit
      BY <2>1, <2>2, <3>1, LimitsAre DEF Unread, Running
    <3>3. PICK l \in Limit : l = Exceeded(spend') /\ spend'[l] >= Budget[l]
      BY <2>4, <3>1, ExceededSays
    <3>4. spend'[l] = spend[l]
      BY <2>4, <3>2, <3>3
    <3>5. QED
      BY <1>1, <2>6, <3>3, <3>4
  <2>8. \A l \in Limit \ {"sim"} : spend'[l] <= Budget[l]
    <3>1. \A l \in Limit : spend'[l] <= spend[l] + 1
      BY <1>1, <2>4
    <3>2. \A l \in Limit : spend'[l] \in Nat
      BY <2>4
    <3>3. QED
      BY <1>1, <2>6, <3>1, <3>2
  <2>9. QED
    BY <2>3, <2>5, <2>7, <2>8 DEF BudgetStopsInTime
<1>5. QED
  BY <1>3, <1>4

------------------------------------------------------------------------------
(* The row of refusals.                                                    *)

LEMMA RowKept ==
  ASSUME SessionTypes, RowInv, Answers \/ Unreads
  PROVE  RowInv'
<1>1. PICK b \in ChargedTurns \union {0}, l \in ChargedTurns \union {0} : RowSince(b, l)
  BY DEF RowInv
<1>2. /\ ChargedTurns \subseteq 1..Len(log) /\ Len(log) \in Nat /\ repeats \in Nat
      /\ b \in Nat /\ l \in Nat /\ b <= l /\ l <= Len(log)
  BY <1>1, ChargedInLog DEF RowSince, SessionTypes
<1>3. STUCK_REPEATS \in Nat /\ Nothing \notin Answerable
  BY SessionAssumption DEF Answerable
<1> DEFINE Row(c) == {i \in ChargedTurns : i > c}
<1>4. CASE Answers
  <2> PICK n \in Nat : n = Len(log) + 1
    BY <1>2
  <2>1. PICK status \in Charged, action \in Answerable, seconds \in Nat,
             finished \in BOOLEAN, looks \in BOOLEAN :
          Answer(status, action, seconds, finished, looks)
    BY <1>4 DEF Answers
  <2>2. status \in Status
    BY DEF Charged, Refusal, Status
  <2>3. /\ \A i \in 1..Len(log) : log'[i] = log[i]
        /\ log'[n].status = status /\ log'[n].action = action
        /\ ChargedTurns' = ChargedTurns \union {n}
    BY <2>1, <2>2, Recorded DEF Answer
  <2>4. /\ repeats' = IF status = "accepted" THEN 0
                      ELSE IF action = lastRefused THEN repeats + 1 ELSE 1
        /\ lastRefused' = IF status = "accepted" THEN Nothing ELSE action
    BY <2>1 DEF Answer, Track
  <2>5. /\ repeats' \in Nat
        /\ \A i \in ChargedTurns : i \in Nat /\ i < n
        /\ \A i \in ChargedTurns' : i \in Nat /\ i <= n
    <3>1. repeats' \in Nat
      BY <1>2, <2>4
    <3>2. \A i \in ChargedTurns : i \in Nat /\ i < n
      BY <1>2
    <3>3. ChargedTurns' = ChargedTurns \union {n}
      BY <2>3
    <3>4. QED
      BY <3>1, <3>2, <3>3
  <2>6. \E c, k \in ChargedTurns' \union {0} : RowSince(c, k)'
    <3>1. CASE status = "accepted"
      <4>1. {i \in ChargedTurns' : i > n} = {} /\ \A i \in ChargedTurns' : i <= n
        BY <2>5
      <4>2. repeats' = 0 /\ Cardinality({}) = 0 /\ n <= n
        BY <2>4, <3>1, FS_EmptySet
      <4>3. repeats' = Cardinality({i \in ChargedTurns' : i > n})
        BY <4>1, <4>2
      <4>4. RowSince(n, n)'
        BY <2>3, <2>4, <3>1, <4>1, <4>2, <4>3 DEF RowSince
      <4>5. QED
        BY <2>3, <4>4
    <3>2. CASE status # "accepted" /\ action = lastRefused
      <4>1. repeats' = repeats + 1 /\ lastRefused' = lastRefused /\ lastRefused # Nothing
        BY <1>3, <2>4, <3>2
      <4>2. {i \in ChargedTurns' : i > b} = Row(b) \union {n}
        BY <1>2, <2>3
      <4>3. Cardinality(Row(b) \union {n}) = Cardinality(Row(b)) + 1
        BY <1>2, OneMore
      <4>4. repeats' = Cardinality({i \in ChargedTurns' : i > b})
        BY <1>1, <4>1, <4>2, <4>3 DEF RowSince
      <4>5. \A i \in ChargedTurns' : i <= n
        BY <2>5
      <4>6. \A i \in ChargedTurns' : i > b =>
              log'[i].status # "accepted" /\ log'[i].action = lastRefused'
        BY <1>1, <1>2, <2>3, <3>2, <4>1 DEF RowSince
      <4>7. b > 0 => \/ log'[b].status = "accepted"
                     \/ repeats' > 0 /\ log'[b].action # lastRefused'
        BY <1>1, <1>2, <2>3, <4>1 DEF RowSince
      <4>8. repeats' # 0 /\ b # n /\ b <= n
        BY <1>2, <4>1
      <4>9. RowSince(b, n)'
        BY <4>1, <4>4, <4>5, <4>6, <4>7, <4>8 DEF RowSince
      <4>10. QED
        BY <2>3, <4>9
    <3>3. CASE status # "accepted" /\ action # lastRefused
      <4>1. repeats' = 1 /\ lastRefused' = action /\ lastRefused' # Nothing
        BY <1>3, <2>4, <3>3
      <4>2. {i \in ChargedTurns' : i > l} = {n}
        BY <1>1, <1>2, <2>3 DEF RowSince
      <4>3. Cardinality({n}) = 1
        BY FS_Singleton
      <4>4. repeats' = Cardinality({i \in ChargedTurns' : i > l})
        BY <4>1, <4>2, <4>3
      <4>5. \A i \in ChargedTurns' : i <= n
        BY <2>5
      <4>6. \A i \in ChargedTurns' : i > l =>
              log'[i].status # "accepted" /\ log'[i].action = lastRefused'
        BY <2>3, <3>3, <4>1, <4>2
      <4>7. l > 0 => \/ log'[l].status = "accepted"
                     \/ repeats' > 0 /\ log'[l].action # lastRefused'
        <5>1. SUFFICES ASSUME l > 0
                       PROVE  log'[l].status = "accepted" \/ log'[l].action # lastRefused'
          BY <4>1
        <5>2. l \in ChargedTurns /\ log'[l] = log[l]
          BY <1>2, <2>3, <5>1
        <5>3. CASE repeats = 0
          BY <1>1, <5>1, <5>2, <5>3 DEF RowSince
        <5>4. CASE repeats # 0
          <6>1. l > b
            BY <1>1, <1>2, <5>4 DEF RowSince
          <6>2. log[l].action = lastRefused
            BY <1>1, <5>2, <6>1 DEF RowSince
          <6>3. QED
            BY <3>3, <4>1, <5>2, <6>2
        <5>5. QED
          BY <5>3, <5>4
      <4>8. repeats' # 0 /\ l # n /\ l <= n
        BY <1>2, <4>1
      <4>9. RowSince(l, n)'
        BY <4>1, <4>4, <4>5, <4>6, <4>7, <4>8 DEF RowSince
      <4>10. QED
        BY <2>3, <4>9
    <3>4. QED
      BY <3>1, <3>2, <3>3
  <2>7. /\ reason' = "stuck" => repeats' >= STUCK_REPEATS
        /\ Running' => ~(repeats' >= STUCK_REPEATS)
    <3>1. spend' \in [Limit -> Nat]
      BY <2>1, Charges DEF Answer
    <3>2. Exceeded(spend') # "stuck"
      BY <3>1, ExceededSays, LimitsAre
    <3>3. QED
      BY <2>1, <3>2 DEF Answer, Judge, Running
  <2>8. QED
    BY <1>3, <2>5, <2>6, <2>7 DEF RowInv
<1>5. CASE Unreads
  <2>1. PICK status \in {"truncated_reply", "format_error"},
             limit \in {"truncated", "format"} :
          Unread(status, limit)
    BY <1>5 DEF Unreads
  <2>2. status \in Status /\ status \notin Charged
    BY DEF Charged, Refusal, Status
  <2>3. ChargedTurns' = ChargedTurns /\ \A i \in 1..Len(log) : log'[i] = log[i]
    BY <2>1, <2>2, Recorded DEF Unread
  <2>4. repeats' = repeats /\ lastRefused' = lastRefused /\ Running /\ reason' # "stuck"
    BY <2>1 DEF Unread
  <2>5. \A i \in ChargedTurns : log'[i] = log[i]
    BY <1>2, <2>3
  <2>6. b > 0 => b \in ChargedTurns
    OBVIOUS
  <2>7. RowSince(b, l)'
    BY <1>1, <2>3, <2>4, <2>5, <2>6 DEF RowSince
  <2>8. QED
    BY <2>3, <2>4, <2>7 DEF RowInv
<1>6. QED
  BY <1>4, <1>5

(* A row of n refusals is there exactly when the count has reached n.      *)
LEMMA RowsAreCounted ==
  ASSUME SessionTypes, RowInv, NEW n \in Nat \ {0}
  PROVE  RefusedRow(n) <=> repeats >= n
<1>1. PICK b \in ChargedTurns \union {0}, l \in ChargedTurns \union {0} : RowSince(b, l)
  BY DEF RowInv
<1>2. /\ ChargedTurns \subseteq 1..Len(log) /\ Len(log) \in Nat /\ repeats \in Nat
      /\ DOMAIN log = 1..Len(log)
      /\ b \in Nat /\ l \in Nat /\ b <= l /\ l <= Len(log)
  BY <1>1, ChargedInLog DEF RowSince, SessionTypes
<1>5. \A i \in ChargedTurns : i \in Nat /\ i <= Len(log)
  BY <1>2
<1> DEFINE Row(c) == {i \in ChargedTurns : i > c}
           Since(c) == {i \in ChargedTurns : i >= c}
<1>3. ASSUME repeats >= n PROVE RefusedRow(n)
  <2>1. repeats # 0 /\ b < l
    BY <1>1, <1>2, <1>3 DEF RowSince
  <2>2. Since(b + 1) = Row(b) /\ b + 1 \in DOMAIN log
    <3>1. b + 1 \in DOMAIN log
      BY <1>2, <2>1
    <3>2. \A i \in ChargedTurns : i >= b + 1 <=> i > b
      BY <1>2, <1>5
    <3>3. QED
      BY <3>1, <3>2
  <2>3. lastRefused \in Call \union LongReply
    BY <1>1, <2>1 DEF RowSince, SessionTypes, Answerable
  <2>4. Cardinality(Since(b + 1)) >= n
    BY <1>1, <1>3, <2>2 DEF RowSince
  <2>5. \A i \in Since(b + 1) : log[i].status # "accepted" /\ log[i].action = lastRefused
    BY <1>1, <2>2 DEF RowSince
  <2>6. QED
    BY <2>2, <2>3, <2>4, <2>5 DEF RefusedRow
<1>4. ASSUME RefusedRow(n) PROVE repeats >= n
  <2>1. PICK from \in DOMAIN log, action \in Call \union LongReply :
          /\ Cardinality(Since(from)) >= n
          /\ \A i \in Since(from) : log[i].status # "accepted" /\ log[i].action = action
    BY <1>4 DEF RefusedRow
  <2>2. CASE from > b
    <3>1. Since(from) \in SUBSET Row(b)
      <4>1. from \in Nat
        BY <1>2, <2>1
      <4>2. \A i \in ChargedTurns : i >= from => i > b
        BY <1>2, <1>5, <2>2, <4>1
      <4>3. QED
        BY <4>2
    <3>2. IsFiniteSet(Row(b)) /\ Cardinality(Row(b)) \in Nat
      BY <1>2, OneMore
    <3>3. IsFiniteSet(Since(from)) /\ Cardinality(Since(from)) \in Nat
      BY <1>2, OneMore
    <3>4. Cardinality(Since(from)) <= Cardinality(Row(b))
      BY <3>1, <3>2, FS_Subset
    <3>5. repeats = Cardinality(Row(b))
      BY <1>1 DEF RowSince
    <3>6. QED
      BY <2>1, <3>2, <3>3, <3>4, <3>5
  <2>3. CASE ~(from > b)
    <3>1. b > 0 /\ b \in Since(from)
      BY <1>2, <2>1, <2>3
    <3>2. repeats > 0 /\ log[b].action # lastRefused
      BY <1>1, <2>1, <3>1 DEF RowSince
    <3>3. l > b /\ l \in Since(from)
      BY <1>1, <1>2, <2>1, <2>3, <3>2 DEF RowSince
    <3>4. log[l].action = lastRefused
      BY <1>1, <3>3 DEF RowSince
    <3>5. QED
      BY <2>1, <3>1, <3>2, <3>3, <3>4
  <2>4. QED
    BY <2>2, <2>3
<1>6. QED
  BY <1>3, <1>4

LEMMA RowIsStuck == ASSUME SessionInv PROVE StuckIsARow
<1>1. STUCK_REPEATS \in Nat \ {0} /\ repeats \in Nat
  BY SessionAssumption DEF SessionInv, SessionTypes
<1>2. RefusedRow(STUCK_REPEATS) <=> repeats >= STUCK_REPEATS
  BY <1>1, RowsAreCounted DEF SessionInv
<1>3. QED
  BY <1>1, <1>2 DEF SessionInv, RowInv, StuckIsARow

------------------------------------------------------------------------------
(* The clock.                                                              *)

LEMMA ClockKept ==
  ASSUME SessionTypes, ClockEndsTheShift, Answers \/ Unreads
  PROVE  ClockEndsTheShift'
<1>1. /\ ChargedTurns \subseteq 1..Len(log) /\ Len(log) \in Nat
  BY ChargedInLog
<1>2. CASE Answers
  <2>1. PICK status \in Charged, action \in Answerable, seconds \in Nat,
             finished \in BOOLEAN, looks \in BOOLEAN :
          Answer(status, action, seconds, finished, looks)
    BY <1>2 DEF Answers
  <2>2. status \in Status
    BY DEF Charged, Refusal, Status
  <2>3. /\ log'[Len(log) + 1].status = status
        /\ ChargedTurns' = ChargedTurns \union {Len(log) + 1}
    BY <2>1, <2>2, Recorded DEF Answer
  <2>4. \A j \in ChargedTurns' : j <= Len(log) + 1
    BY <1>1, <2>3
  <2>5. Running' /\ clock' >= SHIFT => ~looks
    BY <2>1 DEF Answer, Judge, Running
  <2>6. chunk' = chunk /\ (~looks => chunk > 1 /\ status # "accepted")
    BY <2>1 DEF Answer
  <2>7. QED
    BY <2>3, <2>4, <2>5, <2>6 DEF ClockEndsTheShift
<1>3. CASE Unreads
  <2>1. PICK status \in {"truncated_reply", "format_error"},
             limit \in {"truncated", "format"} :
          Unread(status, limit)
    BY <1>3 DEF Unreads
  <2>2. status \in Status /\ status \notin Charged
    BY DEF Charged, Refusal, Status
  <2>3. ChargedTurns' = ChargedTurns /\ \A i \in ChargedTurns : log'[i] = log[i]
    BY <1>1, <2>1, <2>2, Recorded DEF Unread
  <2>4. clock' = clock /\ chunk' = chunk /\ Running
    BY <2>1 DEF Unread
  <2>5. QED
    BY <2>3, <2>4 DEF ClockEndsTheShift
<1>4. QED
  BY <1>2, <1>3

LEMMA SessionKept ==
  ASSUME SessionInv, Reply
  PROVE  SessionInv'
BY ReplyKinds, TypesKept, RowKept, BudgetKept, ClockKept DEF SessionInv

------------------------------------------------------------------------------
(* The sessions of every episode.                                          *)

(* Every reset begins a session anew.                                      *)
LEMMA RenewedIsFresh ==
  ASSUME SessionTypes, Renewed
  PROVE  Fresh'
BY DEF SessionTypes, Renewed, Fresh

LEMMA InitIsFresh ==
  ASSUME GymInit
  PROVE  Fresh
BY SessionAssumption DEF GymInit, SessionInit, Fresh, Zero

LEMMA SessionStep ==
  ASSUME SessionInv, [GymNext]_vars
  PROVE  SessionInv'
<1>1. CASE Reset
  BY <1>1, RenewedIsFresh, FreshInvNext DEF Reset, SessionInv
<1>2. CASE Step
  BY <1>2, SessionKept DEF Step
<1>3. CASE UNCHANGED vars
  <2>1. UNCHANGED <<chunk, clock, tally, spend, repeats, lastRefused, log, reason>>
    BY <1>3 DEF vars, session
  <2>2. SessionTypes' /\ ClockEndsTheShift'
    BY <2>1 DEF SessionInv, SessionTypes, ClockEndsTheShift, Running, ChargedTurns
  <2>3. RowInv'
    <3>1. PICK b \in ChargedTurns \union {0}, l \in ChargedTurns \union {0} : RowSince(b, l)
      BY DEF SessionInv, RowInv
    <3>2. ChargedTurns' = ChargedTurns
      BY <2>1 DEF ChargedTurns
    <3>3. RowSince(b, l)'
      BY <2>1, <3>1, <3>2 DEF RowSince
    <3>4. QED
      BY <2>1, <3>2, <3>3 DEF SessionInv, RowInv, Running
  <2>4. BudgetStopsInTime'
    BY <2>1 DEF SessionInv, BudgetStopsInTime, Exceeded, Running, ChargedTurns
  <2>5. QED
    BY <2>2, <2>3, <2>4 DEF SessionInv
<1>4. QED
  BY <1>1, <1>2, <1>3 DEF GymNext

LEMMA SessionAlways == GymSpec => []SessionInv
<1>1. GymInit => SessionInv
  BY InitIsFresh, FreshInv
<1>2. QED
  BY <1>1, SessionStep, PTL DEF GymSpec

(* In every episode of every environment the budget's seconds are the      *)
(* world's and its steps the turns that were charged for; nothing is used  *)
(* up while the session takes replies, and no limit but the seconds is     *)
(* ever passed.                                                            *)
THEOREM BudgetsHold == GymSpec => []BudgetStopsInTime
<1>1. SessionInv => BudgetStopsInTime
  BY DEF SessionInv
<1>2. QED
  BY <1>1, SessionAlways, PTL

(* A session is stopped as stuck for a row of STUCK_REPEATS identical      *)
(* refusals and only for that, whatever else came in between.              *)
THEOREM OnlyRowsAreStuck == GymSpec => []StuckIsARow
BY RowIsStuck, SessionAlways, PTL

(* Past its hours a session is still running only if it is a chunked one   *)
(* whose last answered call was refused.                                   *)
THEOREM TheClockIsHeard == GymSpec => []ClockEndsTheShift
<1>1. SessionInv => ClockEndsTheShift
  BY DEF SessionInv
<1>2. QED
  BY <1>1, SessionAlways, PTL

------------------------------------------------------------------------------
(* What a reply leaves for the interface to count.                         *)

Earns(status, action) == status = "accepted" /\ action \in HandOver

LEMMA ReplyRecords ==
  ASSUME SessionTypes, Reply
  PROVE  \E status \in Status, action \in Answerable \union {Nothing} :
           /\ Record(status, action) /\ tally'.red >= tally.red
           /\ tally'.earnings =
                tally.earnings + IF Earns(status, action) THEN 1 ELSE 0
<1>1. CASE Answers
  <2>1. PICK status \in Charged, action \in Answerable, seconds \in Nat,
             finished \in BOOLEAN, looks \in BOOLEAN :
          Answer(status, action, seconds, finished, looks)
    BY <1>1 DEF Answers
  <2>2. status \in Status
    BY DEF Charged, Refusal, Status
  <2>3. QED
    BY <2>1, <2>2 DEF Answer, Earns
<1>2. CASE Unreads
  <2>1. PICK status \in {"truncated_reply", "format_error"},
             limit \in {"truncated", "format"} :
          Unread(status, limit)
    BY <1>2 DEF Unreads
  <2>2. status \in Status /\ ~Earns(status, Nothing)
    BY DEF Status, Earns
  <2>3. tally.earnings \in Nat /\ tally.red \in Nat
    BY DEF SessionTypes, Count
  <2>4. tally'.earnings = tally.earnings + IF Earns(status, Nothing) THEN 1 ELSE 0
    <3>1. tally' = tally
      BY <2>1 DEF Unread
    <3>2. tally.earnings = tally.earnings + 0
      BY <2>3
    <3>3. QED
      BY <2>2, <3>1, <3>2
  <2>5. Record(status, Nothing) /\ tally'.red >= tally.red
    <3>1. Record(status, Nothing) /\ tally' = tally
      BY <2>1 DEF Unread
    <3>2. QED
      BY <2>3, <3>1
  <2>6. QED
    BY <2>2, <2>4, <2>5
<1>3. QED
  BY <1>1, <1>2, ReplyKinds

(* Counting the turns of one kind, before and after one more is recorded.  *)
Blocked == {i \in DOMAIN log : log[i].status = "way_blocked"}
Paying(h) == {i \in DOMAIN log : i <= h /\ Earns(log[i].status, log[i].action)}

LEMMA PayingIsEarned == \A h : EarnedBy(h) = Cardinality(Paying(h))
BY DEF EarnedBy, Paying, Earns

LEMMA BlockedAfter ==
  ASSUME SessionTypes, NEW status \in Status,
         NEW action \in Answerable \union {Nothing}, Record(status, action)
  PROVE  /\ Last(log').status = status
         /\ Cardinality(Blocked') = Cardinality(Blocked)
                                    + IF status = "way_blocked" THEN 1 ELSE 0
<1>1. /\ DOMAIN log = 1..Len(log) /\ Len(log) \in Nat
      /\ DOMAIN log' = 1..(Len(log) + 1) /\ Len(log') = Len(log) + 1
      /\ \A i \in 1..Len(log) : log'[i] = log[i]
      /\ log'[Len(log) + 1].status = status
  BY Recorded, ChargedInLog
<1>2. \A i : i \in 1..(Len(log) + 1) <=> i \in 1..Len(log) \/ i = Len(log) + 1
  BY <1>1
<1>3. Blocked \in SUBSET (1..Len(log))
  BY <1>1 DEF Blocked
<1>4. Cardinality(Blocked) \in Nat
      /\ Cardinality(Blocked \union {Len(log) + 1}) = Cardinality(Blocked) + 1
  BY <1>1, <1>3, OneMore
<1>5. status = "way_blocked" => Blocked' = Blocked \union {Len(log) + 1}
  BY <1>1, <1>2 DEF Blocked
<1>6. status # "way_blocked" => Blocked' = Blocked
  BY <1>1, <1>2 DEF Blocked
<1>7. Last(log').status = status
  BY <1>1 DEF Last
<1>8. Cardinality(Blocked) = Cardinality(Blocked) + 0
  BY <1>4
<1>9. QED
  BY <1>4, <1>5, <1>6, <1>7, <1>8

LEMMA EarnedAfter ==
  ASSUME SessionTypes, NEW status \in Status,
         NEW action \in Answerable \union {Nothing}, Record(status, action)
  PROVE  \A h \in Nat :
           EarnedBy(h)' = IF h <= Len(log) THEN EarnedBy(h)
                          ELSE EarnedBy(Len(log))
                               + IF Earns(status, action) THEN 1 ELSE 0
<1>1. /\ DOMAIN log = 1..Len(log) /\ Len(log) \in Nat
      /\ DOMAIN log' = 1..(Len(log) + 1)
      /\ \A i \in 1..Len(log) : log'[i] = log[i]
      /\ log'[Len(log) + 1].status = status /\ log'[Len(log) + 1].action = action
  BY Recorded, ChargedInLog
<1>2. \A i : i \in 1..(Len(log) + 1) <=> i \in 1..Len(log) \/ i = Len(log) + 1
  BY <1>1
<1>3. SUFFICES ASSUME NEW h \in Nat
               PROVE  EarnedBy(h)' = IF h <= Len(log) THEN EarnedBy(h)
                                     ELSE EarnedBy(Len(log))
                                          + IF Earns(status, action) THEN 1 ELSE 0
  OBVIOUS
<1> DEFINE paying == {i \in 1..(Len(log) + 1) :
                        i <= h /\ Earns(log'[i].status, log'[i].action)}
<1>4. EarnedBy(h)' = Cardinality(paying)
  BY <1>1 DEF EarnedBy, Earns
<1>5. CASE h <= Len(log)
  <2>1. paying = Paying(h)
    BY <1>1, <1>2, <1>5 DEF Paying
  <2>2. QED
    BY <1>4, <1>5, <2>1, PayingIsEarned
<1>6. CASE ~(h <= Len(log))
  <2>1. \A i \in 1..Len(log) : i <= h /\ i <= Len(log)
    BY <1>1, <1>6
  <2>2. Len(log) + 1 <= h
    BY <1>1, <1>6
  <2>3. Earns(status, action) => paying = Paying(Len(log)) \union {Len(log) + 1}
    BY <1>1, <1>2, <2>1, <2>2 DEF Paying
  <2>4. ~Earns(status, action) => paying = Paying(Len(log))
    BY <1>1, <1>2, <2>1, <2>2 DEF Paying
  <2>5. Paying(Len(log)) \in SUBSET (1..Len(log))
    BY <1>1 DEF Paying
  <2>6. /\ Cardinality(Paying(Len(log))) \in Nat
        /\ Cardinality(Paying(Len(log)) \union {Len(log) + 1})
             = Cardinality(Paying(Len(log))) + 1
    BY <1>1, <2>5, OneMore
  <2>7. Cardinality(Paying(Len(log))) = Cardinality(Paying(Len(log))) + 0
    BY <2>6
  <2>8. Cardinality(paying) = Cardinality(Paying(Len(log)))
                              + IF Earns(status, action) THEN 1 ELSE 0
    BY <2>3, <2>4, <2>6, <2>7
  <2>9. QED
    BY <1>4, <1>6, <2>8, PayingIsEarned
<1>7. QED
  BY <1>5, <1>6

------------------------------------------------------------------------------
(* The rewards.                                                            *)

PayInv == SessionInv /\ seen = tally /\ RewardsSumToTheShift

FreshPay == Fresh /\ seen = Zero /\ paid = Zero

LEMMA FreshPayInv == FreshPay => PayInv
<1>1. SUFFICES ASSUME FreshPay PROVE PayInv
  OBVIOUS
<1>2. SessionInv
  BY <1>1, FreshInv DEF FreshPay
<1>3. tally = Zero
  BY <1>1 DEF FreshPay, Fresh
<1>4. QED
  BY <1>1, <1>2, <1>3 DEF FreshPay, PayInv, RewardsSumToTheShift

LEMMA FreshPayInvNext == FreshPay' => PayInv'
BY FreshPayInv, PTL

(* No reply takes a red back, so the guard of the red charge never bites   *)
(* while the last counts seen are those of this shift.                     *)
LEMMA PayStep ==
  ASSUME Count \subseteq Cleared, PayInv, [GymNext]_vars
  PROVE  PayInv'
<1>1. SessionInv' /\ SessionInv /\ SessionTypes /\ SessionTypes'
  BY SessionStep DEF PayInv, SessionInv
<1>2. CASE Reset
  <2>1. Renewed /\ paid' = Zero
    BY <1>2 DEF Reset, Renewed
  <2>2. Fresh'
    BY <1>1, <2>1, RenewedIsFresh
  <2>3. seen' = Zero
    BY <1>2 DEF Reset, Zero
  <2>4. QED
    BY <2>1, <2>2, <2>3, FreshPayInvNext DEF FreshPay
<1>3. CASE Step
  <2>1. tally'.red >= tally.red
    BY <1>1, <1>3, ReplyRecords DEF Step
  <2>2. tally \in [Count -> Nat] /\ tally' \in [Count -> Nat]
    BY <1>1 DEF SessionTypes
  <2>3. \A c \in Count : Due(c) = tally'[c] - tally[c]
    <3>1. SUFFICES ASSUME NEW c \in Count PROVE Due(c) = tally'[c] - tally[c]
      OBVIOUS
    <3>2. c = "red" => ~(tally'[c] < tally[c])
      BY <2>1, <2>2, <3>1 DEF Count
    <3>3. QED
      BY <3>2 DEF Due, PayInv
  <2>4. \A c \in Count : paid[c] + Due(c) = tally'[c]
    BY <2>2, <2>3 DEF PayInv, RewardsSumToTheShift
  <2>5. paid' = tally'
    BY <1>3, <2>2, <2>4 DEF Step
  <2>6. seen' = tally'
    BY <1>3 DEF Step
  <2>7. QED
    BY <1>1, <2>5, <2>6 DEF PayInv, RewardsSumToTheShift
<1>4. CASE UNCHANGED vars
  BY <1>1, <1>4 DEF vars, session, gym, PayInv, RewardsSumToTheShift
<1>5. QED
  BY <1>2, <1>3, <1>4 DEF GymNext

(* Under a reset that puts back the last counts, as the stock one does,    *)
(* the rewards of every episode sum to what its shift earned, delivered    *)
(* and crossed at red, however often and at whatever moment the            *)
(* environment was reset before.                                           *)
THEOREM RewardsAreTheShifts ==
  ASSUME Count \subseteq Cleared
  PROVE  GymSpec => []RewardsSumToTheShift
<1>1. GymInit => PayInv
  <2>1. GymInit => FreshPay
    BY InitIsFresh DEF GymInit, FreshPay
  <2>2. QED
    BY <2>1, FreshPayInv
<1>2. PayInv /\ [GymNext]_vars => PayInv'
  BY PayStep
<1>3. PayInv => RewardsSumToTheShift
  BY DEF PayInv
<1>4. QED
  BY <1>1, <1>2, <1>3, PTL DEF GymSpec

------------------------------------------------------------------------------
(* The figures an episode reports.                                         *)

(* So far every horizon that has passed was photographed, and none that    *)
(* has not, until the end fills in what is open.                           *)
HorizonInv ==
  /\ SessionInv /\ turns = Len(log) /\ tally.earnings = EarnedBy(Len(log))
  /\ DOMAIN earningsAt \subseteq Horizon
  /\ \A h \in DOMAIN earningsAt : done \/ h <= turns
  /\ \A h \in Horizon : h <= turns => h \in DOMAIN earningsAt
  /\ FiguresAreThisShift

FreshHorizons ==
  Fresh /\ turns = 0 /\ done = FALSE /\ earningsAt = NoHorizon /\ blocked = 0

LEMMA FreshHorizonInv == FreshHorizons => HorizonInv
<1>1. SUFFICES ASSUME FreshHorizons PROVE HorizonInv
  OBVIOUS
<1>2. SessionInv
  BY <1>1, FreshInv DEF FreshHorizons
<1>3. DOMAIN log = {} /\ tally = Zero /\ Len(log) = 0 /\ turns = 0 /\ done = FALSE
  <2>1. log = <<>> /\ tally = Zero /\ turns = 0 /\ done = FALSE
    BY <1>1 DEF FreshHorizons, Fresh
  <2>2. Len(log) = 0
    BY <2>1
  <2>3. QED
    BY <1>2, <2>1, <2>2, ChargedInLog DEF SessionInv
<1>4. DOMAIN earningsAt = {}
  BY <1>1 DEF FreshHorizons, NoHorizon
<1>5. tally.earnings = EarnedBy(Len(log))
  <2>1. Paying(0) = {}
    BY <1>3 DEF Paying
  <2>2. EarnedBy(0) = 0
    BY <2>1, PayingIsEarned, FS_EmptySet
  <2>3. QED
    BY <1>3, <2>2 DEF Zero, Count
<1>6. \A h \in Horizon : ~(h <= 0)
  BY GymAssumption
<1>7. blocked = Cardinality({i \in DOMAIN log : log[i].status = "way_blocked"})
  <2>1. {i \in DOMAIN log : log[i].status = "way_blocked"} = {}
    BY <1>3
  <2>2. QED
    BY <1>1, <2>1, FS_EmptySet DEF FreshHorizons
<1>8. QED
  BY <1>2, <1>3, <1>4, <1>5, <1>6, <1>7 DEF HorizonInv, FiguresAreThisShift

LEMMA FreshHorizonInvNext == FreshHorizons' => HorizonInv'
BY FreshHorizonInv, PTL

LEMMA HorizonStep ==
  ASSUME {"blocked", "earnings_at"} \subseteq Cleared, HorizonInv, [GymNext]_vars
  PROVE  HorizonInv'
<1>1. SessionInv' /\ SessionInv /\ SessionTypes /\ SessionTypes'
  BY SessionStep DEF HorizonInv, SessionInv
<1>2. CASE Reset
  <2>1. Renewed /\ turns' = 0 /\ done' = FALSE
    BY <1>2 DEF Reset, Renewed
  <2>2. Fresh'
    BY <1>1, <2>1, RenewedIsFresh
  <2>3. earningsAt' = NoHorizon /\ blocked' = 0
    BY <1>2 DEF Reset
  <2>4. QED
    BY <2>1, <2>2, <2>3, FreshHorizonInvNext DEF FreshHorizons
<1>3. CASE Step
  <2>1. PICK status \in Status, action \in Answerable \union {Nothing} :
          /\ Record(status, action)
          /\ tally'.earnings = tally.earnings + IF Earns(status, action) THEN 1 ELSE 0
    BY <1>1, <1>3, ReplyRecords DEF Step
  <2>2. /\ Len(log') = Len(log) + 1 /\ Len(log) \in Nat
        /\ turns = Len(log) /\ turns' = turns + 1 /\ ~done
    BY <1>1, <1>3, <2>1, Recorded, ChargedInLog DEF Step, HorizonInv
  <2>3. \A h \in Nat : EarnedBy(h)' = IF h <= turns THEN EarnedBy(h) ELSE tally'.earnings
    BY <1>1, <2>1, <2>2, EarnedAfter DEF HorizonInv
  <2>4. Horizon \subseteq Nat
    BY GymAssumption
  <2>5. PICK open \in {Horizon \ DOMAIN earningsAt, {}} :
          /\ open = IF done' THEN Horizon \ DOMAIN earningsAt ELSE {}
          /\ earningsAt' = [h \in DOMAIN earningsAt \union
                                  (open \union (Horizon \intersect {turns'})) |->
                              IF h \in open \union (Horizon \intersect {turns'})
                              THEN tally'.earnings ELSE earningsAt[h]]
    BY <1>3 DEF Step, Photograph
  <2>6. PICK now \in SUBSET Horizon : now = open \union (Horizon \intersect {turns'})
    BY <2>5
  <2>7. /\ DOMAIN earningsAt' = DOMAIN earningsAt \union now
        /\ \A h \in DOMAIN earningsAt' :
             earningsAt'[h] = IF h \in now THEN tally'.earnings ELSE earningsAt[h]
    BY <2>5, <2>6
  <2>8. \A h \in now : ~(h <= turns) /\ (done' \/ h <= turns')
    <3>1. SUFFICES ASSUME NEW h \in now
                   PROVE  ~(h <= turns) /\ (done' \/ h <= turns')
      OBVIOUS
    <3>2. CASE h \in open
      BY <2>2, <2>4, <2>5, <3>2 DEF HorizonInv
    <3>3. CASE h = turns'
      BY <2>2, <3>3
    <3>4. QED
      BY <2>6, <3>2, <3>3
  <2>9. DOMAIN earningsAt' \subseteq Horizon
    BY <2>6, <2>7 DEF HorizonInv
  <2>10. \A h \in DOMAIN earningsAt' : done' \/ h <= turns'
    <3>1. SUFFICES ASSUME NEW h \in DOMAIN earningsAt, h \notin now
                   PROVE  h <= turns'
      BY <2>7, <2>8
    <3>2. h <= turns /\ h \in Nat
      BY <2>2, <2>4 DEF HorizonInv
    <3>3. QED
      BY <2>2, <3>2
  <2>11. \A h \in Horizon : h <= turns' => h \in DOMAIN earningsAt'
    <3>1. SUFFICES ASSUME NEW h \in Horizon, h <= turns'
                   PROVE  h \in DOMAIN earningsAt'
      OBVIOUS
    <3>2. h <= turns \/ h = turns'
      BY <2>2, <2>4, <3>1
    <3>3. QED
      BY <2>6, <2>7, <3>2 DEF HorizonInv
  <2>12. \A h \in DOMAIN earningsAt' : earningsAt'[h] = EarnedBy(h)'
    <3>1. SUFFICES ASSUME NEW h \in DOMAIN earningsAt'
                   PROVE  earningsAt'[h] = EarnedBy(h)'
      OBVIOUS
    <3>2. h \in Nat
      BY <2>4, <2>9
    <3>3. CASE h \in now
      BY <2>3, <2>7, <2>8, <3>2, <3>3
    <3>4. CASE h \notin now
      <4>1. h \in DOMAIN earningsAt /\ h <= turns
        BY <2>2, <2>7, <3>4 DEF HorizonInv
      <4>2. earningsAt[h] = EarnedBy(h)
        BY <4>1 DEF HorizonInv, FiguresAreThisShift
      <4>3. QED
        BY <2>3, <2>7, <3>2, <3>4, <4>1, <4>2
    <3>5. QED
      BY <3>3, <3>4
  <2>13. done' => DOMAIN earningsAt' = Horizon
    BY <2>5, <2>6, <2>7, <2>9
  <2>14. turns' = Len(log') /\ tally'.earnings = EarnedBy(Len(log))'
    <3>1. Len(log') \in Nat /\ ~(Len(log') <= turns) /\ turns' = Len(log')
      BY <2>2
    <3>2. PICK h \in Nat : h = Len(log')
      BY <3>1
    <3>3. EarnedBy(h)' = tally'.earnings
      BY <2>3, <3>1, <3>2
    <3>4. EarnedBy(Len(log))' = EarnedBy(h)'
      BY <3>2 DEF EarnedBy
    <3>5. QED
      BY <3>1, <3>3, <3>4
  <2>15. blocked' = Cardinality(Blocked')
    <3>1. blocked' = blocked + IF status = "way_blocked" THEN 1 ELSE 0
      BY <1>1, <1>3, <2>1, BlockedAfter DEF Step
    <3>2. QED
      BY <1>1, <2>1, <3>1, BlockedAfter DEF HorizonInv, FiguresAreThisShift, Blocked
  <2>16. QED
    BY <1>1, <2>2, <2>9, <2>10, <2>11, <2>12, <2>13, <2>14, <2>15
       DEF Blocked, HorizonInv, FiguresAreThisShift
<1>4. CASE UNCHANGED vars
  BY <1>1, <1>4 DEF vars, session, gym, HorizonInv, FiguresAreThisShift, EarnedBy
<1>5. QED
  BY <1>2, <1>3, <1>4 DEF GymNext

(* Under a reset that forgets the photographs and the blocked streets, as  *)
(* the stock one does, a photograph of a horizon is always what this shift *)
(* had earned by that turn, or in all if it ended before, an episode that  *)
(* is over has one of every horizon, and the blocked streets counted are   *)
(* its own.                                                                *)
THEOREM FiguresAreTheShifts ==
  ASSUME {"blocked", "earnings_at"} \subseteq Cleared
  PROVE  GymSpec => []FiguresAreThisShift
<1>1. GymInit => HorizonInv
  <2>1. GymInit => FreshHorizons
    BY InitIsFresh DEF GymInit, FreshHorizons
  <2>2. QED
    BY <2>1, FreshHorizonInv
<1>2. HorizonInv /\ [GymNext]_vars => HorizonInv'
  BY HorizonStep
<1>3. HorizonInv => FiguresAreThisShift
  BY DEF HorizonInv
<1>4. QED
  BY <1>1, <1>2, <1>3, PTL DEF GymSpec
==============================================================================
