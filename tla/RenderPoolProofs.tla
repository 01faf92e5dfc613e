--------------------------- MODULE RenderPoolProofs --------------------------
(***************************************************************************)
(* Proofs about RenderPool for every fleet, every number of threads and    *)
(* every value of its bounds.                                              *)
(***************************************************************************)
EXTENDS RenderPool, FiniteSetTheorems, TLAPS

TypeInv == TypeOK /\ AtMember

LEMMA Labels ==
  /\ Saving \subseteq Label /\ Critical \subseteq Label /\ Seated \subseteq Label
  /\ {"idle", "pick", "sent", "lock1", "lock2", "count"} \subseteq Label
  /\ {"probe", "asked", "save_probe", "save_last", "pick1", "repick", "mark"}
       \subseteq Label
BY DEF Label, Saving, Critical, Probing, Seated

LEMMA FreshLocals ==
  /\ EmptyFrame \in Frame
  /\ \A S \in SUBSET Member : [EmptyFrame EXCEPT !.tried = S] \in Frame
  /\ \A S \in SUBSET Member : [EmptyFrame EXCEPT !.todo = S] \in Frame
<1>1. 0 \in 0..BACKOFFS
  BY PoolAssumption
<1>2. QED
  BY <1>1 DEF EmptyFrame, Frame

(* A thread that moves with well-typed locals leaves the others alone.     *)
LEMMA MoveTyped ==
  ASSUME TypeInv, NEW t \in Thread, NEW f \in Frame, NEW l \in Label,
         Locals(t, f), Goto(t, l), l \in AtInstance => f.at \in Member
  PROVE  /\ pc' \in [Thread -> Label] /\ frame' \in [Thread -> Frame]
         /\ AtMember'
BY DEF TypeInv, TypeOK, AtMember, Locals, Goto

(* So does one that moves and keeps its locals.                            *)
LEMMA GotoTyped ==
  ASSUME TypeInv, NEW t \in Thread, NEW l \in Label, UNCHANGED frame,
         Goto(t, l), l \in AtInstance => frame[t].at \in Member
  PROVE  /\ pc' \in [Thread -> Label] /\ frame' \in [Thread -> Frame]
         /\ AtMember'
BY DEF TypeInv, TypeOK, AtMember, Goto

LEMMA ReturnTyped ==
  ASSUME TypeInv, NEW t \in Thread, NEW how \in Outcome, Return(t, how)
  PROVE  /\ pc' \in [Thread -> Label] /\ frame' \in [Thread -> Frame]
         /\ AtMember' /\ outcome' \in [Thread -> Outcome]
<1>1. EmptyFrame \in Frame /\ "idle" \in Label /\ "idle" \notin AtInstance
  BY FreshLocals DEF Label, AtInstance, Seated
<1>2. outcome' \in [Thread -> Outcome]
  BY DEF TypeInv, TypeOK, Return
<1>3. QED
  BY <1>1, <1>2, MoveTyped DEF Return

LEMMA CallTyped ==
  ASSUME TypeInv, NEW t \in Thread, NEW f \in Frame,
         NEW l \in {"pick", "probe", "lock1"}, Call(t, l, f)
  PROVE  TypeInv'
<1>1. l \in Label /\ l \notin AtInstance
  BY Labels DEF AtInstance, Seated
<1>2. /\ pc' \in [Thread -> Label] /\ frame' \in [Thread -> Frame]
      /\ AtMember'
  BY <1>1, MoveTyped DEF Call
<1>3. /\ calls' \in [Thread -> 0..MaxCalls]
      /\ outcome' \in [Thread -> Outcome]
  BY PoolAssumption DEF Call, TypeInv, TypeOK, Outcome
<1>4. QED
  BY <1>2, <1>3 DEF Call, TypeInv, TypeOK, beliefs

LEMMA StrikeTyped ==
  ASSUME TypeInv, NEW m \in Member, Strike(m)
  PROVE  /\ strikes' \in [Member -> 0..MaxStrikes]
         /\ quarantined' \subseteq Member
BY PoolAssumption DEF TypeInv, TypeOK, Strike, Bump

LEMMA FailureTyped ==
  ASSUME TypeInv, NEW m \in Member,
         \/ \E answer \in Answer : Hears(m, answer)
         \/ failures' = [failures EXCEPT ![m] = Bump(@)]
  PROVE  failures' \in [Member -> 0..MaxStrikes]
BY PoolAssumption DEF TypeInv, TypeOK, Hears, Bump

LEMMA LandedTyped ==
  ASSUME TypeInv, NEW t \in Thread, Landed(t), frame[t].at \in Member
  PROVE  inFlight' \in [Member -> Int]
BY DEF TypeInv, TypeOK, Landed

------------------------------------------------------------------------------

LEMMA RenderTyped ==
  ASSUME TypeInv, NEW c \in Caller, RenderCall(c) \/ RenderStep(c)
  PROVE  TypeInv'
<1> DEFINE Moved == /\ pc' \in [Thread -> Label] /\ frame' \in [Thread -> Frame]
                    /\ AtMember'
<1>a. c \in Thread /\ frame[c] \in Frame /\ pc[c] \in Label
  BY DEF Thread, TypeInv, TypeOK
<1>b. {"pick", "probe", "idle"} \intersect AtInstance = {}
  BY DEF AtInstance, Seated
<1>c. pc[c] = "sent" => frame[c].at \in Member
  BY <1>a DEF TypeInv, AtMember, AtInstance
<1>1. CASE RenderCall(c)
  BY <1>1, <1>a, CallTyped, FreshLocals DEF RenderCall
<1>2. CASE RenderDispatch(c)
  <2>1. PICK m \in Member : /\ Locals(c, [frame[c] EXCEPT !.at = m])
                            /\ inFlight' = [inFlight EXCEPT ![m] = @ + 1]
    BY <1>2 DEF RenderDispatch, LeastLoaded, Idle
  <2>2. [frame[c] EXCEPT !.at = m] \in Frame /\ [frame[c] EXCEPT !.at = m].at = m
    BY <1>a DEF Frame
  <2>3. Moved
    BY <1>a, <1>2, <2>1, <2>2, MoveTyped, Labels DEF RenderDispatch
  <2>4. QED
    BY <1>2, <2>1, <2>3 DEF RenderDispatch, TypeInv, TypeOK, beliefs
<1>3. CASE RenderBackOff(c)
  <2>1. [frame[c] EXCEPT !.busy = {}, !.backoff = @ + 1] \in Frame
    <3>1. frame[c].backoff \in 0..BACKOFFS /\ frame[c].backoff < BACKOFFS
      BY <1>a, <1>3 DEF Frame, RenderBackOff
    <3>2. frame[c].backoff + 1 \in 0..BACKOFFS
      BY <3>1, PoolAssumption
    <3>3. QED
      BY <1>a, <3>2 DEF Frame
  <2>2. Goto(c, "pick")
    BY <1>a, <1>3 DEF RenderBackOff, Goto, TypeInv, TypeOK
  <2>3. Moved
    BY <1>a, <1>b, <1>3, <2>1, <2>2, MoveTyped, Labels DEF RenderBackOff
  <2>4. QED
    BY <1>3, <2>3 DEF RenderBackOff, TypeInv, TypeOK, beliefs
<1>4. CASE RenderGiveUp(c)
  BY <1>4, <1>a, ReturnTyped DEF RenderGiveUp, TypeInv, TypeOK, beliefs, Outcome
<1>5. CASE RenderReadmit(c)
  <2>1. [frame[c] EXCEPT !.todo = Member \ frame[c].tried, !.changed = FALSE] \in Frame
    BY <1>a DEF Frame
  <2>2. Moved
    BY <1>a, <1>b, <1>5, <2>1, MoveTyped, Labels DEF RenderReadmit
  <2>3. QED
    BY <1>5, <2>2 DEF RenderReadmit, TypeInv, TypeOK, beliefs
<1>6. CASE RenderSucceeds(c)
  <2>1. Moved /\ outcome' \in [Thread -> Outcome]
    BY <1>6, <1>a, ReturnTyped DEF RenderSucceeds, Outcome
  <2>2. inFlight' \in [Member -> Int] /\ strikes' \in [Member -> 0..MaxStrikes]
    BY <1>6, <1>a, <1>c, LandedTyped, PoolAssumption
       DEF RenderSucceeds, TypeInv, TypeOK
  <2>3. failures' \in [Member -> 0..MaxStrikes]
    BY <1>6, <1>c, FailureTyped DEF RenderSucceeds, Answer
  <2>4. QED
    BY <1>6, <2>1, <2>2, <2>3 DEF RenderSucceeds, TypeInv, TypeOK
<1>7. CASE RenderIsBusy(c)
  <2>1. [frame[c] EXCEPT !.busy = @ \union {frame[c].at}, !.at = NoMember] \in Frame
    BY <1>a, <1>c, <1>7 DEF Frame, RenderIsBusy
  <2>2. Moved
    BY <1>a, <1>b, <1>7, <2>1, MoveTyped, Labels DEF RenderIsBusy
  <2>3. inFlight' \in [Member -> Int]
    BY <1>7, <1>a, <1>c, LandedTyped DEF RenderIsBusy
  <2>4. failures' \in [Member -> 0..MaxStrikes]
    BY <1>7, <1>c, FailureTyped DEF RenderIsBusy, Answer
  <2>5. QED
    BY <1>7, <2>2, <2>3, <2>4 DEF RenderIsBusy, TypeInv, TypeOK
<1>8. CASE RenderStrikes(c)
  <2>1. frame[c].at \in Member /\ "save_strike" \in Label
    BY <1>8, <1>c, Labels DEF RenderStrikes, Saving
  <2>2. Moved
    BY <1>8, <1>a, <2>1, GotoTyped DEF RenderStrikes
  <2>3. /\ strikes' \in [Member -> 0..MaxStrikes]
        /\ quarantined' \subseteq Member
    BY <1>8, <2>1, StrikeTyped DEF RenderStrikes
  <2>4. failures' \in [Member -> 0..MaxStrikes]
    BY <1>8, <2>1, FailureTyped DEF RenderStrikes, Answer
  <2>5. QED
    BY <1>8, <2>2, <2>3, <2>4 DEF RenderStrikes, TypeInv, TypeOK
<1>9. CASE RenderRefused(c)
  <2>1. Moved /\ outcome' \in [Thread -> Outcome]
    BY <1>9, <1>a, ReturnTyped DEF RenderRefused, Outcome
  <2>2. inFlight' \in [Member -> Int]
    BY <1>9, <1>a, <1>c, LandedTyped DEF RenderRefused
  <2>3. failures' \in [Member -> 0..MaxStrikes]
    BY <1>9, <1>c, FailureTyped DEF RenderRefused
  <2>4. QED
    BY <1>9, <2>1, <2>2, <2>3 DEF RenderRefused, TypeInv, TypeOK
<1>10. QED
  BY <1>1, <1>2, <1>3, <1>4, <1>5, <1>6, <1>7, <1>8, <1>9 DEF RenderStep

LEMMA ProbeTyped ==
  ASSUME TypeInv, NEW t \in Thread, ProbeStep(t)
  PROVE  TypeInv'
<1> DEFINE Moved == /\ pc' \in [Thread -> Label] /\ frame' \in [Thread -> Frame]
                    /\ AtMember'
<1>a. frame[t] \in Frame
  BY DEF TypeInv, TypeOK
<1>b. {"probe", "save_last", "repick"} \intersect AtInstance = {}
  BY DEF AtInstance, Seated
<1>c. pc[t] = "asked" => frame[t].at \in Member
  BY <1>a DEF TypeInv, AtMember, AtInstance
<1>1. CASE ProbeSkip(t)
  <2>1. [frame[t] EXCEPT !.todo = @ \intersect quarantined] \in Frame
    BY <1>a DEF Frame
  <2>2. Goto(t, "probe")
    BY <1>1 DEF ProbeSkip, Goto, TypeInv, TypeOK
  <2>3. Moved
    BY <1>b, <1>1, <2>1, <2>2, MoveTyped, Labels DEF ProbeSkip
  <2>4. QED
    BY <1>1, <2>3 DEF ProbeSkip, TypeInv, TypeOK, beliefs
<1>2. CASE ProbeAsk(t)
  <2>1. PICK m \in frame[t].todo : Locals(t, [frame[t] EXCEPT !.at = m, !.todo = @ \ {m}])
    BY <1>2 DEF ProbeAsk
  <2>2. m \in Member /\ [frame[t] EXCEPT !.at = m, !.todo = @ \ {m}] \in Frame
    BY <1>a DEF Frame
  <2>3. Moved
    BY <1>a, <1>2, <2>1, <2>2, MoveTyped, Labels DEF ProbeAsk, Frame
  <2>4. QED
    BY <1>2, <2>3 DEF ProbeAsk, TypeInv, TypeOK, beliefs
<1>3. CASE ProbeAnswered(t)
  <2>1. [frame[t] EXCEPT !.at = NoMember, !.changed = TRUE] \in Frame
    BY <1>a DEF Frame
  <2>2. Moved
    BY <1>b, <1>3, <2>1, MoveTyped, Labels DEF ProbeAnswered
  <2>3. QED
    BY <1>3, <1>c, <2>2, PoolAssumption DEF ProbeAnswered, TypeInv, TypeOK
<1>4. CASE ProbeFailed(t)
  <2>1. failures' \in [Member -> 0..MaxStrikes]
    BY <1>4, <1>c, FailureTyped DEF ProbeFailed
  <2>2. QED
    BY <1>4, <1>c, <2>1, StrikeTyped, GotoTyped, Labels
       DEF ProbeFailed, TypeInv, TypeOK
<1>5. CASE ProbeEnd(t)
  <2>1. Moved /\ outcome' \in [Thread -> Outcome]
    <3>1. CASE Goto(t, "save_last") /\ UNCHANGED <<frame, outcome>>
      BY <1>b, <3>1, GotoTyped, Labels DEF TypeInv, TypeOK
    <3>2. CASE Goto(t, "repick") /\ UNCHANGED <<frame, outcome>>
      BY <1>b, <3>2, GotoTyped, Labels DEF TypeInv, TypeOK
    <3>3. CASE Return(t, "dead")
      BY <3>3, ReturnTyped DEF Outcome
    <3>4. QED
      BY <1>5, <3>1, <3>2, <3>3 DEF ProbeEnd
  <2>2. QED
    BY <1>5, <2>1 DEF ProbeEnd, TypeInv, TypeOK, beliefs
<1>6. QED
  BY <1>1, <1>2, <1>3, <1>4, <1>5 DEF ProbeStep

LEMMA SaveTyped ==
  ASSUME TypeInv, NEW t \in Thread, SaveStep(t)
  PROVE  TypeInv'
<1> DEFINE Moved == /\ pc' \in [Thread -> Label] /\ frame' \in [Thread -> Frame]
                    /\ AtMember' /\ outcome' \in [Thread -> Outcome]
<1>a. frame[t] \in Frame
  BY DEF TypeInv, TypeOK
<1>b. {"pick", "probe", "repick"} \intersect AtInstance = {}
  BY DEF AtInstance, Seated
<1>c. pc[t] \in {"save_strike", "save_exit"} => frame[t].at \in Member
  BY <1>a DEF TypeInv, AtMember, AtInstance, Seated
<1>d. {"ok", "oserror"} \subseteq Outcome
  BY DEF Outcome
<1>1. CASE SaveDone(t)
  <2>1. Moved /\ inFlight' \in [Member -> Int]
    <3>1. CASE pc[t] = "save_strike"
      <4>1. [frame[t] EXCEPT !.tried = @ \union {frame[t].at}, !.at = NoMember] \in Frame
        BY <1>a, <1>c, <3>1 DEF Frame
      <4>2. QED
        BY <1>1, <1>b, <1>c, <3>1, <4>1, MoveTyped, LandedTyped, Labels
           DEF SaveDone, TypeInv, TypeOK
    <3>2. CASE pc[t] = "save_probe"
      <4>1. [frame[t] EXCEPT !.at = NoMember] \in Frame
        BY <1>a DEF Frame
      <4>2. QED
        BY <1>1, <1>b, <3>2, <4>1, MoveTyped, Labels DEF SaveDone, TypeInv, TypeOK
    <3>3. CASE pc[t] = "save_last" /\ t \notin Checker
      BY <1>1, <1>b, <3>3, GotoTyped, Labels DEF SaveDone, TypeInv, TypeOK
    <3>4. CASE pc[t] = "save_last" /\ t \in Checker
      BY <1>1, <1>d, <3>4, ReturnTyped DEF SaveDone, TypeInv, TypeOK
    <3>5. CASE pc[t] = "save_exit"
      BY <1>1, <1>c, <3>5, GotoTyped, Labels DEF SaveDone, TypeInv, TypeOK, Seated
    <3>6. QED
      BY <1>1, <3>1, <3>2, <3>3, <3>4, <3>5 DEF SaveDone, Saving
  <2>2. stolen' \subseteq Thread
    BY <1>1 DEF SaveDone, TypeInv, TypeOK
  <2>3. QED
    BY <1>1, <2>1, <2>2 DEF SaveDone, TypeInv, TypeOK, beliefs
<1>2. CASE SaveRaises(t)
  <2>1. Moved /\ inFlight' \in [Member -> Int] /\ lock' \in Episode \union {NoThread}
    <3>1. CASE pc[t] = "save_strike"
      BY <1>2, <1>c, <1>d, <3>1, ReturnTyped, LandedTyped
         DEF SaveRaises, TypeInv, TypeOK
    <3>2. CASE pc[t] \in {"save_probe", "save_last"}
      BY <1>2, <1>d, <3>2, ReturnTyped DEF SaveRaises, TypeInv, TypeOK, Unlocked
    <3>3. CASE pc[t] = "save_exit"
      <4>1. "exit" \in Label
        BY Labels DEF Seated
      <4>2. outcome' \in [Thread -> Outcome]
        BY <1>2, <1>d, <3>3 DEF SaveRaises, TypeInv, TypeOK
      <4>3. QED
        BY <1>2, <1>c, <3>3, <4>1, <4>2, GotoTyped DEF SaveRaises, TypeInv, TypeOK
    <3>4. QED
      BY <1>2, <3>1, <3>2, <3>3 DEF SaveRaises, Saving
  <2>2. QED
    BY <1>2, <2>1 DEF SaveRaises, TypeInv, TypeOK, beliefs
<1>3. QED
  BY <1>1, <1>2 DEF SaveStep

LEMMA LeaseTyped ==
  ASSUME TypeInv, NEW e \in Episode,
         LeaseCall(e) \/ LeaseLock(e) \/ LeaseStep(e) \/ LeaseExit(e)
  PROVE  TypeInv'
<1> DEFINE Moved == /\ pc' \in [Thread -> Label] /\ frame' \in [Thread -> Frame]
                    /\ AtMember'
<1>a. e \in Thread /\ frame[e] \in Frame
  BY DEF Thread, TypeInv, TypeOK
<1>b. {"pick1", "probe", "lock1", "lock2", "count"} \intersect AtInstance = {}
  BY DEF AtInstance, Seated
<1>c. pc[e] \in {"mark"} \union Seated => frame[e].at \in Member
  BY <1>a DEF TypeInv, AtMember, AtInstance
<1>1. CASE LeaseCall(e)
  <2>1. PICK skip \in Skips : Call(e, "lock1", [EmptyFrame EXCEPT !.tried = skip])
    BY <1>1 DEF LeaseCall
  <2>2. [EmptyFrame EXCEPT !.tried = skip] \in Frame
    BY PoolAssumption, FreshLocals
  <2>3. QED
    BY <1>a, <2>1, <2>2, CallTyped
<1>2. CASE LeaseLock(e)
  <2>1. [frame[e] EXCEPT !.todo = Member \ frame[e].tried, !.changed = FALSE] \in Frame
    BY <1>a DEF Frame
  <2>2. CASE Goto(e, "pick1") /\ UNCHANGED frame
    BY <1>2, <1>a, <1>b, <2>2, GotoTyped, Labels
       DEF LeaseLock, TypeInv, TypeOK, beliefs
  <2>3. CASE ~(Goto(e, "pick1") /\ UNCHANGED frame)
    <3>1. Moved
      BY <1>2, <1>a, <1>b, <2>1, <2>3, MoveTyped, Labels DEF LeaseLock
    <3>2. QED
      BY <1>2, <3>1 DEF LeaseLock, TypeInv, TypeOK, beliefs
  <2>4. QED
    BY <2>2, <2>3
<1>3. CASE LeasePick(e)
  <2>1. CASE \E m \in Member : /\ Locals(e, [frame[e] EXCEPT !.at = m])
                              /\ Goto(e, "mark") /\ UNCHANGED lock
    <3>1. PICK m \in Member : /\ Locals(e, [frame[e] EXCEPT !.at = m])
                              /\ Goto(e, "mark") /\ UNCHANGED lock
      BY <2>1
    <3>2. [frame[e] EXCEPT !.at = m] \in Frame /\ [frame[e] EXCEPT !.at = m].at = m
      BY <1>a DEF Frame
    <3>3. Moved
      BY <1>a, <3>1, <3>2, MoveTyped, Labels
    <3>4. QED
      BY <1>3, <3>1, <3>3 DEF LeasePick, TypeInv, TypeOK, beliefs
  <2>2. CASE /\ Goto(e, IF pc[e] = "pick1" THEN "lock2" ELSE "count")
             /\ lock' = Unlocked(e) /\ UNCHANGED frame
    <3>1. Moved
      BY <1>a, <1>b, <2>2, GotoTyped, Labels
    <3>2. QED
      BY <1>3, <2>2, <3>1 DEF LeasePick, TypeInv, TypeOK, beliefs, Unlocked
  <2>3. QED
    BY <1>3, <2>1, <2>2 DEF LeasePick, Emptiest, WithSeat
<1>4. CASE LeaseMark(e)
  <2>1. Moved
    BY <1>4, <1>a, <1>c, GotoTyped, Labels DEF LeaseMark, Seated
  <2>2. QED
    BY <1>4, <1>c, <2>1 DEF LeaseMark, TypeInv, TypeOK, beliefs, Unlocked
<1>5. CASE LeaseCount(e)
  <2>1. Moved /\ outcome' \in [Thread -> Outcome]
    <3>1. CASE Return(e, "dead") \/ Return(e, "late")
      BY <1>a, <3>1, ReturnTyped DEF Outcome
    <3>2. CASE Goto(e, "lock1") /\ UNCHANGED <<frame, outcome>>
      BY <1>a, <1>b, <3>2, GotoTyped, Labels DEF TypeInv, TypeOK
    <3>3. QED
      BY <1>5, <3>1, <3>2 DEF LeaseCount
  <2>2. QED
    BY <1>5, <2>1 DEF LeaseCount, TypeInv, TypeOK, beliefs
<1>6. CASE LeaseEnd(e)
  <2>1. {"ok", "error"} \subseteq Outcome /\ {"exit", "save_exit"} \subseteq Label
    BY Labels DEF Outcome, Seated
  <2>2. frame[e].at \in Member
    BY <1>6, <1>c DEF LeaseEnd, Seated
  <2>3. Moved
    BY <1>6, <1>a, <2>1, <2>2, GotoTyped DEF LeaseEnd
  <2>4. outcome' \in [Thread -> Outcome]
    BY <1>6, <1>a, <2>1 DEF LeaseEnd, TypeInv, TypeOK
  <2>5. /\ strikes' \in [Member -> 0..MaxStrikes]
        /\ quarantined' \subseteq Member
    BY <1>6, <2>2, StrikeTyped DEF LeaseEnd, TypeInv, TypeOK
  <2>6. failures' \in [Member -> 0..MaxStrikes]
    BY <1>6, <2>2, FailureTyped DEF LeaseEnd, Answer
  <2>7. QED
    BY <1>6, <2>3, <2>4, <2>5, <2>6 DEF LeaseEnd, TypeInv, TypeOK
<1>7. CASE LeaseExit(e)
  <2>1. Moved /\ outcome' \in [Thread -> Outcome]
    BY <1>7, <1>a, ReturnTyped DEF LeaseExit, TypeInv, TypeOK
  <2>2. QED
    BY <1>7, <2>1 DEF LeaseExit, TypeInv, TypeOK, beliefs
<1>8. QED
  BY <1>1, <1>2, <1>3, <1>4, <1>5, <1>6, <1>7 DEF LeaseStep

LEMMA InitTyped == Init => TypeInv
<1>1. EmptyFrame \in Frame
  BY FreshLocals
<1>2. "idle" \in Label \ AtInstance /\ "none" \in Outcome
  BY Labels DEF AtInstance, Seated, Outcome
<1>3. QED
  BY <1>1, <1>2, PoolAssumption DEF Init, TypeInv, TypeOK, AtMember

LEMMA NextTyped == TypeInv /\ [Next]_vars => TypeInv'
<1>1. SUFFICES ASSUME TypeInv, [Next]_vars PROVE TypeInv'
  OBVIOUS
<1>2. CASE \E c \in Caller : RenderCall(c) \/ RenderStep(c)
  BY <1>1, <1>2, RenderTyped
<1>3. CASE \E t \in Thread : ProbeStep(t) \/ SaveStep(t)
  BY <1>1, <1>3, ProbeTyped, SaveTyped
<1>4. CASE \E e \in Episode :
             LeaseCall(e) \/ LeaseLock(e) \/ LeaseStep(e) \/ LeaseExit(e)
  BY <1>1, <1>4, LeaseTyped
<1>5. CASE \E h \in Checker : HealthCall(h)
  <2>1. PICK h \in Checker : HealthCall(h)
    BY <1>5
  <2>2. [EmptyFrame EXCEPT !.todo = Member] \in Frame
    BY FreshLocals
  <2>3. QED
    BY <1>1, <2>1, <2>2, CallTyped DEF HealthCall, Thread
<1>6. CASE Quiesced \/ UNCHANGED vars
  BY <1>1, <1>6 DEF Quiesced, vars, beliefs, TypeInv, TypeOK, AtMember
<1>7. QED
  BY <1>1, <1>2, <1>3, <1>4, <1>5, <1>6 DEF Next

(* Type correctness: every pool field and every thread's locals keep their *)
(* type, and a step about an instance always has one.                      *)
THEOREM TypeCorrect == Spec => [](TypeOK /\ AtMember)
<1>1. Spec => []TypeInv
  BY InitTyped, NextTyped, PTL DEF Spec
<1>2. QED
  BY <1>1, PTL DEF TypeInv

------------------------------------------------------------------------------
(* Seats.  SeatsRespected is not inductive: what keeps it is that a picked *)
(* seat stays free until it is marked (PickStillFree), which needs the     *)
(* lock to exclude (LockExcludes) and the lease sets to say who holds what *)
(* (LeaseLedger).                                                          *)

SeatInv == LockExcludes /\ LeaseLedger /\ PickStillFree /\ SeatsRespected
SafeInv == TypeInv /\ SeatInv

(* A step of one thread that neither takes nor gives back a seat, nor      *)
(* enters the lock, keeps the seats as they are.                           *)
LEMMA SeatsStay ==
  ASSUME SafeInv, NEW t \in Thread, NEW l \in Label, NEW f \in Frame,
         Goto(t, l), Locals(t, f), UNCHANGED leases,
         \/ lock' = lock /\ (t \in Episode /\ l \in Critical => pc[t] \in Critical)
         \/ lock' = Unlocked(t) /\ l \notin Critical,
         t \in Episode => /\ l # "mark" /\ (l \in Seated <=> pc[t] \in Seated)
                          /\ (l \in Seated => f.at = frame[t].at)
  PROVE  SeatInv'
<1>a. pc \in [Thread -> Label] /\ frame \in [Thread -> Frame] /\ Episode \subseteq Thread
  BY DEF SafeInv, TypeInv, TypeOK, Thread
<1>b. \A u \in Thread : u # t => pc'[u] = pc[u] /\ frame'[u] = frame[u]
  BY <1>a DEF Goto, Locals
<1>c. pc'[t] = l /\ frame'[t] = f
  BY <1>a DEF Goto, Locals
<1>1. LockExcludes'
  BY <1>a, <1>b, <1>c DEF SafeInv, SeatInv, LockExcludes, Unlocked
<1>2. LeaseLedger'
  <2>1. ASSUME NEW m \in Member, NEW e \in Episode
        PROVE  (pc'[e] \in Seated /\ frame'[e].at = m)
                 <=> (pc[e] \in Seated /\ frame[e].at = m)
    <3>1. CASE e = t
      BY <3>1, <1>c
    <3>2. CASE e # t
      BY <3>2, <1>a, <1>b
    <3>3. QED
      BY <3>1, <3>2
  <2>2. QED
    BY <2>1 DEF SafeInv, SeatInv, LeaseLedger
<1>3. PickStillFree'
  <2>1. ASSUME NEW e \in Episode, pc'[e] = "mark"
        PROVE  pc[e] = "mark" /\ frame'[e] = frame[e]
    <3>1. e # t
      BY <2>1, <1>c
    <3>2. QED
      BY <2>1, <3>1, <1>a, <1>b
  <2>2. QED
    BY <2>1 DEF SafeInv, SeatInv, PickStillFree
<1>4. SeatsRespected'
  BY DEF SafeInv, SeatInv, SeatsRespected
<1>5. QED
  BY <1>1, <1>2, <1>3, <1>4 DEF SeatInv

(* A thread that leaves a call it holds no seat in.                        *)
LEMMA ReturnSafe ==
  ASSUME SafeInv, NEW t \in Thread, NEW how, Return(t, how), UNCHANGED leases,
         lock' = lock \/ lock' = Unlocked(t), t \in Episode => pc[t] \notin Seated
  PROVE  SeatInv'
<1>1. "idle" \in Label /\ "idle" \notin Critical \union Seated
  BY Labels DEF Critical, Probing, Seated
<1>2. QED
  BY <1>1, FreshLocals, SeatsStay DEF Return

LEMMA CallSafe ==
  ASSUME SafeInv, NEW t \in Thread, NEW f \in Frame,
         NEW l \in {"pick", "probe", "lock1"}, Call(t, l, f),
         l = "probe" => t \notin Episode
  PROVE  SeatInv'
<1>1. l \in Label /\ l \notin Seated /\ "idle" \notin Seated /\ l # "mark"
  BY Labels DEF Seated
<1>2. l # "probe" => l \notin Critical
  BY DEF Critical, Probing
<1>3. QED
  BY <1>1, <1>2, SeatsStay DEF Call

LEMMA RenderSafe ==
  ASSUME SafeInv, NEW c \in Caller, RenderCall(c) \/ RenderStep(c),
         TypeInv'
  PROVE  SeatInv'
<1>a. c \in Thread /\ c \notin Episode
  BY PoolAssumption DEF Thread
<1>b. frame[c] \in Frame /\ pc[c] \in Label /\ frame'[c] \in Frame /\ pc'[c] \in Label
  BY <1>a DEF SafeInv, TypeInv, TypeOK
<1>1. CASE RenderCall(c)
  BY <1>1, <1>a, FreshLocals, CallSafe DEF RenderCall
<1>2. CASE RenderStep(c)
  <2>1. Goto(c, pc'[c]) /\ Locals(c, frame'[c]) /\ UNCHANGED <<leases, lock>>
    BY <1>2, <1>a
       DEF RenderStep, RenderDispatch, RenderBackOff, RenderGiveUp, RenderReadmit,
           RenderSucceeds, RenderIsBusy, RenderStrikes, RenderRefused, Return,
           Goto, Locals, SafeInv, TypeInv, TypeOK
  <2>2. QED
    BY <1>a, <1>b, <2>1, SeatsStay
<1>3. QED
  BY <1>1, <1>2

LEMMA ProbeSafe ==
  ASSUME SafeInv, NEW t \in Thread, ProbeStep(t), TypeInv'
  PROVE  SeatInv'
<1>a. frame[t] \in Frame /\ pc[t] \in Label /\ frame'[t] \in Frame /\ pc'[t] \in Label
  BY DEF SafeInv, TypeInv, TypeOK
<1>b. UNCHANGED <<leases, lock>>
  BY DEF ProbeStep, ProbeSkip, ProbeAsk, ProbeAnswered, ProbeFailed, ProbeEnd
<1>1. Goto(t, pc'[t]) /\ Locals(t, frame'[t])
  BY DEF ProbeStep, ProbeSkip, ProbeAsk, ProbeAnswered, ProbeFailed, ProbeEnd,
         Return, Goto, Locals, SafeInv, TypeInv, TypeOK
<1>2. pc[t] \in {"probe", "asked"}
  BY DEF ProbeStep, ProbeSkip, ProbeAsk, ProbeAnswered, ProbeFailed, ProbeEnd
<1>3. pc'[t] \in Probing \union {"repick", "idle"}
  BY DEF ProbeStep, ProbeSkip, ProbeAsk, ProbeAnswered, ProbeFailed, ProbeEnd,
         Return, Goto, SafeInv, TypeInv, TypeOK, Probing
<1>4. /\ pc[t] \in Critical \ Seated /\ pc'[t] \notin Seated
      /\ pc'[t] # "mark"
  BY <1>2, <1>3 DEF Critical, Probing, Seated
<1>5. QED
  BY <1>a, <1>b, <1>1, <1>4, SeatsStay

LEMMA SaveSafe ==
  ASSUME SafeInv, NEW t \in Thread, SaveStep(t), TypeInv'
  PROVE  SeatInv'
<1>a. frame[t] \in Frame /\ pc[t] \in Label /\ frame'[t] \in Frame /\ pc'[t] \in Label
  BY DEF SafeInv, TypeInv, TypeOK
<1>1. CASE SaveDone(t)
  <2>1. Goto(t, pc'[t]) /\ Locals(t, frame'[t]) /\ UNCHANGED <<leases, lock>>
    BY <1>1 DEF SaveDone, Return, Goto, Locals, SafeInv, TypeInv, TypeOK
  <2>2. \/ pc[t] = "save_strike" /\ pc'[t] = "pick"
        \/ pc[t] \in {"save_probe", "save_last"}
             /\ pc'[t] \in {"probe", "repick", "pick", "idle"}
        \/ pc[t] = "save_exit" /\ pc'[t] = "exit" /\ frame'[t] = frame[t]
    BY <1>1 DEF SaveDone, Return, Goto, SafeInv, TypeInv, TypeOK
  <2>3. /\ pc'[t] # "mark" /\ (pc'[t] \in Seated <=> pc[t] \in Seated)
        /\ pc'[t] \in Seated => frame'[t] = frame[t]
        /\ pc'[t] \in Critical => pc[t] \in Critical
    BY <2>2 DEF Critical, Probing, Seated
  <2>4. QED
    BY <1>a, <2>1, <2>3, SeatsStay
<1>2. CASE SaveRaises(t)
  <2>1. CASE pc[t] = "save_exit"
    <3>1. Goto(t, "exit") /\ Locals(t, frame[t]) /\ UNCHANGED <<leases, lock>>
      BY <1>2, <2>1 DEF SaveRaises, Locals, SafeInv, TypeInv, TypeOK
    <3>2. /\ pc[t] \in Seated /\ "exit" \in Seated /\ "exit" \notin Critical
          /\ "exit" \in Label
      BY <2>1, Labels DEF Seated, Critical, Probing
    <3>3. QED
      BY <1>a, <3>1, <3>2, SeatsStay
  <2>2. CASE pc[t] # "save_exit"
    <3>1. pc[t] \notin Seated
      BY <1>2, <2>2 DEF SaveRaises, Saving, Seated
    <3>2. QED
      BY <1>2, <2>2, <3>1, ReturnSafe DEF SaveRaises
  <2>3. QED
    BY <2>1, <2>2
<1>3. QED
  BY <1>1, <1>2 DEF SaveStep

LEMMA EpisodesFinite ==
  ASSUME TypeInv, NEW m \in Member
  PROVE  IsFiniteSet(leases[m]) /\ leases[m] \subseteq Episode
<1>1. IsFiniteSet(Episode)
  BY PoolAssumption, FS_Subset DEF Thread
<1>2. leases[m] \subseteq Episode
  BY DEF TypeInv, TypeOK
<1>3. QED
  BY <1>1, <1>2, FS_Subset

(* A seat that was picked under the lock is there to be taken.             *)
LEMMA MarkSafe ==
  ASSUME SafeInv, NEW e \in Episode, LeaseMark(e)
  PROVE  SeatInv'
<1> DEFINE m == frame[e].at
<1>a. /\ pc \in [Thread -> Label] /\ leases \in [Member -> SUBSET Episode]
      /\ Episode \subseteq Thread /\ e \in Thread
  BY DEF SafeInv, TypeInv, TypeOK, Thread
<1>b. pc[e] = "mark" /\ m \in Member
  BY <1>a DEF LeaseMark, SafeInv, TypeInv, AtMember, AtInstance
<1>c. /\ pc' = [pc EXCEPT ![e] = "held"] /\ UNCHANGED frame
      /\ leases' = [leases EXCEPT ![m] = @ \union {e}]
  BY DEF LeaseMark, Goto
<1>d. "mark" \in Critical /\ "mark" \notin Seated /\ "held" \in Seated \ Critical
  BY DEF Critical, Probing, Seated
<1>e. lock = e /\ \A u \in Episode : u # e => pc[u] \notin Critical /\ pc'[u] = pc[u]
  BY <1>a, <1>b, <1>c, <1>d DEF SafeInv, SeatInv, LockExcludes
<1>f. pc'[e] = "held"
  BY <1>a, <1>c
<1>1. LockExcludes'
  BY <1>d, <1>e, <1>f DEF LockExcludes
<1>2. LeaseLedger'
  <2>1. ASSUME NEW n \in Member
        PROVE  leases'[n] = {u \in Episode : pc'[u] \in Seated /\ frame'[u].at = n}
    <3>1. leases[n] = {u \in Episode : pc[u] \in Seated /\ frame[u].at = n}
      BY DEF SafeInv, SeatInv, LeaseLedger
    <3>2. CASE n = m
      BY <1>a, <1>b, <1>c, <1>d, <1>e, <1>f, <3>1, <3>2
    <3>3. CASE n # m
      BY <1>a, <1>b, <1>c, <1>d, <1>e, <1>f, <3>1, <3>3
    <3>4. QED
      BY <3>2, <3>3
  <2>2. QED
    BY <2>1 DEF LeaseLedger
<1>3. PickStillFree'
  BY <1>d, <1>e, <1>f DEF PickStillFree
<1>4. SeatsRespected'
  <2>1. Cardinality(leases[m]) < Seats[m]
    BY <1>b DEF SafeInv, SeatInv, PickStillFree
  <2>2. IsFiniteSet(leases[m]) /\ Seats[m] \in Nat
    BY <1>b, EpisodesFinite, PoolAssumption DEF SafeInv
  <2>3. Cardinality(leases[m]) \in Nat
    BY <2>2, FS_CardinalityType
  <2>4. Cardinality(leases[m] \union {e}) <= Cardinality(leases[m]) + 1
    <3>1. \/ Cardinality(leases[m] \union {e}) = Cardinality(leases[m])
          \/ Cardinality(leases[m] \union {e}) = Cardinality(leases[m]) + 1
      BY <2>2, FS_AddElement
    <3>2. QED
      BY <2>3, <3>1
  <2>5. Cardinality(leases[m] \union {e}) \in Nat
    BY <2>2, FS_AddElement, FS_CardinalityType
  <2>6. Cardinality(leases[m] \union {e}) <= Seats[m]
    BY <2>1, <2>2, <2>3, <2>4, <2>5
  <2>7. QED
    BY <1>a, <1>b, <1>c, <2>6 DEF SafeInv, SeatInv, SeatsRespected
<1>5. QED
  BY <1>1, <1>2, <1>3, <1>4 DEF SeatInv

LEMMA ExitSafe ==
  ASSUME SafeInv, NEW e \in Episode, LeaseExit(e)
  PROVE  SeatInv'
<1> DEFINE m == frame[e].at
<1>a. /\ pc \in [Thread -> Label] /\ leases \in [Member -> SUBSET Episode]
      /\ frame \in [Thread -> Frame] /\ Episode \subseteq Thread /\ e \in Thread
  BY DEF SafeInv, TypeInv, TypeOK, Thread
<1>b. pc[e] = "exit" /\ m \in Member
  BY <1>a DEF LeaseExit, SafeInv, TypeInv, AtMember, AtInstance, Seated
<1>c. /\ pc' = [pc EXCEPT ![e] = "idle"] /\ frame' = [frame EXCEPT ![e] = EmptyFrame]
      /\ leases' = [leases EXCEPT ![m] = @ \ {e}] /\ UNCHANGED lock
  BY DEF LeaseExit, Return, Goto, Locals
<1>d. "exit" \in Seated /\ "idle" \notin Seated \union Critical
  BY DEF Critical, Probing, Seated
<1>e. pc'[e] = "idle" /\ \A u \in Thread : u # e => pc'[u] = pc[u] /\ frame'[u] = frame[u]
  BY <1>a, <1>c
<1>1. LockExcludes'
  BY <1>a, <1>c, <1>d, <1>e DEF SafeInv, SeatInv, LockExcludes
<1>2. ASSUME NEW n \in Member PROVE Cardinality(leases'[n]) <= Cardinality(leases[n])
  <2>1. IsFiniteSet(leases[n]) /\ leases'[n] \subseteq leases[n]
    BY <1>a, <1>b, <1>c, EpisodesFinite DEF SafeInv
  <2>2. QED
    BY <2>1, FS_Subset
<1>3. LeaseLedger'
  <2>1. ASSUME NEW n \in Member
        PROVE  leases'[n] = {u \in Episode : pc'[u] \in Seated /\ frame'[u].at = n}
    <3>1. leases[n] = {u \in Episode : pc[u] \in Seated /\ frame[u].at = n}
      BY DEF SafeInv, SeatInv, LeaseLedger
    <3>2. CASE n = m
      BY <1>a, <1>b, <1>c, <1>d, <1>e, <3>1, <3>2
    <3>3. CASE n # m
      BY <1>a, <1>b, <1>c, <1>d, <1>e, <3>1, <3>3
    <3>4. QED
      BY <3>2, <3>3
  <2>2. QED
    BY <2>1 DEF LeaseLedger
<1>4. PickStillFree'
  <2>1. ASSUME NEW u \in Episode, pc'[u] = "mark"
        PROVE  Cardinality(leases'[frame'[u].at]) < Seats[frame'[u].at]
    <3>1. u # e /\ u \in Thread
      BY <1>a, <1>e, <2>1
    <3>2. pc[u] = "mark" /\ frame'[u] = frame[u]
      BY <1>e, <2>1, <3>1
    <3>3. frame[u].at \in Member
      BY <3>1, <3>2 DEF SafeInv, TypeInv, AtMember, AtInstance
    <3>4. Cardinality(leases[frame[u].at]) < Seats[frame[u].at]
      BY <3>2 DEF SafeInv, SeatInv, PickStillFree
    <3>5. /\ Cardinality(leases'[frame[u].at]) \in Nat
          /\ Cardinality(leases[frame[u].at]) \in Nat
      <4>1. IsFiniteSet(leases[frame[u].at])
        BY <3>3, EpisodesFinite DEF SafeInv
      <4>2. leases'[frame[u].at] \subseteq leases[frame[u].at]
        BY <1>a, <1>c, <3>3
      <4>3. QED
        BY <4>1, <4>2, FS_Subset, FS_CardinalityType
    <3>6. QED
      BY <1>2, <3>2, <3>3, <3>4, <3>5, PoolAssumption
  <2>2. QED
    BY <2>1 DEF PickStillFree
<1>5. SeatsRespected'
  <2>1. ASSUME NEW n \in Member PROVE Cardinality(leases'[n]) <= Seats[n]
    <3>1. Cardinality(leases[n]) <= Seats[n]
      BY DEF SafeInv, SeatInv, SeatsRespected
    <3>2. IsFiniteSet(leases[n]) /\ leases'[n] \subseteq leases[n]
      BY <1>a, <1>b, <1>c, EpisodesFinite DEF SafeInv
    <3>3. Cardinality(leases'[n]) \in Nat /\ Cardinality(leases[n]) \in Nat
      BY <3>2, FS_Subset, FS_CardinalityType
    <3>4. QED
      BY <1>2, <3>1, <3>3, PoolAssumption
  <2>2. QED
    BY <2>1 DEF SeatsRespected
<1>6. QED
  BY <1>1, <1>3, <1>4, <1>5 DEF SeatInv

LEMMA LeaseSafe ==
  ASSUME SafeInv, TypeInv', NEW e \in Episode,
         LeaseCall(e) \/ LeaseLock(e) \/ LeaseStep(e) \/ LeaseExit(e)
  PROVE  SeatInv'
<1>a. /\ e \in Thread /\ frame[e] \in Frame /\ pc[e] \in Label
      /\ frame'[e] \in Frame /\ pc'[e] \in Label /\ Episode \subseteq Thread
      /\ pc \in [Thread -> Label] /\ frame \in [Thread -> Frame]
  BY DEF Thread, SafeInv, TypeInv, TypeOK
<1>1. CASE LeaseCall(e)
  <2>1. PICK skip \in Skips : Call(e, "lock1", [EmptyFrame EXCEPT !.tried = skip])
    BY <1>1 DEF LeaseCall
  <2>2. [EmptyFrame EXCEPT !.tried = skip] \in Frame
    BY PoolAssumption, FreshLocals
  <2>3. QED
    BY <1>a, <2>1, <2>2, CallSafe
<1>2. CASE LeaseLock(e)
  <2>a. /\ pc[e] \notin Seated /\ pc'[e] \in {"pick1", "probe"} /\ UNCHANGED leases
        /\ \A u \in Thread : u # e => pc'[u] = pc[u] /\ frame'[u] = frame[u]
    BY <1>2, <1>a DEF LeaseLock, Goto, Locals, Seated
  <2>b. lock = NoThread /\ lock' = e
    BY <1>2 DEF LeaseLock
  <2>c. pc'[e] \notin Seated /\ pc'[e] # "mark"
    BY <2>a DEF Seated
  <2>1. LockExcludes'
    BY <1>a, <2>a, <2>b, PoolAssumption DEF SafeInv, SeatInv, LockExcludes
  <2>2. LeaseLedger'
    BY <1>a, <2>a, <2>c DEF SafeInv, SeatInv, LeaseLedger
  <2>3. PickStillFree'
    BY <1>a, <2>a, <2>c DEF SafeInv, SeatInv, PickStillFree
  <2>4. SeatsRespected'
    BY <2>a DEF SafeInv, SeatInv, SeatsRespected
  <2>5. QED
    BY <2>1, <2>2, <2>3, <2>4 DEF SeatInv
<1>3. CASE LeasePick(e)
  <2>a. pc[e] \in {"pick1", "repick"} /\ UNCHANGED leases
    BY <1>3 DEF LeasePick
  <2>b. pc[e] \in Critical \ Seated
    BY <2>a DEF Critical, Probing, Seated
  <2>1. CASE /\ Goto(e, IF pc[e] = "pick1" THEN "lock2" ELSE "count")
             /\ lock' = Unlocked(e) /\ UNCHANGED frame
    <3>1. {"lock2", "count"} \intersect (Critical \union Seated \union {"mark"}) = {}
      BY DEF Critical, Probing, Seated
    <3>2. Locals(e, frame[e]) /\ Goto(e, pc'[e]) /\ pc'[e] \in {"lock2", "count"}
      BY <1>a, <2>1 DEF Goto, Locals
    <3>3. QED
      BY <1>a, <2>a, <2>b, <2>1, <3>1, <3>2, SeatsStay
  <2>2. CASE ~(/\ Goto(e, IF pc[e] = "pick1" THEN "lock2" ELSE "count")
               /\ lock' = Unlocked(e) /\ UNCHANGED frame)
    <3>1. PICK m \in Emptiest(WithSeat(frame[e].tried)) :
            /\ Locals(e, [frame[e] EXCEPT !.at = m])
            /\ Goto(e, "mark") /\ UNCHANGED lock
      BY <1>3, <2>2 DEF LeasePick
    <3>2. m \in Member /\ Cardinality(leases[m]) < Seats[m]
      BY DEF Emptiest, WithSeat
    <3>3. /\ pc'[e] = "mark" /\ frame'[e].at = m
          /\ \A u \in Thread : u # e => pc'[u] = pc[u] /\ frame'[u] = frame[u]
      BY <1>a, <3>1 DEF Goto, Locals, Frame
    <3>4. "mark" \notin Seated
      BY DEF Seated
    <3>5. LockExcludes'
      BY <1>a, <2>b, <3>1, <3>3 DEF SafeInv, SeatInv, LockExcludes
    <3>6. LeaseLedger'
      BY <1>a, <2>a, <2>b, <3>3, <3>4 DEF SafeInv, SeatInv, LeaseLedger
    <3>7. PickStillFree'
      BY <1>a, <2>a, <3>2, <3>3 DEF SafeInv, SeatInv, PickStillFree
    <3>8. SeatsRespected'
      BY <2>a DEF SafeInv, SeatInv, SeatsRespected
    <3>9. QED
      BY <3>5, <3>6, <3>7, <3>8 DEF SeatInv
  <2>3. QED
    BY <2>1, <2>2
<1>4. CASE LeaseMark(e)
  BY <1>4, MarkSafe
<1>5. CASE LeaseCount(e)
  <2>1. pc[e] \notin Critical \union Seated /\ UNCHANGED <<leases, lock>>
    BY <1>5 DEF LeaseCount, Critical, Probing, Seated
  <2>2. CASE Goto(e, "lock1") /\ UNCHANGED <<frame, outcome>>
    <3>1. Locals(e, frame[e]) /\ "lock1" \notin Critical \union Seated /\ "lock1" \in Label
      BY <1>a, <2>2, Labels DEF Locals, Critical, Probing, Seated
    <3>2. QED
      BY <1>a, <2>1, <2>2, <3>1, SeatsStay
  <2>3. CASE ~(Goto(e, "lock1") /\ UNCHANGED <<frame, outcome>>)
    <3>1. PICK how : Return(e, how)
      BY <1>5, <2>3 DEF LeaseCount
    <3>2. QED
      BY <1>a, <2>1, <3>1, ReturnSafe
  <2>4. QED
    BY <2>2, <2>3
<1>6. CASE LeaseEnd(e)
  <2>1. /\ Goto(e, pc'[e]) /\ pc'[e] \in {"exit", "save_exit"} /\ pc[e] = "held"
        /\ Locals(e, frame[e]) /\ UNCHANGED <<leases, lock>>
    BY <1>6, <1>a DEF LeaseEnd, Goto, Locals
  <2>2. /\ pc[e] \in Seated /\ pc'[e] \in Seated \ Critical /\ pc'[e] # "mark"
    BY <2>1 DEF Seated, Critical, Probing
  <2>3. QED
    BY <1>a, <2>1, <2>2, SeatsStay
<1>7. CASE LeaseExit(e)
  BY <1>7, ExitSafe
<1>8. QED
  BY <1>1, <1>2, <1>3, <1>4, <1>5, <1>6, <1>7 DEF LeaseStep

LEMMA InitSafe == Init => SafeInv
<1>1. SUFFICES ASSUME Init PROVE SeatInv
  BY InitTyped DEF SafeInv
<1>2. "idle" \notin Critical \union Seated
  BY DEF Critical, Probing, Seated
<1>3. /\ \A u \in Episode : pc[u] = "idle"
      /\ \A m \in Member : leases[m] = {} /\ Cardinality(leases[m]) = 0
  BY <1>1, FS_EmptySet DEF Init, Thread
<1>4. SeatsRespected
  BY <1>3, PoolAssumption DEF SeatsRespected
<1>5. QED
  BY <1>2, <1>3, <1>4 DEF SeatInv, LockExcludes, LeaseLedger, PickStillFree

LEMMA NextSafe == SafeInv /\ [Next]_vars => SafeInv'
<1>1. SUFFICES ASSUME SafeInv, [Next]_vars PROVE SeatInv'
  BY NextTyped DEF SafeInv
<1>a. TypeInv'
  BY <1>1, NextTyped DEF SafeInv
<1>2. CASE \E c \in Caller : RenderCall(c) \/ RenderStep(c)
  BY <1>1, <1>a, <1>2, RenderSafe
<1>3. CASE \E t \in Thread : ProbeStep(t) \/ SaveStep(t)
  BY <1>1, <1>a, <1>3, ProbeSafe, SaveSafe
<1>4. CASE \E e \in Episode :
             LeaseCall(e) \/ LeaseLock(e) \/ LeaseStep(e) \/ LeaseExit(e)
  BY <1>1, <1>a, <1>4, LeaseSafe
<1>5. CASE \E h \in Checker : HealthCall(h)
  <2>1. PICK h \in Checker : HealthCall(h)
    BY <1>5
  <2>2. h \in Thread /\ h \notin Episode
    BY PoolAssumption DEF Thread
  <2>3. QED
    BY <1>1, <2>1, <2>2, FreshLocals, CallSafe DEF HealthCall
<1>6. CASE Quiesced \/ UNCHANGED vars
  BY <1>1, <1>6
     DEF Quiesced, vars, SafeInv, SeatInv, LockExcludes, LeaseLedger,
         PickStillFree, SeatsRespected
<1>7. QED
  BY <1>1, <1>2, <1>3, <1>4, <1>5, <1>6 DEF Next

LEMMA Safe == Spec => []SafeInv
BY InitSafe, NextSafe, PTL DEF Spec

(* Whatever the number of instances, seats, episodes and render threads,   *)
(* and whatever fails, no instance ever carries more episodes than it has  *)
(* seats.                                                                  *)
THEOREM SeatSafety == Spec => []SeatsRespected
BY Safe, PTL DEF SafeInv, SeatInv

(* A seat is taken exactly while an episode is between its mark and the    *)
(* end of its with-block: no exit path leaks one or gives one back early.  *)
THEOREM SeatsAccounted == Spec => []LeaseLedger
BY Safe, PTL DEF SafeInv, SeatInv

(* The lease lock and the with-block together implement the abstract       *)
(* lease: one seat per episode, free when taken.                           *)
THEOREM LeaseRefinement == Spec => ImplementsSeatLease
<1>1. Init => Abstract!Init
  BY DEF Init, Abstract!Init
<1>2. SafeInv /\ [Next]_vars => [Abstract!Next]_leases
  <2>1. SUFFICES ASSUME SafeInv, [Next]_vars, leases' # leases
                 PROVE  Abstract!Next
    OBVIOUS
  <2>2. PICK e \in Episode : LeaseMark(e) \/ LeaseExit(e)
    BY <2>1
       DEF Next, vars, beliefs, RenderCall, LeaseCall, HealthCall, Call,
           RenderStep, RenderDispatch, RenderBackOff, RenderGiveUp, RenderReadmit,
           RenderSucceeds, RenderIsBusy, RenderStrikes, RenderRefused,
           ProbeStep, ProbeSkip, ProbeAsk, ProbeAnswered, ProbeFailed, ProbeEnd,
           SaveStep, SaveDone, SaveRaises, LeaseLock, LeaseStep, LeasePick,
           LeaseCount, LeaseEnd, Quiesced
  <2>3. e \in Thread
    BY DEF Thread
  <2>4. CASE LeaseMark(e)
    <3>1. pc[e] = "mark" /\ frame[e].at \in Member
      BY <2>1, <2>3, <2>4 DEF LeaseMark, SafeInv, TypeInv, AtMember, AtInstance
    <3>2. e \notin Abstract!Holders
      BY <2>1, <3>1 DEF Abstract!Holders, SafeInv, SeatInv, LeaseLedger, Seated
    <3>3. Cardinality(leases[frame[e].at]) < Seats[frame[e].at]
      BY <2>1, <3>1 DEF SafeInv, SeatInv, PickStillFree
    <3>4. Abstract!Take(e, frame[e].at)
      <4>1. Abstract!Cardinality(leases[frame[e].at]) = Cardinality(leases[frame[e].at])
        BY DEF Abstract!Cardinality, Cardinality
      <4>2. QED
        BY <2>4, <3>2, <3>3, <4>1 DEF LeaseMark, Abstract!Take
    <3>5. QED
      BY <3>1, <3>4 DEF Abstract!Next
  <2>5. CASE LeaseExit(e)
    <3>1. pc[e] \in Seated /\ frame[e].at \in Member
      BY <2>1, <2>3, <2>5 DEF LeaseExit, SafeInv, TypeInv, AtMember, AtInstance, Seated
    <3>2. e \in leases[frame[e].at]
      BY <2>1, <3>1 DEF SafeInv, SeatInv, LeaseLedger
    <3>3. Abstract!Give(e, frame[e].at)
      BY <2>5, <3>2 DEF LeaseExit, Abstract!Give
    <3>4. QED
      BY <3>1, <3>3 DEF Abstract!Next
  <2>6. QED
    BY <2>2, <2>4, <2>5
<1>3. QED
  BY <1>1, <1>2, Safe, PTL DEF Spec, ImplementsSeatLease, Abstract!Spec

------------------------------------------------------------------------------
(* Strikes.                                                                *)

(* A strike for a failure keeps the two in step.                           *)
LEMMA StrikeIsEvidence ==
  ASSUME TypeInv, OnlyTheDeadAreStruck, NEW m \in Member, Strike(m),
         failures' = [failures EXCEPT ![m] = Bump(@)]
  PROVE  OnlyTheDeadAreStruck'
<1>1. /\ strikes[m] \in Nat /\ failures[m] \in Nat /\ MaxStrikes \in Nat
      /\ strikes[m] <= failures[m]
  BY PoolAssumption DEF TypeInv, TypeOK, OnlyTheDeadAreStruck
<1>2. Bump(strikes[m]) <= Bump(failures[m])
  BY <1>1 DEF Bump
<1>3. /\ strikes'[m] = Bump(strikes[m]) /\ failures'[m] = Bump(failures[m])
      /\ Bump(strikes[m]) \in Nat /\ Bump(failures[m]) \in Nat
      /\ Bump(failures[m]) >= failures[m]
  BY <1>1 DEF TypeInv, TypeOK, Strike, Bump
<1>4. /\ QUARANTINE_STRIKES \in Nat
      /\ m \in quarantined => failures[m] >= QUARANTINE_STRIKES
      /\ quarantined' = IF Bump(strikes[m]) >= QUARANTINE_STRIKES
                        THEN quarantined \union {m} ELSE quarantined
  BY PoolAssumption DEF Strike, OnlyTheDeadAreStruck
<1>5. /\ strikes'[m] <= failures'[m]
      /\ m \in quarantined' => failures'[m] >= QUARANTINE_STRIKES
      /\ m \notin quarantined' => strikes'[m] < QUARANTINE_STRIKES
  BY <1>1, <1>2, <1>3, <1>4
<1>6. ASSUME NEW n \in Member \ {m}
      PROVE  /\ strikes'[n] <= failures'[n]
             /\ n \in quarantined' => failures'[n] >= QUARANTINE_STRIKES
             /\ n \notin quarantined' => strikes'[n] < QUARANTINE_STRIKES
  <2>1. strikes'[n] = strikes[n] /\ failures'[n] = failures[n]
    BY DEF TypeInv, TypeOK, Strike
  <2>2. n \in quarantined' <=> n \in quarantined
    BY <1>4
  <2>3. QED
    BY <2>1, <2>2 DEF OnlyTheDeadAreStruck
<1>7. QED
  BY <1>5, <1>6 DEF OnlyTheDeadAreStruck

(* A failure that costs no strike leaves only more evidence.               *)
LEMMA FailureIsEvidence ==
  ASSUME TypeInv, OnlyTheDeadAreStruck, NEW m \in Member,
         UNCHANGED <<strikes, quarantined>>, NEW answer \in Answer, Hears(m, answer)
  PROVE  OnlyTheDeadAreStruck'
<1>1. \A n \in Member : /\ failures[n] \in Nat /\ failures'[n] \in Nat
                        /\ failures'[n] >= failures[n] /\ strikes[n] \in Nat
  BY PoolAssumption DEF TypeInv, TypeOK, Hears, Bump
<1>2. QED
  BY <1>1, PoolAssumption DEF OnlyTheDeadAreStruck

(* A success forgives the strikes, an answered probe the quarantine too.   *)
LEMMA ForgivenessIsNoEvidence ==
  ASSUME TypeInv, OnlyTheDeadAreStruck, NEW m \in Member,
         strikes' = [strikes EXCEPT ![m] = 0],
         \/ UNCHANGED <<quarantined, failures>>
         \/ /\ quarantined' = quarantined \ {m}
            /\ failures' = [failures EXCEPT ![m] = 0]
  PROVE  OnlyTheDeadAreStruck'
<1>1. /\ strikes'[m] = 0 /\ failures'[m] \in Nat /\ QUARANTINE_STRIKES \in Nat \ {0}
      /\ m \in quarantined' => failures'[m] >= QUARANTINE_STRIKES
  BY PoolAssumption DEF TypeInv, TypeOK, OnlyTheDeadAreStruck
<1>2. ASSUME NEW n \in Member \ {m}
      PROVE  /\ strikes'[n] <= failures'[n]
             /\ n \in quarantined' => failures'[n] >= QUARANTINE_STRIKES
             /\ n \notin quarantined' => strikes'[n] < QUARANTINE_STRIKES
  <2>1. strikes'[n] = strikes[n] /\ failures'[n] = failures[n]
    BY DEF TypeInv, TypeOK
  <2>2. n \in quarantined' <=> n \in quarantined
    OBVIOUS
  <2>3. QED
    BY <2>1, <2>2 DEF OnlyTheDeadAreStruck
<1>3. 0 <= failures'[m] /\ 0 < QUARANTINE_STRIKES
  BY <1>1
<1>4. QED
  BY <1>1, <1>2, <1>3 DEF OnlyTheDeadAreStruck

(* Strikes answer failures heard on the wire one for one, and a quarantine *)
(* a row of QUARANTINE_STRIKES of them: busy answers and refused batches   *)
(* cost nothing, in whatever order the threads hear them.                  *)
THEOREM StrikesAreEvidence == Spec => []OnlyTheDeadAreStruck
<1>1. Init => OnlyTheDeadAreStruck
  BY PoolAssumption DEF Init, OnlyTheDeadAreStruck
<1>2. TypeInv /\ OnlyTheDeadAreStruck /\ [Next]_vars => OnlyTheDeadAreStruck'
  <2>1. SUFFICES ASSUME TypeInv, OnlyTheDeadAreStruck, [Next]_vars
                 PROVE  OnlyTheDeadAreStruck'
    OBVIOUS
  <2>2. CASE UNCHANGED beliefs
    BY <2>1, <2>2 DEF beliefs, OnlyTheDeadAreStruck
  <2>3. ASSUME NEW t \in Thread,
               RenderSucceeds(t) \/ RenderIsBusy(t) \/ RenderStrikes(t)
                 \/ RenderRefused(t) \/ ProbeAnswered(t) \/ ProbeFailed(t) \/ LeaseEnd(t)
        PROVE  OnlyTheDeadAreStruck'
    <3> DEFINE m == frame[t].at
    <3>1. m \in Member
      BY <2>1, <2>3
         DEF RenderSucceeds, RenderIsBusy, RenderStrikes, RenderRefused,
             ProbeAnswered, ProbeFailed, LeaseEnd, TypeInv, AtMember, AtInstance,
             Seated
    <3>2. CASE RenderSucceeds(t)
      <4>1. UNCHANGED <<quarantined, failures>>
        BY <3>2 DEF RenderSucceeds, Hears, Gone
      <4>2. QED
        BY <2>1, <3>1, <3>2, <4>1, ForgivenessIsNoEvidence DEF RenderSucceeds
    <3>3. CASE ProbeAnswered(t)
      BY <2>1, <3>1, <3>3, ForgivenessIsNoEvidence DEF ProbeAnswered
    <3>4. CASE /\ UNCHANGED <<strikes, quarantined>>
               /\ \E answer \in Answer : Hears(m, answer)
      BY <2>1, <3>1, <3>4, FailureIsEvidence
    <3>5. CASE Strike(m) /\ failures' = [failures EXCEPT ![m] = Bump(@)]
      BY <2>1, <3>1, <3>5, StrikeIsEvidence
    <3>6. CASE RenderIsBusy(t) \/ RenderRefused(t)
      BY <3>4, <3>6 DEF RenderIsBusy, RenderRefused, Answer
    <3>7. CASE RenderStrikes(t) \/ ProbeFailed(t)
      BY <3>5, <3>7 DEF RenderStrikes, ProbeFailed, Hears, Gone
    <3>8. CASE LeaseEnd(t)
      BY <3>4, <3>5, <3>8 DEF LeaseEnd, Hears, Gone, Answer
    <3>9. QED
      BY <2>3, <3>2, <3>3, <3>6, <3>7, <3>8
  <2>4. \/ UNCHANGED beliefs
        \/ \E t \in Thread : RenderSucceeds(t) \/ RenderIsBusy(t) \/ RenderStrikes(t)
                             \/ RenderRefused(t) \/ ProbeAnswered(t)
                             \/ ProbeFailed(t) \/ LeaseEnd(t)
    BY <2>1
       DEF Next, vars, beliefs, Thread, RenderCall, LeaseCall, HealthCall, Call,
           RenderStep, RenderDispatch, RenderBackOff, RenderGiveUp, RenderReadmit,
           ProbeStep, ProbeSkip, ProbeAsk, ProbeEnd,
           SaveStep, SaveDone, SaveRaises, LeaseLock, LeaseStep, LeasePick,
           LeaseMark, LeaseCount, LeaseExit, Quiesced
  <2>5. QED
    BY <2>2, <2>3, <2>4
<1>3. Spec => []TypeInv
  BY InitTyped, NextTyped, PTL DEF Spec
<1>4. QED
  BY <1>1, <1>2, <1>3, PTL DEF Spec

------------------------------------------------------------------------------
(* Batches in flight.  The ledger is inductive on the types alone: every   *)
(* way off the wire lands the batch.                                       *)

Wire == {"sent", "save_strike"}
OnWire(m) == {c \in Caller : pc[c] \in Wire /\ frame[c].at = m}

(* A step moves the thread it is of.                                       *)
OnlyMoves(t) ==
  \A u \in Thread \ {t} : pc'[u] = pc[u] /\ frame'[u] = frame[u]

LEMMA WireFinite ==
  ASSUME NEW m
  PROVE  IsFiniteSet(OnWire(m)) /\ Cardinality(OnWire(m)) \in Nat
<1>1. OnWire(m) \subseteq Thread /\ IsFiniteSet(Thread)
  BY PoolAssumption DEF OnWire, Thread
<1>2. IsFiniteSet(OnWire(m))
  BY <1>1, FS_Subset
<1>3. QED
  BY <1>2, FS_CardinalityType

LEMMA LedgerByWire == InFlightLedger <=> \A m \in Member : inFlight[m] = Cardinality(OnWire(m))
BY DEF InFlightLedger, OnWire, Wire

LEMMA WireStays ==
  ASSUME InFlightLedger, NEW t \in Thread, OnlyMoves(t), inFlight' = inFlight,
         t \in Caller => /\ pc'[t] \in Wire <=> pc[t] \in Wire
                         /\ pc'[t] \in Wire => frame'[t] = frame[t]
  PROVE  InFlightLedger'
<1>1. Caller \subseteq Thread
  BY DEF Thread
<1>2. \A m \in Member : OnWire(m)' = OnWire(m)
  BY <1>1 DEF OnWire, OnlyMoves
<1>3. QED
  BY <1>2, LedgerByWire DEF InFlightLedger, OnWire, Wire

LEMMA WireGrows ==
  ASSUME TypeInv, InFlightLedger, NEW c \in Caller, NEW m \in Member, OnlyMoves(c),
         inFlight' = [inFlight EXCEPT ![m] = @ + 1],
         pc[c] \notin Wire, pc'[c] \in Wire, frame'[c].at = m
  PROVE  InFlightLedger'
<1>1. Caller \subseteq Thread /\ inFlight \in [Member -> Int]
  BY DEF Thread, TypeInv, TypeOK
<1>2. OnWire(m)' = OnWire(m) \union {c} /\ c \notin OnWire(m)
  BY <1>1 DEF OnWire, OnlyMoves
<1>3. \A n \in Member \ {m} : OnWire(n)' = OnWire(n)
  BY <1>1 DEF OnWire, OnlyMoves
<1>4. Cardinality(OnWire(m)') = Cardinality(OnWire(m)) + 1
  BY <1>2, WireFinite, FS_AddElement
<1>5. \A n \in Member : inFlight[n] = Cardinality(OnWire(n))
  BY LedgerByWire
<1>6. \A n \in Member : inFlight'[n] = Cardinality(OnWire(n)')
  BY <1>1, <1>3, <1>4, <1>5
<1>7. QED
  BY <1>6 DEF InFlightLedger, OnWire, Wire

LEMMA WireShrinks ==
  ASSUME TypeInv, InFlightLedger, NEW c \in Caller, OnlyMoves(c), Landed(c),
         pc[c] \in Wire, pc'[c] \notin Wire
  PROVE  InFlightLedger'
<1>1. Caller \subseteq Thread /\ inFlight \in [Member -> Int]
  BY DEF Thread, TypeInv, TypeOK
<1>m. PICK m \in Member : m = frame[c].at
  BY <1>1 DEF TypeInv, AtMember, AtInstance, Wire
<1>2. OnWire(m)' = OnWire(m) \ {c} /\ c \in OnWire(m)
  BY <1>1, <1>m DEF OnWire, OnlyMoves
<1>3. \A n \in Member \ {m} : OnWire(n)' = OnWire(n)
  BY <1>1, <1>m DEF OnWire, OnlyMoves
<1>4. Cardinality(OnWire(m)') = Cardinality(OnWire(m)) - 1
  BY <1>2, WireFinite, FS_RemoveElement
<1>5. \A n \in Member : inFlight[n] = Cardinality(OnWire(n))
  BY LedgerByWire
<1>6. \A n \in Member : inFlight'[n] = Cardinality(OnWire(n)')
  <2>1. inFlight' = [inFlight EXCEPT ![m] = @ - 1]
    BY <1>m DEF Landed
  <2>2. QED
    BY <1>1, <1>3, <1>4, <1>5, <2>1
<1>7. QED
  BY <1>6 DEF InFlightLedger, OnWire, Wire

LEMMA RenderLedger ==
  ASSUME TypeInv, InFlightLedger, NEW c \in Caller, RenderCall(c) \/ RenderStep(c)
  PROVE  InFlightLedger'
<1>1. c \in Thread /\ pc \in [Thread -> Label] /\ frame \in [Thread -> Frame]
  BY DEF Thread, TypeInv, TypeOK
<1>2. OnlyMoves(c)
  BY <1>1
     DEF OnlyMoves, RenderCall, Call, RenderStep, RenderDispatch, RenderBackOff,
         RenderGiveUp, RenderReadmit, RenderSucceeds, RenderIsBusy, RenderStrikes,
         RenderRefused, Return, Goto, Locals
<1>3. CASE RenderDispatch(c)
  <2>1. PICK m \in Member : /\ Locals(c, [frame[c] EXCEPT !.at = m])
                            /\ inFlight' = [inFlight EXCEPT ![m] = @ + 1]
    BY <1>3 DEF RenderDispatch, LeastLoaded, Idle
  <2>2. [frame[c] EXCEPT !.at = m].at = m
    BY <1>1 DEF Frame
  <2>3. pc[c] \notin Wire /\ pc'[c] \in Wire /\ frame'[c].at = m
    BY <1>1, <1>3, <2>1, <2>2 DEF RenderDispatch, Goto, Locals, Wire
  <2>4. QED
    BY <1>2, <2>1, <2>3, WireGrows
<1>4. CASE RenderSucceeds(c) \/ RenderIsBusy(c) \/ RenderRefused(c)
  <2>1. Landed(c) /\ pc[c] \in Wire /\ pc'[c] \notin Wire
    BY <1>1, <1>4 DEF RenderSucceeds, RenderIsBusy, RenderRefused, Return, Goto, Wire
  <2>2. QED
    BY <1>2, <2>1, WireShrinks
<1>5. CASE \/ RenderCall(c) \/ RenderBackOff(c) \/ RenderGiveUp(c) \/ RenderReadmit(c)
           \/ RenderStrikes(c)
  <2>1. /\ inFlight' = inFlight /\ (pc'[c] \in Wire <=> pc[c] \in Wire)
        /\ pc'[c] \in Wire => frame'[c] = frame[c]
    BY <1>1, <1>5
       DEF RenderCall, Call, RenderBackOff, RenderGiveUp, RenderReadmit, RenderStrikes,
           Return, Goto, Wire
  <2>2. QED
    BY <1>1, <1>2, <2>1, WireStays
<1>6. QED
  BY <1>3, <1>4, <1>5 DEF RenderStep

(* render's finally runs after the save, whether it succeeds or not.       *)
LEMMA SaveLedger ==
  ASSUME TypeInv, InFlightLedger, NEW t \in Thread, SaveStep(t),
         pc[t] = "save_strike" => t \in Caller
  PROVE  InFlightLedger'
<1>1. pc \in [Thread -> Label] /\ frame \in [Thread -> Frame]
  BY DEF TypeInv, TypeOK
<1>2. OnlyMoves(t)
  BY <1>1 DEF OnlyMoves, SaveStep, SaveDone, SaveRaises, Return, Goto, Locals
<1>3. CASE pc[t] = "save_strike"
  <2>1. Landed(t) /\ pc[t] \in Wire /\ pc'[t] \notin Wire
    BY <1>1, <1>3 DEF SaveStep, SaveDone, SaveRaises, Return, Goto, Wire
  <2>2. QED
    BY <1>2, <1>3, <2>1, WireShrinks
<1>4. CASE pc[t] # "save_strike"
  <2>1. inFlight' = inFlight /\ pc[t] \notin Wire /\ pc'[t] \notin Wire
    BY <1>1, <1>4 DEF SaveStep, SaveDone, SaveRaises, Saving, Return, Goto, Wire
  <2>2. QED
    BY <1>2, <2>1, WireStays
<1>5. QED
  BY <1>3, <1>4

(* Only render saves a strike with a batch still in flight.                *)
StrikesAreRenders == \A t \in Thread : pc[t] = "save_strike" => t \in Caller

(* in_flight is the number of batches on the wire, whichever way each of   *)
(* them ends: an answer, busy, a refusal, a strike, a failed save.         *)
THEOREM InFlightIsOnTheWire == Spec => []InFlightLedger
<1>1. Init => StrikesAreRenders /\ InFlightLedger
  <2>1. SUFFICES ASSUME Init PROVE StrikesAreRenders /\ InFlightLedger
    OBVIOUS
  <2>2. \A m \in Member : OnWire(m) = {} /\ inFlight[m] = 0
    BY <2>1 DEF Init, OnWire, Wire, Thread
  <2>3. QED
    BY <2>1, <2>2, FS_EmptySet, LedgerByWire DEF Init, StrikesAreRenders
<1>2. TypeInv /\ StrikesAreRenders /\ [Next]_vars => StrikesAreRenders'
  <2>1. SUFFICES ASSUME TypeInv, StrikesAreRenders, [Next]_vars
                 PROVE  StrikesAreRenders'
    OBVIOUS
  <2>2. pc \in [Thread -> Label] /\ Caller \union Episode \union Checker = Thread
    BY <2>1 DEF TypeInv, TypeOK, Thread
  <2>3. ASSUME NEW c \in Caller, RenderCall(c) \/ RenderStep(c)
        PROVE  \A t \in Thread \ {c} : pc'[t] = pc[t]
    BY <2>2, <2>3
       DEF RenderCall, Call, RenderStep, RenderDispatch, RenderBackOff, RenderGiveUp,
           RenderReadmit, RenderSucceeds, RenderIsBusy, RenderStrikes, RenderRefused,
           Return, Goto
  <2>4. ASSUME NEW t \in Thread, ProbeStep(t) \/ SaveStep(t)
        PROVE  pc'[t] # "save_strike" /\ \A u \in Thread \ {t} : pc'[u] = pc[u]
    BY <2>2, <2>4
       DEF ProbeStep, ProbeSkip, ProbeAsk, ProbeAnswered, ProbeFailed, ProbeEnd,
           SaveStep, SaveDone, SaveRaises, Return, Goto
  <2>5. ASSUME NEW e \in Episode, LeaseCall(e) \/ LeaseLock(e) \/ LeaseStep(e) \/ LeaseExit(e)
        PROVE  pc'[e] # "save_strike" /\ \A u \in Thread \ {e} : pc'[u] = pc[u]
    BY <2>2, <2>5
       DEF LeaseCall, Call, LeaseLock, LeaseStep, LeasePick, LeaseMark, LeaseCount,
           LeaseEnd, LeaseExit, Return, Goto
  <2>6. ASSUME NEW h \in Checker, HealthCall(h)
        PROVE  pc'[h] # "save_strike" /\ \A u \in Thread \ {h} : pc'[u] = pc[u]
    BY <2>2, <2>6 DEF HealthCall, Call, Goto
  <2>7. CASE Quiesced \/ UNCHANGED vars
    BY <2>1, <2>7 DEF Quiesced, vars, StrikesAreRenders
  <2>8. QED
    BY <2>1, <2>2, <2>3, <2>4, <2>5, <2>6, <2>7 DEF Next, StrikesAreRenders
<1>3. TypeInv /\ StrikesAreRenders /\ InFlightLedger /\ [Next]_vars => InFlightLedger'
  <2>1. SUFFICES ASSUME TypeInv, StrikesAreRenders, InFlightLedger, [Next]_vars
                 PROVE  InFlightLedger'
    OBVIOUS
  <2>2. /\ pc \in [Thread -> Label] /\ frame \in [Thread -> Frame]
        /\ Caller \union Episode \union Checker = Thread
    BY <2>1 DEF TypeInv, TypeOK, Thread
  <2>3. CASE \E c \in Caller : RenderCall(c) \/ RenderStep(c)
    BY <2>1, <2>3, RenderLedger
  <2>4. CASE \E t \in Thread : ProbeStep(t)
    <3>1. PICK t \in Thread : ProbeStep(t)
      BY <2>4
    <3>2. /\ OnlyMoves(t) /\ inFlight' = inFlight
          /\ pc[t] \notin Wire /\ pc'[t] \notin Wire
      BY <2>2, <3>1
         DEF ProbeStep, ProbeSkip, ProbeAsk, ProbeAnswered, ProbeFailed, ProbeEnd,
             Return, Goto, Locals, OnlyMoves, Wire
    <3>3. QED
      BY <2>1, <3>2, WireStays
  <2>5. CASE \E t \in Thread : SaveStep(t)
    BY <2>1, <2>5, SaveLedger DEF StrikesAreRenders
  <2>6. CASE \E e \in Episode :
               LeaseCall(e) \/ LeaseLock(e) \/ LeaseStep(e) \/ LeaseExit(e)
    <3>1. PICK e \in Episode : LeaseCall(e) \/ LeaseLock(e) \/ LeaseStep(e) \/ LeaseExit(e)
      BY <2>6
    <3>2. e \in Thread /\ e \notin Caller /\ OnlyMoves(e) /\ inFlight' = inFlight
      BY <2>2, <3>1, PoolAssumption
         DEF LeaseCall, Call, LeaseLock, LeaseStep, LeasePick, LeaseMark, LeaseCount,
             LeaseEnd, LeaseExit, Return, Goto, Locals, OnlyMoves
    <3>3. QED
      BY <2>1, <3>2, WireStays
  <2>7. CASE \E h \in Checker : HealthCall(h)
    <3>1. PICK h \in Checker : HealthCall(h)
      BY <2>7
    <3>2. h \in Thread /\ h \notin Caller /\ OnlyMoves(h) /\ inFlight' = inFlight
      BY <2>2, <3>1, PoolAssumption DEF HealthCall, Call, Goto, Locals, OnlyMoves
    <3>3. QED
      BY <2>1, <3>2, WireStays
  <2>8. CASE Quiesced \/ UNCHANGED vars
    BY <2>1, <2>8 DEF Quiesced, vars, InFlightLedger
  <2>9. QED
    BY <2>1, <2>3, <2>4, <2>5, <2>6, <2>7, <2>8 DEF Next
<1>4. Spec => []TypeInv
  BY InitTyped, NextTyped, PTL DEF Spec
<1>5. QED
  BY <1>1, <1>2, <1>3, <1>4, PTL DEF Spec
==============================================================================
