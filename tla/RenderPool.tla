----------------------------- MODULE RenderPool ------------------------------
(***************************************************************************)
(* The render pool of one trainer process (runtime/live/pool.py): render   *)
(* dispatch, embodied leases, strikes, quarantine and readmission, as the  *)
(* env threads of the process interleave them on one shared pool object.   *)
(*                                                                         *)
(* Every thread runs one pool method at a time; pc is the point it has     *)
(* reached and frame its local variables.  A step is the stretch of code   *)
(* between two points at which another thread may get in: a wire call, a   *)
(* sleep, the lease lock, a write to the statefile.                        *)
(***************************************************************************)
EXTENDS Integers, FiniteSets

CONSTANTS
  Member,             \* the instances listed in endpoints.json
  Seats,              \* Seats[m]: max_episodes of instance m
  Caller,             \* env threads that call render()
  Episode,            \* env threads that run one embodied lease at a time
  Checker,            \* threads that call check_health()
  Skips,              \* the exclude sets lease_embodied is called with
  QUARANTINE_STRIKES, \* 2 in the code
  BACKOFFS,           \* len(BUSY_BACKOFF_S), 3 in the code
  MaxStrikes,         \* bound: strikes saturate here; only >= 2 is ever tested
  MaxCalls,           \* bound: pool calls made by each thread
  NoMember, NoThread

Thread == Caller \union Episode \union Checker

ASSUME PoolAssumption ==
  /\ Seats \in [Member -> Nat \ {0}]
  /\ IsFiniteSet(Thread) /\ IsFiniteSet(Member)
  /\ Caller \intersect Episode = {} /\ Caller \intersect Checker = {}
  /\ Episode \intersect Checker = {}
  /\ Skips \subseteq SUBSET Member
  /\ QUARANTINE_STRIKES \in Nat \ {0}
  /\ MaxStrikes \in Nat /\ MaxStrikes >= QUARANTINE_STRIKES
  /\ BACKOFFS \in Nat /\ MaxCalls \in Nat
  /\ NoMember \notin Member /\ NoThread \notin Thread

VARIABLES
  strikes,      \* _Member.strikes
  quarantined,  \* the members whose _Member.quarantined is set
  leases,       \* _Member.leases
  inFlight,     \* _Member.in_flight
  lock,         \* the thread inside _lease_lock, or NoThread
  pc,           \* where each thread is
  frame,        \* the local variables of the call it is in
  outcome,      \* how its last call ended
  calls,        \* how many calls it has made
  stolen,       \* threads whose statefile temporary another save renamed away
  failures      \* history: failures each member answered with since it last
                \* answered a probe, counted up to MaxStrikes

beliefs == <<strikes, quarantined, failures>>
vars == <<strikes, quarantined, leases, inFlight, lock, pc, frame, outcome,
          calls, stolen, failures>>

(* tried is render's tried and a lease's skip; todo and changed belong to  *)
(* the probing loops of _readmit_one and check_health.                     *)
EmptyFrame == [at |-> NoMember, tried |-> {}, busy |-> {}, backoff |-> 0,
               todo |-> {}, changed |-> FALSE]

Frame == [at : Member \union {NoMember}, tried : SUBSET Member,
          busy : SUBSET Member, backoff : 0..BACKOFFS,
          todo : SUBSET Member, changed : BOOLEAN]

(* The places inside _save_quarantine, by what the thread saves for.       *)
Saving == {"save_strike", "save_probe", "save_last", "save_exit"}
(* The places at which a lease holder sits inside the lease lock.          *)
Probing == {"probe", "asked", "save_probe", "save_last"}
Critical == Probing \union {"pick1", "repick", "mark"}
(* The places from LeaseMark to the discard: the seat is this episode's.   *)
Seated == {"held", "save_exit", "exit"}
Label == Saving \union Critical \union Seated
         \union {"idle", "pick", "sent", "lock1", "lock2", "count"}
Outcome == {"none", "ok", "busy", "dead", "late", "error", "oserror"}

(* What the client makes of a wire call, and the answers that say the      *)
(* instance, rather than the request or the load, is at fault.             *)
Answer == {"ok", "busy", "bad_request", "map_mismatch", "unreachable",
           "engine_down", "render_failed"}
Gone == {"unreachable", "engine_down", "render_failed"}

Init ==
  /\ strikes = [m \in Member |-> 0] /\ quarantined = {}
  /\ leases = [m \in Member |-> {}] /\ inFlight = [m \in Member |-> 0]
  /\ lock = NoThread
  /\ pc = [t \in Thread |-> "idle"]
  /\ frame = [t \in Thread |-> EmptyFrame]
  /\ outcome = [t \in Thread |-> "none"]
  /\ calls = [t \in Thread |-> 0]
  /\ stolen = {} /\ failures = [m \in Member |-> 0]

------------------------------------------------------------------------------
(* Steps shared by the methods.                                            *)

Goto(t, label) == pc' = [pc EXCEPT ![t] = label]

Locals(t, f) == frame' = [frame EXCEPT ![t] = f]

Return(t, how) ==
  /\ Goto(t, "idle")
  /\ outcome' = [outcome EXCEPT ![t] = how]
  /\ Locals(t, EmptyFrame)

Call(t, label, f) ==
  /\ pc[t] = "idle" /\ calls[t] < MaxCalls
  /\ Goto(t, label)
  /\ calls' = [calls EXCEPT ![t] = @ + 1]
  /\ outcome' = [outcome EXCEPT ![t] = "none"]
  /\ Locals(t, f)
  /\ UNCHANGED <<beliefs, leases, inFlight, lock, stolen>>

Bump(n) == IF n < MaxStrikes THEN n + 1 ELSE n

(* The in-memory half of _strike; the save that follows is a step of its   *)
(* own.                                                                    *)
Strike(m) ==
  /\ strikes' = [strikes EXCEPT ![m] = Bump(@)]
  /\ quarantined' = IF Bump(strikes[m]) >= QUARANTINE_STRIKES
                    THEN quarantined \union {m} ELSE quarantined

(* The history is written by what comes back over the wire, whatever the   *)
(* pool then makes of it.                                                  *)
Hears(m, answer) ==
  failures' = IF answer \in Gone THEN [failures EXCEPT ![m] = Bump(@)] ELSE failures

Unlocked(t) == IF lock = t THEN NoThread ELSE lock

------------------------------------------------------------------------------
(* render(): dispatch with failover and busy backoff.                      *)

Idle(exclude) == {m \in Member \ exclude : m \notin quarantined /\ leases[m] = {}}

(* The least in flight; dispatched and the pid rotation only break ties.   *)
LeastLoaded(S) == {m \in S : \A n \in S : inFlight[m] <= inFlight[n]}

Excluded(c) == frame[c].tried \union frame[c].busy

RenderCall(c) == Call(c, "pick", EmptyFrame)

RenderDispatch(c) ==
  /\ pc[c] = "pick"
  /\ \E m \in LeastLoaded(Idle(Excluded(c))) :
       /\ Locals(c, [frame[c] EXCEPT !.at = m])
       /\ inFlight' = [inFlight EXCEPT ![m] = @ + 1]
  /\ Goto(c, "sent")
  /\ UNCHANGED <<beliefs, leases, lock, outcome, calls, stolen>>

(* Mutants: one sweep too many; a sweep that is never counted.             *)
RenderBackOff_OnceMore(c) ==
  /\ pc[c] = "pick" /\ Idle(Excluded(c)) = {} /\ frame[c].busy # {}
  /\ Locals(c, [frame[c] EXCEPT !.busy = {}, !.backoff = @ + 1])
  /\ UNCHANGED <<beliefs, leases, inFlight, lock, pc, outcome, calls, stolen>>

RenderBackOff_Uncounted(c) ==
  /\ pc[c] = "pick" /\ Idle(Excluded(c)) = {} /\ frame[c].busy # {}
  /\ Locals(c, [frame[c] EXCEPT !.busy = {}])
  /\ UNCHANGED <<beliefs, leases, inFlight, lock, pc, outcome, calls, stolen>>

RenderBackOff(c) ==
  /\ pc[c] = "pick" /\ Idle(Excluded(c)) = {} /\ frame[c].busy # {}
  /\ frame[c].backoff < BACKOFFS
  /\ Locals(c, [frame[c] EXCEPT !.busy = {}, !.backoff = @ + 1])
  /\ UNCHANGED <<beliefs, leases, inFlight, lock, pc, outcome, calls, stolen>>

RenderGiveUp(c) ==
  /\ pc[c] = "pick" /\ Idle(Excluded(c)) = {} /\ frame[c].busy # {}
  /\ frame[c].backoff = BACKOFFS
  /\ Return(c, "busy")
  /\ UNCHANGED <<beliefs, leases, inFlight, lock, calls, stolen>>

RenderReadmit(c) ==
  /\ pc[c] = "pick" /\ Idle(Excluded(c)) = {} /\ frame[c].busy = {}
  /\ Locals(c, [frame[c] EXCEPT !.todo = Member \ frame[c].tried,
                      !.changed = FALSE])
  /\ Goto(c, "probe")
  /\ UNCHANGED <<beliefs, leases, inFlight, lock, outcome, calls, stolen>>

Landed(c) == inFlight' = [inFlight EXCEPT ![frame[c].at] = @ - 1]

RenderSucceeds(c) ==
  /\ pc[c] = "sent" /\ Landed(c)
  /\ strikes' = [strikes EXCEPT ![frame[c].at] = 0]
  /\ Return(c, "ok") /\ Hears(frame[c].at, "ok")
  /\ UNCHANGED <<quarantined, leases, lock, calls, stolen>>

RenderIsBusy(c) ==
  /\ pc[c] = "sent" /\ Landed(c)
  /\ Hears(frame[c].at, "busy") /\ UNCHANGED <<strikes, quarantined>>
  /\ Locals(c, [frame[c] EXCEPT !.busy = @ \union {frame[c].at}, !.at = NoMember])
  /\ Goto(c, "pick")
  /\ UNCHANGED <<leases, lock, outcome, calls, stolen>>

(* Mutant: no except clause of its own for busy, which is struck like the  *)
(* dead are.                                                               *)
RenderStrikes_WhenBusy(c) ==
  /\ pc[c] = "sent" /\ Strike(frame[c].at)
  /\ \E answer \in {"unreachable", "engine_down", "busy"} : Hears(frame[c].at, answer)
  /\ Goto(c, "save_strike")
  /\ UNCHANGED <<leases, inFlight, lock, frame, outcome, calls, stolen>>

(* ServiceUnreachable or engine_down: in_flight only falls after the save. *)
RenderStrikes(c) ==
  /\ pc[c] = "sent" /\ Strike(frame[c].at)
  /\ \E answer \in {"unreachable", "engine_down"} : Hears(frame[c].at, answer)
  /\ Goto(c, "save_strike")
  /\ UNCHANGED <<leases, inFlight, lock, frame, outcome, calls, stolen>>

(* Mutant: no finally, so a raised error leaves the batch in flight.       *)
RenderRefused_Leaks(c) ==
  /\ pc[c] = "sent" /\ UNCHANGED inFlight
  /\ Return(c, "error")
  /\ UNCHANGED <<beliefs, leases, lock, calls, stolen>>

(* Any other wire error is raised; render_failed is one of them here,      *)
(* though a lease strikes for it.                                          *)
RenderRefused(c) ==
  /\ pc[c] = "sent" /\ Landed(c)
  /\ \E answer \in Answer \ {"ok", "busy", "unreachable", "engine_down"} :
       Hears(frame[c].at, answer)
  /\ Return(c, "error")
  /\ UNCHANGED <<strikes, quarantined, leases, lock, calls, stolen>>

------------------------------------------------------------------------------
(* _readmit_one (render and lease_embodied, quarantined members only) and  *)
(* check_health (every member): probe one member after another.            *)

ProbeSkip(t) ==
  /\ pc[t] = "probe" /\ t \notin Checker
  /\ frame[t].todo \ quarantined # {}
  /\ Locals(t, [frame[t] EXCEPT !.todo = @ \intersect quarantined])
  /\ UNCHANGED <<beliefs, leases, inFlight, lock, pc, outcome, calls, stolen>>

ProbeAsk(t) ==
  /\ pc[t] = "probe"
  /\ \E m \in frame[t].todo :
       /\ t \in Checker \/ m \in quarantined
       /\ Locals(t, [frame[t] EXCEPT !.at = m, !.todo = @ \ {m}])
  /\ Goto(t, "asked")
  /\ UNCHANGED <<beliefs, leases, inFlight, lock, outcome, calls, stolen>>

ProbeAnswered(t) ==
  /\ pc[t] = "asked"
  /\ strikes' = [strikes EXCEPT ![frame[t].at] = 0]
  /\ failures' = [failures EXCEPT ![frame[t].at] = 0]
  /\ quarantined' = quarantined \ {frame[t].at}
  /\ Locals(t, [frame[t] EXCEPT !.at = NoMember, !.changed = TRUE])
  /\ Goto(t, "probe")
  /\ UNCHANGED <<leases, inFlight, lock, outcome, calls, stolen>>

(* A probe asks for nothing that could be refused: any error fails it.     *)
ProbeFailed(t) ==
  /\ pc[t] = "asked" /\ Strike(frame[t].at)
  /\ failures' = [failures EXCEPT ![frame[t].at] = Bump(@)]
  /\ Goto(t, "save_probe")
  /\ UNCHANGED <<leases, inFlight, lock, frame, outcome, calls, stolen>>

(* The loop is over: save if a member came back, as check_health always    *)
(* does; a render with nobody back gives up, a lease picks once more.      *)
ProbeEnd(t) ==
  /\ pc[t] = "probe" /\ frame[t].todo = {}
  /\ \/ /\ frame[t].changed \/ t \in Checker
        /\ Goto(t, "save_last")
        /\ UNCHANGED <<frame, outcome>>
     \/ /\ ~frame[t].changed /\ t \in Caller
        /\ Return(t, "dead")
     \/ /\ ~frame[t].changed /\ t \in Episode
        /\ Goto(t, "repick")
        /\ UNCHANGED <<frame, outcome>>
  /\ UNCHANGED <<beliefs, leases, inFlight, lock, calls, stolen>>

HealthCall(t) == Call(t, "probe", [EmptyFrame EXCEPT !.todo = Member])

------------------------------------------------------------------------------
(* _save_quarantine: write <stem>.tmp, rename it over the statefile.  The  *)
(* temporary has one name for all threads, so the thread that renames      *)
(* first takes it from every other thread that is inside a save; those may *)
(* find it gone, and os.replace raises FileNotFoundError.                  *)

SaveDone(t) ==
  /\ pc[t] \in Saving
  /\ stolen' = (stolen \union {u \in Thread : pc[u] \in Saving}) \ {t}
  /\ \/ /\ pc[t] = "save_strike" /\ Landed(t)
        /\ Locals(t, [frame[t] EXCEPT !.tried = @ \union {frame[t].at}, !.at = NoMember])
        /\ Goto(t, "pick") /\ UNCHANGED outcome
     \/ /\ pc[t] = "save_probe" /\ UNCHANGED <<inFlight, outcome>>
        /\ Locals(t, [frame[t] EXCEPT !.at = NoMember]) /\ Goto(t, "probe")
     \/ /\ pc[t] = "save_last" /\ t \notin Checker
        /\ Goto(t, IF t \in Caller THEN "pick" ELSE "repick")
        /\ UNCHANGED <<inFlight, frame, outcome>>
     \/ /\ pc[t] = "save_last" /\ t \in Checker
        /\ Return(t, "ok") /\ UNCHANGED inFlight
     \/ /\ pc[t] = "save_exit" /\ Goto(t, "exit")
        /\ UNCHANGED <<inFlight, frame, outcome>>
  /\ UNCHANGED <<beliefs, leases, lock, calls>>

(* Mutant: the strike of a lease is outside its try, so an OSError skips   *)
(* the finally that gives the seat back.                                   *)
SaveRaises_KeepsSeat(t) ==
  /\ pc[t] \in Saving /\ t \in stolen
  /\ stolen' = stolen \ {t}
  /\ IF pc[t] = "save_strike" THEN Landed(t) ELSE UNCHANGED inFlight
  /\ Return(t, "oserror") /\ lock' = Unlocked(t)
  /\ UNCHANGED <<beliefs, leases, calls>>

(* The OSError leaves render through its finally, and a lease through the  *)
(* with of the lock or the finally that gives the seat back.               *)
SaveRaises(t) ==
  /\ pc[t] \in Saving /\ t \in stolen
  /\ stolen' = stolen \ {t}
  /\ \/ /\ pc[t] = "save_strike" /\ Landed(t)
        /\ Return(t, "oserror") /\ UNCHANGED lock
     \/ /\ pc[t] \in {"save_probe", "save_last"} /\ UNCHANGED inFlight
        /\ Return(t, "oserror") /\ lock' = Unlocked(t)
     \/ /\ pc[t] = "save_exit" /\ Goto(t, "exit")
        /\ outcome' = [outcome EXCEPT ![t] = "oserror"]
        /\ UNCHANGED <<inFlight, lock, frame>>
  /\ UNCHANGED <<beliefs, leases, calls>>

------------------------------------------------------------------------------
(* lease_embodied: a seat for the whole of one embodied episode.           *)

(* Mutant: off by one seat.                                                *)
WithSeat_OneMore(exclude) ==
  {m \in Member \ exclude :
     m \notin quarantined /\ Cardinality(leases[m]) <= Seats[m]}

WithSeat(exclude) ==
  {m \in Member \ exclude :
     m \notin quarantined /\ Cardinality(leases[m]) < Seats[m]}

(* Breadth first over the seats taken, then the least in flight.           *)
Emptiest(S) ==
  {m \in S : \A n \in S :
     \/ Cardinality(leases[m]) < Cardinality(leases[n])
     \/ Cardinality(leases[m]) = Cardinality(leases[n]) /\ inFlight[m] <= inFlight[n]}

NothingLeased == \A m \in Member : leases[m] = {}

LeaseCall(e) ==
  \E skip \in Skips : Call(e, "lock1", [EmptyFrame EXCEPT !.tried = skip])

(* Mutant: pick and mark without the lock.                                 *)
LeaseLock_Racy(e) ==
  /\ lock' = e
  /\ \/ pc[e] = "lock1" /\ Goto(e, "pick1") /\ UNCHANGED frame
     \/ /\ pc[e] = "lock2" /\ Goto(e, "probe")
        /\ Locals(e, [frame[e] EXCEPT !.todo = Member \ frame[e].tried,
                      !.changed = FALSE])
  /\ UNCHANGED <<beliefs, leases, inFlight, outcome, calls, stolen>>

LeaseLock(e) ==
  /\ lock = NoThread /\ lock' = e
  /\ \/ pc[e] = "lock1" /\ Goto(e, "pick1") /\ UNCHANGED frame
     \/ /\ pc[e] = "lock2" /\ Goto(e, "probe")
        /\ Locals(e, [frame[e] EXCEPT !.todo = Member \ frame[e].tried,
                      !.changed = FALSE])
  /\ UNCHANGED <<beliefs, leases, inFlight, outcome, calls, stolen>>

(* Mutant: the lock is kept when no seat is found.                         *)
LeasePick_KeepsLock(e) ==
  /\ pc[e] \in {"pick1", "repick"}
  /\ \/ \E m \in Emptiest(WithSeat(frame[e].tried)) :
          /\ Locals(e, [frame[e] EXCEPT !.at = m])
          /\ Goto(e, "mark")
     \/ /\ WithSeat(frame[e].tried) = {}
        /\ Goto(e, IF pc[e] = "pick1" THEN "lock2" ELSE "count")
        /\ UNCHANGED frame
  /\ UNCHANGED <<beliefs, leases, inFlight, lock, outcome, calls, stolen>>

LeasePick(e) ==
  /\ pc[e] \in {"pick1", "repick"}
  /\ \/ \E m \in Emptiest(WithSeat(frame[e].tried)) :
          /\ Locals(e, [frame[e] EXCEPT !.at = m])
          /\ Goto(e, "mark") /\ UNCHANGED lock
     \/ /\ WithSeat(frame[e].tried) = {}
        /\ Goto(e, IF pc[e] = "pick1" THEN "lock2" ELSE "count")
        /\ lock' = Unlocked(e) /\ UNCHANGED frame
  /\ UNCHANGED <<beliefs, leases, inFlight, outcome, calls, stolen>>

LeaseMark(e) ==
  /\ pc[e] = "mark"
  /\ leases' = [leases EXCEPT ![frame[e].at] = @ \union {e}]
  /\ lock' = Unlocked(e) /\ Goto(e, "held")
  /\ UNCHANGED <<beliefs, inFlight, frame, outcome, calls, stolen>>

(* Mutant: a fleet with nothing leased is waited for like a full one.      *)
LeaseCount_Parks(e) ==
  /\ pc[e] = "count"
  /\ \/ Return(e, "late")
     \/ Goto(e, "lock1") /\ UNCHANGED <<frame, outcome>>
  /\ UNCHANGED <<beliefs, leases, inFlight, lock, calls, stolen>>

(* Outside the lock: how many seats are taken, and is the deadline past?   *)
LeaseCount(e) ==
  /\ pc[e] = "count"
  /\ \/ NothingLeased /\ Return(e, "dead")
     \/ ~NothingLeased /\ Return(e, "late")
     \/ ~NothingLeased /\ Goto(e, "lock1") /\ UNCHANGED <<frame, outcome>>
  /\ UNCHANGED <<beliefs, leases, inFlight, lock, calls, stolen>>

(* The with-block ends: cleanly, with an error that leaves the instance    *)
(* standing, or with one that says it is gone.                             *)
LeaseEnd(e) ==
  /\ pc[e] = "held"
  /\ \/ /\ Goto(e, "exit") /\ Hears(frame[e].at, "ok")
        /\ UNCHANGED <<strikes, quarantined>>
        /\ outcome' = [outcome EXCEPT ![e] = "ok"]
     \/ /\ Goto(e, "exit") /\ UNCHANGED <<strikes, quarantined>>
        /\ \E answer \in {"busy", "bad_request", "map_mismatch"} :
             Hears(frame[e].at, answer)
        /\ outcome' = [outcome EXCEPT ![e] = "error"]
     \/ /\ Strike(frame[e].at) /\ Goto(e, "save_exit")
        /\ \E answer \in {"unreachable", "engine_down", "render_failed"} :
             Hears(frame[e].at, answer)
        /\ outcome' = [outcome EXCEPT ![e] = "error"]
  /\ UNCHANGED <<leases, inFlight, lock, frame, calls, stolen>>

LeaseExit(e) ==
  /\ pc[e] = "exit" /\ lock = NoThread
  /\ leases' = [leases EXCEPT ![frame[e].at] = @ \ {e}]
  /\ Return(e, outcome[e])
  /\ UNCHANGED <<beliefs, inFlight, lock, calls, stolen>>

------------------------------------------------------------------------------

RenderStep(c) ==
  \/ RenderDispatch(c) \/ RenderBackOff(c) \/ RenderGiveUp(c) \/ RenderReadmit(c)
  \/ RenderSucceeds(c) \/ RenderIsBusy(c) \/ RenderStrikes(c) \/ RenderRefused(c)

ProbeStep(t) ==
  \/ ProbeSkip(t) \/ ProbeAsk(t) \/ ProbeAnswered(t) \/ ProbeFailed(t) \/ ProbeEnd(t)

SaveStep(t) == SaveDone(t) \/ SaveRaises(t)

LeaseStep(e) == LeasePick(e) \/ LeaseMark(e) \/ LeaseCount(e) \/ LeaseEnd(e)

(* The trainer is done with its envs: no call is in progress or to come.   *)
Quiesced ==
  /\ \A t \in Thread : pc[t] = "idle" /\ calls[t] = MaxCalls
  /\ UNCHANGED vars

Next ==
  \/ \E c \in Caller : RenderCall(c) \/ RenderStep(c)
  \/ \E t \in Thread : ProbeStep(t) \/ SaveStep(t)
  \/ \E e \in Episode : LeaseCall(e) \/ LeaseLock(e) \/ LeaseStep(e) \/ LeaseExit(e)
  \/ \E h \in Checker : HealthCall(h)
  \/ Quiesced

Spec == Init /\ [][Next]_vars

(* A thread inside a call keeps running: wire calls time out and sleeps    *)
(* end.  Waiters sleep lease_poll_s between attempts, so the lock, which   *)
(* is held for a pick or a round of probes, is not taken from one of them  *)
(* forever: strong fairness on the two steps that wait for it.             *)
Fairness ==
  /\ \A c \in Caller : WF_vars(RenderStep(c))
  /\ \A t \in Thread : WF_vars(ProbeStep(t)) /\ WF_vars(SaveStep(t))
  /\ \A e \in Episode : WF_vars(LeaseStep(e)) /\ SF_vars(LeaseLock(e))
                        /\ SF_vars(LeaseExit(e))

FairSpec == Spec /\ Fairness

------------------------------------------------------------------------------
(* Properties.                                                             *)

TypeOK ==
  /\ strikes \in [Member -> 0..MaxStrikes] /\ quarantined \subseteq Member
  /\ leases \in [Member -> SUBSET Episode] /\ inFlight \in [Member -> Int]
  /\ lock \in Episode \union {NoThread}
  /\ pc \in [Thread -> Label] /\ frame \in [Thread -> Frame]
  /\ outcome \in [Thread -> Outcome] /\ calls \in [Thread -> 0..MaxCalls]
  /\ stolen \subseteq Thread /\ failures \in [Member -> 0..MaxStrikes]

(* The step a thread is at names an instance wherever it is about one.     *)
AtInstance == {"sent", "asked", "mark", "save_strike", "save_probe"} \union Seated
AtMember == \A t \in Thread : pc[t] \in AtInstance => frame[t].at \in Member

(* The lease lock excludes: whoever is between its acquire and its release *)
(* is the one thread that holds it.                                        *)
LockExcludes == \A e \in Episode : pc[e] \in Critical => lock = e

(* The seat a thread has picked is still free when it marks it.            *)
PickStillFree ==
  \A e \in Episode : pc[e] = "mark" =>
    Cardinality(leases[frame[e].at]) < Seats[frame[e].at]

(* An instance never carries more episodes than it has seats, whatever the *)
(* other threads did between one thread's pick and its mark.               *)
SeatsRespected == \A m \in Member : Cardinality(leases[m]) <= Seats[m]

(* The lease sets are exactly the episodes that hold a seat: none is left  *)
(* behind by an error, a failed save or a refused call, and none is given  *)
(* back while its episode still drives the instance.                       *)
LeaseLedger ==
  \A m \in Member :
    leases[m] = {e \in Episode : pc[e] \in Seated /\ frame[e].at = m}

(* in_flight counts the render batches really on the wire to an instance,  *)
(* whichever way each of them ends.                                        *)
InFlightLedger ==
  \A m \in Member :
    inFlight[m] = Cardinality({c \in Caller :
                     pc[c] \in {"sent", "save_strike"} /\ frame[c].at = m})

(* A strike answers a failure, one for one, and a quarantine a full row of *)
(* them: instances that were only ever busy, or handed bad requests, stay  *)
(* admitted, however the failures of other calls fall between, and one is  *)
(* out as soon as its strikes reach the limit.                             *)
OnlyTheDeadAreStruck ==
  \A m \in Member :
    /\ strikes[m] <= failures[m]
    /\ m \in quarantined => failures[m] >= QUARANTINE_STRIKES
    /\ m \notin quarantined => strikes[m] < QUARANTINE_STRIKES

(* The seat bookkeeping implements the abstract lease.                     *)
Abstract == INSTANCE SeatLease
ImplementsSeatLease == Abstract!Spec

(* Every render() returns or raises, every wait for a seat ends in a seat  *)
(* or a refusal, and no seat is kept for ever.                             *)
EveryRenderReturns == \A c \in Caller : pc[c] = "pick" ~> pc[c] = "idle"
EverySeatIsGivenBack == \A e \in Episode : pc[e] = "held" ~> pc[e] = "idle"
EveryWaitEnds == \A e \in Episode : pc[e] = "lock1" ~> pc[e] \in {"held", "idle"}

(* pool.py: "A fleet with nothing leased and nothing pickable is actually  *)
(* dead".  When a lease is refused for that reason, no healthy instance    *)
(* has a free seat.                                                        *)
RefusedMeansDead ==
  [][\A e \in Episode : outcome'[e] = "dead" /\ outcome[e] # "dead"
       => WithSeat(frame[e].tried) = {}]_vars
==============================================================================
