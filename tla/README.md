# DeliveryGym in TLA+

TLA+ models of the parts of DeliveryGym (`embodiedbench/`, its Pixel Goal tools
and UE plugin) whose behaviour depends on order, time or interleaving, the TLC
runs that check them and the TLAPS proofs about them. `PROJECT.json` lists every
run, the source lines of every definition, the hazards the properties are aimed
at, and for every checked property a mutant of the code that violates it.

## 1. The system

DeliveryGym trains and scores a courier: a vision-language model that walks a
rendered city, collects orders and hands them over. Each turn the model gets
photographs, a map and a few lines of text, and answers with one tool call.

    trainer / evaluator ── GymEnv.reset, step ──► CourierSession.step
                                                     │ parse, execute, charge
                                                     ▼
                                    CourierEnv (orders, clock, phone, streets)
                                        │ frames          │ walks
                    album on disk ◄─────┤                 ▼
                                        │        EmbodiedCourierEnv ─► walk_to_pixel
                                        ▼                 │ seat          │ legs
                                    RenderPool ◄──────────┘               ▼
                                        │ HTTP                   courier backend,
                                 UE render instances            LivePixelGoalRuntime
                                                                          │ polls
                                                                SpPixelGoalSubsystem

One trainer process runs many environments. Each environment is sequential,
but its methods run on worker threads (`asyncio.to_thread`,
`gym_adapter.py:246`), and **all environments of the process share one
`RenderPool`** (`shared_pool`). Concurrency is in the pool, in the services
several processes share, and in the engine that moves a pawn while the host
polls it. Everything else is a long sequence of calls against a simulated clock.

| Component | State it keeps | Operations | What is hard about it |
|---|---|---|---|
| Render pool (`runtime/live/pool.py`) | per instance: strikes, quarantined, leases, in_flight; the lease lock; the statefile | `render`, `lease_embodied`, `check_health`, `_strike`, `_readmit_one`, `_save_quarantine` | threads, failing calls, failover and backoff, saves that raise, restarts |
| Order queue (`runtime/city/courier_env.py`) | orders and their stage, clock, position, earnings, finished | `walk_to`, `follow_street`, `wait`, `rest`, `look`, `check_order`, `navigate`, `collect`, `hand_over`, … | expiry is noticed only when the queue is read; some calls read it before they act, some after |
| Phone screen (same file) | battery, screen target and who chose it | `_drain_screen`, `_light_the_screen`, `navigate`, `charge_phone` | relit as a side effect of reading the queue; dies in the middle of a call |
| Streets, lamps, obstacles (same file, `obstacles.py`, `vagen_courier_env.py`) | position, barriers, lamps sent, turns, reds, clock | `walk_to`, `follow_street`, candidates, `show_only_these_signals` | a run of hops decided on what the picture showed before it; the preview and the walk are written twice |
| Session (`agent/courier/session.py`, `chunk.py`, `loop.py`) | spend, row of refusals, turn log, reason | `step` for one call and for a chunk | two code paths, six ways to end, errors that do or do not break a row |
| Training environment (`training/vagen_courier_env.py`, `runtime/live/gym_adapter.py`) | last-seen counts, horizons, turns | `reset`, `step`, `close` | rewards are differences to remembered counts; three resets written apart |
| Embodied environment (`runtime/live/embodied_env.py`) | lease, episode id, pose, node, degraded flag | open, spawn, walk, re-open, reseat, look, close | an instance that restarts, refuses or answers too late in the middle of a walk |
| Pixel Goal (`runtime/pixel_goal.py`, `tools/pixel_goal_courier_backend.py`, `walk_to_pixel`) | snapshot, move under way, node, refused legs | bind, resolve, start, poll, cancel, walk a route of legs, plan again | the engine moves while the host looks away; the pixel belongs to one photograph |
| Pixel Goal pools (`tools/pixel_goal_order_pool.py`, `tools/prune_pixel_goal_pool.py`) | the pool file | survey, certify, prune, load, route | what one tool writes another must accept |
| Live renderer (`env.py`, `cache.py`, `client.py`) | the episode album and its sidecars | render on demand, store, retry once | – |
| Memory, prompts, tools, parser, harness, text and cached runtimes, tasks, schemas, compiler, training gates, evaluation, artifacts | see `PROJECT.json` | | text, offline, or older tracks |

What makes each correct:

- **Pool**: no instance carries more episodes than it has seats; a seat comes
  back exactly once however its episode ends; `in_flight` is exact; only
  failing instances are struck; every call ends; the statefile is whole and
  remembers.
- **Orders**: each is paid once; an overdue one is never served; the queue is
  refilled at once and no deeper than its depth.
- **Phone**: shows the job in hand unless the courier chose otherwise; dead
  means dark.
- **Streets**: no draw of barriers cuts a corner off; what the observation says
  of a street is what walking it does; a lamp in the album stops a run; a walk
  is one turn however it ends.
- **Session**: charged exactly once per executed call, within budget, stopped
  as stuck for a row of identical refusals only, and ended by the clock.
- **Training environment**: rewards of an episode add up to that episode's
  shift; so do the reported figures.
- **Embodied environment**: the pool's books are the seats the environments
  hold; a pawn without a seat has a failed call behind it; a hop starts where
  the graph believes the pawn is, or the episode says it does not know.
- **Pixel Goal**: a pixel is judged on the photograph it was chosen on; the
  graph follows the pawn; what is reported is what the engine did; every stop
  can be walked to; legs start where they were certified.
- **Pools**: what the pruning tool writes, the loader accepts.

## 2. Modules

| Module | Models | State ↔ code |
|---|---|---|
| `SeatLease` | abstract: what `lease_embodied` promises | `leases` |
| `RenderPool` | all of `pool.py` but the file | `strikes, quarantined, leases, inFlight` are `_Member`'s fields, `lock` is `_lease_lock`, `pc`/`frame` a thread's place and locals in the method it runs; `failures` is a history of what the wire answered, no field of the code |
| `QuarantineFile` | `_save_quarantine`, `_load_quarantine`, restarts | `file`, `tmp` are the two names; `fd` what an open handle leads to; `payload` the snapshot being written |
| `OrderBook` | the order queue under every tool | `orders, sim, here, earnings, turns, rejected, finished` |
| `PhoneScreen` | extends `OrderBook` with battery and screen | `battery`, `screen` (target and owner) |
| `StreetWalk` | walks street by street, lamps, barriers, the observation | `field` is `ObstacleField.by_site`, `shown` is `signals_shown`, `line` what the pending observation's candidate lines said, `run` the locals of the run under way |
| `CourierSession` | `step` of the stock and of the chunked session | `spend`, `repeats`, `lastRefused`, `log` (`run.turns`), `reason` |
| `GymEnv` | extends `CourierSession` with reset, step, rewards | `seen`, `blocked`, `earningsAt`, `turns`, `done` |
| `EmbodiedFleet` | embodied episodes of several environments and processes on shared services | the episode's lease, id, node and flags; the service's pawns |
| `PoolLegs` | the pool planner: legs, chains, moves, cheapest routes, pruning, loading | constants and operators only |
| `PixelRuntime` | host and engine around one move | `pawn`, `move` (the engine's audit), `drive` (where `_drive` is), `result` |
| `PixelGoal` | extends both with the courier: look, point, resolve, legs, re-plans, crash and attach | node, photographs, the pool in use, the walk under way |
| `FiniteSums` | lemmas about sums over finite sets | – |
| `RenderPoolProofs`, `QuarantineFileProofs`, `PhoneScreenProofs`, `GymEnvProofs`, `EmbodiedFleetProofs`, `PixelGoalProofs`, `StreetWalkProofs` | theorems about the module of that name and those it extends | – |
| `MC…` | constants for TLC | – |

`RenderPool` and `EmbodiedFleet` both implement `SeatLease`: the first is the
pool from the inside, the second its callers, each process with a pool of its
own. `EmbodiedFleet` uses the pool only through the abstract lease, which the
first refinement justifies.

**Grain.** A step of `RenderPool` or `QuarantineFile` is the code between two
points at which another thread can get in: a wire call, a sleep, the lock, a
file operation. `in_flight += 1` and its kind are one step: CPython switches
threads at calls and loop edges, not inside that statement. In `EmbodiedFleet`
a step is one call to a service with the bookkeeping around it; in `PixelGoal`
one call to the engine or one poll, between which the engine moves. In
`StreetWalk` it is one hop of the code's own loop. In the other modules a step
is one whole tool call or reply, with every sweep, refill, charge and relighting
it makes, in the code's order: those parts run on one thread.

**Abstraction.** The wire is the set of its outcomes (answered, busy, dead,
refused, carried out and the answer lost), and a failing save the two ways it
fails. In `OrderBook` streets are places at a distance from every door; in
`StreetWalk` they are a graph, and doors are live or not as the order queue
leaves them. A reply is the kind it parses to. Money, seconds and metres are
integers. Text and pictures are left out. The policy may make every call at
every moment, which includes every plan a model could have.

**External.** Render instances answer as their client's errors allow; the
file system renames atomically and an open handle follows the file, not its
name; the engine's navigation may refuse a leg, break it off, stop short or
never end it. Two idealisations of Pixel Goal are assumptions: a pawn that is
nudged lands exactly on its node (the code logs the residual of
`K2_TeleportTo` and does not check it, `pixel_goal_courier_backend.py:908-926`,
`embodied_env.py:1730-1738`), and the node of an entrance has its connector as
its only edge (the builder adds no other,
`build_trusted_pedestrian_order_pool.py:646`).

## 3. Runs

| Run | Asks | Bounds | Expect |
|---|---|---|---|
| `PoolMixed` | seats never lost, leaked, overbooked; implements `SeatLease`; strikes are evidence; `in_flight` exact | two instances (one seat, two seats), a render thread, a health check, two episodes that may exclude an instance, one call each, one backoff | pass |
| `PoolLive` | every render returns, every wait ends, every seat comes back | two episodes forced onto one seat, one render thread, three backoffs | pass |
| `PoolRefused` | a refusal means a dead fleet | one instance, two episodes | **violation** |
| `FileShared` | one saver is safe, quarantine is remembered, saves leave one file | two instances, two threads, three saves each, one restart | pass |
| `FileTorn` | no torn read with two threads | two threads, one save each | **violation** |
| `CourierShift` | paid once, refilled at once, never served overdue, focus, screen, chosen route | three orders, two at a time, a late and a spoiling one, six calls, shift of 8 and endless, battery of 3 with a charger | pass |
| `GymShift` | budgets, stuck, clock, rewards, horizons and blocked counts, every episode ends | two episodes, chunk sizes 1 and 2, with and without `max_turns`, horizons 1 and 3, shift of 5 | pass |
| `GymReused` | rewards of a reused live adapter | the live adapter's reset | **violation** |
| `FleetShift` | seats and pawns accounted for, a hop starts where the graph says, implements `SeatLease`, every opening ends | two environments of one process, one instance of one seat, two places, one reseat, one of them reset once | pass |
| `PixelWalks` | pixels fresh, graph and pawn together, results true, stops reachable, pools load, legs certified, every walk ends | five nodes with a crossing, five pools (three pruned by the tool, two by hand), two and four views, one re-plan | pass |
| `StreetShift` | nobody stranded, advice is the walk whatever lamps were sent, lamps stop runs, a walk is one turn | seven nodes: a ring, a fork at a dead end, two lamps, four obstacle sites, both strides | pass |
| `StreetUnseen` | a lamp charged for was sent | the same streets | **violation** |

Named bounds: `MaxStrikes` (strikes saturate; only "≥ 2" is ever tested),
`MaxCalls`, `MaxSaves`, `MaxRestarts`, `MaxTurns`, `MaxEpisodes`, `MaxReseats`
and `MaxReplans` (8 and 4 in the code), `MAX_FOLLOW` (4 here, 6 there), the
lamps' clock modulo its two phases. Why they are enough: a race in the pool
needs two threads at one seat and a third party that changes an instance's
standing, which `PoolMixed` has; the four points of a save are interleaved with
another save's four and with a crash at each; six calls settle an order, let one
expire and refill; the small budgets are each reached first by some history
(only `tool_calls` is not, as in the code, where it is larger than `steps` and
counts the same calls); a second episode shows all a third could; one reseat
and one re-plan show the last attempt as well as one that is not the last; the
ring of `StreetShift` is longer than a run. The theorems of section 4 then hold
without any of these bounds.

`GymShift` runs both chunk sizes under the bookkeeping of the stock reset.
The code pairs the chunked session with the embodied adapter's own reset,
which `GymReused` covers: there the reward property fails at any chunk size.

`CHECK_DEADLOCK FALSE` appears in the `Gym` runs only, where the system really
stops: a finished last episode waits for nobody. All others check deadlock; all
threads idle with their calls used up is an explicit stuttering step
(`Quiesced`), and a courier can always be observed.

**Fairness.** `PoolLive` takes weak fairness on the steps of each thread and
strong fairness on taking the lease lock, for a seat and for giving one back:
the interpreter runs every runnable thread, and a lock that is free again and
again is not always somebody else's. An episode that holds a seat ends sooner
or later (a shift is bounded, see `GymShift`). The wire always answers, because
each client call has a timeout. `GymShift` takes weak fairness of `Step`: the
rollout calls `step` until `done` (`courier_rollout.py`, `eval/run.py`).
`FleetShift` takes weak fairness of what the environment's own code does next –
opening, walking, meeting a deadline, closing – and none of the services.
`PixelWalks` takes weak fairness of leaving for a leg, of the host's polling
loop and of its watchdog; the engine, the policy, the crash and the attaching
harness owe nothing, so a move the engine never ends is ended by the host's
timeouts. `StreetShift` takes weak fairness of the hop under way, which is
straight-line code. Nothing assumes that the model ever replies sensibly.

## 4. What is proved

Every safety invariant and every action property a passing run checks is also a
theorem, for every value of the constants. No theorem assumes a bound: strikes,
calls, saves, restarts, re-plans and episodes are any number. Each rests on the
named assumptions of the modules it extends, which say what kind of thing a
constant is (finite sets of threads and nodes, at least one seat, windows and
drains that are numbers, edges with two ends) and which TLC evaluates in every
run; what a theorem assumes beyond them is in its statement and in the table.

| Module | Theorem | Property |
|---|---|---|
| `RenderPoolProofs` | `TypeCorrect` | `TypeOK`, and that a step about an instance has one |
| | `SeatSafety`, `SeatsAccounted` | `SeatsRespected`, `LeaseLedger` |
| | `LeaseRefinement` | `ImplementsSeatLease` |
| | `StrikesAreEvidence` | `OnlyTheDeadAreStruck` |
| | `InFlightIsOnTheWire` | `InFlightLedger` |
| `QuarantineFileProofs` | `OneWriterIsAtomic` | `OneSaverIsSafe` |
| | `RestartsRemember` | `QuarantineRemembered` |
| | `NothingIsLeftBehind` | `SavesLeaveOneFile` |
| `PhoneScreenProofs` | `TheQueueIsRefilled` | `RefilledAtOnce` |
| | `EarningsAddUp` | `EarningsAreTheSlips` |
| | `TooLateIsTooLate`, `FocusStays` | `OverdueNeverServed`, `FocusSteady` |
| | `TheJobIsOnScreen`, `TheChosenRouteStands` | `JobOnScreen`, `ChosenRouteStands` |
| `GymEnvProofs` | `BudgetsHold`, `OnlyRowsAreStuck`, `TheClockIsHeard` | `BudgetStopsInTime`, `StuckIsARow`, `ClockEndsTheShift` |
| | `RewardsAreTheShifts` | `RewardsSumToTheShift`, under a reset that clears the counts |
| | `FiguresAreTheShifts` | `FiguresAreThisShift`, under a reset that clears the photographs and the blocked streets |
| `EmbodiedFleetProofs` | `BooksAreTrue` | `LeasesAreSeats` |
| | `NoUnexplainedGhost` | `GhostsHaveACause` |
| | `HopsStartOnTheGraph` | `PawnWhereTheGraphSays` |
| | `FleetLeaseRefinement` | `ImplementsSeatLease` |
| `PixelGoalProofs` | `PixelsAreFresh` | `PixelsStayFresh` |
| | `OutcomesAreTrue` | `ReportedIsWhatHappened` |
| | `GraphKeepsUp` | `NodeTracksPawn` |
| | `LegsStartCertified` | `LegsAreCertifiedHere` |
| | `StopsAreReached` | `EveryStopHasAWay` |
| | `PrunedPoolsAreLoaded` | `PrunedPoolsLoad` |
| `StreetWalkProofs` | `NothingIsCutOff` | what can be reached over open roads is what can be reached over all |
| | `EveryCornerIsReached` | `NobodyIsStranded`, in a city that is joined |
| | `RunsHeedLamps` | `LampsStopRuns` |
| | `ClearStreetsAreClear` | the half of `AdviceIsTheWalk` about barriers, in every city |
| | `TheAdviceIsTheWalk` | `AdviceIsTheWalk`, in a joined city that is not one ring |
| | `EveryWalkIsOneTurn` | what `WalkIsOneTurn` needs but the fairness |

The two hypotheses of `GymEnvProofs` hold of the stock reset and fail for the
live adapters'; what the first failing does to the rewards is finding 3. Those of `StreetWalkProofs` are facts about
the maps: each one in the repository is a single component
(`tests/test_city_pipeline.py:82`), and a network that is one ring has no
junction to tell a street's end by. There the preview goes round once more than
the walk.

**The arguments.** Few of these properties are inductive.

- *Pool.* `SeatsRespected` is not: `LeaseMark` adds an episode to an instance
  chosen in an earlier step. `SafeInv` adds that the lock excludes
  (`LockExcludes`: whoever is between acquire and release is the holder, probes
  and failing saves included), that the seat picked is still free until it is
  marked (`PickStillFree`, true because only the lock's holder marks and
  everyone else only frees), and `LeaseLedger`, without which a give-back might
  remove nothing or another's seat. One lemma per group of actions; the render
  steps leave seats and lock alone, which is one lemma (`SeatsStay`). The
  refinement follows: `LeaseMark` is `Take`, leaving is `Give`, every other step
  stutters. `InFlightLedger` needs that a strike in the middle of a render is by
  a thread whose batch has left the wire (`StrikesAreRenders`), and counts.
  `StrikesAreEvidence` compares two counters written in different steps:
  `failures` goes up where a wire call answers that the instance is at fault,
  `strikes` in `_strike` some steps later, so the invariant has to say which
  threads are on their way to strike what they heard, and that a success
  forgives both.
- *Statefile.* With one saving thread the name it opened is the one it renames
  (`AloneInv`); with many, until a trainer dies, a temporary that is there has a
  thread on its way to rename it, and one that is gone was renamed to the
  statefile (`TogetherInv`).
- *Orders and phone.* `BookInv` describes a list of orders as calls leave it:
  issued in order, picked up after they are issued, no more live than the depth.
  One lemma says what the sweep-and-refill returns for such a list, and every
  call is some edits around it. `ScreenInv` adds what the screen may show; it is
  kept because everything that changes the job in hand also relights or blanks.
  `SlipsInv` is `earnings = ` the sum of the slips.
- *Sums.* The community modules add up a set with a fold, a function defined in
  terms of itself, so nothing is known of it until one such function exists.
  `FiniteSums` shows by a least counterexample that it does for every finite set
  (`SumExists`), that the sum is a number, and what one changed entry does to it.
- *Session and training environment.* `RowInv` carries the turn that broke the
  last row of refusals as a witness, so that the row counted by `repeats` is the
  row at the end of the log. `PayInv` says the last-seen counts are the world's;
  `HorizonInv` that a horizon is photographed exactly when it has been passed.
- *Fleet.* `FleetInv` holds for each environment separately what its thread
  knows at each place of its code: where a seat is held, when a closed episode
  is cut off, where a hop leads, where the pawn is. A step of one environment
  disturbs another's part only through the books and the pawns, which the
  lemmas at the head of the module settle once.
- *Pixel Goal.* `PixelInv` relates the engine's pose, the client's pose and the
  photographs at each place of `walk_to_pixel`: the engine is still unless a
  move is under way, the photographs are of where the pawn is, and a leg under
  way starts at the node the walk is on. `StopsAreReached` builds trails over
  the moves of a pool by a least counterexample, since a pool that loads is
  joined only by the planner's own search. `PrunedPoolsAreLoaded` follows a
  chain's points through the pruning.
- *Streets.* The barriers are a fold that tries one site after another and keeps
  a road open when the city would fall apart; `NothingCut` holds after every
  site. Reachability is an iteration as long as the city has nodes, shown closed
  by counting. For the preview, `RunInv` says a run has come so many hops down
  the very street the preview looked along, and `WaysComeApart` that a street
  which is not a ring passes no place twice; `LineInv` that at the call the line
  still is what the list it was written under gives. Hence the walk halts
  wherever the line did, or before it at a lamp that list did not hold.

**Only model-checked.** Liveness, whose fairness and ENABLED are beyond TLAPS:
`EverySeatIsGivenBack`, `EveryWaitEnds`, `EveryRenderReturns`, `EpisodeEnds`,
`EveryOpeningEnds`, `EveryWalkEnds`, and of `WalkIsOneTurn` that the run ends
(its hops are one less to go each time, which is proved). The findings are
violations and stay with TLC. No module declares a RECURSIVE operator.

## 5. Findings

1. **A live fleet refused as dead** (`PoolRefused`). `lease_embodied` counts
   the seats outside the lock after failing to find one inside it
   (`pool.py:364`); the last holder can leave in between.
2. **A torn statefile** (`FileTorn`). Two threads write through one temporary
   name (`pool.py:481`), which the comment there calls impossible. The same
   cause makes the second `os.replace` raise.
3. **Second episode paid against the first** (`GymReused`). The live and
   embodied adapters reset `_last_earnings` but not `_last_delivered`,
   `_last_red`, `_blocked_attempts`, `_earnings_at` (`gym_adapter.py:314`,
   `:666`). An order delivered in the first episode is taken off the second's
   first reward, a red crossed in the first makes the second's red free.
4. **Charged for a lamp that was never sent** (`StreetUnseen`). What was sent
   is told to the environment after the observation is built
   (`vagen_courier_env.py:896`): a lamp dropped one turn hides lamps from the
   observation of the next, at the same junction (the run's trace waits there)
   or another, and with no lamp among the pictures every lamp of the album
   becomes chargeable.

Noticed without a run of their own:

- *Pool.* A success clears strikes in memory and saves nothing (`pool.py:275`);
  a restart brings them back, so quarantine may follow failures that were not
  in a row. `_release_lease` always leaves the lease context without an
  exception (`embodied_env.py:591`), so the strike that the comment at 2232 takes
  for done never happens. `check_health` is called by tests only.
  A probe answered busy (503) is struck like any failing probe (`pool.py:421`),
  although the client says of that answer that callers must not count it as a
  quarantine strike (`client.py:97-99`).
- *Session.* In a chunked session a refused call, or a chunk that is too long,
  is never followed by a look at the clock, so calls are carried out after the
  shift is over (`ClockEndsTheShift` states exactly how far). The docstring of
  the embodied adapter says a chunk's calls execute in order where
  `chunk.py:385` carries out the first only. Nothing counts towards
  `output_tokens` and `wall_seconds`.
- *Embodied.* A degraded episode keeps walking on the graph while its pawn stays
  (`embodied_env.py:760`), and the pawn of a leg given up is not brought back
  (1896). After a re-open the pixel is sent again (2027). `_walk_leg` takes any
  exception with a reason for a refusal (1703).
- *Pixel Goal.* A turn that fails half way leaves the courier facing elsewhere
  (`pixel_goal_courier_backend.py:828`, against the promise at 813). The
  certifier glues a torn last line of its journal to the next row, and rows of
  errors count as done. The loader accepts a spawn that is a pass-through node.
- *Streets.* The look ahead for barriers passes doors and lamps where a walk
  stops. By the cause of finding 4 a candidate line is written under the list
  of lamps sent the turn before and may overshoot a lamp the walk stops at
  (`courier_env.py:2012` against 2794), although `_block_preview` promises to
  walk "the same stop rules as `_run_street`" (1995); `AdviceIsTheWalk` states
  exactly when.

## 6. Plan

1. `RenderPool`, `SeatLease`, `QuarantineFile` – done, all safety proved.
2. `OrderBook`, `PhoneScreen` – done, all safety proved.
3. `CourierSession`, `GymEnv` – done, all safety proved.
4. `EmbodiedFleet` on `SeatLease` – done, all safety proved.
5. `PoolLegs`, `PixelRuntime`, `PixelGoal` – done, all safety proved.
6. `StreetWalk` – done, all safety proved.
7. Left: the safety halves of the other liveness properties (a measure that
   each step of an opening, a walk, a render and a session lowers); that a run
   of `StreetWalk` is the one step `Walk` of `OrderBook`; the reference oracles
   and the older track's loop, if they earn it.

## 7. Not modelled

The map covers about a tenth of the implementation. The rest is mostly not
behaviour over time: text (prompts, parser wording, names, memory notes),
drawing, camera geometry and anything else in floating point, the compiler's
offline pipeline, gradients and token masks, records that decide nothing
(trace, telemetry, reports, artefact finalizers), launchers and audits, data
classes and their serialisation. Of the files that are modelled, what is left
out is named per component in `PROJECT.json`: of `courier_env.py` the words,
the map and the matching of a pose to a node; of `embodied_env.py` trajectories
and hop geometry; of the Pixel Goal tools sampling, hashes and provenance; of
the UE plugin everything but the subsystem that moves the pawn.

Parts with state that are left out on purpose: the episode album (each adapter
writes a directory of its own on one thread and keeps what it wrote), the render
client (it retries once within a call, and its callers take what it returns or
raises as choices), the curriculum (random draws over finished episodes), the
vendored environment of the older track, whose code is elsewhere.
`output_tokens` and `wall_seconds` are left out of the budgets because no code
counts them. The progress shaping and the hourly rate of the training
environment need distances and division the properties do not.

## 8. Running

    tlc -config PoolMixed.cfg MCRenderPool
    tlc -config FileShared.cfg MCQuarantineFile
    tlc -config CourierShift.cfg MCPhoneScreen
    tlc -config GymShift.cfg MCGymEnv
    tlc -config FleetShift.cfg MCEmbodiedFleet
    tlc -config PixelWalks.cfg MCPixelGoal
    tlc -config StreetShift.cfg MCStreetWalk
    tlapm StreetWalkProofs.tla

The longest runs take a minute or two each; `PixelGoalProofs` and
`StreetWalkProofs` take longest to prove from nothing.
