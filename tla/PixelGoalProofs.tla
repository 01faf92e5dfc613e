--------------------------- MODULE PixelGoalProofs ---------------------------
(***************************************************************************)
(* Proofs about PixelGoal for every pool, every table of certified legs    *)
(* and every number of re-plans.                                           *)
(***************************************************************************)
EXTENDS PixelGoal, FiniteSums, FiniteSetTheorems, SequenceTheorems, TLAPS

NodeOrNone == Node \union {NoNode}
Step == [start : Node, stop : Node, aim : Node]

Place == Spot \union {Away}
Where == [at : Place, off : {"on", "near"}, yaw : 0..3]

(* The types; of a move only its state and its result are asked.           *)
PoseTypes ==
  /\ pawn \in Where /\ pose \in Where
  /\ pairs \in [at : Place \union {NoNode}, off : {"on", "near"}, yaw : 0..3]

MoveTypes ==
  /\ move.state \in {"none", "moving", "completed", "failed", "cancelled"}
  /\ move = [state |-> move.state, said |-> move.said,
             goals |-> move.goals, path |-> move.path]
  /\ move.state = "completed" => move.said = "success"
  /\ drive \in [at : {"idle", "poll", "polled", "cancel"}, late : BOOLEAN,
                reason : {"none", "execution_timeout", "wall_watchdog_timeout"}]
  /\ drive.at = "idle" => drive = Idle
  /\ result \in Outcome

CourseTypes ==
  /\ quad \in BOOLEAN /\ pool \in Loaded /\ node \in Node /\ shown \in BOOLEAN
  /\ pc \in {"down", "ready", "legs", "driving"} /\ outcome \in Code

Walks == [dest : NodeOrNone, node : NodeOrNone, queue : Seq(Step),
          refused : SUBSET (Node \X Node), replans : Nat, count : {0, 1}, broken : BOOLEAN]

PixelTypes == PoseTypes /\ MoveTypes /\ CourseTypes /\ walk \in Walks

(* A host that drives nothing has no result, between calls the game has no *)
(* move, and photographs are there between calls only.                     *)
Still ==
  /\ shown => pc = "ready"
  /\ pc # "driving" => drive = Idle /\ result = "none"
  /\ pc \in {"ready", "legs"} => move = NoMove
  /\ pc = "legs" => quad

(* Between moves the client knows where the pawn is.                       *)
PoseIsPawn ==
  pc \in {"ready", "legs"} => pose.at = pawn.at /\ pose.off = pawn.off

(* Photographs that may still be pointed at were taken where the pawn is.  *)
PhotosAreHere ==
  pc = "ready" /\ shown =>
    /\ pairs.at = pawn.at /\ pairs.off = pawn.off
    /\ ~quad => pairs = pawn

(* What is left of a walk: moves over certified legs that were not         *)
(* refused, each from where the one before it stops, from the walk's node  *)
(* to its destination.                                                     *)
Leads(queue, from, to) ==
  /\ queue = <<>> => from = to
  /\ queue # <<>> => queue[1].start = from /\ queue[Len(queue)].stop = to
  /\ \A i \in 1..(Len(queue) - 1) : queue[i].stop = queue[i + 1].start

Rides(queue, legs) ==
  \A i \in 1..Len(queue) : <<queue[i].start, queue[i].aim>> \in legs

StopsOn(queue, stops) == \A i \in 1..Len(queue) : queue[i].stop \in stops

UnderWay == pc \in {"legs", "driving"} /\ quad

WalkLeads ==
  UnderWay =>
    /\ walk.node \in Node /\ walk.dest \in Node
    /\ walk.count = 0 => walk.node # walk.dest
    /\ ~walk.broken =>
         /\ Leads(walk.queue, walk.node, walk.dest)
         /\ Rides(walk.queue, pool.legs \ walk.refused)

(* A move is only under way along a leg of the walk.                       *)
OnALeg == pc = "driving" /\ quad => ~walk.broken /\ walk.queue # <<>>

(* Before the first move and after the last the graph has the pawn's stop. *)
NodeIsStop ==
  /\ pc = "ready" /\ quad /\ pawn.at \in pool.stops => node = pawn.at
  /\ pc = "legs" /\ ~walk.broken /\ pawn.at \in pool.stops => walk.node = pawn.at

(* A walk that arrived did.                                                *)
ArrivedIsThere ==
  pc = "ready" /\ quad /\ outcome = "arrived" =>
    node = walk.dest /\ pawn.at = node /\ pawn.off = "on"

(* Nothing of an episode outlives the harness that ran it.                 *)
AtHome ==
  pc = "down" => node = Spawn /\ pose = Home /\ walk = NoWalk /\ outcome = "none"

PixelInv ==
  /\ PixelTypes /\ Still /\ ReportedIsWhatHappened /\ PoseIsPawn /\ PhotosAreHere
  /\ WalkLeads /\ OnALeg /\ NodeIsStop /\ ArrivedIsThere /\ PixelsStayFresh /\ AtHome

(* A walk is among the stops of the pool, which all reach one another.     *)
WayInv ==
  /\ EveryStopHasAWay
  /\ quad => node \in pool.stops
  /\ UnderWay =>
       /\ walk.node \in pool.stops
       /\ ~walk.broken => StopsOn(walk.queue, pool.stops)

------------------------------------------------------------------------------
(* Trails, moves and plans.                                                *)

LEMMA PathsAreSequences ==
  ASSUME NEW p \in SetToAllKPermutations(Node) \ {<<>>}
  PROVE  p \in Seq(Node) /\ Len(p) \in Nat \ {0}
<1>1. PICK s \in SUBSET Node : p \in [1..Cardinality(s) -> s]
  BY DEF SetToAllKPermutations, SetToSeqs
<1>2. Cardinality(s) \in Nat
  BY PoolAssumption, FS_Subset, FS_CardinalityType
<1>3. p \in Seq(Node)
  BY <1>1, <1>2
<1>4. Len(p) # 0
  BY <1>3
<1>5. QED
  BY <1>3, <1>4

LEMMA TrailPaths ==
  ASSUME NEW t \in Trails
  PROVE  t.path \in SetToAllKPermutations(Node) \ {<<>>}
BY DEF Trails

LEMMA TrailsJoiningAre ==
  ASSUME NEW a \in Node, NEW b \in Node
  PROVE  TrailsJoining(a, b) = {u \in Trails : Joins(u, a, b)}
<1>1. ASSUME NEW p \in PoolTrails, p.ends = <<a, b>>
      PROVE  p.trails = {u \in Trails : Joins(u, a, b)}
  <2>1. PICK ends \in Node \X Node :
          p = [ends |-> ends, trails |-> {u \in Trails : Joins(u, ends[1], ends[2])}]
    BY DEF PoolTrails
  <2>2. ends = <<a, b>>
    BY <1>1, <2>1
  <2>3. QED
    BY <2>1, <2>2
<1>2. \E p \in PoolTrails : p.ends = <<a, b>>
  <2> DEFINE ends == <<a, b>>
             p == [ends |-> ends, trails |-> {u \in Trails : Joins(u, ends[1], ends[2])}]
  <2>1. ends \in Node \X Node
    OBVIOUS
  <2>2. p \in PoolTrails
    BY <2>1, Zenon DEF PoolTrails
  <2>3. QED
    BY <2>2
<1>3. QED
  BY <1>1, <1>2 DEF TrailsJoining

LEMMA TrailsJoin ==
  ASSUME NEW a \in Node, NEW b \in Node, NEW t \in TrailsJoining(a, b)
  PROVE  /\ t.path \in Seq(Node) /\ Len(t.path) \in Nat \ {0}
         /\ t.path[1] = a /\ t.path[Len(t.path)] = b
<1>1. t \in Trails /\ Joins(t, a, b)
  BY TrailsJoiningAre
<1>2. t.path \in Seq(Node) /\ Len(t.path) \in Nat \ {0}
  BY <1>1, TrailPaths, PathsAreSequences
<1>3. QED
  BY <1>1, <1>2 DEF Joins, Last

(* The moves of a pool that loads ride its certified legs.                 *)
LEMMA MovesRideLegs ==
  ASSUME NEW p \in Loaded
  PROVE  /\ p.stops \subseteq Node /\ p.legs \subseteq Node \X Node
         /\ \A m \in p.moves :
              m \in Step /\ <<m.start, m.aim>> \in p.legs /\ m.stop \in p.stops
<1>1. PICK file \in Pools :
        p = [stops |-> file.stops, legs |-> file.legs, moves |-> CertifiedMoves(file)]
  BY DEF Loaded
<1>2. file.stops \subseteq Node /\ file.legs \subseteq Node \X Node
  BY PixelAssumption DEF Pool
<1>3. ASSUME NEW m \in CertifiedMoves(file)
      PROVE  m \in Step /\ <<m.start, m.aim>> \in file.legs /\ m.stop \in file.stops
  <2>1. PICK leg \in file.legs, stop \in file.stops :
          m = [start |-> leg[1], stop |-> stop, aim |-> leg[2]]
    <3>1. PICK r \in LegsAndStops(file) :
            m = [start |-> r[1][1], stop |-> r[2], aim |-> r[1][2]]
      BY DEF CertifiedMoves
    <3>2. PICK leg \in file.legs :
            r \in {<<leg, stop>> :
                     stop \in ToSet(Tail(LegChain(leg))) \intersect file.stops}
      BY <3>1 DEF LegsAndStops
    <3>3. PICK stop \in file.stops : r = <<leg, stop>>
      BY <3>2
    <3>4. QED
      BY <3>1, <3>3
  <2>2. leg \in Node \X Node /\ stop \in Node
    BY <1>2
  <2>3. QED
    BY <2>1, <2>2 DEF Step
<1>4. QED
  BY <1>1, <1>2, <1>3

(* What plan_pool_legs returns: a route from one node to the other, over   *)
(* moves of the pool, none along a leg to be avoided.                      *)
LEMMA PlansLead ==
  ASSUME NEW p \in Loaded, NEW from \in Node, NEW to \in Node, NEW avoid,
         NEW plan \in PlanPoolLegs(p.moves, from, to, avoid)
  PROVE  /\ plan \in Seq(Step) /\ Leads(plan, from, to) /\ Rides(plan, p.legs \ avoid)
         /\ StopsOn(plan, p.stops)
<1> DEFINE moves == {m \in p.moves : <<m.start, m.aim>> \notin avoid}
           joined == {<<m.start, m.stop>> : m \in moves}
<1>1. PICK t \in TrailsJoining(from, to) :
        Steps(t) \subseteq joined /\ plan = Route(t, moves)
  BY DEF PlanPoolLegs
<1> DEFINE n == Len(t.path)
<1>2. /\ t.path \in Seq(Node) /\ n \in Nat \ {0}
      /\ t.path[1] = from /\ t.path[n] = to
  BY <1>1, TrailsJoin
<1>3. \A i \in 1..(n - 1) :
        /\ plan[i] \in moves
        /\ plan[i].start = t.path[i] /\ plan[i].stop = t.path[i + 1]
  <2> SUFFICES ASSUME NEW i \in 1..(n - 1)
               PROVE  /\ plan[i] \in moves
                      /\ plan[i].start = t.path[i] /\ plan[i].stop = t.path[i + 1]
    OBVIOUS
  <2>1. <<t.path[i], t.path[i + 1]>> \in joined
    BY <1>1 DEF Steps
  <2>2. \E m \in moves : m.start = t.path[i] /\ m.stop = t.path[i + 1]
    BY <2>1
  <2>3. plan[i] = CHOOSE m \in moves : m.start = t.path[i] /\ m.stop = t.path[i + 1]
    BY <1>1 DEF Route
  <2>4. QED
    BY <2>2, <2>3
<1>4. \A m \in moves : /\ m \in Step /\ m.stop \in p.stops
                       /\ <<m.start, m.aim>> \in p.legs \ avoid
  BY MovesRideLegs
<1>5. plan \in Seq(Step) /\ Len(plan) = n - 1
  <2>1. plan = [i \in 1..(n - 1) |-> plan[i]]
    BY <1>1 DEF Route
  <2>2. \A i \in 1..(n - 1) : plan[i] \in Step
    BY <1>3, <1>4
  <2>3. n - 1 \in Nat
    BY <1>2
  <2> HIDE DEF n
  <2>4. plan \in [1..(n - 1) -> Step]
    BY <2>1, <2>2
  <2>5. QED
    BY <2>3, <2>4
<1>6. Leads(plan, from, to)
  <2>1. plan = <<>> => from = to
    BY <1>2, <1>5
  <2>2. plan # <<>> => plan[1].start = from /\ plan[Len(plan)].stop = to
    <3>1. n - 1 \in Nat
      BY <1>2
    <3>2. CASE plan # <<>>
      <4>1. Len(plan) # 0
        BY <1>5, <3>2
      <4>2. 1 \in 1..(n - 1) /\ n - 1 \in 1..(n - 1)
        <5>1. Len(plan) = n - 1 /\ n \in Nat
          BY <1>2, <1>5
        <5> HIDE DEF n
        <5>2. n - 1 # 0
          BY <4>1, <5>1
        <5>3. QED
          BY <3>1, <5>1, <5>2
      <4>3. plan[1].start = t.path[1] /\ plan[n - 1].stop = t.path[(n - 1) + 1]
        BY <1>3, <4>2
      <4>4. QED
        BY <1>2, <1>5, <4>3
    <3>3. QED
      BY <3>2
  <2>3. \A i \in 1..(Len(plan) - 1) : plan[i].stop = plan[i + 1].start
    <3> SUFFICES ASSUME NEW i \in 1..(Len(plan) - 1)
                 PROVE  plan[i].stop = plan[i + 1].start
      OBVIOUS
    <3>1. i \in 1..(n - 1) /\ i + 1 \in 1..(n - 1)
      BY <1>2, <1>5
    <3>2. QED
      BY <1>3, <3>1
  <2>4. QED
    BY <2>1, <2>2, <2>3 DEF Leads
<1>7. Rides(plan, p.legs \ avoid) /\ StopsOn(plan, p.stops)
  <2>1. \A i \in 1..Len(plan) : plan[i] \in moves
    BY <1>3, <1>5
  <2>2. QED
    BY <1>4, <2>1 DEF Rides, StopsOn
<1>8. QED
  BY <1>5, <1>6, <1>7

------------------------------------------------------------------------------
(* Ways.                                                                   *)

NoRepeats(p) == \A i, j \in 1..Len(p) : i # j => p[i] # p[j]
TrailOf(p) == [path |-> p, metres |-> PathMetres(p)]

LEMMA TrailsAreTrails ==
  ASSUME NEW t \in Trails
  PROVE  t = TrailOf(t.path) /\ NoRepeats(t.path)
<1>1. PICK p \in SetToAllKPermutations(Node) \ {<<>>} :
        t = [path |-> p, metres |-> PathMetres(p)]
  BY DEF Trails
<1>2. PICK s \in SUBSET Node : p \in SetToSeqs(s)
  BY <1>1 DEF SetToAllKPermutations
<1>3. p \in [1..Cardinality(s) -> s]
      /\ \A i, j \in 1..Cardinality(s) : i # j => p[i] # p[j]
  BY <1>2 DEF SetToSeqs
<1>4. Cardinality(s) \in Nat
  BY PoolAssumption, FS_Subset, FS_CardinalityType
<1>5. Len(p) = Cardinality(s)
  BY <1>3, <1>4
<1>6. QED
  BY <1>1, <1>3, <1>5 DEF NoRepeats, TrailOf

(* A walk over the nodes that visits none twice is one of the trails.      *)
LEMMA TrailMade ==
  ASSUME NEW p \in Seq(Node), NEW n \in Nat \ {0}, Len(p) = n, NoRepeats(p)
  PROVE  TrailOf(p) \in TrailsJoining(p[1], p[n])
<1> DEFINE s == {p[i] : i \in 1..n}
<1>1. p \in [1..n -> Node] /\ p[1] \in Node /\ p[n] \in Node
  OBVIOUS
<1>2. s \in SUBSET Node
  BY <1>1
<1>3. Cardinality(s) = n
  <2>1. p \in Surjection(1..n, s)
    BY <1>1 DEF Surjection
  <2>2. p \in Injection(1..n, s)
    <3>1. p \in [1..n -> s]
      BY <1>1
    <3>2. QED
      BY <3>1 DEF Injection, IsInjective, NoRepeats
  <2>3. IsFiniteSet(1..n) /\ Cardinality(1..n) = n
    BY FS_Interval
  <2>4. QED
    BY <2>1, <2>2, <2>3, FS_Surjection
<1>4. p \in SetToSeqs(s)
  BY <1>1, <1>3 DEF SetToSeqs, NoRepeats
<1>5. p \in SetToAllKPermutations(Node) \ {<<>>}
  <2>1. p # <<>>
    OBVIOUS
  <2> HIDE DEF s
  <2>2. QED
    BY <1>2, <1>4, <2>1 DEF SetToAllKPermutations
<1>6. TrailOf(p) \in Trails
  BY <1>5, Zenon DEF Trails, TrailOf
<1>7. Joins(TrailOf(p), p[1], p[n])
  BY DEF Joins, TrailOf, Last
<1>8. QED
  BY <1>1, <1>6, <1>7, TrailsJoiningAre

(* Where trails over these arcs lead.                                      *)
Reached(a, arcs) == {b \in Node : \E t \in TrailsJoining(a, b) : Steps(t) \subseteq arcs}

LEMMA ReachedStart ==
  ASSUME NEW a \in Node, NEW arcs
  PROVE  a \in Reached(a, arcs)
<1>1. PICK p \in Seq(Node) : p = <<a>>
  <2>1. <<a>> \in Seq(Node)
    OBVIOUS
  <2>2. QED
    BY <2>1, Zenon
<1>2. Len(p) = 1 /\ p[1] = a /\ NoRepeats(p)
  BY <1>1 DEF NoRepeats
<1>3. TrailOf(p) \in TrailsJoining(a, a)
  BY <1>2, TrailMade
<1>4. Steps(TrailOf(p)) = {}
  BY <1>2 DEF Steps, TrailOf
<1>5. QED
  BY <1>3, <1>4 DEF Reached

(* An arc from there leads there: the trail goes on over it, or its part   *)
(* up to the arc's end was a trail already.                                *)
LEMMA ReachedOn ==
  ASSUME NEW a \in Node, NEW arcs, NEW x \in Reached(a, arcs), NEW y \in Node,
         <<x, y>> \in arcs
  PROVE  y \in Reached(a, arcs)
<1>1. PICK t \in TrailsJoining(a, x) : Steps(t) \subseteq arcs
  BY DEF Reached
<1>2. x \in Node
  BY DEF Reached
<1> DEFINE p == t.path
           n == Len(t.path)
<1>3. /\ p \in Seq(Node) /\ n \in Nat \ {0} /\ p[1] = a /\ p[n] = x
  BY <1>2, TrailsJoin
<1>4. NoRepeats(p)
  BY <1>2, TrailsJoiningAre, TrailsAreTrails
<1>5. \A i \in 1..(n - 1) : <<p[i], p[i + 1]>> \in arcs
  BY <1>1 DEF Steps
<1> HIDE DEF p
<1>6. Len(p) = n
  BY DEF p
<1> HIDE DEF n
<1>7. CASE \E k \in 1..n : p[k] = y
  <2>1. PICK k \in 1..n : p[k] = y
    BY <1>7
  <2>2. PICK q \in Seq(Node) : q = SubSeq(p, 1, k)
    <3>1. SubSeq(p, 1, k) \in Seq(Node)
      BY <1>3, <1>6, <2>1
    <3>2. QED
      BY <3>1, Zenon
  <2>3. /\ Len(q) = k /\ k \in Nat \ {0} /\ k <= n
        /\ \A i \in 1..k : q[i] = p[i] /\ i \in 1..n
    BY <1>3, <1>6, <2>1, <2>2
  <2>4. NoRepeats(q)
    BY <1>4, <1>6, <2>3 DEF NoRepeats
  <2>5. q[1] = a /\ q[k] = y
    BY <1>3, <2>1, <2>3
  <2>6. TrailOf(q) \in TrailsJoining(a, y)
    BY <2>3, <2>4, <2>5, TrailMade
  <2>7. \A i \in 1..(k - 1) : <<q[i], q[i + 1]>> \in arcs
    <3>1. SUFFICES ASSUME NEW i \in 1..(k - 1) PROVE <<q[i], q[i + 1]>> \in arcs
      OBVIOUS
    <3>2. i \in 1..(n - 1) /\ i \in 1..k /\ i + 1 \in 1..k
      BY <1>3, <2>3
    <3>3. QED
      BY <1>5, <2>3, <3>2
  <2>8. Steps(TrailOf(q)) \subseteq arcs
    BY <2>3, <2>7 DEF Steps, TrailOf
  <2>9. QED
    BY <2>6, <2>8 DEF Reached
<1>8. CASE ~\E k \in 1..n : p[k] = y
  <2>1. PICK q \in Seq(Node) : q = Append(p, y)
    <3>1. Append(p, y) \in Seq(Node)
      BY <1>3
    <3>2. QED
      BY <3>1, Zenon
  <2>2. /\ Len(q) = n + 1 /\ n + 1 \in Nat \ {0}
        /\ q[n + 1] = y /\ \A i \in 1..n : q[i] = p[i]
    BY <1>3, <1>6, <2>1
  <2>3. \A i \in 1..(n + 1) : i = n + 1 \/ i \in 1..n
    BY <1>3
  <2>4. NoRepeats(q)
    BY <1>4, <1>6, <1>8, <2>2, <2>3 DEF NoRepeats
  <2>5. q[1] = a
    BY <1>3, <2>2
  <2>6. TrailOf(q) \in TrailsJoining(a, y)
    BY <2>2, <2>4, <2>5, TrailMade
  <2>7. \A i \in 1..n : <<q[i], q[i + 1]>> \in arcs
    <3>1. SUFFICES ASSUME NEW i \in 1..n PROVE <<q[i], q[i + 1]>> \in arcs
      OBVIOUS
    <3>2. CASE i = n
      BY <1>3, <2>2, <3>2
    <3>3. CASE i # n
      <4>1. i \in 1..(n - 1) /\ i + 1 \in 1..n
        BY <1>3, <3>3
      <4>2. QED
        BY <1>5, <2>2, <4>1
    <3>4. QED
      BY <3>2, <3>3
  <2>8. Steps(TrailOf(q)) \subseteq arcs
    <3>1. (n + 1) - 1 = n
      BY <1>3
    <3>2. QED
      BY <2>2, <2>7, <3>1 DEF Steps, TrailOf
  <2>9. QED
    BY <2>6, <2>8 DEF Reached
<1>9. QED
  BY <1>7, <1>8

(* A set that nodes connected by arcs cannot be left on holds all of them. *)
LEMMA ConnectedHolds ==
  ASSUME NEW part, NEW arcs, Connected(part, arcs), NEW W, NEW a \in part, a \in W,
         \A arc \in arcs : arc[1] \in part /\ arc[1] \in W /\ arc[2] \in part
                             => arc[2] \in W
  PROVE  part \subseteq W
<1>1. SUFFICES ASSUME part \intersect W # part PROVE FALSE
  OBVIOUS
<1>2. part \intersect W \in (SUBSET part) \ {{}, part}
  BY <1>1
<1>3. PICK arc \in arcs : /\ arc[1] \in part \intersect W
                          /\ arc[2] \in part \ (part \intersect W)
  BY <1>2 DEF Connected
<1>4. QED
  BY <1>3

LEMMA MetresAreNat ==
  ASSUME NEW a \in Node, NEW b \in Node
  PROVE  Square(a, b) \in Int /\ Metres(a, b) \in Nat
<1>1. Dx(a, b) \in Int /\ Dy(a, b) \in Int
  BY PoolAssumption DEF Dx, Dy
<1>2. Dx(a, b) * Dx(a, b) \in Int /\ Dy(a, b) * Dy(a, b) \in Int
  BY <1>1
<1>3. Square(a, b) \in Int
  BY <1>2 DEF Square
<1>4. IsFiniteSet(1..Square(a, b))
  BY <1>3, FS_Interval
<1>5. {n \in 1..Square(a, b) : n * n <= Square(a, b)} \subseteq 1..Square(a, b)
  OBVIOUS
<1>6. IsFiniteSet({n \in 1..Square(a, b) : n * n <= Square(a, b)})
  BY <1>4, <1>5, FS_Subset
<1>7. QED
  BY <1>3, <1>6, FS_CardinalityType DEF Metres

LEMMA PathsAreLong ==
  ASSUME NEW p \in Seq(Node), Len(p) # 0
  PROVE  PathMetres(p) \in Nat
<1> DEFINE S == 1..(Len(p) - 1)
           hop(i) == Metres(p[i], p[i + 1])
           Over(g, s) == IF s = {} THEN 0 ELSE hop(Pick(s)) + g[Rest(s)]
           Sums(g) == g = [s \in SUBSET S |-> Over(g, s)]
           h == [i \in S |-> hop(i)]
<1>1. IsFiniteSet(S)
  <2>1. Len(p) - 1 \in Int
    OBVIOUS
  <2>2. QED
    BY <2>1, FS_Interval
<1>2. h \in [S -> Nat]
  <2>1. \A i \in S : hop(i) \in Nat
    <3>1. SUFFICES ASSUME NEW i \in S PROVE hop(i) \in Nat
      OBVIOUS
    <3>2. i \in 1..Len(p) /\ i + 1 \in 1..Len(p)
      OBVIOUS
    <3>3. p[i] \in Node /\ p[i + 1] \in Node
      BY <3>2
    <3>4. QED
      BY <3>3, MetresAreNat
  <2> HIDE DEF hop, S
  <2>2. QED
    BY <2>1
<1>3. PathMetres(p) = (CHOOSE g : Sums(g))[S]
  BY DEF PathMetres, MapThenSumSet, MapThenFoldSet, Pick, Rest
<1> HIDE DEF hop
<1>4. ASSUME NEW g PROVE Sums(g) <=> IsSum(S, h, g)
  <2>1. \A s \in SUBSET S : Over(g, s) = SumOver(h, g, s)
    <3>1. \A s \in SUBSET S : s # {} => Pick(s) \in S
      BY <1>1, RestSays
    <3> HIDE DEF S
    <3>2. \A i \in S : h[i] = hop(i)
      OBVIOUS
    <3> HIDE DEF h
    <3>3. QED
      BY <3>1, <3>2 DEF SumOver
  <2>2. QED
    BY <2>1 DEF IsSum
<1> HIDE DEF S, h
<1>5. PICK k : IsSum(S, h, k)
  BY <1>1, SumExists
<1>6. Sums(k)
  BY <1>4, <1>5
<1> HIDE DEF Sums
<1>7. Sums(CHOOSE g : Sums(g))
  BY <1>6
<1>8. IsSum(S, h, CHOOSE g : Sums(g))
  BY <1>4, <1>7
<1>9. QED
  BY <1>1, <1>2, <1>3, <1>8, SumIsNat

LEMMA LeastIsThere ==
  ASSUME NEW S \in SUBSET Nat, S # {}
  PROVE  \E x \in S : \A y \in S : x <= y
<1>1. PICK x \in S : \A y \in S : ~(<<y, x>> \in OpToRel(<, Nat))
  BY NatLessThanWellFounded, WFMin
<1>2. \A y \in S : ~(y < x)
  BY <1>1 DEF OpToRel
<1>3. QED
  BY <1>2

(* There is a plan wherever the moves not to be avoided lead.              *)
LEMMA PlansAreThere ==
  ASSUME NEW certified, NEW from \in Node, NEW to \in Node, NEW avoid, NEW arcs,
         to \in Reached(from, arcs),
         \A arc \in arcs : \E m \in certified :
           arc = <<m.start, m.stop>> /\ <<m.start, m.aim>> \notin avoid
  PROVE  PlanPoolLegs(certified, from, to, avoid) # {}
<1> DEFINE moves == {m \in certified : <<m.start, m.aim>> \notin avoid}
           joined == {<<m.start, m.stop>> : m \in moves}
           routes == {t \in TrailsJoining(from, to) : Steps(t) \subseteq joined}
<1>1. arcs \subseteq joined
  OBVIOUS
<1>2. routes # {}
  BY <1>1 DEF Reached
<1>3. \A t \in routes : RouteCost(t) \in Nat
  <2>1. SUFFICES ASSUME NEW t \in TrailsJoining(from, to) PROVE RouteCost(t) \in Nat
    OBVIOUS
  <2>2. t.path \in Seq(Node) /\ Len(t.path) \in Nat \ {0}
    BY TrailsJoin
  <2>3. t = TrailOf(t.path)
    BY TrailsJoiningAre, TrailsAreTrails
  <2>4. t.metres = PathMetres(t.path)
    BY <2>3 DEF TrailOf
  <2>5. t.metres \in Nat
    BY <2>2, <2>4, PathsAreLong
  <2>6. (Len(t.path) - 1) * StepCost \in Nat
    <3>1. Len(t.path) - 1 \in Nat /\ StepCost \in Nat
      BY <2>2, PoolAssumption
    <3>2. \A x, y \in Nat : x * y \in Nat
      OBVIOUS
    <3>3. QED
      BY <3>1, <3>2
  <2>7. QED
    BY <2>5, <2>6 DEF RouteCost
<1> HIDE DEF routes
<1>4. PICK u \in routes : \A v \in routes : RouteCost(u) <= RouteCost(v)
  <2> DEFINE costs == {RouteCost(t) : t \in routes}
  <2>1. costs \in SUBSET Nat /\ costs # {}
    BY <1>2, <1>3
  <2>2. PICK x \in costs : \A y \in costs : x <= y
    <3> HIDE DEF costs
    <3>1. QED
      BY <2>1, LeastIsThere
  <2>3. QED
    BY <2>2
<1>5. Route(u, moves) \in PlanPoolLegs(certified, from, to, avoid)
  BY <1>4 DEF PlanPoolLegs, routes
<1>6. QED
  BY <1>5

(* The chain of a leg: a walk over the pool's edges from its one end to    *)
(* its other, by way of some other place at least.                         *)
LEMMA ChainsJoin ==
  ASSUME NEW leg \in CandidateLegs
  PROVE  /\ leg \in Node \X Node /\ leg[1] # leg[2]
         /\ LegChain(leg) \in ChainWithin(Node, Edge, leg[1], leg[2])
<1>1. /\ leg \in Node \X Node /\ leg[1] # leg[2]
      /\ ChainWithin(Node, Edge, leg[1], leg[2]) # {}
  BY DEF CandidateLegs
<1> DEFINE c(l) == CHOOSE t \in ChainWithin(Node, Edge, l[1], l[2]) : TRUE
<1>2. c(leg) \in ChainWithin(Node, Edge, leg[1], leg[2])
  BY <1>1
<1>3. Chained = {[ends |-> l, chain |-> c(l)] : l \in CandidateLegs}
  BY DEF Chained
<1> HIDE DEF c
<1>4. [ends |-> leg, chain |-> c(leg)] \in Chained
  BY <1>3
<1>5. \A k \in Chained : k.ends = leg => k.chain = c(leg)
  BY <1>3
<1>6. LegChain(leg) = c(leg)
  BY <1>4, <1>5 DEF LegChain
<1>7. QED
  BY <1>1, <1>2, <1>6

IsChain(c, a, b, edges) ==
  /\ c \in Seq(Node) /\ Len(c) \in Nat \ {0} /\ c[1] = a /\ c[Len(c)] = b
  /\ a # b => Len(c) > 1
  /\ \A i \in 1..(Len(c) - 1) : {c[i], c[i + 1]} \in edges

LEMMA ChainSays ==
  ASSUME NEW nodes, NEW edges, NEW a \in Node, NEW b \in Node,
         NEW c \in ChainWithin(nodes, edges, a, b)
  PROVE  IsChain(c, a, b, edges)
<1>1. PICK t \in TrailsJoining(a, b) :
        c = t.path /\ \A s \in Steps(t) : {s[1], s[2]} \in edges
  BY DEF ChainWithin
<1>2. c \in Seq(Node) /\ Len(c) \in Nat \ {0} /\ c[1] = a /\ c[Len(c)] = b
  BY <1>1, TrailsJoin
<1>3. a # b => Len(c) > 1
  BY <1>2
<1>4. \A i \in 1..(Len(c) - 1) : {c[i], c[i + 1]} \in edges
  <2>1. SUFFICES ASSUME NEW i \in 1..(Len(c) - 1) PROVE {c[i], c[i + 1]} \in edges
    OBVIOUS
  <2>2. <<c[i], c[i + 1]>> \in Steps(t)
    BY <1>1 DEF Steps
  <2>3. QED
    BY <1>1, <2>2
<1>5. QED
  BY <1>2, <1>3, <1>4 DEF IsChain

(* Every certified leg is a move: the one aimed at its own end.            *)
LEMMA LegsAreMoves ==
  ASSUME NEW file \in Pools, Loads(file), NEW leg \in file.legs
  PROVE  /\ leg[1] \in file.stops /\ leg[2] \in file.stops /\ leg \in Node \X Node
         /\ \E m \in CertifiedMoves(file) :
              leg = <<m.start, m.stop>> /\ <<m.start, m.aim>> = leg
<1>1. leg \in file.stops \X file.stops /\ leg \in CandidateLegs
  BY DEF Loads, LoadsCertifiedLegs, LegsOfThePool
<1>2. /\ leg \in Node \X Node /\ leg[1] # leg[2]
      /\ LegChain(leg) \in ChainWithin(Node, Edge, leg[1], leg[2])
  BY <1>1, ChainsJoin
<1>3. PICK c : c = LegChain(leg)
  OBVIOUS
<1>4. c \in Seq(Node) /\ Len(c) \in Nat \ {0} /\ Len(c) > 1 /\ c[Len(c)] = leg[2]
  <2>1. leg[1] \in Node /\ leg[2] \in Node
    BY <1>2
  <2>2. c \in ChainWithin(Node, Edge, leg[1], leg[2])
    BY <1>2, <1>3
  <2>3. IsChain(c, leg[1], leg[2], Edge)
    BY <2>1, <2>2, ChainSays
  <2>4. QED
    BY <1>2, <2>3 DEF IsChain
<1>5. leg[2] \in ToSet(Tail(c))
  <2>1. c # <<>>
    BY <1>4
  <2>2. /\ Tail(c) \in Seq(Node) /\ Len(Tail(c)) = Len(c) - 1
        /\ \A i \in 1..Len(Tail(c)) : Tail(c)[i] = c[i + 1]
    BY <1>4, <2>1, HeadTailProperties
  <2>3. Len(c) - 1 \in 1..Len(Tail(c)) /\ (Len(c) - 1) + 1 = Len(c)
    BY <1>4, <2>2
  <2>4. Tail(c)[Len(c) - 1] = leg[2] /\ Len(c) - 1 \in DOMAIN Tail(c)
    BY <1>4, <2>2, <2>3
  <2>5. QED
    BY <2>4 DEF ToSet
<1>6. PICK r \in LegsAndStops(file) : r = <<leg, leg[2]>>
  <2>1. leg[2] \in ToSet(Tail(LegChain(leg))) \intersect file.stops
    BY <1>1, <1>3, <1>5
  <2>2. <<leg, leg[2]>> \in LegsAndStops(file)
    BY <2>1 DEF LegsAndStops
  <2>3. QED
    BY <2>2
<1>7. [start |-> leg[1], stop |-> leg[2], aim |-> leg[2]] \in CertifiedMoves(file)
  BY <1>6 DEF CertifiedMoves
<1>8. QED
  BY <1>1, <1>2, <1>7

(* From every stop of a pool that loads there is a plan to every other.    *)
LEMMA StopsHaveWays ==
  ASSUME NEW p \in Loaded, NEW from \in p.stops, NEW to \in p.stops
  PROVE  PlanPoolLegs(p.moves, from, to, {}) # {}
<1>1. PICK file \in Pools :
        /\ Loads(file)
        /\ p = [stops |-> file.stops, legs |-> file.legs, moves |-> CertifiedMoves(file)]
  BY DEF Loaded
<1>2. from \in Node /\ to \in Node /\ p.stops \subseteq Node
  BY MovesRideLegs
<1>3. Connected(p.stops, p.legs)
  BY <1>1 DEF Loads, LoadsCertifiedLegs
<1>4. \A arc \in p.legs : /\ arc[2] \in Node /\ arc = <<arc[1], arc[2]>>
                          /\ \E m \in p.moves : arc = <<m.start, m.stop>>
  BY <1>1, LegsAreMoves
<1>5. from \in Reached(from, p.legs)
  BY <1>2, ReachedStart
<1>6. \A arc \in p.legs : arc[1] \in Reached(from, p.legs)
                            => arc[2] \in Reached(from, p.legs)
  BY <1>2, <1>4, ReachedOn
<1>7. to \in Reached(from, p.legs)
  BY <1>3, <1>5, <1>6, ConnectedHolds
<1>8. QED
  BY <1>2, <1>4, <1>7, PlansAreThere

------------------------------------------------------------------------------
(* The pools the tool writes.                                              *)

(* What the tool writes for a leg: its chain, node by node and edge by     *)
(* edge, whatever other legs went.                                         *)
Keeps(file, leg) ==
  /\ leg \in CandidateLegs /\ leg[1] \in file.stops /\ leg[2] \in file.stops
  /\ ToSet(LegChain(leg)) \subseteq file.nodes
  /\ \A i \in 1..(Len(LegChain(leg)) - 1) :
       {LegChain(leg)[i], LegChain(leg)[i + 1]} \in file.edges

Written(file, component, accepted) ==
  /\ file.stops = component /\ component \subseteq file.nodes
  /\ file.legs = {leg \in accepted : leg[1] \in component /\ leg[2] \in component}
  /\ \A leg \in file.legs : Keeps(file, leg)
  /\ file.edges \subseteq Edge
  /\ file.legs = {} => file.edges = {}

LEMMA LegsAreKept ==
  ASSUME NEW accepted \in SUBSET CandidateLegs, NEW component \in SUBSET Node, NEW file,
         file = PrunedTo(component, accepted)
  PROVE  Written(file, component, accepted)
<1> DEFINE legs == {leg \in accepted : leg[1] \in component /\ leg[2] \in component}
           chains == {LegChain(leg) : leg \in legs}
           edgesOf(c) == {{c[i], c[i + 1]} : i \in 1..(Len(c) - 1)}
<1>1. /\ file.stops = component /\ file.legs = legs
      /\ file.nodes = component \union UNION {ToSet(c) : c \in chains}
      /\ file.edges = UNION {edgesOf(c) : c \in chains}
  BY DEF PrunedTo
<1>2. ASSUME NEW leg \in legs
      PROVE  /\ Keeps(file, leg) /\ edgesOf(LegChain(leg)) \subseteq Edge
  <2>1. leg \in CandidateLegs /\ leg[1] \in component /\ leg[2] \in component
    OBVIOUS
  <2>2. LegChain(leg) \in chains
    OBVIOUS
  <2>3. ToSet(LegChain(leg)) \subseteq file.nodes
    <3> HIDE DEF chains
    <3>1. QED
      BY <1>1, <2>2
  <2>4. edgesOf(LegChain(leg)) \subseteq file.edges
    <3> HIDE DEF chains, edgesOf
    <3>1. QED
      BY <1>1, <2>2
  <2>5. IsChain(LegChain(leg), leg[1], leg[2], Edge)
    <3>1. leg[1] \in Node /\ leg[2] \in Node
      BY <2>1
    <3>2. QED
      BY <2>1, <3>1, ChainsJoin, ChainSays
  <2>6. edgesOf(LegChain(leg)) \subseteq Edge
    BY <2>5 DEF IsChain
  <2>7. \A i \in 1..(Len(LegChain(leg)) - 1) :
          {LegChain(leg)[i], LegChain(leg)[i + 1]} \in file.edges
    BY <2>4
  <2>8. QED
    BY <1>1, <2>1, <2>3, <2>6, <2>7 DEF Keeps
<1> HIDE DEF edgesOf
<1>3. file.edges \subseteq Edge
  BY <1>1, <1>2
<1>4. legs = {} => file.edges = {}
  BY <1>1
<1>5. component \subseteq file.nodes
  BY <1>1
<1>6. QED
  BY <1>1, <1>2, <1>3, <1>4, <1>5 DEF Written

(* The chain of a kept leg is still the shortest there is.                 *)
LEMMA KeptChainsStay ==
  ASSUME NEW file, file.edges \subseteq Edge, NEW leg, Keeps(file, leg)
  PROVE  LegChain(leg) \in ChainWithin(file.nodes, file.edges, leg[1], leg[2])
<1> DEFINE a == leg[1]
           b == leg[2]
           paths(nodes, edges) ==
             {t \in TrailsJoining(a, b) :
                /\ ToSet(t.path) \subseteq NodesAlong(a, b) \intersect nodes
                /\ \A s \in Steps(t) : {s[1], s[2]} \in edges}
           c == LegChain(leg)
<1>1. leg \in CandidateLegs /\ a \in Node /\ b \in Node
  BY ChainsJoin DEF Keeps
<1>2. c \in ChainWithin(Node, Edge, a, b)
  BY <1>1, ChainsJoin
<1>3. PICK t \in paths(Node, Edge) :
        c = t.path /\ \A v \in paths(Node, Edge) : t.metres <= v.metres
  BY <1>2 DEF ChainWithin
<1>4. t \in paths(file.nodes, file.edges)
  <2>1. ToSet(t.path) \subseteq NodesAlong(a, b) \intersect file.nodes
    BY <1>3 DEF Keeps
  <2>2. \A s \in Steps(t) : {s[1], s[2]} \in file.edges
    <3>1. \A i \in 1..(Len(c) - 1) : {c[i], c[i + 1]} \in file.edges
      BY DEF Keeps
    <3>2. SUFFICES ASSUME NEW s \in Steps(t) PROVE {s[1], s[2]} \in file.edges
      OBVIOUS
    <3>3. PICK i \in 1..(Len(c) - 1) : s = <<c[i], c[i + 1]>>
      BY <1>3, <3>2 DEF Steps
    <3>4. s[1] = c[i] /\ s[2] = c[i + 1]
      BY <3>3
    <3>5. QED
      BY <3>1, <3>4
  <2>3. QED
    BY <1>3, <2>1, <2>2
<1>5. paths(file.nodes, file.edges) \subseteq paths(Node, Edge)
  BY DEF NodesAlong
<1>6. \A v \in paths(file.nodes, file.edges) : t.metres <= v.metres
  BY <1>3, <1>5
<1>7. QED
  BY <1>3, <1>4, <1>6 DEF ChainWithin

(* Both ways along the edges.                                              *)
ArcsOf(edges) == {arc \in Node \X Node : {arc[1], arc[2]} \in edges}

(* A chain leads where its edges do.                                       *)
LEMMA ChainsLead ==
  ASSUME NEW from \in Node, NEW edges, NEW a, NEW b, NEW c, IsChain(c, a, b, edges),
         a \in Reached(from, ArcsOf(edges))
  PROVE  b \in Reached(from, ArcsOf(edges))
<1> DEFINE W == Reached(from, ArcsOf(edges))
           N == {k \in Nat : k + 1 <= Len(c) => c[k + 1] \in W}
<1>1. /\ c \in Seq(Node) /\ Len(c) \in Nat \ {0} /\ c[1] = a /\ c[Len(c)] = b
      /\ \A i \in 1..(Len(c) - 1) : {c[i], c[i + 1]} \in edges
  BY DEF IsChain
<1>2. 0 \in N
  BY <1>1
<1>3. ASSUME NEW k \in N PROVE k + 1 \in N
  <2>1. SUFFICES ASSUME (k + 1) + 1 <= Len(c) PROVE c[(k + 1) + 1] \in W
    OBVIOUS
  <2>2. /\ k + 1 \in 1..(Len(c) - 1) /\ k + 1 \in 1..Len(c) /\ (k + 1) + 1 \in 1..Len(c)
        /\ k + 1 <= Len(c)
    BY <1>1, <2>1
  <2>3. c[k + 1] \in W /\ c[(k + 1) + 1] \in Node /\ c[k + 1] \in Node
    BY <1>1, <2>2
  <2>4. {c[k + 1], c[(k + 1) + 1]} \in edges
    BY <1>1, <2>2
  <2>5. <<c[k + 1], c[(k + 1) + 1]>> \in ArcsOf(edges)
    BY <2>3, <2>4 DEF ArcsOf
  <2>6. QED
    BY <2>3, <2>5, ReachedOn
<1> HIDE DEF W
<1>4. Nat \subseteq N
  <2>1. N \in SUBSET Nat
    OBVIOUS
  <2> HIDE DEF N
  <2>2. QED
    BY <1>2, <1>3, <2>1, CountingUp
<1>5. Len(c) - 1 \in Nat /\ (Len(c) - 1) + 1 = Len(c)
  BY <1>1
<1>6. c[(Len(c) - 1) + 1] \in W
  BY <1>4, <1>5
<1>7. QED
  BY <1>1, <1>5, <1>6 DEF W

(* Nodes that all reach one another by legs that were kept do so along     *)
(* their edges.                                                            *)
LEMMA EdgesJoinStops ==
  ASSUME NEW file, file.stops \in SUBSET Node, Connected(file.stops, file.legs),
         \A leg \in file.legs : Keeps(file, leg), NEW a \in file.stops
  PROVE  file.stops \subseteq Reached(a, ArcsOf(file.edges))
<1> DEFINE W == Reached(a, ArcsOf(file.edges))
<1>1. a \in Node /\ a \in W
  BY ReachedStart
<1>2. ASSUME NEW leg \in file.legs, leg[1] \in W PROVE leg[2] \in W
  <2>1. leg \in CandidateLegs
    BY DEF Keeps
  <2>2. leg[1] \in Node /\ leg[2] \in Node
    BY <2>1 DEF CandidateLegs
  <2>3. IsChain(LegChain(leg), leg[1], leg[2], Edge)
    BY <2>1, <2>2, ChainsJoin, ChainSays
  <2>4. IsChain(LegChain(leg), leg[1], leg[2], file.edges)
    BY <2>3 DEF IsChain, Keeps
  <2>5. QED
    BY <1>1, <1>2, <2>4, ChainsLead
<1>3. QED
  BY <1>1, <1>2, ConnectedHolds

LEMMA PruneLoads ==
  ASSUME NEW accepted \in SUBSET CandidateLegs, NEW file \in Prune(accepted)
  PROVE  WrittenWell(file)
<1>1. PICK component \in LargestComponents(accepted) :
        file = PrunedTo(component, accepted)
  BY DEF Prune
<1>2. component \in SUBSET Node /\ component # {} /\ Connected(component, accepted)
  BY DEF LargestComponents
<1>3. /\ file.stops = component /\ component \subseteq file.nodes
      /\ file.legs = {leg \in accepted : leg[1] \in component /\ leg[2] \in component}
      /\ \A leg \in file.legs : Keeps(file, leg)
      /\ file.edges \subseteq Edge
      /\ file.legs = {} => file.edges = {}
  <2>1. Written(file, component, accepted)
    BY <1>1, <1>2, LegsAreKept
  <2>2. QED
    BY <2>1 DEF Written
<1>4. Protected \subseteq file.stops /\ file.nodes \subseteq UNION file.edges
  BY DEF Prune
<1>5. file.legs # {}
  BY <1>2, <1>3, <1>4
<1>6. Connected(file.stops, file.legs)
  BY <1>2, <1>3 DEF Connected
<1>7. file.legs \subseteq file.stops \X file.stops
  <2>1. \A leg \in file.legs : leg = <<leg[1], leg[2]>>
    BY <1>3 DEF CandidateLegs
  <2>2. QED
    BY <1>3, <2>1 DEF Keeps
<1>8. \A leg \in file.legs :
        LegChain(leg) \in ChainWithin(file.nodes, file.edges, leg[1], leg[2])
  BY <1>3, KeptChainsStay
<1>9. LegsOfThePool(file)
  BY <1>3, <1>8 DEF LegsOfThePool, Keeps
<1>10. JoinsProtected(file)
  <2>1. Protected \subseteq file.nodes
    BY <1>3, <1>4
  <2>2. ASSUME NEW a \in Protected, NEW b \in Protected
        PROVE  \E t \in TrailsJoining(a, b) : \A s \in Steps(t) : {s[1], s[2]} \in file.edges
    <3>1. a \in file.stops /\ b \in file.stops /\ file.stops \in SUBSET Node
      BY <1>2, <1>3, <1>4
    <3>2. b \in Reached(a, ArcsOf(file.edges))
      BY <1>3, <1>6, <3>1, EdgesJoinStops
    <3>3. QED
      BY <3>2 DEF Reached, ArcsOf
  <2>3. QED
    BY <2>1, <2>2 DEF JoinsProtected
<1>11. HasEntrances(file)
  <2>1. ASSUME NEW n \in Entrance
        PROVE  Cardinality({e \in file.edges \intersect Connector : n \in e}) = 1
    <3>1. PICK e \in Connector : {d \in Edge : n \in d} = {e}
      BY PoolAssumption
    <3>2. n \in UNION file.edges
      BY <1>3, <1>4, PoolAssumption
    <3>3. {d \in file.edges \intersect Connector : n \in d} = {e}
      BY <1>3, <3>1, <3>2
    <3>4. QED
      BY <3>3, FS_Singleton
  <2>2. QED
    BY <2>1 DEF HasEntrances
<1>12. QED
  BY <1>3, <1>5, <1>6, <1>7, <1>8, <1>9, <1>10, <1>11
  DEF WrittenWell, Loads, LoadsCertifiedLegs

------------------------------------------------------------------------------
(* The harness comes and goes.                                             *)

LEMMA HomeIsAPlace ==
  /\ Home \in Where
  /\ NoPairs \in [at : Place \union {NoNode}, off : {"on", "near"}, yaw : 0..3]
BY PixelAssumption DEF Home, NoPairs, Where, Place

LEMMA NoWalkIsAWalk == NoWalk \in Walks
BY DEF NoWalk, Walks, NodeOrNone

LEMMA InitHolds == Init => PixelInv
<1> SUFFICES ASSUME Init PROVE PixelInv
  OBVIOUS
<1>1. PixelTypes
  <2>1. PoseTypes
    BY HomeIsAPlace DEF Init, RuntimeInit, PoseTypes, Home
  <2>2. MoveTypes
    BY DEF Init, RuntimeInit, MoveTypes, Idle, NoMove, Outcome
  <2>3. CourseTypes
    BY PixelAssumption DEF Init, CourseTypes, Code
  <2>4. QED
    BY <2>1, <2>2, <2>3, NoWalkIsAWalk DEF Init, PixelTypes
<1>2. Still /\ ReportedIsWhatHappened
  BY DEF Init, RuntimeInit, Still, ReportedIsWhatHappened
<1>3. PoseIsPawn /\ PhotosAreHere /\ NodeIsStop /\ ArrivedIsThere /\ PixelsStayFresh
  BY DEF Init, PoseIsPawn, PhotosAreHere, NodeIsStop, ArrivedIsThere, PixelsStayFresh
<1>4. WalkLeads /\ OnALeg
  BY DEF Init, WalkLeads, OnALeg, UnderWay
<1>5. AtHome
  BY DEF Init, AtHome
<1>6. QED
  BY <1>1, <1>2, <1>3, <1>4, <1>5 DEF PixelInv

(* Losing the harness keeps the invariant wherever the pawn is left.       *)
LEMMA DownHolds ==
  ASSUME PixelInv, Down, UNCHANGED move, pawn' \in Where
  PROVE  PixelInv'
<1>1. PixelTypes'
  <2>1. PoseTypes'
    BY HomeIsAPlace DEF Down, PoseTypes
  <2>2. MoveTypes'
    BY DEF PixelInv, PixelTypes, Down, MoveTypes, Idle, Outcome
  <2>3. CourseTypes'
    BY PixelAssumption DEF PixelInv, PixelTypes, Down, CourseTypes, Code
  <2>4. QED
    BY <2>1, <2>2, <2>3, NoWalkIsAWalk DEF Down, PixelTypes
<1>2. Still' /\ ReportedIsWhatHappened'
  BY DEF Down, Still, ReportedIsWhatHappened
<1>3. PoseIsPawn' /\ PhotosAreHere' /\ NodeIsStop' /\ ArrivedIsThere' /\ PixelsStayFresh'
  BY DEF Down, PoseIsPawn, PhotosAreHere, NodeIsStop, ArrivedIsThere, PixelsStayFresh
<1>4. WalkLeads' /\ OnALeg'
  BY DEF Down, WalkLeads, OnALeg, UnderWay
<1>5. AtHome'
  BY DEF Down, AtHome
<1>6. QED
  BY <1>1, <1>2, <1>3, <1>4, <1>5 DEF PixelInv

(* A turn or a nudge leaves the pawn's pose a pose.                        *)
LEMMA TurnsArePoses ==
  ASSUME PixelTypes, NEW n \in Node, NEW y \in 0..3
  PROVE  /\ [pawn EXCEPT !.yaw = y] \in Where
         /\ [pawn EXCEPT !.yaw = (@ + 1) % 4] \in Where
         /\ Nudged(n) \in Where /\ NudgedPose(n) \in Where
<1>1. pawn \in Where /\ pose \in Where /\ n \in Place
  BY PixelAssumption DEF PixelTypes, PoseTypes, Place
<1>2. [pawn EXCEPT !.yaw = y] \in Where
  BY <1>1 DEF Where
<1>3. [pawn EXCEPT !.yaw = (@ + 1) % 4] \in Where
  <2>1. (pawn.yaw + 1) % 4 \in 0..3
    BY <1>1 DEF Where
  <2>2. QED
    BY <1>1, <2>1 DEF Where
<1>4. Nudged(n) \in Where
  BY <1>1 DEF Nudged, Where
<1>5. NudgedPose(n) \in Where
  BY <1>1, <1>4 DEF NudgedPose
<1>6. QED
  BY <1>2, <1>3, <1>4, <1>5

LEMMA ViewsArePoses ==
  ASSUME PixelTypes, NEW view \in Views
  PROVE  FrameFor(view) \in Where
<1>1. (pairs.yaw + view) % 4 \in 0..3 /\ SnapshotPose(view).yaw = (pairs.yaw + view) % 4
  BY DEF PixelTypes, PoseTypes, PoseTypes, Views, SnapshotPose
<1>2. QED
  BY <1>1 DEF PixelTypes, PoseTypes, PoseTypes, FrameFor, Where

LEMMA FacingIsAPose ==
  ASSUME PixelTypes, walk.node \in Node
  PROVE  Facing \in Where /\ (CanNudge(walk.node) => NudgedPose(walk.node) \in Where)
<1>1. Nudged(walk.node) \in Where /\ NudgedPose(walk.node) \in Where
  BY TurnsArePoses
<1>2. Bearing(Leg[1], Leg[2]) \in 0..3
  BY DEF Bearing
<1>3. [Nudged(walk.node) EXCEPT !.yaw = Bearing(Leg[1], Leg[2])] \in Where
  BY <1>1, <1>2 DEF Where
<1>4. QED
  BY <1>1, <1>3 DEF Facing, PixelTypes, PoseTypes

LEMMA AttachHolds == PixelInv /\ Attach => PixelInv'
<1> SUFFICES ASSUME PixelInv, Attach PROVE PixelInv'
  OBVIOUS
<1>1. PixelTypes'
  <2>1. PoseTypes'
    BY HomeIsAPlace DEF PixelInv, PixelTypes, Attach, course, PoseTypes
  <2>2. MoveTypes'
    BY DEF PixelInv, PixelTypes, Attach, MoveTypes, NoMove
  <2>3. CourseTypes' /\ walk' \in Walks
    BY DEF PixelInv, PixelTypes, Attach, course, CourseTypes
  <2>4. QED
    BY <2>1, <2>2, <2>3 DEF PixelTypes
<1>2. Still' /\ ReportedIsWhatHappened'
  BY DEF PixelInv, Attach, Still, ReportedIsWhatHappened
<1>3. AtHome'
  BY DEF PixelInv, Attach, course, AtHome
<1>4. /\ pawn' = Home /\ pose' = Home /\ node' = Spawn /\ outcome' = "none"
      /\ ~shown' /\ pc' = "ready"
  BY DEF PixelInv, Still, AtHome, Attach, course
<1>5. PoseIsPawn' /\ PhotosAreHere' /\ NodeIsStop' /\ ArrivedIsThere' /\ PixelsStayFresh'
  BY <1>4 DEF Home, PoseIsPawn, PhotosAreHere, NodeIsStop, ArrivedIsThere, PixelsStayFresh
<1>6. WalkLeads' /\ OnALeg'
  BY <1>4 DEF WalkLeads, UnderWay, OnALeg
<1>7. QED
  BY <1>1, <1>2, <1>3, <1>5, <1>6 DEF PixelInv

LEMMA ObserveHolds == PixelInv /\ Observe => PixelInv'
<1> SUFFICES ASSUME PixelInv, Observe PROVE PixelInv'
  OBVIOUS
<1>1. PixelTypes'
  <2>1. PoseTypes'
    BY DEF PixelInv, PixelTypes, Observe, runtime, PoseTypes, Where
  <2>2. MoveTypes'
    BY DEF PixelInv, PixelTypes, Observe, runtime, MoveTypes
  <2>3. CourseTypes'
    BY DEF PixelInv, PixelTypes, Observe, CourseTypes, Code
  <2>4. QED
    BY <2>1, <2>2, <2>3, NoWalkIsAWalk DEF Observe, PixelTypes
<1>2. Still' /\ ReportedIsWhatHappened'
  BY DEF PixelInv, Observe, runtime, Still, ReportedIsWhatHappened
<1>3. PoseIsPawn' /\ PhotosAreHere' /\ NodeIsStop'
  BY DEF PixelInv, Observe, runtime, PoseIsPawn, PhotosAreHere, NodeIsStop
<1>4. WalkLeads' /\ OnALeg' /\ ArrivedIsThere' /\ PixelsStayFresh' /\ AtHome'
  BY DEF Observe, WalkLeads, UnderWay, OnALeg, ArrivedIsThere, PixelsStayFresh, AtHome
<1>5. QED
  BY <1>1, <1>2, <1>3, <1>4 DEF PixelInv

------------------------------------------------------------------------------
(* Pointing at a pixel.                                                    *)

(* A call that is refused changes neither the game nor the graph.          *)
LEMMA RefusalHolds ==
  ASSUME PixelInv, pc = "ready", Clear, outcome' \in {"refused", "unwalkable_pixel"},
         UNCHANGED <<runtime, quad, pool, node, pose, pairs, pc, walk>>
  PROVE  PixelInv'
<1>1. PixelTypes'
  <2>1. PoseTypes' /\ MoveTypes' /\ walk' \in Walks
    BY DEF PixelInv, PixelTypes, runtime, PoseTypes, MoveTypes
  <2>2. CourseTypes'
    BY DEF PixelInv, PixelTypes, Clear, CourseTypes, Code
  <2>3. QED
    BY <2>1, <2>2 DEF PixelTypes
<1>2. Still' /\ ReportedIsWhatHappened' /\ PoseIsPawn' /\ NodeIsStop'
  BY DEF PixelInv, Clear, runtime, Still, ReportedIsWhatHappened, PoseIsPawn, NodeIsStop
<1>3. /\ PhotosAreHere' /\ WalkLeads' /\ OnALeg' /\ ArrivedIsThere' /\ PixelsStayFresh'
      /\ AtHome'
  BY DEF Clear, PhotosAreHere, WalkLeads, UnderWay, OnALeg, ArrivedIsThere,
         PixelsStayFresh, AtHome
<1>4. QED
  BY <1>1, <1>2, <1>3 DEF PixelInv

(* Photographs that may be pointed at are the pawn's, view by view.        *)
LEMMA NothingIsStale ==
  ASSUME PixelInv, pc = "ready", shown, NEW view \in Views
  PROVE  ~Stale(view)
<1>1. pairs.at = pawn.at /\ pairs.off = pawn.off /\ (~quad => pairs = pawn /\ view = 0)
  BY DEF PixelInv, PhotosAreHere, Views
<1>2. pairs.yaw \in 0..3 /\ pairs = [at |-> pairs.at, off |-> pairs.off, yaw |-> pairs.yaw]
  BY DEF PixelInv, PixelTypes, PoseTypes
<1>3. pawn = [at |-> pawn.at, off |-> pawn.off, yaw |-> pawn.yaw]
  BY DEF PixelInv, PixelTypes, PoseTypes, Where
<1>4. CASE quad
  BY <1>1, <1>2, <1>3, <1>4 DEF Stale, FrameFor, SnapshotPose
<1>5. CASE ~quad
  <2>1. (pairs.yaw + view) % 4 = pairs.yaw
    BY <1>1, <1>2, <1>5
  <2>2. QED
    BY <1>1, <1>2, <1>5, <2>1 DEF Stale, FrameFor, SnapshotPose
<1>6. QED
  BY <1>4, <1>5

LEMMA PairRejectsHolds == PixelInv /\ PairRejects => PixelInv'
<1> SUFFICES ASSUME PixelInv, PairRejects PROVE PixelInv'
  OBVIOUS
<1>1. ~Stale(0)
  BY NothingIsStale DEF PairRejects, Views
<1>2. QED
  BY <1>1, RefusalHolds DEF PairRejects

(* Setting off leaves the pawn where it is.                                *)
LEMMA StartTypes ==
  ASSUME MoveTypes, NEW goals, NEW path, Start(goals, path)
  PROVE  MoveTypes' /\ drive'.at # "idle" /\ result' = "none"
BY DEF MoveTypes, Start, Idle, Outcome

LEMMA PairWalksHolds == PixelInv /\ PairWalks => PixelInv'
<1> SUFFICES ASSUME PixelInv, PairWalks PROVE PixelInv'
  OBVIOUS
<1>1. MoveTypes' /\ drive'.at # "idle"
  BY StartTypes DEF PixelInv, PixelTypes, PairWalks
<1>2. PixelTypes'
  <2>1. PoseTypes' /\ walk' \in Walks
    BY DEF PixelInv, PixelTypes, PairWalks, PoseTypes
  <2>2. CourseTypes'
    BY DEF PixelInv, PixelTypes, PairWalks, Clear, CourseTypes
  <2>3. QED
    BY <1>1, <2>1, <2>2 DEF PixelTypes
<1>3. Still' /\ ReportedIsWhatHappened' /\ PixelsStayFresh'
  BY <1>1 DEF PixelInv, PairWalks, Clear, Still, ReportedIsWhatHappened, PixelsStayFresh
<1>4. /\ PoseIsPawn' /\ PhotosAreHere' /\ NodeIsStop' /\ ArrivedIsThere'
      /\ WalkLeads' /\ OnALeg' /\ AtHome'
  BY DEF PairWalks, PoseIsPawn, PhotosAreHere, NodeIsStop, ArrivedIsThere, WalkLeads,
         UnderWay, OnALeg, AtHome
<1>5. QED
  BY <1>2, <1>3, <1>4 DEF PixelInv

(* A pixel means a node to walk to, and a route there, or is refused.      *)
LEMMA DestinationLeads ==
  ASSUME PixelInv, pc = "ready", NEW dest \in pool.stops \union {NoNode},
         Destination(dest)
  PROVE  \/ /\ outcome' \in Code \ {"stale", "arrived"}
            /\ UNCHANGED <<pc, walk>>
         \/ /\ outcome' = "none" /\ pc' = "legs"
            /\ walk' \in Walks /\ walk'.node = node /\ walk'.dest \in Node
            /\ walk'.dest # node /\ ~walk'.broken
            /\ Leads(walk'.queue, node, walk'.dest)
            /\ Rides(walk'.queue, pool.legs \ walk'.refused)
<1>1. pool \in Loaded /\ node \in Node /\ pool.stops \subseteq Node
  BY MovesRideLegs DEF PixelInv, PixelTypes, CourseTypes
<1>2. CASE dest = NoNode \/ dest = node
             \/ (dest \in pool.stops \ {node}
                   /\ PlanPoolLegs(pool.moves, node, dest, {}) = {})
  BY <1>2 DEF Destination, Code
<1>3. CASE ~(dest = NoNode \/ dest = node
              \/ (dest \in pool.stops \ {node}
                    /\ PlanPoolLegs(pool.moves, node, dest, {}) = {}))
  <2>1. PICK plan \in PlanPoolLegs(pool.moves, node, dest, {}) :
          walk' = [NoWalk EXCEPT !.dest = dest, !.node = node, !.queue = plan]
    BY <1>3 DEF Destination
  <2>2. outcome' = "none" /\ pc' = "legs"
    BY <1>3 DEF Destination
  <2>3. dest \in Node
    BY <1>1, <1>3
  <2>4. /\ plan \in Seq(Step) /\ Leads(plan, node, dest)
        /\ Rides(plan, pool.legs \ {})
    BY <1>1, <2>1, <2>3, PlansLead
  <2>5. /\ walk'.node = node /\ walk'.dest = dest /\ walk'.queue = plan
        /\ walk'.refused = {} /\ ~walk'.broken
    BY <2>1 DEF NoWalk
  <2>6. walk' \in Walks
    BY <1>1, <2>1, <2>3, <2>4, NoWalkIsAWalk DEF Walks, NodeOrNone
  <2>7. QED
    BY <1>3, <2>2, <2>3, <2>4, <2>5, <2>6
<1>4. QED
  BY <1>2, <1>3

LEMMA DestinationHolds ==
  ASSUME PixelInv, pc = "ready", quad, Clear, pawn' \in Where,
         pawn'.at = pawn.at, pawn'.off = pawn.off,
         UNCHANGED <<move, drive, result, quad, pool, node, pose, pairs>>,
         NEW dest \in pool.stops \union {NoNode}, Destination(dest)
  PROVE  PixelInv'
<1>1. PoseTypes' /\ MoveTypes'
  BY DEF PixelInv, PixelTypes, PoseTypes, MoveTypes
<1>2. PoseIsPawn /\ NodeIsStop /\ Still /\ ReportedIsWhatHappened
  BY DEF PixelInv
<1>3. CASE outcome' \in Code \ {"stale", "arrived"} /\ UNCHANGED <<pc, walk>>
  <2>1. PixelTypes'
    BY <1>1, <1>3 DEF PixelInv, PixelTypes, CourseTypes, Clear
  <2>2. Still' /\ ReportedIsWhatHappened' /\ PoseIsPawn' /\ NodeIsStop'
    BY <1>2, <1>3 DEF Clear, Still, ReportedIsWhatHappened, PoseIsPawn, NodeIsStop
  <2>3. /\ PhotosAreHere' /\ WalkLeads' /\ OnALeg' /\ ArrivedIsThere' /\ PixelsStayFresh'
        /\ AtHome'
    BY <1>3 DEF Clear, PhotosAreHere, WalkLeads, UnderWay, OnALeg, ArrivedIsThere,
                PixelsStayFresh, AtHome
  <2>4. QED
    BY <2>1, <2>2, <2>3 DEF PixelInv
<1>4. CASE /\ outcome' = "none" /\ pc' = "legs"
           /\ walk' \in Walks /\ walk'.node = node /\ walk'.dest \in Node
           /\ walk'.dest # node /\ ~walk'.broken
           /\ Leads(walk'.queue, node, walk'.dest)
           /\ Rides(walk'.queue, pool.legs \ walk'.refused)
  <2>1. PixelTypes'
    BY <1>1, <1>4 DEF PixelInv, PixelTypes, CourseTypes, Clear, Code
  <2>2. Still' /\ ReportedIsWhatHappened' /\ PoseIsPawn' /\ NodeIsStop'
    BY <1>2, <1>4 DEF Clear, Still, ReportedIsWhatHappened, PoseIsPawn, NodeIsStop
  <2>3. WalkLeads'
    BY <1>4 DEF PixelInv, PixelTypes, CourseTypes, WalkLeads
  <2>4. PhotosAreHere' /\ OnALeg' /\ ArrivedIsThere' /\ PixelsStayFresh' /\ AtHome'
    BY <1>4 DEF PhotosAreHere, OnALeg, ArrivedIsThere, PixelsStayFresh, AtHome
  <2>5. QED
    BY <2>1, <2>2, <2>3, <2>4 DEF PixelInv
<1>5. QED
  BY <1>3, <1>4, DestinationLeads

LEMMA ResolveAcceptsHolds ==
  ASSUME PixelInv, NEW view \in Views, ResolveAccepts(view)
  PROVE  PixelInv'
<1>1. pairs.yaw \in 0..3 /\ FrameFor(view) \in Where
  BY ViewsArePoses DEF PixelInv, PixelTypes, PoseTypes
<1>2. FrameFor(view).at = pawn.at /\ FrameFor(view).off = pawn.off
  BY DEF PixelInv, PixelTypes, PoseTypes, Where, FrameFor
<1>3. pawn' \in Where /\ pawn'.at = pawn.at /\ pawn'.off = pawn.off
  BY <1>1, <1>2 DEF ResolveAccepts, Where
<1>4. QED
  BY <1>3, DestinationHolds DEF ResolveAccepts

LEMMA ResolveRejectsHolds ==
  ASSUME PixelInv, NEW view \in Views, ResolveRejects(view)
  PROVE  PixelInv'
<1>1. pawn' \in Where
  BY ViewsArePoses DEF PixelInv, PixelTypes, ResolveRejects
<1>2. pawn'.at = pawn.at /\ pawn'.off = pawn.off
  BY DEF PixelInv, PixelTypes, PoseTypes, Where, FrameFor, ResolveRejects
<1>3. ~Stale(view)
  BY NothingIsStale DEF ResolveRejects
<1>4. QED
  BY <1>1, <1>2, <1>3, DestinationHolds DEF ResolveRejects

LEMMA ResolveRaisesHolds ==
  ASSUME PixelInv, NEW view \in Views, ResolveRaises(view)
  PROVE  PixelInv'
<1>1. pawn' \in Where
  BY ViewsArePoses DEF PixelInv, PixelTypes, ResolveRaises
<1>2. QED
  BY <1>1, DownHolds DEF ResolveRaises

------------------------------------------------------------------------------
(* Walking the legs.                                                       *)

(* A pawn within a nudge of a node is set down on it, and the client knows.*)
LEMMA NudgeMeets ==
  ASSUME PixelTypes, PoseIsPawn, pc \in {"ready", "legs"}, NEW n \in Node, CanNudge(n)
  PROVE  /\ Nudged(n) \in Where /\ Nudged(n).at = n /\ Nudged(n).off = "on"
         /\ NudgedPose(n) \in Where
         /\ NudgedPose(n).at = n /\ NudgedPose(n).off = "on"
<1>1. Nudged(n) \in Where /\ NudgedPose(n) \in Where
  BY TurnsArePoses
<1>2. Nudged(n).at = n /\ Nudged(n).off = "on"
  BY DEF PixelTypes, PoseTypes, Where, PoseIsPawn, CanNudge, Nudged
<1>3. NudgedPose(n).at = n /\ NudgedPose(n).off = "on"
  BY <1>2 DEF PoseIsPawn, CanNudge, Nudged, NudgedPose
<1>4. QED
  BY <1>1, <1>2, <1>3

(* The leg a walk would set off on is certified and was not refused.       *)
LEMMA DueLegsAreCertified ==
  ASSUME PixelInv, quad, LegDue
  PROVE  /\ walk.node \in Node /\ walk.dest \in Node
         /\ Leg \in pool.legs \ walk.refused
         /\ Leg \in Node \X Node
<1>1. /\ walk.node \in Node /\ walk.dest \in Node /\ walk.queue # <<>>
      /\ Leads(walk.queue, walk.node, walk.dest)
      /\ Rides(walk.queue, pool.legs \ walk.refused)
  BY DEF PixelInv, WalkLeads, UnderWay, LegDue
<1>2. walk.queue \in Seq(Step)
  BY DEF PixelInv, PixelTypes, Walks
<1>3. 1 \in 1..Len(walk.queue) /\ Head(walk.queue) = walk.queue[1]
  BY <1>1, <1>2
<1>4. Leg \in pool.legs \ walk.refused
  BY <1>1, <1>3 DEF Leads, Rides, Leg
<1>5. pool.legs \subseteq Node \X Node
  BY MovesRideLegs DEF PixelInv, PixelTypes, CourseTypes
<1>6. QED
  BY <1>1, <1>4, <1>5

(* A walk that is planned again leads from where it is to where it was     *)
(* bound, or is over.                                                      *)
LEMMA ReplanLeads ==
  ASSUME pool \in Loaded, NEW w \in Walks, w.dest \in Node, w.node \in Node, ~w.broken,
         NEW from, NEW refused \in SUBSET (Node \X Node), Replan(w, from, refused)
  PROVE  /\ walk' \in Walks /\ walk'.dest = w.dest /\ walk'.count = w.count
         /\ walk'.node \in Node
         /\ \/ /\ walk'.broken /\ walk'.node = w.node
            \/ /\ ~walk'.broken /\ walk'.node = from
               /\ Leads(walk'.queue, from, w.dest)
               /\ Rides(walk'.queue, pool.legs \ walk'.refused)
<1> DEFINE plans == IF from \in pool.stops
                    THEN PlanPoolLegs(pool.moves, from, w.dest, refused) ELSE {}
<1>1. w.replans + 1 \in Nat
  BY DEF Walks
<1>2. CASE w.replans + 1 <= MaxReplans /\ plans # {}
  <2>1. PICK plan \in plans :
          walk' = [w EXCEPT !.node = from, !.queue = plan, !.refused = refused,
                            !.replans = w.replans + 1]
    BY <1>2 DEF Replan, ReplanFrom
  <2>2. from \in Node /\ plan \in PlanPoolLegs(pool.moves, from, w.dest, refused)
    BY <2>1, MovesRideLegs
  <2>3. /\ plan \in Seq(Step) /\ Leads(plan, from, w.dest)
        /\ Rides(plan, pool.legs \ refused)
    BY <2>2, PlansLead
  <2>4. walk'.node = from /\ walk'.queue = plan /\ walk'.refused = refused
        /\ walk'.dest = w.dest /\ walk'.count = w.count /\ walk'.broken = w.broken
    BY <2>1 DEF Walks
  <2>5. walk' \in Walks
    BY <1>1, <2>1, <2>2, <2>3 DEF Walks, NodeOrNone
  <2>6. QED
    BY <2>2, <2>3, <2>4, <2>5
<1>3. CASE ~(w.replans + 1 <= MaxReplans /\ plans # {})
  <2>1. walk' = [w EXCEPT !.refused = refused, !.replans = w.replans + 1, !.broken = TRUE]
    BY <1>3 DEF Replan, ReplanFrom
  <2>2. QED
    BY <1>1, <2>1 DEF Walks
<1>4. QED
  BY <1>2, <1>3

LEMMA PawnLostHolds == PixelInv /\ PawnLost => PixelInv'
<1> SUFFICES ASSUME PixelInv, PawnLost PROVE PixelInv'
  OBVIOUS
<1>1. /\ walk' \in Walks /\ walk'.broken /\ walk'.node = walk.node
      /\ walk'.dest = walk.dest /\ walk'.count = walk.count
  BY DEF PixelInv, PixelTypes, Walks, PawnLost
<1>2. PixelTypes'
  BY <1>1
  DEF PixelInv, PixelTypes, PoseTypes, MoveTypes, CourseTypes, PawnLost, runtime, course
<1>3. Still' /\ ReportedIsWhatHappened' /\ PoseIsPawn' /\ PixelsStayFresh'
  BY DEF PixelInv, Still, ReportedIsWhatHappened, PoseIsPawn, PixelsStayFresh, PawnLost,
         runtime, course
<1>4. PhotosAreHere' /\ OnALeg' /\ ArrivedIsThere' /\ AtHome' /\ NodeIsStop'
  BY <1>1 DEF PawnLost, LegDue, PhotosAreHere, OnALeg, ArrivedIsThere, AtHome, NodeIsStop
<1>5. WalkLeads'
  BY <1>1 DEF PixelInv, WalkLeads, UnderWay, PawnLost, LegDue
<1>6. QED
  BY <1>2, <1>3, <1>4, <1>5 DEF PixelInv

(* What a leg that is about to start finds.                                *)
LEMMA LegFinds ==
  ASSUME PixelInv, LegDue
  PROVE  /\ quad /\ ~shown /\ ~walk.broken /\ drive = Idle /\ result = "none"
         /\ walk \in Walks /\ walk.node \in Node /\ walk.dest \in Node
         /\ Facing \in Where
         /\ LegCanStart =>
              /\ Facing.at = walk.node /\ Facing.off = "on"
              /\ NudgedPose(walk.node) \in Where
              /\ NudgedPose(walk.node).at = walk.node /\ NudgedPose(walk.node).off = "on"
<1>1. /\ quad /\ ~shown /\ ~walk.broken /\ drive = Idle /\ result = "none"
      /\ walk \in Walks /\ PixelTypes /\ PoseIsPawn /\ pc \in {"ready", "legs"}
  BY DEF PixelInv, PixelTypes, Still, LegDue
<1>2. walk.node \in Node /\ walk.dest \in Node
  BY <1>1, DueLegsAreCertified
<1>3. Facing \in Where
  BY <1>1, <1>2, FacingIsAPose
<1>4. ASSUME LegCanStart
      PROVE  /\ Facing.at = walk.node /\ Facing.off = "on"
             /\ NudgedPose(walk.node) \in Where
             /\ NudgedPose(walk.node).at = walk.node /\ NudgedPose(walk.node).off = "on"
  <2>1. CanNudge(walk.node)
    BY <1>4 DEF LegCanStart
  <2>2. /\ Nudged(walk.node) \in Where
        /\ Nudged(walk.node).at = walk.node /\ Nudged(walk.node).off = "on"
        /\ NudgedPose(walk.node) \in Where
        /\ NudgedPose(walk.node).at = walk.node /\ NudgedPose(walk.node).off = "on"
    BY <1>1, <1>2, <2>1, NudgeMeets
  <2>3. Facing.at = walk.node /\ Facing.off = "on"
    BY <2>1, <2>2 DEF Facing, Where
  <2>4. QED
    BY <2>2, <2>3
<1>5. QED
  BY <1>1, <1>2, <1>3, <1>4

LEMMA LegRefusedHolds == PixelInv /\ LegRefused => PixelInv'
<1> SUFFICES ASSUME PixelInv, LegRefused PROVE PixelInv'
  OBVIOUS
<1>1. LegDue /\ LegCanStart
  BY DEF LegRefused
<1>2. /\ pawn' \in Where /\ pawn'.at = walk.node /\ pawn'.off = "on"
      /\ pose' \in Where /\ pose'.at = walk.node /\ pose'.off = "on"
  BY <1>1, LegFinds DEF LegRefused
<1>3. /\ walk' \in Walks /\ walk'.dest = walk.dest /\ walk'.count = walk.count
      /\ walk'.node = walk.node /\ walk'.node \in Node
      /\ ~walk'.broken => /\ Leads(walk'.queue, walk'.node, walk'.dest)
                          /\ Rides(walk'.queue, pool.legs \ walk'.refused)
  <2>1. /\ walk \in Walks /\ walk.dest \in Node /\ walk.node \in Node /\ ~walk.broken
        /\ quad
    BY <1>1, LegFinds
  <2>2. walk.refused \union {Leg} \in SUBSET (Node \X Node)
    BY <1>1, <2>1, DueLegsAreCertified DEF Walks
  <2>3. pool \in Loaded
    BY DEF PixelInv, PixelTypes, CourseTypes
  <2>4. Replan(walk, walk.node, walk.refused \union {Leg})
    BY DEF LegRefused
  <2>5. QED
    BY <2>1, <2>2, <2>3, <2>4, ReplanLeads
<1>4. PixelTypes'
  BY <1>2, <1>3
  DEF PixelInv, PixelTypes, PoseTypes, MoveTypes, CourseTypes, LegRefused
<1>5. Still' /\ ReportedIsWhatHappened' /\ PixelsStayFresh'
  BY DEF PixelInv, Still, ReportedIsWhatHappened, PixelsStayFresh, LegRefused
<1>6. /\ PoseIsPawn' /\ NodeIsStop' /\ PhotosAreHere' /\ OnALeg' /\ ArrivedIsThere'
      /\ AtHome'
  BY <1>1, <1>2, <1>3
  DEF LegRefused, LegDue, PoseIsPawn, NodeIsStop, PhotosAreHere, OnALeg, ArrivedIsThere,
      AtHome
<1>7. WalkLeads'
  BY <1>1, <1>3 DEF PixelInv, LegRefused, LegDue, WalkLeads, UnderWay
<1>8. QED
  BY <1>4, <1>5, <1>6, <1>7 DEF PixelInv

LEMMA LegStartsHolds == PixelInv /\ LegStarts => PixelInv'
<1> SUFFICES ASSUME PixelInv, LegStarts PROVE PixelInv'
  OBVIOUS
<1>1. LegDue /\ LegCanStart
  BY DEF LegStarts
<1>2. pawn' \in Where /\ pose' \in Where /\ ~shown /\ quad
  BY <1>1, LegFinds DEF LegStarts
<1>3. MoveTypes' /\ drive'.at # "idle" /\ result' = "none"
  BY StartTypes DEF PixelInv, PixelTypes, LegStarts
<1>4. PixelTypes'
  BY <1>2, <1>3 DEF PixelInv, PixelTypes, PoseTypes, CourseTypes, LegStarts
<1>5. Still' /\ ReportedIsWhatHappened' /\ PixelsStayFresh'
  BY <1>2, <1>3 DEF PixelInv, Still, ReportedIsWhatHappened, PixelsStayFresh, LegStarts
<1>6. /\ PoseIsPawn' /\ NodeIsStop' /\ PhotosAreHere' /\ OnALeg' /\ ArrivedIsThere'
      /\ AtHome'
  BY <1>1
  DEF LegStarts, LegDue, PoseIsPawn, NodeIsStop, PhotosAreHere, OnALeg, ArrivedIsThere,
      AtHome
<1>7. WalkLeads'
  BY <1>1 DEF PixelInv, LegStarts, LegDue, WalkLeads, UnderWay
<1>8. QED
  BY <1>4, <1>5, <1>6, <1>7 DEF PixelInv

LEMMA LegRaisesHolds == PixelInv /\ LegRaises => PixelInv'
BY LegFinds, DownHolds DEF LegRaises

------------------------------------------------------------------------------
(* Driving: the runtime's steps and the game's.                            *)

LEMMA HostHolds ==
  ASSUME MoveTypes, pawn \in Where, Host
  PROVE  MoveTypes' /\ pawn' \in Where /\ ReportedIsWhatHappened'
<1>1. CASE Poll
  <2>1. UNCHANGED <<pawn, move>>
    BY <1>1 DEF Poll
  <2>2. CASE move.state \in {"completed", "failed"}
    <3>1. drive' = Idle /\ result' = TerminalResult
      BY <1>1, <2>2 DEF Poll, Finish
    <3>2. QED
      BY <2>1, <2>2, <3>1
      DEF MoveTypes, TerminalResult, Idle, Outcome, ReportedIsWhatHappened
  <2>3. CASE move.state \notin {"completed", "failed"}
    <3>1. drive' = [drive EXCEPT !.at = "polled"] /\ result' = result
      BY <1>1, <2>3 DEF Poll
    <3>2. QED
      BY <2>1, <3>1 DEF MoveTypes, ReportedIsWhatHappened
  <2>4. QED
    BY <2>2, <2>3
<1>2. CASE Sleep \/ ExecutionTimeout \/ WallWatchdog
  BY <1>2 DEF MoveTypes, Sleep, ExecutionTimeout, WallWatchdog, ReportedIsWhatHappened
<1>3. CASE CancelTooLate
  <2>1. /\ drive' = Idle /\ UNCHANGED <<pawn, move>>
        /\ result' \in {"raised", TerminalResult}
        /\ move.state \in {"completed", "failed"}
    BY <1>3 DEF CancelTooLate, Finish, AfterCancel
  <2>2. QED
    BY <2>1 DEF MoveTypes, TerminalResult, Idle, Outcome, ReportedIsWhatHappened
<1>4. CASE Cancel
  <2>1. pawn' \in Where
    BY <1>4 DEF Cancel, StopsOnPath, Pose, Where, Place
  <2>2. move' = [move EXCEPT !.state = "cancelled", !.said = "other"]
    BY <1>4 DEF Cancel
  <2>3. drive' = Idle /\ result' \in {"raised", "timeout"}
    BY <1>4 DEF Cancel, Finish, AfterCancel
  <2>4. QED
    BY <2>1, <2>2, <2>3 DEF MoveTypes, Idle, Outcome, ReportedIsWhatHappened
<1>5. CASE CallFails
  BY <1>5 DEF MoveTypes, CallFails, Finish, Idle, Outcome, ReportedIsWhatHappened
<1>6. QED
  BY <1>1, <1>2, <1>3, <1>4, <1>5 DEF Host

LEMMA EngineHolds ==
  ASSUME MoveTypes, pawn \in Where, ReportedIsWhatHappened, Engine
  PROVE  /\ MoveTypes' /\ pawn' \in Where /\ ReportedIsWhatHappened'
         /\ move # NoMove /\ UNCHANGED <<drive, result>>
<1>1. pawn' \in Where
  BY DEF Engine, EngineCompletes, EngineFails, StopsOnPath, Pose, Where, Place
<1>2. /\ move.state = "moving"
      /\ \/ move' = [move EXCEPT !.state = "completed", !.said = "success"]
         \/ move' = [move EXCEPT !.state = "failed", !.said = "other"]
      /\ UNCHANGED <<drive, result>>
  BY DEF Engine, EngineCompletes, EngineFails
<1>3. MoveTypes' /\ ReportedIsWhatHappened'
  BY <1>2 DEF MoveTypes, ReportedIsWhatHappened
<1>4. QED
  BY <1>1, <1>2, <1>3 DEF NoMove

(* A step of the move alone keeps the rest, while the harness waits for it *)
(* or is down.                                                             *)
LEMMA MoveStepHolds ==
  ASSUME PixelInv, pc \in {"down", "driving"},
         MoveTypes', pawn' \in Where, ReportedIsWhatHappened',
         pc = "down" => UNCHANGED <<drive, result>>,
         UNCHANGED <<quad, pool, course, pc, walk, outcome>>
  PROVE  PixelInv'
<1>1. PixelTypes'
  BY DEF PixelInv, PixelTypes, PoseTypes, CourseTypes, course
<1>2. Still' /\ PixelsStayFresh' /\ AtHome' /\ PoseIsPawn' /\ PhotosAreHere'
  BY DEF PixelInv, Still, PixelsStayFresh, AtHome, PoseIsPawn, PhotosAreHere, course
<1>3. WalkLeads' /\ OnALeg' /\ NodeIsStop' /\ ArrivedIsThere'
  BY DEF PixelInv, WalkLeads, UnderWay, OnALeg, NodeIsStop, ArrivedIsThere
<1>4. QED
  BY <1>1, <1>2, <1>3 DEF PixelInv

LEMMA DriveHolds == PixelInv /\ Drive => PixelInv'
BY HostHolds, MoveStepHolds DEF PixelInv, PixelTypes, PoseTypes, Drive

LEMMA WatchdogHolds == PixelInv /\ Watchdog => PixelInv'
<1> SUFFICES ASSUME PixelInv, Watchdog PROVE PixelInv'
  OBVIOUS
<1>1. drive.at \in {"poll", "polled"} /\ drive' = [drive EXCEPT !.late = TRUE]
      /\ UNCHANGED <<pawn, move, result>>
  BY DEF Watchdog, WatchdogPasses
<1>2. pc = "driving"
  BY <1>1 DEF PixelInv, PixelTypes, CourseTypes, Still, Idle
<1>3. MoveTypes' /\ ReportedIsWhatHappened'
  BY <1>1 DEF PixelInv, PixelTypes, MoveTypes, ReportedIsWhatHappened
<1>4. QED
  BY <1>1, <1>2, <1>3, MoveStepHolds DEF PixelInv, PixelTypes, PoseTypes, Watchdog

LEMMA MovesHolds == PixelInv /\ Moves => PixelInv'
<1> SUFFICES ASSUME PixelInv, Moves PROVE PixelInv'
  OBVIOUS
<1>1. /\ MoveTypes' /\ pawn' \in Where /\ ReportedIsWhatHappened'
      /\ move # NoMove /\ UNCHANGED <<drive, result>>
  BY EngineHolds DEF PixelInv, PixelTypes, PoseTypes, Moves
<1>2. pc \in {"down", "driving"}
  BY <1>1 DEF PixelInv, PixelTypes, CourseTypes, Still
<1>3. QED
  BY <1>1, <1>2, MoveStepHolds DEF Moves

LEMMA MoveRaisesHolds == PixelInv /\ MoveRaises => PixelInv'
BY DownHolds DEF MoveRaises, PixelInv, PixelTypes, PoseTypes

------------------------------------------------------------------------------
(* The end of a move.                                                      *)

LEMMA ForgetTypes ==
  ASSUME MoveTypes, Forget, UNCHANGED drive
  PROVE  MoveTypes' /\ ReportedIsWhatHappened'
BY DEF MoveTypes, Forget, NoMove, Outcome, ReportedIsWhatHappened

LEMMA PairLandsHolds == PixelInv /\ PairLands => PixelInv'
<1> SUFFICES ASSUME PixelInv, PairLands PROVE PixelInv'
  OBVIOUS
<1>1. MoveTypes' /\ ReportedIsWhatHappened'
  BY ForgetTypes DEF PixelInv, PixelTypes, PairLands
<1>2. outcome' \in {"arrived", "stuck", "walk_timeout"}
  BY DEF PairLands
<1>3. drive = Idle /\ ~shown
  BY DEF PixelInv, PixelTypes, MoveTypes, Still, PairLands, Answered, Idle
<1>4. PixelTypes'
  BY <1>1, <1>2 DEF PixelInv, PixelTypes, PoseTypes, CourseTypes, PairLands, Code
<1>5. Still' /\ PixelsStayFresh' /\ AtHome' /\ PoseIsPawn' /\ PhotosAreHere'
  BY <1>2, <1>3
  DEF PairLands, Forget, Still, PixelsStayFresh, AtHome, PoseIsPawn, PhotosAreHere
<1>6. WalkLeads' /\ OnALeg' /\ NodeIsStop' /\ ArrivedIsThere'
  BY DEF PairLands, Answered, WalkLeads, UnderWay, OnALeg, NodeIsStop, ArrivedIsThere
<1>7. QED
  BY <1>1, <1>4, <1>5, <1>6 DEF PixelInv

(* What a leg that ends finds, and what it leaves however it ended.        *)
LEMMA LegEndFinds ==
  ASSUME PixelInv, NEW arrived \in BOOLEAN, LegEnds(arrived)
  PROVE  /\ quad /\ ~walk.broken /\ walk.queue # <<>> /\ walk.queue \in Seq(Step)
         /\ walk.node \in Node /\ walk.dest \in Node
         /\ Leads(walk.queue, walk.node, walk.dest)
         /\ Rides(walk.queue, pool.legs \ walk.refused)
         /\ Done \in Walks /\ Done.count = 1 /\ ~Done.broken
         /\ Done.dest = walk.dest /\ Done.node = walk.node /\ Done.queue = walk.queue
         /\ Done.refused = walk.refused
<1>1. quad /\ ~walk.broken /\ walk.queue # <<>>
  BY DEF PixelInv, OnALeg, LegEnds, Answered
<1>2. /\ walk.node \in Node /\ walk.dest \in Node
      /\ Leads(walk.queue, walk.node, walk.dest)
      /\ Rides(walk.queue, pool.legs \ walk.refused)
  BY <1>1 DEF PixelInv, WalkLeads, UnderWay, LegEnds, Answered
<1>3. walk \in Walks
  BY DEF PixelInv, PixelTypes
<1>4. QED
  BY <1>1, <1>2, <1>3 DEF Walks, Done

LEMMA LegEndsHolds ==
  ASSUME PixelInv, NEW arrived \in BOOLEAN, LegEnds(arrived),
         walk' \in Walks, walk'.node \in Node, walk'.dest \in Node, walk'.count = 1,
         ~walk'.broken => /\ Leads(walk'.queue, walk'.node, walk'.dest)
                          /\ Rides(walk'.queue, pool.legs \ walk'.refused)
                          /\ walk'.node = pawn.at
  PROVE  PixelInv'
<1>1. MoveTypes' /\ ReportedIsWhatHappened'
  BY ForgetTypes DEF PixelInv, PixelTypes, LegEnds
<1>2. drive = Idle /\ ~shown
  BY DEF PixelInv, PixelTypes, MoveTypes, Still, LegEnds, Answered
<1>3. PixelTypes'
  BY <1>1 DEF PixelInv, PixelTypes, PoseTypes, CourseTypes, LegEnds
<1>4. Still' /\ PixelsStayFresh' /\ AtHome' /\ PoseIsPawn' /\ PhotosAreHere'
  BY <1>2 DEF PixelInv, LegEnds, Forget, Still, PixelsStayFresh, AtHome, PoseIsPawn,
              PhotosAreHere
<1>5. WalkLeads' /\ OnALeg' /\ NodeIsStop' /\ ArrivedIsThere'
  BY DEF LegEnds, WalkLeads, UnderWay, OnALeg, NodeIsStop, ArrivedIsThere
<1>6. QED
  BY <1>1, <1>3, <1>4, <1>5 DEF PixelInv

LEMMA LegUnfinishedHolds == PixelInv /\ LegUnfinished => PixelInv'
<1> SUFFICES ASSUME PixelInv, LegUnfinished PROVE PixelInv'
  OBVIOUS
<1>1. LegEnds(FALSE) /\ walk' = [Done EXCEPT !.broken = TRUE]
  BY DEF LegUnfinished
<1>2. /\ Done \in Walks /\ Done.count = 1 /\ Done.node \in Node /\ Done.dest \in Node
  BY <1>1, LegEndFinds
<1>3. /\ walk' \in Walks /\ walk'.node \in Node /\ walk'.dest \in Node /\ walk'.count = 1
      /\ walk'.broken
  BY <1>1, <1>2 DEF Walks
<1>4. QED
  BY <1>1, <1>3, LegEndsHolds

LEMMA HeadIsAStep ==
  ASSUME NEW queue \in Seq(Step), queue # <<>>
  PROVE  Head(queue).stop \in Node /\ Head(queue).aim \in Node
<1>1. Head(queue) \in Step
  OBVIOUS
<1>2. QED
  BY <1>1 DEF Step

(* The rest of a walk leads on from where its first move stops.            *)
LEMMA TailLeads ==
  ASSUME NEW queue \in Seq(Step), queue # <<>>, NEW from, NEW to, NEW legs,
         Leads(queue, from, to), Rides(queue, legs)
  PROVE  /\ Tail(queue) \in Seq(Step)
         /\ Leads(Tail(queue), Head(queue).stop, to) /\ Rides(Tail(queue), legs)
<1>1. /\ Tail(queue) \in Seq(Step) /\ Len(Tail(queue)) = Len(queue) - 1
      /\ Len(queue) \in Nat \ {0} /\ Head(queue) = queue[1]
      /\ \A i \in 1..(Len(queue) - 1) : Tail(queue)[i] = queue[i + 1]
  OBVIOUS
<1>2. Rides(Tail(queue), legs)
  <2> SUFFICES ASSUME NEW i \in 1..(Len(queue) - 1)
               PROVE  <<Tail(queue)[i].start, Tail(queue)[i].aim>> \in legs
    BY <1>1 DEF Rides
  <2>1. i + 1 \in 1..Len(queue)
    BY <1>1
  <2>2. QED
    BY <1>1, <2>1 DEF Rides
<1>3. CASE Len(queue) = 1
  <2>1. Tail(queue) = <<>>
    <3>1. Len(Tail(queue)) = 0
      BY <1>1, <1>3
    <3>2. QED
      BY <1>1, <3>1, EmptySeq
  <2>2. Head(queue).stop = to
    BY <1>1, <1>3 DEF Leads
  <2>3. Leads(Tail(queue), Head(queue).stop, to)
    BY <2>1, <2>2 DEF Leads
  <2>4. QED
    BY <1>1, <1>2, <2>3
<1>4. CASE Len(queue) # 1
  <2>1. /\ 1 \in 1..(Len(queue) - 1) /\ Len(queue) - 1 \in 1..(Len(queue) - 1)
        /\ Tail(queue) # <<>>
    <3>1. Len(queue) - 1 \in Nat \ {0}
      BY <1>1, <1>4
    <3>2. Tail(queue) # <<>>
      BY <1>1, <3>1, EmptySeq
    <3>3. QED
      BY <1>1, <3>1, <3>2
  <2>2. Tail(queue)[1] = queue[2] /\ queue[1].stop = queue[2].start
    BY <1>1, <2>1 DEF Leads
  <2>3. Tail(queue)[Len(queue) - 1] = queue[Len(queue)] /\ queue[Len(queue)].stop = to
    BY <1>1, <2>1 DEF Leads
  <2>4. ASSUME NEW i \in 1..(Len(queue) - 2)
        PROVE  Tail(queue)[i].stop = Tail(queue)[i + 1].start
    <3>1. i \in 1..(Len(queue) - 1) /\ i + 1 \in 1..(Len(queue) - 1)
      BY <1>1
    <3>2. Tail(queue)[i] = queue[i + 1] /\ Tail(queue)[i + 1] = queue[(i + 1) + 1]
      BY <1>1, <3>1
    <3>3. QED
      BY <3>1, <3>2 DEF Leads
  <2>5. Leads(Tail(queue), Head(queue).stop, to)
    BY <1>1, <2>1, <2>2, <2>3, <2>4 DEF Leads
  <2>6. QED
    BY <1>1, <1>2, <2>5
<1>5. QED
  BY <1>3, <1>4

LEMMA LegArrivesHolds == PixelInv /\ LegArrives => PixelInv'
<1> SUFFICES ASSUME PixelInv, LegArrives PROVE PixelInv'
  OBVIOUS
<1>1. /\ LegEnds(TRUE) /\ pawn.at = Head(walk.queue).stop
      /\ walk' = [Done EXCEPT !.node = pawn.at, !.queue = Tail(@)]
  BY DEF LegArrives
<1>2. /\ walk.queue \in Seq(Step) /\ walk.queue # <<>>
      /\ Leads(walk.queue, walk.node, walk.dest)
      /\ Rides(walk.queue, pool.legs \ walk.refused)
      /\ Done \in Walks /\ Done.count = 1 /\ ~Done.broken
      /\ Done.dest = walk.dest /\ walk.dest \in Node
      /\ Done.queue = walk.queue /\ Done.refused = walk.refused
  BY <1>1, LegEndFinds
<1>3. /\ Tail(walk.queue) \in Seq(Step)
      /\ Leads(Tail(walk.queue), pawn.at, walk.dest)
      /\ Rides(Tail(walk.queue), pool.legs \ walk.refused)
  BY <1>1, <1>2, TailLeads
<1>4. pawn.at \in Node
  BY <1>1, <1>2, HeadIsAStep
<1>5. /\ walk'.node = pawn.at /\ walk'.queue = Tail(walk.queue) /\ walk'.dest = walk.dest
      /\ walk'.count = 1 /\ walk'.refused = walk.refused
  BY <1>1, <1>2 DEF Walks
<1>6. walk' \in Walks
  BY <1>1, <1>2, <1>3, <1>4 DEF Walks, NodeOrNone
<1>7. QED
  BY <1>1, <1>2, <1>3, <1>4, <1>5, <1>6, LegEndsHolds

LEMMA StoppedShortHolds == PixelInv /\ StoppedShort => PixelInv'
<1> SUFFICES ASSUME PixelInv, StoppedShort PROVE PixelInv'
  OBVIOUS
<1>1. LegEnds(TRUE) /\ Replan(Done, pawn.at, walk.refused \union {Leg})
  BY DEF StoppedShort
<1>2. /\ quad /\ walk.queue \in Seq(Step) /\ walk.queue # <<>> /\ walk.node \in Node
      /\ Done \in Walks /\ Done.count = 1 /\ ~Done.broken
      /\ Done.dest \in Node /\ Done.node \in Node
  BY <1>1, LegEndFinds
<1>3. Leg \in Node \X Node
  BY <1>2, HeadIsAStep DEF Leg
<1>4. walk.refused \union {Leg} \in SUBSET (Node \X Node) /\ pool \in Loaded
  BY <1>3 DEF PixelInv, PixelTypes, CourseTypes, Walks
<1>5. /\ walk' \in Walks /\ walk'.dest \in Node /\ walk'.node \in Node /\ walk'.count = 1
      /\ ~walk'.broken => /\ Leads(walk'.queue, walk'.node, walk'.dest)
                          /\ Rides(walk'.queue, pool.legs \ walk'.refused)
                          /\ walk'.node = pawn.at
  BY <1>1, <1>2, <1>4, ReplanLeads
<1>6. QED
  BY <1>1, <1>5, LegEndsHolds

LEMMA LegsEndHolds == PixelInv /\ LegsEnd => PixelInv'
<1> SUFFICES ASSUME PixelInv, LegsEnd PROVE PixelInv'
  OBVIOUS
<1> DEFINE nudge == walk.count > 0 /\ CanNudge(walk.node)
           complete == ~walk.broken /\ (walk.count > 0 => nudge)
           snapped == ~complete /\ pose.at # walk.node /\ pose.at \in pool.stops
<1>1. /\ pawn' = IF nudge THEN Nudged(walk.node) ELSE pawn
      /\ pose' = IF nudge THEN NudgedPose(walk.node) ELSE pose
      /\ node' = IF snapped THEN pose.at ELSE walk.node
      /\ outcome' = IF complete THEN "arrived" ELSE "stuck"
      /\ pc = "legs" /\ pc' = "ready" /\ (walk.broken \/ walk.queue = <<>>)
      /\ UNCHANGED <<move, drive, result, quad, pool, pairs, shown, walk>>
  BY DEF LegsEnd, LegsOver
<1>2. /\ quad /\ ~shown /\ move = NoMove /\ drive = Idle /\ result = "none"
      /\ PixelTypes /\ PoseIsPawn /\ pose.at = pawn.at /\ pose.off = pawn.off
  BY <1>1 DEF PixelInv, Still, PoseIsPawn
<1>3. /\ walk.node \in Node /\ walk.dest \in Node /\ walk.count \in {0, 1}
      /\ walk.count = 0 => walk.node # walk.dest
      /\ ~walk.broken => walk.node = walk.dest
  BY <1>1, <1>2 DEF PixelInv, PixelTypes, Walks, WalkLeads, UnderWay, Leads
<1>4. ASSUME nudge
      PROVE  /\ pawn' \in Where /\ pawn'.at = walk.node /\ pawn'.off = "on"
             /\ pose' \in Where /\ pose'.at = walk.node /\ pose'.off = "on"
             /\ node' = walk.node
  <2>1. pawn' = Nudged(walk.node) /\ pose' = NudgedPose(walk.node) /\ pose.at = walk.node
    BY <1>1, <1>4 DEF CanNudge
  <2>2. node' = walk.node
    BY <1>1, <2>1
  <2>3. QED
    BY <1>1, <1>2, <1>3, <1>4, <2>1, <2>2, NudgeMeets
<1>5. ASSUME ~nudge
      PROVE  pawn' = pawn /\ pose' = pose
  BY <1>1, <1>5
<1>6. PixelTypes'
  <2>1. PoseTypes'
    BY <1>1, <1>2, <1>4, <1>5 DEF PixelTypes, PoseTypes
  <2>2. MoveTypes' /\ walk' \in Walks
    BY <1>1, <1>2 DEF PixelTypes, MoveTypes
  <2>3. node' \in Node
    BY <1>1, <1>2, <1>3, MovesRideLegs DEF PixelTypes, CourseTypes
  <2>4. CourseTypes'
    BY <1>1, <1>2, <2>3 DEF PixelTypes, CourseTypes, Code
  <2>5. QED
    BY <2>1, <2>2, <2>4 DEF PixelTypes
<1>7. Still' /\ ReportedIsWhatHappened' /\ PhotosAreHere' /\ AtHome' /\ PixelsStayFresh'
  BY <1>1, <1>2
  DEF Still, ReportedIsWhatHappened, PhotosAreHere, AtHome, PixelsStayFresh
<1>8. PoseIsPawn' /\ WalkLeads' /\ OnALeg'
  BY <1>1, <1>2, <1>4, <1>5 DEF PoseIsPawn, WalkLeads, UnderWay, OnALeg
<1>9. NodeIsStop'
  <2> SUFFICES ASSUME pawn'.at \in pool.stops PROVE node' = pawn'.at
    BY <1>1 DEF NodeIsStop
  <2>1. CASE nudge
    BY <1>4, <2>1
  <2>2. CASE ~nudge /\ pawn.at = walk.node
    BY <1>1, <1>2, <1>5, <2>2
  <2>3. CASE ~nudge /\ pawn.at # walk.node /\ complete
    BY <1>1, <1>2, <1>3, <1>5, <2>3 DEF PixelInv, NodeIsStop
  <2>4. CASE ~nudge /\ pawn.at # walk.node /\ ~complete
    BY <1>1, <1>2, <1>5, <2>4
  <2>5. QED
    BY <2>1, <2>2, <2>3, <2>4
<1>10. ArrivedIsThere'
  <2> SUFFICES ASSUME outcome' = "arrived"
               PROVE  node' = walk.dest /\ pawn'.at = node' /\ pawn'.off = "on"
    BY <1>1 DEF ArrivedIsThere
  <2>1. complete
    BY <1>1
  <2>2. nudge
    BY <1>3, <2>1
  <2>3. QED
    BY <1>3, <1>4, <2>1, <2>2
<1>11. QED
  BY <1>6, <1>7, <1>8, <1>9, <1>10 DEF PixelInv

------------------------------------------------------------------------------
(* Among the stops.                                                        *)

LEMMA DownIsOnTheWay ==
  ASSUME PixelInv, Down
  PROVE  WayInv'
<1>1. pool \in Loaded
  BY DEF PixelInv, PixelTypes, CourseTypes
<1>2. Spawn \in pool.stops
  BY <1>1, PixelAssumption DEF Loaded
<1>3. QED
  BY <1>2 DEF Down, WayInv, EveryStopHasAWay, UnderWay

LEMMA DestinationIsOnTheWay ==
  ASSUME PixelInv, WayInv, pc = "ready", quad, UNCHANGED <<quad, pool, node>>,
         NEW dest \in pool.stops \union {NoNode}, Destination(dest)
  PROVE  WayInv'
<1>1. pool \in Loaded /\ node \in pool.stops /\ pool.stops \subseteq Node
  BY MovesRideLegs DEF PixelInv, PixelTypes, CourseTypes, WayInv
<1>2. CASE dest = NoNode \/ dest = node
  <2>1. NoNode \notin Node
    BY PixelAssumption
  <2>2. CASE dest = NoNode
    <3>1. dest # node /\ dest \notin pool.stops \ {node}
      BY <1>1, <2>1, <2>2
    <3>2. outcome' = "unwalkable_pixel" /\ UNCHANGED <<pc, walk>>
      BY <2>2, <3>1 DEF Destination
    <3>3. QED
      BY <3>2 DEF WayInv, EveryStopHasAWay, UnderWay
  <2>3. CASE dest = node
    <3>1. dest # NoNode /\ dest \notin pool.stops \ {node}
      BY <1>1, <2>1, <2>3
    <3>2. outcome' = "already_here" /\ UNCHANGED <<pc, walk>>
      BY <2>3, <3>1 DEF Destination
    <3>3. QED
      BY <3>2 DEF WayInv, EveryStopHasAWay, UnderWay
  <2>4. QED
    BY <1>2, <2>2, <2>3
<1>3. CASE ~(dest = NoNode \/ dest = node)
  <2>1. dest \in pool.stops \ {node}
    BY <1>3
  <2>2. PlanPoolLegs(pool.moves, node, dest, {}) # {}
    BY <1>1, <2>1, StopsHaveWays
  <2>3. /\ outcome' = "none"
        /\ \E plan \in PlanPoolLegs(pool.moves, node, dest, {}) :
             walk' = [NoWalk EXCEPT !.dest = dest, !.node = node, !.queue = plan]
    BY <1>3, <2>2 DEF Destination
  <2>4. PICK plan \in PlanPoolLegs(pool.moves, node, dest, {}) :
          walk' = [NoWalk EXCEPT !.dest = dest, !.node = node, !.queue = plan]
    BY <2>3
  <2>5. walk'.node = node /\ walk'.queue = plan
    BY <2>4 DEF NoWalk
  <2>6. StopsOn(plan, pool.stops)
    BY <1>1, <2>1, PlansLead
  <2>7. QED
    BY <1>1, <2>3, <2>5, <2>6 DEF WayInv, EveryStopHasAWay, UnderWay, StopsOn
<1>4. QED
  BY <1>2, <1>3

LEMMA ReplanIsOnTheWay ==
  ASSUME pool \in Loaded, NEW w \in Walks, w.dest \in Node, ~w.broken,
         w.node \in pool.stops, NEW from, NEW refused, Replan(w, from, refused)
  PROVE  /\ walk'.node \in pool.stops
         /\ ~walk'.broken => StopsOn(walk'.queue, pool.stops)
<1> DEFINE plans == IF from \in pool.stops
                    THEN PlanPoolLegs(pool.moves, from, w.dest, refused) ELSE {}
<1>1. CASE w.replans + 1 <= MaxReplans /\ plans # {}
  <2>1. PICK plan \in plans :
          walk' = [w EXCEPT !.node = from, !.queue = plan, !.refused = refused,
                            !.replans = w.replans + 1]
    BY <1>1 DEF Replan, ReplanFrom
  <2>2. /\ from \in pool.stops /\ from \in Node
        /\ plan \in PlanPoolLegs(pool.moves, from, w.dest, refused)
    BY <2>1, MovesRideLegs
  <2>3. StopsOn(plan, pool.stops)
    BY <2>2, PlansLead
  <2>4. walk'.node = from /\ walk'.queue = plan
    BY <2>1 DEF Walks
  <2>5. QED
    BY <2>2, <2>3, <2>4
<1>2. CASE ~(w.replans + 1 <= MaxReplans /\ plans # {})
  <2>1. walk' = [w EXCEPT !.refused = refused, !.replans = w.replans + 1, !.broken = TRUE]
    BY <1>2 DEF Replan, ReplanFrom
  <2>2. QED
    BY <2>1 DEF Walks
<1>3. QED
  BY <1>1, <1>2

LEMMA LegsAreOnTheWay ==
  ASSUME PixelInv, WayInv, PawnLost \/ LegRefused \/ LegStarts \/ LegRaises
  PROVE  WayInv'
<1>1. LegDue /\ pc = "legs" /\ quad
  BY DEF PawnLost, LegRefused, LegStarts, LegRaises, LegDue, PixelInv, Still
<1>2. /\ pool \in Loaded /\ walk \in Walks /\ walk.dest \in Node /\ ~walk.broken
      /\ walk.node \in pool.stops /\ StopsOn(walk.queue, pool.stops)
      /\ EveryStopHasAWay /\ node \in pool.stops
  BY <1>1 DEF PixelInv, PixelTypes, CourseTypes, WayInv, UnderWay, WalkLeads, LegDue
<1>3. CASE PawnLost
  <2>1. walk'.node = walk.node /\ walk'.broken
    BY <1>2, <1>3 DEF PawnLost, Walks
  <2>2. QED
    BY <1>2, <1>3, <2>1 DEF PawnLost, WayInv, EveryStopHasAWay, course
<1>4. CASE LegRefused
  <2>1. Replan(walk, walk.node, walk.refused \union {Leg})
    BY <1>4 DEF LegRefused
  <2>2. /\ walk'.node \in pool.stops
        /\ ~walk'.broken => StopsOn(walk'.queue, pool.stops)
    BY <1>2, <2>1, ReplanIsOnTheWay
  <2>3. QED
    BY <1>2, <1>4, <2>2 DEF LegRefused, WayInv, EveryStopHasAWay, StopsOn
<1>5. CASE LegStarts
  BY <1>2, <1>5 DEF LegStarts, WayInv, EveryStopHasAWay, StopsOn
<1>6. CASE LegRaises
  BY <1>6, DownIsOnTheWay DEF LegRaises
<1>7. QED
  BY <1>3, <1>4, <1>5, <1>6

LEMMA LegEndsAreOnTheWay ==
  ASSUME PixelInv, WayInv, LegUnfinished \/ LegArrives \/ StoppedShort
  PROVE  WayInv'
<1>1. PICK arrived \in BOOLEAN : LegEnds(arrived)
  BY DEF LegUnfinished, LegArrives, StoppedShort
<1>2. /\ quad /\ ~walk.broken /\ walk.queue # <<>> /\ walk.queue \in Seq(Step)
      /\ walk.dest \in Node /\ Done \in Walks /\ ~Done.broken
      /\ Done.dest = walk.dest /\ Done.node = walk.node /\ Done.queue = walk.queue
  BY <1>1, LegEndFinds
<1>3. /\ pc = "driving" /\ UNCHANGED <<quad, pool, node, outcome>>
  BY <1>1 DEF LegEnds, Answered
<1>4. /\ walk.node \in pool.stops /\ StopsOn(walk.queue, pool.stops)
      /\ EveryStopHasAWay /\ node \in pool.stops /\ pool \in Loaded
  BY <1>2, <1>3 DEF WayInv, UnderWay, PixelInv, PixelTypes, CourseTypes
<1>5. /\ walk'.node \in pool.stops
      /\ ~walk'.broken => StopsOn(walk'.queue, pool.stops)
  <2>1. CASE LegUnfinished
    BY <1>2, <1>4, <2>1 DEF LegUnfinished, Walks
  <2>2. CASE LegArrives
    <3>1. walk' = [Done EXCEPT !.node = pawn.at, !.queue = Tail(@)]
          /\ pawn.at = Head(walk.queue).stop
      BY <2>2 DEF LegArrives
    <3>2. walk'.node = Head(walk.queue).stop /\ walk'.queue = Tail(walk.queue)
      BY <1>2, <3>1 DEF Walks
    <3>3. Head(walk.queue) = walk.queue[1] /\ 1 \in 1..Len(walk.queue)
      BY <1>2
    <3>4. /\ Len(Tail(walk.queue)) = Len(walk.queue) - 1 /\ Len(walk.queue) \in Nat
          /\ \A i \in 1..Len(Tail(walk.queue)) : Tail(walk.queue)[i] = walk.queue[i + 1]
      BY <1>2, HeadTailProperties
    <3>5. \A i \in 1..Len(Tail(walk.queue)) : i + 1 \in 1..Len(walk.queue)
      BY <3>4
    <3>6. StopsOn(Tail(walk.queue), pool.stops)
      BY <1>4, <3>4, <3>5 DEF StopsOn
    <3>7. QED
      BY <1>4, <3>2, <3>3, <3>6 DEF StopsOn
  <2>3. CASE StoppedShort
    <3>1. Replan(Done, pawn.at, walk.refused \union {Leg})
      BY <2>3 DEF StoppedShort
    <3>2. QED
      BY <1>2, <1>4, <3>1, ReplanIsOnTheWay
  <2>4. QED
    BY <2>1, <2>2, <2>3
<1>6. QED
  BY <1>3, <1>4, <1>5 DEF WayInv, EveryStopHasAWay, StopsOn

LEMMA WayStep ==
  ASSUME PixelInv, WayInv, [Next]_vars
  PROVE  WayInv'
<1>1. CASE Observe \/ RefusedBeforeEngine
  BY <1>1 DEF Observe, RefusedBeforeEngine, WayInv, EveryStopHasAWay, UnderWay
<1>2. CASE PairRejects \/ PairWalks
  BY <1>2 DEF PairRejects, PairWalks, WayInv, EveryStopHasAWay, UnderWay
<1>3. CASE Resolve
  <2>1. PICK view \in Views :
          ResolveAccepts(view) \/ ResolveRejects(view) \/ ResolveRaises(view)
    BY <1>3 DEF Resolve
  <2>2. CASE ResolveAccepts(view)
    BY <2>2, DestinationIsOnTheWay DEF ResolveAccepts
  <2>3. CASE ResolveRejects(view) /\ ~Stale(view)
    BY <2>3, DestinationIsOnTheWay DEF ResolveRejects
  <2>4. CASE ResolveRejects(view) /\ Stale(view)
    BY <2>4 DEF ResolveRejects, WayInv, EveryStopHasAWay, UnderWay
  <2>5. CASE ResolveRaises(view)
    BY <2>5, DownIsOnTheWay DEF ResolveRaises
  <2>6. QED
    BY <2>1, <2>2, <2>3, <2>4, <2>5
<1>4. CASE PawnLost \/ LegRefused \/ LegStarts \/ LegRaises
  BY <1>4, LegsAreOnTheWay
<1>5. CASE LegUnfinished \/ LegArrives \/ StoppedShort
  BY <1>5, LegEndsAreOnTheWay
<1>6. CASE PairLands
  BY <1>6 DEF PairLands, Answered, WayInv, EveryStopHasAWay, UnderWay
<1>7. CASE LegsEnd
  <2>1. pc = "legs" /\ quad
    BY <1>7 DEF LegsEnd, LegsOver, PixelInv, Still
  <2>2. walk.node \in pool.stops
    BY <2>1 DEF WayInv, UnderWay
  <2>3. node' \in pool.stops /\ pc' = "ready" /\ outcome' \in {"arrived", "stuck"}
        /\ UNCHANGED <<quad, pool>>
    BY <1>7, <2>2 DEF LegsEnd
  <2>4. QED
    BY <2>3 DEF WayInv, EveryStopHasAWay, UnderWay
<1>8. CASE ObserveFails \/ MoveRaises \/ Dies
  BY <1>8, DownIsOnTheWay DEF ObserveFails, MoveRaises, Dies
<1>9. CASE Drive \/ Watchdog \/ Moves
  BY <1>9 DEF Drive, Watchdog, Moves, course, WayInv, EveryStopHasAWay, UnderWay, StopsOn
<1>10. CASE Attach
  BY <1>10 DEF Attach, course, WayInv, EveryStopHasAWay, UnderWay
<1>11. CASE UNCHANGED vars
  BY <1>11 DEF vars, course, WayInv, EveryStopHasAWay, UnderWay, StopsOn
<1>12. QED
  BY <1>1, <1>2, <1>3, <1>4, <1>5, <1>6, <1>7, <1>8, <1>9, <1>10, <1>11 DEF Next, Leave

------------------------------------------------------------------------------
(* The theorems.                                                           *)

LEMMA NextHolds == PixelInv /\ [Next]_vars => PixelInv'
<1> SUFFICES ASSUME PixelInv, [Next]_vars PROVE PixelInv'
  OBVIOUS
<1>1. CASE Observe
  BY <1>1, ObserveHolds
<1>2. CASE ObserveFails
  <2>1. (pawn.yaw + 1) % 4 \in 0..3 /\ pawn \in Where
    BY DEF PixelInv, PixelTypes, PoseTypes, Where
  <2>2. [pawn EXCEPT !.yaw = (@ + 1) % 4] \in Where
    BY <2>1 DEF Where
  <2>3. pawn' \in Where
    BY <1>2, <2>1, <2>2 DEF ObserveFails
  <2>4. QED
    BY <1>2, <2>3, DownHolds DEF ObserveFails
<1>3. CASE RefusedBeforeEngine
  BY <1>3, RefusalHolds DEF RefusedBeforeEngine
<1>4. CASE PairRejects
  BY <1>4, PairRejectsHolds
<1>5. CASE PairWalks
  BY <1>5, PairWalksHolds
<1>6. CASE Resolve
  BY <1>6, ResolveAcceptsHolds, ResolveRejectsHolds, ResolveRaisesHolds DEF Resolve
<1>7. CASE PawnLost \/ LegRefused \/ LegStarts \/ LegRaises
  BY <1>7, PawnLostHolds, LegRefusedHolds, LegStartsHolds, LegRaisesHolds
<1>8. CASE MoveRaises \/ PairLands \/ LegUnfinished \/ LegArrives \/ StoppedShort
  BY <1>8, MoveRaisesHolds, PairLandsHolds, LegUnfinishedHolds, LegArrivesHolds,
     StoppedShortHolds
<1>9. CASE LegsEnd
  BY <1>9, LegsEndHolds
<1>10. CASE Drive
  BY <1>10, DriveHolds
<1>11. CASE Watchdog
  BY <1>11, WatchdogHolds
<1>12. CASE Moves
  BY <1>12, MovesHolds
<1>13. CASE Dies
  BY <1>13, DownHolds DEF Dies, PixelInv, PixelTypes, PoseTypes
<1>14. CASE Attach
  BY <1>14, AttachHolds
<1>15. CASE UNCHANGED vars
  <2>1. PixelTypes'
    BY <1>15
    DEF PixelInv, PixelTypes, PoseTypes, MoveTypes, CourseTypes, vars, runtime, course
  <2>2. Still' /\ ReportedIsWhatHappened' /\ PoseIsPawn' /\ PhotosAreHere'
    BY <1>15
    DEF PixelInv, Still, ReportedIsWhatHappened, PoseIsPawn, PhotosAreHere, vars, runtime,
        course
  <2>3. /\ WalkLeads' /\ OnALeg' /\ NodeIsStop' /\ ArrivedIsThere' /\ PixelsStayFresh'
        /\ AtHome'
    BY <1>15
    DEF PixelInv, WalkLeads, UnderWay, OnALeg, NodeIsStop, ArrivedIsThere, PixelsStayFresh,
        AtHome, vars, runtime, course
  <2>4. QED
    BY <2>1, <2>2, <2>3 DEF PixelInv
<1>16. QED
  BY <1>1, <1>2, <1>3, <1>4, <1>5, <1>6, <1>7, <1>8, <1>9, <1>10, <1>11, <1>12, <1>13,
     <1>14, <1>15 DEF Next, Leave

LEMMA InvHolds == Spec => []PixelInv
<1>1. Init => PixelInv
  BY InitHolds
<1>2. PixelInv /\ [Next]_vars => PixelInv'
  BY NextHolds
<1>3. QED
  BY <1>1, <1>2, PTL DEF Spec

(* walk_to_pixel never asks the engine about a photograph the pawn no      *)
(* longer stands at: its finally clause and the turning back leave every   *)
(* photograph either void or where the pawn is.                            *)
THEOREM PixelsAreFresh == Spec => []PixelsStayFresh
<1>1. PixelInv => PixelsStayFresh
  BY DEF PixelInv
<1>2. QED
  BY <1>1, InvHolds, PTL

(* execute reports what became of the move, wherever the engine ended it   *)
(* between the host's calls, and whoever was told.                         *)
THEOREM OutcomesAreTrue == Spec => []ReportedIsWhatHappened
<1>1. PixelInv => ReportedIsWhatHappened
  BY DEF PixelInv
<1>2. QED
  BY <1>1, InvHolds, PTL

(* After every call of walk_to_pixel the graph has the stop the pawn is    *)
(* at, and a walk that arrived is on the node that was meant, whatever     *)
(* pool was loaded and however often legs were refused or stopped short.   *)
THEOREM GraphKeepsUp == Spec => []NodeTracksPawn
<1>1. PixelInv => NodeTracksPawn
  BY DEF PixelInv, PoseIsPawn, NodeIsStop, ArrivedIsThere, NodeTracksPawn
<1>2. QED
  BY <1>1, InvHolds, PTL

(* _execute_pedestrian_legs starts a leg only from the node it was         *)
(* certified from, and none the walk was refused before.                   *)
THEOREM LegsStartCertified == Spec => LegsAreCertifiedHere
<1>1. PixelInv /\ [Next]_vars =>
        [pc = "legs" /\ pc' = "driving" =>
           /\ pawn'.at = walk.node /\ pawn'.off = "on"
           /\ Leg \in pool.legs \ walk.refused]_vars
  <2> SUFFICES ASSUME PixelInv, [Next]_vars, pc = "legs", pc' = "driving"
               PROVE  /\ pawn'.at = walk.node /\ pawn'.off = "on"
                      /\ Leg \in pool.legs \ walk.refused
    OBVIOUS
  <2>1. LegStarts
    BY DEF Next, Leave, vars, Observe, ObserveFails, RefusedBeforeEngine, PairRejects,
           PairWalks, Resolve, ResolveAccepts, ResolveRejects, ResolveRaises, PawnLost,
           LegRefused, LegRaises, MoveRaises, PairLands, LegUnfinished, LegArrives,
           StoppedShort, LegEnds, Answered, LegsEnd, Drive, Watchdog, Moves, Dies, Attach,
           Down
  <2>2. LegDue /\ LegCanStart /\ pawn' = Facing
    BY <2>1 DEF LegStarts
  <2>3. QED
    BY <2>2, LegFinds, DueLegsAreCertified
<1>2. QED
  BY <1>1, InvHolds, PTL DEF Spec, LegsAreCertifiedHere

(* A pixel on a stop is never refused for want of a way there: a pool that *)
(* loads connects its stops, every certified leg is a move to its own end, *)
(* and no walk, refused, broken off or planned again, leaves the graph     *)
(* elsewhere than at a stop.                                               *)
THEOREM StopsAreReached == Spec => []EveryStopHasAWay
<1>1. Init => WayInv
  <2>1. SUFFICES ASSUME Init PROVE WayInv
    OBVIOUS
  <2>2. Spawn \in pool.stops
    BY <2>1, PixelAssumption DEF Init, Loaded
  <2>3. QED
    BY <2>1, <2>2 DEF Init, WayInv, EveryStopHasAWay, UnderWay
<1>2. PixelInv /\ WayInv /\ [Next]_vars => WayInv'
  BY WayStep
<1>3. WayInv => EveryStopHasAWay
  BY DEF WayInv
<1>4. QED
  BY <1>1, <1>2, <1>3, InvHolds, PTL DEF Spec

(* Whatever legs the engine accepts of a survey, the pool the tool writes  *)
(* for them loads: its legs are connected because the component was, every *)
(* chain is there whole because its own nodes and edges are written, and   *)
(* the stops are joined along them.                                        *)
THEOREM PrunedPoolsAreLoaded == Spec => []PrunedPoolsLoad
<1>1. PrunedPoolsLoad
  BY PruneLoads DEF PrunedPoolsLoad, EveryPruneLoads
<1>2. QED
  BY <1>1, PTL
==============================================================================
