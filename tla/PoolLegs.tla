------------------------------ MODULE PoolLegs ------------------------------
(***************************************************************************)
(* The planner of the four-view Pixel Goal harness                         *)
(* (tools/pixel_goal_order_pool.py).  A delivery pool is a graph of        *)
(* pedestrian nodes; a leg is a straight walk between two of them along    *)
(* paving; the engine certifies some of the legs, and every walk is a      *)
(* route of moves over the certified ones.  Metres are whole numbers,      *)
(* rounded down.                                                           *)
(***************************************************************************)
EXTENDS Integers, Sequences, FiniteSets, FiniteSetsExt, SequencesExt

CONSTANTS
  Node,               \* the nodes of the surveyed pool
  Position,           \* Position[n] = <<x, y>>, metres
  Edge,               \* its edges, sets of two nodes
  Protected,          \* nodes of the certified stops and spawns
  Entrance,           \* the stops' among them, handover nodes at doors
  Connector,          \* edges surveyed as an entrance's way to the pavement
  MinLeg, MaxLeg,     \* MIN_LEG_CM and MAX_LEG_CM
  Epsilon,            \* LEG_EPSILON_CM
  StepCost            \* LEG_STEP_COST_CM

ASSUME PoolAssumption ==
  /\ IsFiniteSet(Node) /\ Protected \subseteq Node /\ Entrance \subseteq Protected
  /\ Position \in [Node -> Int \X Int]
  /\ \A e \in Edge : e \subseteq Node /\ Cardinality(e) = 2
  (* The builder (tools/build_trusted_pedestrian_order_pool.py) adds the   *)
  (* node of an entrance with its connector and no other edge.             *)
  /\ \A n \in Entrance : \E e \in Connector : {d \in Edge : n \in d} = {e}
  /\ MinLeg \in Nat \ {0} /\ MaxLeg \in Nat
  /\ Epsilon \in Nat /\ StepCost \in Nat

(* A version of the pool: the stops are its nodes but pass_through_nodes,  *)
(* which are walked over and never stopped on; the legs its certified_legs.*)
Pool == [nodes : SUBSET Node, edges : SUBSET Edge,
         stops : SUBSET Node, legs : SUBSET (Node \X Node)]

Dx(a, b) == Position[b][1] - Position[a][1]
Dy(a, b) == Position[b][2] - Position[a][2]
Square(a, b) == Dx(a, b) * Dx(a, b) + Dy(a, b) * Dy(a, b)
Metres(a, b) == Cardinality({n \in 1..Square(a, b) : n * n <= Square(a, b)})

PathMetres(path) ==
  MapThenSumSet(LAMBDA i : Metres(path[i], path[i + 1]), 1..(Len(path) - 1))

(* The walks from node to node that visit none twice.                      *)
Trails ==
  {[path |-> p, metres |-> PathMetres(p)] : p \in SetToAllKPermutations(Node) \ {<<>>}}

Joins(t, a, b) == Head(t.path) = a /\ Last(t.path) = b
Steps(t) == {<<t.path[i], t.path[i + 1]>> : i \in 1..(Len(t.path) - 1)}

PoolTrails ==
  {[ends |-> ends, trails |-> {t \in Trails : Joins(t, ends[1], ends[2])}] :
     ends \in Node \X Node}
TrailsJoining(a, b) == (CHOOSE p \in PoolTrails : p.ends = <<a, b>>).trails

------------------------------------------------------------------------------
(* Legs.                                                                   *)

(* The nodes no further than Epsilon from the chord from a to b.           *)
NodesAlong(a, b) ==
  {n \in Node :
     LET dot == Dx(a, n) * Dx(a, b) + Dy(a, n) * Dy(a, b)
         cross == Dx(a, n) * Dy(a, b) - Dy(a, n) * Dx(a, b)
     IN /\ 0 <= dot /\ dot <= Square(a, b)
        /\ cross * cross <= Epsilon * Epsilon * Square(a, b)}

(* The shortest edge paths from a to b that keep to the chord, in the part *)
(* of the pool with these nodes and edges.                                 *)
ChainWithin(nodes, edges, a, b) ==
  LET allowed == NodesAlong(a, b) \intersect nodes
      paths == {t \in TrailsJoining(a, b) :
                  /\ ToSet(t.path) \subseteq allowed
                  /\ \A s \in Steps(t) : {s[1], s[2]} \in edges}
  IN {t.path : t \in {u \in paths : \A v \in paths : u.metres <= v.metres}}

CandidateLegs ==
  {leg \in Node \X Node :
     /\ leg[1] # leg[2]
     /\ MinLeg * MinLeg <= Square(leg[1], leg[2])
     /\ Square(leg[1], leg[2]) <= MaxLeg * MaxLeg
     /\ ChainWithin(Node, Edge, leg[1], leg[2]) # {}}

Chained ==
  {[ends |-> leg,
    chain |-> CHOOSE t \in ChainWithin(Node, Edge, leg[1], leg[2]) : TRUE] :
   leg \in CandidateLegs}
LegChain(leg) == (CHOOSE l \in Chained : l.ends = leg).chain

(* The part of a leg's chain a pawn walks that stops at node stop.         *)
Walked(leg, stop) ==
  LET chain == LegChain(leg)
      last == CHOOSE i \in DOMAIN chain : chain[i] = stop
  IN {chain[i] : i \in 1..last}

(* Nodes that all reach one another: no part of them but the whole is      *)
(* closed under the arcs.                                                  *)
Connected(part, arcs) ==
  \A some \in (SUBSET part) \ {{}, part} :
    \E arc \in arcs : arc[1] \in some /\ arc[2] \in part \ some

LargestComponents(arcs) ==
  LET parts == {part \in SUBSET Node : part # {} /\ Connected(part, arcs)}
  IN {part \in parts : \A other \in parts : Cardinality(other) <= Cardinality(part)}

------------------------------------------------------------------------------
(* The next version of a pool (tools/prune_pixel_goal_pool.py).            *)

PrunedTo_AnyStart(component, accepted) ==
  LET legs == {leg \in accepted : leg[1] \in component}
      chains == {LegChain(leg) : leg \in legs}
  IN [nodes |-> component \union UNION {ToSet(c) : c \in chains},
      edges |-> UNION {{{c[i], c[i + 1]} : i \in 1..(Len(c) - 1)} : c \in chains},
      stops |-> component, legs |-> legs]

(* The legs within the component, the edges they walk over, and as         *)
(* pass-through nodes those they only walk over.                           *)
PrunedTo(component, accepted) ==
  LET legs == {leg \in accepted : leg[1] \in component /\ leg[2] \in component}
      chains == {LegChain(leg) : leg \in legs}
  IN [nodes |-> component \union UNION {ToSet(c) : c \in chains},
      edges |-> UNION {{{c[i], c[i + 1]} : i \in 1..(Len(c) - 1)} : c \in chains},
      stops |-> component, legs |-> legs]

(* build: what the tool writes for the legs the engine accepted; nothing   *)
(* when a certified stop or spawn falls out or a node is left on no edge.  *)
Prune(accepted) ==
  {file \in {PrunedTo(component, accepted) : component \in LargestComponents(accepted)} :
     Protected \subseteq file.stops /\ file.nodes \subseteq UNION file.edges}

WaysIn(file) == \A n \in file.stops : \E leg \in file.legs : leg[2] = n

LoadsCertifiedLegs_WaysIn(file) ==
  file.legs # {} /\ file.legs \subseteq file.stops \X file.stops /\ WaysIn(file)

LoadsCertifiedLegs(file) ==
  /\ file.legs # {} /\ file.legs \subseteq file.stops \X file.stops
  /\ Connected(file.stops, file.legs)

(* load_validated_delivery_pool, its last check: the edges join the stops  *)
(* and spawns.                                                             *)
JoinsProtected(file) ==
  /\ Protected \subseteq file.nodes
  /\ \A a, b \in Protected :
       \E t \in TrailsJoining(a, b) : \A s \in Steps(t) : {s[1], s[2]} \in file.edges

(* Every stop has its audited way to the pavement among the pool's edges.  *)
HasEntrances(file) ==
  \A n \in Entrance : Cardinality({e \in file.edges \intersect Connector : n \in e}) = 1

(* certified_leg_chains: a certified leg that is none of the pool's        *)
(* geometry is an error.                                                   *)
LegsOfThePool(file) ==
  \A leg \in file.legs :
    leg \in CandidateLegs /\ ChainWithin(file.nodes, file.edges, leg[1], leg[2]) # {}

Loads(file) ==
  /\ HasEntrances(file) /\ LoadsCertifiedLegs(file)
  /\ JoinsProtected(file) /\ LegsOfThePool(file)

------------------------------------------------------------------------------
(* Moves and routes.                                                       *)

(* The certified legs, each with the stops it passes over or ends at.      *)
LegsAndStops(file) ==
  UNION {{<<leg, stop>> : stop \in ToSet(Tail(LegChain(leg))) \intersect file.stops} :
           leg \in file.legs}

(* certified_moves: a stop is reached by aiming at the end of the shortest *)
(* certified leg over it, at the stop itself when that is a leg's end.     *)
CertifiedMoves(file) ==
  LET rides == LegsAndStops(file)
      shortest(r) == \A q \in rides :
                       q[1][1] = r[1][1] /\ q[2] = r[2]
                         => Square(r[1][1], r[1][2]) <= Square(q[1][1], q[1][2])
      direct(r) == r[1][2] = r[2]
  IN {[start |-> r[1][1], stop |-> r[2], aim |-> r[1][2]] :
        r \in {q \in rides :
                 direct(q) \/ (<<q[1][1], q[2]>> \notin file.legs /\ shortest(q))}}

RouteCost(t) == t.metres + (Len(t.path) - 1) * StepCost

(* The moves along a trail.                                                *)
Route(t, moves) ==
  [i \in 1..(Len(t.path) - 1) |->
     CHOOSE m \in moves : m.start = t.path[i] /\ m.stop = t.path[i + 1]]

(* plan_pool_legs: the cheapest routes from one node to another as moves   *)
(* of the pool, none along a leg in avoid.  Ties, broken by node id in the *)
(* code, are all allowed; no route gives the empty set, no distance the    *)
(* empty route.                                                            *)
PlanPoolLegs(certified, from, to, avoid) ==
  LET moves == {m \in certified : <<m.start, m.aim>> \notin avoid}
      joined == {<<m.start, m.stop>> : m \in moves}
      routes == {t \in TrailsJoining(from, to) : Steps(t) \subseteq joined}
  IN {Route(t, moves) :
        t \in {u \in routes : \A v \in routes : RouteCost(u) <= RouteCost(v)}}

------------------------------------------------------------------------------
(* A pool the tool wrote is one the loader takes, entrances, legs and all, *)
(* and its legs run over the nodes they were judged over.                  *)
WrittenWell(file) ==
  /\ Loads(file)
  /\ \A leg \in file.legs :
       LegChain(leg) \in ChainWithin(file.nodes, file.edges, leg[1], leg[2])

EveryPruneLoads ==
  \A accepted \in SUBSET CandidateLegs : \A file \in Prune(accepted) : WrittenWell(file)
==============================================================================
