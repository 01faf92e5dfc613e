--------------------------- MODULE StreetWalkProofs ---------------------------
(***************************************************************************)
(* Proofs about StreetWalk for every street plan, every album and every    *)
(* draw of obstacles.                                                      *)
(***************************************************************************)
EXTENDS StreetWalk, FiniteSums, TLAPS

(* Going over a finite road, or over the members of a finite set.          *)

Iterates(base, step, K, f) ==
  f = [i \in 0..K |-> IF i = 0 THEN base ELSE step[f[i - 1]]]

LEMMA IteratesExist ==
  ASSUME NEW V, NEW base \in V, NEW step \in [V -> V], NEW K \in Nat
  PROVE  \E f \in [0..K -> V] : Iterates(base, step, K, f)
<1> DEFINE Has(k) == \E f \in [0..k -> V] : Iterates(base, step, k, f)
           N == {k \in Nat : Has(k)}
<1>1. Has(0)
  <2>1. PICK f : f = [i \in 0..0 |-> base]
    OBVIOUS
  <2>2. f \in [0..0 -> V] /\ f = [i \in 0..0 |-> IF i = 0 THEN base ELSE step[f[i - 1]]]
    BY <2>1
  <2>3. QED
    BY <2>2 DEF Iterates
<1>2. ASSUME NEW k \in Nat, Has(k) PROVE Has(k + 1)
  <2>1. PICK f \in [0..k -> V] : Iterates(base, step, k, f)
    BY <1>2
  <2>2. PICK g : g = [i \in 0..(k + 1) |-> IF i = 0 THEN base ELSE step[f[i - 1]]]
    OBVIOUS
  <2>3. \A i \in 0..k : g[i] = f[i]
    BY <2>1, <2>2 DEF Iterates
  <2>4. \A i \in 0..(k + 1) : i # 0 => i - 1 \in 0..k
    OBVIOUS
  <2>5. g \in [0..(k + 1) -> V]
    BY <2>1, <2>2, <2>4
  <2>6. \A i \in 0..(k + 1) :
          (IF i = 0 THEN base ELSE step[f[i - 1]]) = IF i = 0 THEN base ELSE step[g[i - 1]]
    BY <2>3, <2>4
  <2>7. Iterates(base, step, k + 1, g)
    BY <2>2, <2>6 DEF Iterates
  <2>8. QED
    BY <2>5, <2>7
<1> HIDE DEF Has
<1>3. 0 \in N /\ \A k \in N : k + 1 \in N
  BY <1>1, <1>2
<1>4. Nat \subseteq N
  <2> HIDE DEF N
  <2>1. N \in SUBSET Nat
    BY DEF N
  <2>2. QED
    BY <1>3, <2>1, CountingUp
<1>5. Has(K)
  BY <1>4
<1>6. QED
  BY <1>5 DEF Has

------------------------------------------------------------------------------
(* Reach.                                                                  *)

Wider(near, roads) == near \union {m \in Node : \E k \in near : {k, m} \in roads}
Closed(near, roads) == \A k \in near : \A m \in Node : {k, m} \in roads => m \in near

Rings(n, roads, ring) ==
  ring = [i \in 0..Cardinality(Node) |-> IF i = 0 THEN {n} ELSE Wider(ring[i - 1], roads)]

LEMMA NodesAreFinite == IsFiniteSet(Node) /\ Cardinality(Node) \in Nat
  BY StreetAssumption, FS_CardinalityType

LEMMA ReachIsARing ==
  ASSUME NEW n \in Node, NEW roads
  PROVE  \E ring : Rings(n, roads, ring) /\ Reach(n, roads) = ring[Cardinality(Node)]
<1> DEFINE K == Cardinality(Node)
           step == [near \in SUBSET Node |-> Wider(near, roads)]
<1>1. PICK f \in [0..K -> SUBSET Node] : Iterates({n}, step, K, f)
  <2>1. step \in [SUBSET Node -> SUBSET Node]
    BY DEF Wider
  <2>2. {n} \in SUBSET Node /\ K \in Nat
    BY NodesAreFinite
  <2> HIDE DEF step, K
  <2>3. QED
    BY <2>1, <2>2, IteratesExist
<1>2. \A i \in 0..K : i # 0 => i - 1 \in 0..K
  BY NodesAreFinite
<1>3. \A i \in 0..K : (IF i = 0 THEN {n} ELSE step[f[i - 1]])
                        = IF i = 0 THEN {n} ELSE Wider(f[i - 1], roads)
  BY <1>1, <1>2
<1> HIDE DEF step
<1>4. Rings(n, roads, f)
  BY <1>1, <1>3 DEF Iterates, Rings
<1>5. Reach(n, roads) = (CHOOSE ring : Rings(n, roads, ring))[K]
  BY DEF Reach, Rings, Wider
<1>6. QED
  BY <1>4, <1>5

(* What Reach promises: the least set with n that no road leads out of.    *)
LEMMA ReachGrows ==
  ASSUME NEW n \in Node, NEW roads, NEW ring, Rings(n, roads, ring)
  PROVE  \A i \in 0..Cardinality(Node) :
           /\ n \in ring[i] /\ ring[i] \in SUBSET Node
           /\ Closed(ring[i], roads) \/ Cardinality(ring[i]) > i
<1> DEFINE K == Cardinality(Node)
           Good(i) == /\ n \in ring[i] /\ ring[i] \in SUBSET Node
                      /\ Closed(ring[i], roads) \/ Cardinality(ring[i]) > i
           N == {i \in Nat : i <= K => Good(i)}
<1>1. K \in Nat
  BY NodesAreFinite
<1>2. 0 \in N
  <2>1. ring[0] = {n}
    BY <1>1 DEF Rings
  <2>2. Cardinality({n}) = 1
    BY FS_Singleton
  <2>3. QED
    BY <2>1, <2>2
<1>3. ASSUME NEW i \in N PROVE i + 1 \in N
  <2>1. SUFFICES ASSUME i + 1 <= K PROVE Good(i + 1)
    OBVIOUS
  <2>2. Good(i) /\ i \in Nat /\ i + 1 \in 0..K /\ i + 1 # 0 /\ (i + 1) - 1 = i
    BY <1>1, <2>1
  <2>3. ring[i + 1] = Wider(ring[i], roads)
    BY <2>2 DEF Rings
  <2>4. ring[i] \subseteq ring[i + 1] /\ ring[i + 1] \in SUBSET Node
    BY <2>2, <2>3 DEF Wider
  <2>5. CASE Closed(ring[i], roads)
    <3>1. ring[i + 1] = ring[i]
      BY <2>2, <2>3, <2>5 DEF Closed, Wider
    <3>2. QED
      BY <2>2, <2>5, <3>1
  <2>6. CASE ~Closed(ring[i], roads)
    <3>1. ring[i + 1] # ring[i]
      BY <2>2, <2>3, <2>6 DEF Closed, Wider
    <3>2. IsFiniteSet(ring[i + 1]) /\ Cardinality(ring[i + 1]) \in Nat
      BY <2>4, NodesAreFinite, FS_Subset, FS_CardinalityType
    <3>3. Cardinality(ring[i]) < Cardinality(ring[i + 1]) /\ Cardinality(ring[i]) \in Nat
      <4>1. IsFiniteSet(ring[i]) /\ Cardinality(ring[i]) \in Nat
        BY <2>2, NodesAreFinite, FS_Subset, FS_CardinalityType
      <4>2. Cardinality(ring[i]) <= Cardinality(ring[i + 1])
            /\ Cardinality(ring[i]) # Cardinality(ring[i + 1])
        BY <2>4, <3>1, <3>2, FS_Subset
      <4>3. QED
        BY <3>2, <4>1, <4>2
    <3>4. QED
      BY <2>2, <2>4, <2>6, <3>2, <3>3
  <2>7. QED
    BY <2>5, <2>6
<1>4. Nat \subseteq N
  <2> HIDE DEF N
  <2>1. N \in SUBSET Nat
    BY DEF N
  <2>2. QED
    BY <1>2, <1>3, <2>1, CountingUp
<1>5. QED
  BY <1>1, <1>4

LEMMA ReachIsClosed ==
  ASSUME NEW n \in Node, NEW roads
  PROVE  /\ n \in Reach(n, roads) /\ Reach(n, roads) \in SUBSET Node
         /\ Closed(Reach(n, roads), roads)
<1>1. PICK ring : Rings(n, roads, ring) /\ Reach(n, roads) = ring[Cardinality(Node)]
  BY ReachIsARing
<1> DEFINE W == ring[Cardinality(Node)]
<1>2. /\ n \in W /\ W \in SUBSET Node
      /\ Closed(W, roads) \/ Cardinality(W) > Cardinality(Node)
  BY <1>1, NodesAreFinite, ReachGrows
<1>3. Cardinality(W) \in Nat /\ Cardinality(W) <= Cardinality(Node)
  BY <1>2, NodesAreFinite, FS_Subset, FS_CardinalityType
<1>4. QED
  BY <1>1, <1>2, <1>3, NodesAreFinite

LEMMA ReachIsLeast ==
  ASSUME NEW n \in Node, NEW roads, NEW W \in SUBSET Node, n \in W, Closed(W, roads)
  PROVE  Reach(n, roads) \subseteq W
<1>1. PICK ring : Rings(n, roads, ring) /\ Reach(n, roads) = ring[Cardinality(Node)]
  BY ReachIsARing
<1> DEFINE K == Cardinality(Node)
           N == {i \in Nat : i <= K => ring[i] \subseteq W}
<1>2. K \in Nat
  BY NodesAreFinite
<1>3. 0 \in N
  BY <1>1, <1>2 DEF Rings
<1>4. ASSUME NEW i \in N PROVE i + 1 \in N
  <2>1. SUFFICES ASSUME i + 1 <= K PROVE ring[i + 1] \subseteq W
    OBVIOUS
  <2>2. ring[i] \subseteq W /\ i + 1 \in 0..K /\ i + 1 # 0 /\ (i + 1) - 1 = i
    BY <1>2, <2>1
  <2>3. ring[i + 1] = Wider(ring[i], roads)
    BY <1>1, <2>2 DEF Rings
  <2>4. QED
    BY <2>2, <2>3 DEF Wider, Closed
<1>5. Nat \subseteq N
  <2> HIDE DEF N
  <2>1. N \in SUBSET Nat
    BY DEF N
  <2>2. QED
    BY <1>3, <1>4, <2>1, CountingUp
<1>6. QED
  BY <1>1, <1>2, <1>5

(* Roads more, places more; and from a place in reach nothing further is.  *)
LEMMA ReachIsMonotone ==
  ASSUME NEW n \in Node, NEW fewer, NEW roads, fewer \subseteq roads
  PROVE  Reach(n, fewer) \subseteq Reach(n, roads)
<1>1. Closed(Reach(n, roads), fewer)
  BY ReachIsClosed DEF Closed
<1>2. QED
  BY <1>1, ReachIsClosed, ReachIsLeast

LEMMA ReachIsTransitive ==
  ASSUME NEW n \in Node, NEW roads, NEW k \in Reach(n, roads)
  PROVE  k \in Node /\ Reach(k, roads) \subseteq Reach(n, roads)
<1>1. k \in Node
  BY ReachIsClosed
<1>2. QED
  BY <1>1, ReachIsClosed, ReachIsLeast

(* Without a road that is no bridge everything is still in reach.          *)
LEMMA NoBridgeNoLoss ==
  ASSUME NEW roads \in SUBSET Edge, NEW e, e \notin Bridges(roads), NEW n \in Node
  PROVE  Reach(n, roads \ {e}) = Reach(n, roads)
<1> DEFINE left == roads \ {e}
           W == Reach(n, left)
<1>1. W \subseteq Reach(n, roads)
  BY ReachIsMonotone
<1>2. n \in W /\ W \in SUBSET Node /\ Closed(W, left)
  BY ReachIsClosed
<1>3. Closed(W, roads)
  <2>1. SUFFICES ASSUME NEW k \in W, NEW m \in Node, {k, m} \in roads PROVE m \in W
    BY DEF Closed
  <2>2. CASE {k, m} # e
    BY <1>2, <2>1, <2>2 DEF Closed
  <2>3. CASE {k, m} = e
    <3>1. e \subseteq Reach(k, left)
      BY <2>1, <2>3 DEF Bridges
    <3>2. Reach(k, left) \subseteq W
      BY ReachIsTransitive
    <3>3. QED
      BY <2>3, <3>1, <3>2
  <2>4. QED
    BY <2>2, <2>3
<1>4. Reach(n, roads) \subseteq W
  BY <1>2, <1>3, ReachIsLeast
<1>5. QED
  BY <1>1, <1>4

------------------------------------------------------------------------------
(* The barriers, one by one.                                               *)

(* The fold over the keys takes the last of a set of them last.            *)
Latest(s) == CHOOSE i \in s : \A j \in s : i >= j
Tried(kinds, acc, e) ==
  IF kinds[e] # "block" THEN acc
  ELSE IF e \in Bridges(acc.left)
  THEN [acc EXCEPT !.kind[e] = "slow"]
  ELSE [acc EXCEPT !.left = @ \ {e}]

Keys == DOMAIN EdgeOrder
TriedUpTo(kinds, g, s) ==
  IF s = {} THEN [left |-> Edge, kind |-> kinds]
  ELSE Tried(kinds, g[s \ {Latest(s)}], EdgeOrder[Latest(s)])
IsTrying(kinds, g) == g = [s \in SUBSET Keys |-> TriedUpTo(kinds, g, s)]

LEMMA KeysAreNumbers ==
  /\ IsFiniteSet(Keys) /\ Cardinality(Keys) \in Nat
  /\ \A s \in SUBSET Keys :
       /\ Cardinality(s) \in Nat /\ (Cardinality(s) = 0 <=> s = {})
       /\ s # {} => /\ Latest(s) \in s /\ EdgeOrder[Latest(s)] \in Edge
                    /\ s \ {Latest(s)} \in SUBSET Keys
                    /\ Cardinality(s \ {Latest(s)}) = Cardinality(s) - 1
<1>1. Keys = 1..Len(EdgeOrder) /\ Len(EdgeOrder) \in Nat
  BY StreetAssumption DEF Keys
<1>2. IsFiniteSet(Keys)
  BY <1>1, FS_Interval
<1>3. ASSUME NEW s \in SUBSET Keys
      PROVE  /\ IsFiniteSet(s) /\ Cardinality(s) \in Nat
             /\ (Cardinality(s) = 0 <=> s = {})
  BY <1>2, FS_Subset, FS_CardinalityType, FS_EmptySet
<1>4. ASSUME NEW s \in SUBSET Keys, s # {} PROVE Latest(s) \in s
  <2> DEFINE below == {Len(EdgeOrder) - i : i \in s}
  <2>1. below \in SUBSET Nat /\ below # {}
    <3>1. \A i \in s : i \in 1..Len(EdgeOrder)
      BY <1>1
    <3>2. \A i \in s : Len(EdgeOrder) - i \in Nat
      BY <1>1, <3>1
    <3>3. QED
      BY <1>4, <3>2
  <2>2. PICK x \in below : \A y \in below : x <= y
    <3> HIDE DEF below
    <3>1. PICK x \in below : \A y \in below : ~(<<y, x>> \in OpToRel(<, Nat))
      BY <2>1, NatLessThanWellFounded, WFMin
    <3>2. \A y \in below : ~(y < x)
      BY <2>1, <3>1 DEF OpToRel
    <3>3. QED
      BY <2>1, <3>2
  <2>3. PICK i \in s : x = Len(EdgeOrder) - i
    BY <2>2
  <2>4. ASSUME NEW j \in s PROVE i >= j
    <3>1. x <= Len(EdgeOrder) - j /\ i \in Int /\ j \in Int
      BY <1>1, <2>2
    <3>2. QED
      BY <1>1, <2>3, <3>1
  <2>5. QED
    BY <2>4 DEF Latest
<1>5. ASSUME NEW s \in SUBSET Keys, s # {}
      PROVE  /\ EdgeOrder[Latest(s)] \in Edge
             /\ Cardinality(s \ {Latest(s)}) = Cardinality(s) - 1
  <2>1. Latest(s) \in s /\ Latest(s) \in Keys /\ IsFiniteSet(s)
    BY <1>3, <1>4, <1>5
  <2>2. QED
    BY <2>1, FS_RemoveElement, StreetAssumption DEF Keys
<1>6. QED
  BY <1>2, <1>3, <1>4, <1>5, FS_CardinalityType

LEMMA TryingExists ==
  ASSUME NEW kinds
  PROVE  \E g : IsTrying(kinds, g)
<1> DEFINE Has(n) == \E g :
             \A s \in SUBSET Keys : Cardinality(s) <= n => g[s] = TriedUpTo(kinds, g, s)
           N == {n \in Nat : Has(n)}
<1>1. Has(0)
  <2>1. PICK g : g = [s \in SUBSET Keys |-> [left |-> Edge, kind |-> kinds]]
    OBVIOUS
  <2>2. ASSUME NEW s \in SUBSET Keys, Cardinality(s) <= 0 PROVE s = {}
    <3>1. Cardinality(s) \in Nat /\ (Cardinality(s) = 0 <=> s = {})
      BY KeysAreNumbers
    <3>2. QED
      BY <2>2, <3>1
  <2>3. QED
    BY <2>1, <2>2 DEF TriedUpTo
<1>2. ASSUME NEW n \in Nat, Has(n) PROVE Has(n + 1)
  <2>1. PICK g : \A s \in SUBSET Keys : Cardinality(s) <= n => g[s] = TriedUpTo(kinds, g, s)
    BY <1>2
  <2>2. PICK k : k = [s \in SUBSET Keys |->
                        IF Cardinality(s) <= n THEN g[s] ELSE TriedUpTo(kinds, g, s)]
    OBVIOUS
  <2>3. ASSUME NEW s \in SUBSET Keys, Cardinality(s) <= n + 1
        PROVE  k[s] = TriedUpTo(kinds, k, s)
    <3>1. k[s] = TriedUpTo(kinds, g, s)
      BY <2>1, <2>2
    <3>2. CASE s = {}
      BY <3>1, <3>2 DEF TriedUpTo
    <3>3. CASE s # {}
      <4>1. s \ {Latest(s)} \in SUBSET Keys /\ Cardinality(s \ {Latest(s)}) <= n
        BY <2>3, <3>3, KeysAreNumbers
      <4>2. k[s \ {Latest(s)}] = g[s \ {Latest(s)}]
        BY <2>2, <4>1
      <4>3. QED
        BY <3>1, <4>2 DEF TriedUpTo
    <3>4. QED
      BY <3>2, <3>3
  <2>4. QED
    BY <2>3
<1> HIDE DEF Has
<1>3. Nat \subseteq N
  <2>1. 0 \in N /\ \A n \in N : n + 1 \in N
    BY <1>1, <1>2
  <2>2. N \in SUBSET Nat
    OBVIOUS
  <2> HIDE DEF N
  <2>3. QED
    BY <2>1, <2>2, CountingUp
<1>4. Has(Cardinality(Keys))
  BY <1>3, KeysAreNumbers
<1>5. PICK g : \A s \in SUBSET Keys :
                 Cardinality(s) <= Cardinality(Keys) => g[s] = TriedUpTo(kinds, g, s)
  BY <1>4 DEF Has
<1>6. \A s \in SUBSET Keys : Cardinality(s) <= Cardinality(Keys)
  BY KeysAreNumbers, FS_Subset
<1>7. PICK k : k = [s \in SUBSET Keys |-> g[s]]
  OBVIOUS
<1>8. ASSUME NEW s \in SUBSET Keys PROVE TriedUpTo(kinds, g, s) = TriedUpTo(kinds, k, s)
  <2>1. s # {} => k[s \ {Latest(s)}] = g[s \ {Latest(s)}]
    BY <1>7, KeysAreNumbers
  <2>2. QED
    BY <2>1 DEF TriedUpTo
<1>9. k = [s \in SUBSET Keys |-> TriedUpTo(kinds, k, s)]
  BY <1>5, <1>6, <1>7, <1>8
<1>10. QED
  BY <1>9 DEF IsTrying

(* Of what was tried so far: nothing is cut off, and what stayed a barrier *)
(* is off the roads that are left.                                         *)
Kinds == {"none", "slow", "block"}
NothingCut(kinds, acc, s) ==
  /\ acc \in [left : SUBSET Edge, kind : [Edge -> Kinds]]
  /\ \A n \in Node : Reach(n, acc.left) = Reach(n, Edge)
  /\ \A e \in Edge : acc.kind[e] = "block" => kinds[e] = "block"
  /\ \A i \in s : acc.kind[EdgeOrder[i]] = "block" => EdgeOrder[i] \notin acc.left

LEMMA TriedCutsNothing ==
  ASSUME NEW kinds, NEW acc, NEW s \in SUBSET Keys, NEW i \in Keys,
         NothingCut(kinds, acc, s)
  PROVE  NothingCut(kinds, Tried(kinds, acc, EdgeOrder[i]), s \union {i})
<1> DEFINE e == EdgeOrder[i]
           on == Tried(kinds, acc, e)
<1>1. e \in Edge /\ \A j \in s : EdgeOrder[j] \in Edge
  BY StreetAssumption DEF Keys
<1>2. /\ acc \in [left : SUBSET Edge, kind : [Edge -> Kinds]]
      /\ \A n \in Node : Reach(n, acc.left) = Reach(n, Edge)
      /\ \A k \in Edge : acc.kind[k] = "block" => kinds[k] = "block"
      /\ \A j \in s : acc.kind[EdgeOrder[j]] = "block" => EdgeOrder[j] \notin acc.left
  BY DEF NothingCut
<1>3. CASE kinds[e] # "block"
  <2>1. on = acc
    BY <1>3 DEF Tried
  <2>2. acc.kind[e] # "block"
    BY <1>1, <1>2, <1>3
  <2> HIDE DEF on
  <2>3. QED
    BY <1>2, <2>1, <2>2 DEF NothingCut, on
<1>4. CASE kinds[e] = "block" /\ e \in Bridges(acc.left)
  <2>1. on = [acc EXCEPT !.kind[e] = "slow"]
    BY <1>4 DEF Tried
  <2>2. /\ on.left = acc.left /\ on.kind = [acc.kind EXCEPT ![e] = "slow"]
        /\ on \in [left : SUBSET Edge, kind : [Edge -> Kinds]]
    BY <1>1, <1>2, <2>1 DEF Kinds
  <2>3. on.kind[e] = "slow" /\ \A k \in Edge \ {e} : on.kind[k] = acc.kind[k]
    BY <1>1, <1>2, <2>2
  <2> HIDE DEF on
  <2>4. \A j \in s \union {i} : on.kind[EdgeOrder[j]] = "block" => EdgeOrder[j] \notin on.left
    BY <1>1, <1>2, <2>2, <2>3
  <2>5. \A k \in Edge : on.kind[k] = "block" => kinds[k] = "block"
    BY <1>2, <2>3
  <2>6. QED
    BY <1>2, <2>2, <2>4, <2>5 DEF NothingCut, on
<1>5. CASE kinds[e] = "block" /\ e \notin Bridges(acc.left)
  <2>1. on = [acc EXCEPT !.left = @ \ {e}]
    BY <1>5 DEF Tried
  <2>2. /\ on.left = acc.left \ {e} /\ on.kind = acc.kind
        /\ on \in [left : SUBSET Edge, kind : [Edge -> Kinds]]
    BY <1>2, <2>1
  <2> HIDE DEF on
  <2>3. \A n \in Node : Reach(n, on.left) = Reach(n, Edge)
    BY <1>2, <1>5, <2>2, NoBridgeNoLoss
  <2>4. \A j \in s \union {i} : on.kind[EdgeOrder[j]] = "block" => EdgeOrder[j] \notin on.left
    BY <1>2, <2>2
  <2>5. QED
    BY <1>2, <2>2, <2>3, <2>4 DEF NothingCut, on
<1>6. QED
  BY <1>3, <1>4, <1>5

LEMMA TryingCutsNothing ==
  ASSUME NEW kinds \in [Edge -> Kinds], NEW g, IsTrying(kinds, g)
  PROVE  NothingCut(kinds, g[Keys], Keys)
<1> DEFINE N == {n \in Nat : \A s \in SUBSET Keys :
                               Cardinality(s) = n => NothingCut(kinds, g[s], s)}
<1>1. \A s \in SUBSET Keys : g[s] = TriedUpTo(kinds, g, s)
  BY DEF IsTrying
<1>2. NothingCut(kinds, g[{}], {})
  <2>1. g[{}] = [left |-> Edge, kind |-> kinds]
    BY <1>1 DEF TriedUpTo
  <2>2. QED
    BY <2>1 DEF NothingCut
<1>3. 0 \in N
  BY <1>2, KeysAreNumbers
<1>4. ASSUME NEW n \in N PROVE n + 1 \in N
  <2>1. SUFFICES ASSUME NEW s \in SUBSET Keys, Cardinality(s) = n + 1
                 PROVE  NothingCut(kinds, g[s], s)
    OBVIOUS
  <2>2. s # {}
    <3>1. n \in Nat
      OBVIOUS
    <3>2. Cardinality(s) = 0 <=> s = {}
      BY KeysAreNumbers
    <3>3. QED
      BY <2>1, <3>1, <3>2
  <2>3. PICK i \in s : i = Latest(s)
    BY <2>2, KeysAreNumbers
  <2>4. s \ {i} \in SUBSET Keys /\ Cardinality(s \ {i}) = n
    BY <2>1, <2>2, <2>3, KeysAreNumbers
  <2>5. NothingCut(kinds, g[s \ {i}], s \ {i})
    BY <2>4
  <2>6. g[s] = Tried(kinds, g[s \ {i}], EdgeOrder[i])
    BY <1>1, <2>2, <2>3 DEF TriedUpTo
  <2>7. NothingCut(kinds, Tried(kinds, g[s \ {i}], EdgeOrder[i]), (s \ {i}) \union {i})
    BY <2>4, <2>5, TriedCutsNothing
  <2>8. (s \ {i}) \union {i} = s
    OBVIOUS
  <2>9. QED
    BY <2>6, <2>7, <2>8
<1>5. Nat \subseteq N
  <2>1. N \in SUBSET Nat
    OBVIOUS
  <2> HIDE DEF N
  <2>2. QED
    BY <1>3, <1>4, <2>1, CountingUp
<1>6. QED
  BY <1>5, KeysAreNumbers

(* Whatever was drawn, what is left open joins what the roads joined.      *)
LEMMA AcceptedCutsNothing ==
  ASSUME NEW kinds \in [Edge -> Kinds]
  PROVE  \E acc : Accepted(kinds) = acc.kind /\ NothingCut(kinds, acc, Keys)
<1> DEFINE k == CHOOSE g : IsTrying(kinds, g)
<1>1. Accepted(kinds) = k[Keys].kind
  BY DEF Accepted, FoldLeft, MapThenFoldSet, Max, IsTrying, TriedUpTo, Tried, Latest, Keys
<1>2. IsTrying(kinds, k)
  BY TryingExists
<1>3. NothingCut(kinds, k[Keys], Keys)
  BY <1>2, TryingCutsNothing
<1>4. QED
  BY <1>1, <1>3

------------------------------------------------------------------------------
(* The courier.                                                            *)

OnTheMap == field \in Generate /\ node \in Node

LEMMA MapInit == Init => OnTheMap
  BY DEF Init, OnTheMap

LEMMA MapStep == OnTheMap /\ [Next]_vars => OnTheMap'
<1>1. SUFFICES ASSUME OnTheMap, [Next]_vars PROVE OnTheMap'
  OBVIOUS
<1>2. field' = field
  BY <1>1 DEF Next, Running, vars
<1>3. node' \in Node
  <2>1. ASSUME NEW m \in Node, StepTo(m) PROVE node' \in Node
    BY <2>1 DEF StepTo
  <2>2. CASE Running
    BY <1>1, <2>1, <2>2 DEF OnTheMap, Running, RunOn, RunStops, RunBarred, Onward, Neighbours
  <2>3. CASE WalkTo
    BY <1>1, <2>1, <2>3 DEF OnTheMap, WalkTo, SetOff, Refuse, Neighbours
  <2>4. CASE FollowStreet
    BY <1>1, <2>1, <2>4 DEF OnTheMap, FollowStreet, SetOff, Refuse, Neighbours
  <2>5. CASE Observe \/ NoSuchStreet \/ Wait \/ UNCHANGED vars
    BY <1>1, <2>5 DEF OnTheMap, Observe, NoSuchStreet, Refuse, Wait, vars
  <2>6. QED
    BY <1>1, <2>2, <2>3, <2>4, <2>5 DEF Next
<1>4. QED
  BY <1>1, <1>2, <1>3 DEF OnTheMap

LEMMA OnTheMapHolds == Spec => []OnTheMap
  BY MapInit, MapStep, PTL DEF Spec

(* The roads without a barrier lead wherever roads do: a barrier is tried  *)
(* against what the ones before it left, and what is no bridge of that is  *)
(* not missed.                                                             *)
LEMMA OpenRoadsReachAll ==
  ASSUME OnTheMap
  PROVE  Reach(node, OpenRoads) = Reach(node, Edge)
<1>1. PICK draw \in [ObstacleSites -> {"none", "slow", "block"}] :
        field = Accepted([e \in Edge |-> IF e \in ObstacleSites THEN draw[e] ELSE "none"])
  BY DEF OnTheMap, Generate
<1>2. [e \in Edge |-> IF e \in ObstacleSites THEN draw[e] ELSE "none"] \in [Edge -> Kinds]
  BY DEF Kinds
<1>3. PICK kinds \in [Edge -> Kinds] : field = Accepted(kinds)
  BY <1>1, <1>2
<1>4. PICK acc : field = acc.kind /\ NothingCut(kinds, acc, Keys)
  BY <1>3, AcceptedCutsNothing
<1>5. acc.left \subseteq OpenRoads
  <2>1. SUFFICES ASSUME NEW e \in acc.left, NEW n \in e, NEW m \in e \ {n}
                 PROVE  e \in Edge /\ ~Blocks(n, m)
    BY <1>4 DEF NothingCut, OpenRoads
  <2>2. e \in Edge
    BY <1>4 DEF NothingCut
  <2>3. PICK i \in Keys : e = EdgeOrder[i]
    BY <2>2, StreetAssumption DEF Keys
  <2>4. field[e] # "block"
    BY <1>4, <2>3 DEF NothingCut
  <2>5. e = {n, m}
    BY <2>2, StreetAssumption
  <2>6. QED
    BY <2>2, <2>4, <2>5 DEF Blocks, InEffect
<1>6. node \in Node /\ OpenRoads \subseteq Edge
  BY DEF OnTheMap, OpenRoads
<1>7. Reach(node, Edge) = Reach(node, acc.left)
  BY <1>4, <1>6 DEF NothingCut
<1>8. Reach(node, acc.left) \subseteq Reach(node, OpenRoads)
  BY <1>5, <1>6, ReachIsMonotone
<1>9. Reach(node, OpenRoads) \subseteq Reach(node, Edge)
  BY <1>6, ReachIsMonotone
<1>10. QED
  BY <1>7, <1>8, <1>9

(* Whatever barriers the seed draws, no way is lost to them altogether.    *)
THEOREM NothingIsCutOff == Spec => [](Reach(node, OpenRoads) = Reach(node, Edge))
<1>1. OnTheMap => Reach(node, OpenRoads) = Reach(node, Edge)
  BY OpenRoadsReachAll
<1>2. QED
  BY <1>1, OnTheMapHolds, PTL

(* So in a city whose corners are joined by streets at all, every corner   *)
(* can be walked to from wherever the courier stands.                      *)
THEOREM EveryCornerIsReached ==
  ASSUME \A n \in Node : Reach(n, Edge) = Node
  PROVE  Spec => []NobodyIsStranded
<1>1. OnTheMap => NobodyIsStranded
  BY OpenRoadsReachAll DEF NobodyIsStranded, OnTheMap
<1>2. QED
  BY <1>1, OnTheMapHolds, PTL

(* No run crosses by itself where the album has a picture of the lamp,     *)
(* whatever was sent of it that turn.                                      *)
THEOREM RunsHeedLamps == Spec => LampsStopRuns
<1>1. ASSUME Next, pc = "run", node' # node PROVE ~SignalInAlbum(node, node')
  <2>1. RunOn
    BY <1>1 DEF Next, Running, RunStops, RunBarred, Observe, NoSuchStreet, WalkTo,
                FollowStreet, Wait
  <2>2. PICK m \in Onward(node, arrived, run.street) : StepTo(m)
    BY <2>1 DEF RunOn
  <2>3. node' = m
    BY <2>2 DEF StepTo
  <2>4. ~SignalInAlbum(node, m)
    BY <2>1, <2>2 DEF RunOn, Stops
  <2>5. QED
    BY <2>3, <2>4
<1>2. [Next]_vars => [pc = "run" /\ node' # node => ~SignalInAlbum(node, node')]_vars
  BY <1>1 DEF vars
<1>3. QED
  BY <1>2, PTL DEF Spec, LampsStopRuns

------------------------------------------------------------------------------
(* The way ahead.                                                          *)

HowFar == Cardinality(Node)
Hops == Node \X Node
Nexts(hop, street) == {hop[2]} \X Onward(hop[2], hop[1], street)
Halts(hop, street, halts) ==
  LET next == Nexts(hop, street) IN Cardinality(next) # 1 \/ next \subseteq halts
After(hop, street, halts) ==
  IF Halts(hop, street, halts) THEN hop ELSE CHOOSE h \in Nexts(hop, street) : TRUE

IsWay(way, first, street, halts) ==
  way = [i \in 0..HowFar |-> IF i = 0 THEN first ELSE After(way[i - 1], street, halts)]

LEMMA OnwardIsThere ==
  ASSUME NEW hop \in Hops, NEW street
  PROVE  /\ Nexts(hop, street) \subseteq Hops /\ IsFiniteSet(Nexts(hop, street))
         /\ IsFiniteSet(Onward(hop[2], hop[1], street))
         /\ IsFiniteSet(Neighbours(hop[2]))
<1>1. Onward(hop[2], hop[1], street) \in SUBSET Node /\ hop[2] \in Node
      /\ Neighbours(hop[2]) \in SUBSET Node
  BY DEF Onward, Neighbours, Hops
<1>2. IsFiniteSet({hop[2]} \X Onward(hop[2], hop[1], street))
  BY <1>1, NodesAreFinite, FS_Subset, FS_Singleton, FS_Product
<1>3. QED
  BY <1>1, <1>2, NodesAreFinite, FS_Subset DEF Nexts, Hops

(* A street goes on from a hop when one node is onward and is no halt.     *)
GoesOn(hop, street, halts, y) ==
  /\ Onward(hop[2], hop[1], street) = {y} /\ <<hop[2], y>> \notin halts
  /\ After(hop, street, halts) = <<hop[2], y>>

LEMMA HaltSays ==
  ASSUME NEW hop \in Hops, NEW street, NEW halts
  PROVE  /\ ~Halts(hop, street, halts) => \E y \in Node : GoesOn(hop, street, halts, y)
         /\ \A y : Onward(hop[2], hop[1], street) = {y} /\ <<hop[2], y>> \notin halts
                     => ~Halts(hop, street, halts)
         /\ After(hop, street, halts) \in Hops
<1> DEFINE next == Nexts(hop, street)
           on == Onward(hop[2], hop[1], street)
<1>1. next = {hop[2]} \X on /\ next \subseteq Hops /\ IsFiniteSet(next)
  BY OnwardIsThere DEF Nexts
<1>2. ASSUME ~Halts(hop, street, halts)
      PROVE  \E y \in Node : GoesOn(hop, street, halts, y)
  <2>1. Cardinality(next) = 1 /\ ~(next \subseteq halts)
    BY <1>2 DEF Halts
  <2>2. PICK h : next = {h}
    BY <1>1, <2>1, FS_Singleton
  <2>3. h \in next /\ h \notin halts
    BY <2>1, <2>2
  <2>4. h = <<hop[2], h[2]>> /\ h[2] \in on /\ h[2] \in Node
    BY <1>1, <2>3 DEF Hops
  <2>5. ASSUME NEW y \in on PROVE y = h[2]
    <3>1. <<hop[2], y>> \in next
      BY <1>1
    <3>2. <<hop[2], y>> = h
      BY <2>2, <3>1
    <3>3. QED
      BY <3>2
  <2>6. on = {h[2]}
    BY <2>4, <2>5
  <2>7. After(hop, street, halts) = h
    BY <1>2, <2>2 DEF After
  <2>8. GoesOn(hop, street, halts, h[2])
    BY <2>3, <2>4, <2>6, <2>7 DEF GoesOn
  <2>9. QED
    BY <2>4, <2>8
<1>3. ASSUME NEW y, on = {y}, <<hop[2], y>> \notin halts PROVE ~Halts(hop, street, halts)
  <2>1. next = {<<hop[2], y>>}
    BY <1>1, <1>3
  <2>2. Cardinality(next) = 1
    BY <2>1, FS_Singleton
  <2>3. QED
    BY <1>3, <2>1, <2>2 DEF Halts
<1>4. After(hop, street, halts) \in Hops
  <2>1. CASE Halts(hop, street, halts)
    BY <2>1 DEF After
  <2>2. CASE ~Halts(hop, street, halts)
    <3>1. hop[2] \in Node
      BY DEF Hops
    <3>2. PICK y \in Node : GoesOn(hop, street, halts, y)
      BY <1>2, <2>2
    <3>3. QED
      BY <3>1, <3>2 DEF GoesOn, Hops
  <2>3. QED
    BY <2>1, <2>2
<1>5. QED
  BY <1>2, <1>3, <1>4

LEMMA AheadIsAWay ==
  ASSUME NEW n \in Node, NEW m \in Node, NEW halts
  PROVE  IsWay(Ahead(n, m, halts), <<n, m>>, EdgeStreet(n, m), halts)
<1> DEFINE street == EdgeStreet(n, m)
           step == [hop \in Hops |-> After(hop, street, halts)]
<1>1. PICK f \in [0..HowFar -> Hops] : Iterates(<<n, m>>, step, HowFar, f)
  <2>1. step \in [Hops -> Hops]
    BY HaltSays
  <2>2. <<n, m>> \in Hops /\ HowFar \in Nat
    BY NodesAreFinite DEF Hops, HowFar
  <2> HIDE DEF step
  <2>3. QED
    BY <2>1, <2>2, IteratesExist
<1>2. \A i \in 0..HowFar : i # 0 => i - 1 \in 0..HowFar
  BY NodesAreFinite DEF HowFar
<1>3. \A i \in 0..HowFar :
        (IF i = 0 THEN <<n, m>> ELSE step[f[i - 1]])
          = IF i = 0 THEN <<n, m>> ELSE After(f[i - 1], street, halts)
  BY <1>1, <1>2
<1> HIDE DEF step
<1>4. IsWay(f, <<n, m>>, street, halts)
  BY <1>1, <1>3 DEF Iterates, IsWay
<1>5. Ahead(n, m, halts) = CHOOSE way : IsWay(way, <<n, m>>, street, halts)
  BY DEF Ahead, IsWay, After, Halts, Nexts, HowFar
<1>6. QED
  BY <1>4, <1>5

LEMMA WaySays ==
  ASSUME NEW first \in Hops, NEW street, NEW halts, NEW way,
         IsWay(way, first, street, halts)
  PROVE  /\ way[0] = first
         /\ \A i \in 0..HowFar : way[i] \in Hops
         /\ \A i \in 0..(HowFar - 1) : way[i + 1] = After(way[i], street, halts)
<1>1. HowFar \in Nat
  BY NodesAreFinite DEF HowFar
<1>2. way[0] = first
  BY <1>1 DEF IsWay
<1>3. ASSUME NEW i \in 0..(HowFar - 1)
      PROVE  way[i + 1] = After(way[i], street, halts)
  <2>1. i + 1 \in 0..HowFar /\ i + 1 # 0 /\ (i + 1) - 1 = i
    BY <1>1
  <2>2. QED
    BY <2>1 DEF IsWay
<1> DEFINE N == {i \in Nat : i <= HowFar => way[i] \in Hops}
<1>4. 0 \in N
  BY <1>2
<1>5. ASSUME NEW i \in N PROVE i + 1 \in N
  <2>1. SUFFICES ASSUME i + 1 <= HowFar PROVE way[i + 1] \in Hops
    OBVIOUS
  <2>2. i \in 0..(HowFar - 1) /\ way[i] \in Hops
    BY <1>1, <2>1
  <2>3. QED
    BY <1>3, <2>2, HaltSays
<1>6. Nat \subseteq N
  <2>1. N \in SUBSET Nat
    OBVIOUS
  <2> HIDE DEF N
  <2>2. QED
    BY <1>4, <1>5, <2>1, CountingUp
<1>7. QED
  BY <1>1, <1>2, <1>3, <1>6

(* A way that halts has come to its end.                                   *)
LEMMA HaltsStay ==
  ASSUME NEW first \in Hops, NEW street, NEW halts, NEW way,
         IsWay(way, first, street, halts),
         NEW i \in 0..HowFar, Halts(way[i], street, halts)
  PROVE  way[HowFar] = way[i]
<1>1. HowFar \in Nat
  BY NodesAreFinite DEF HowFar
<1> DEFINE N == {k \in Nat : i + k <= HowFar => way[i + k] = way[i]}
<1>2. 0 \in N
  OBVIOUS
<1>3. ASSUME NEW k \in N PROVE k + 1 \in N
  <2>1. SUFFICES ASSUME i + (k + 1) <= HowFar PROVE way[i + (k + 1)] = way[i]
    OBVIOUS
  <2>2. i + k \in 0..(HowFar - 1) /\ i + (k + 1) = (i + k) + 1 /\ way[i + k] = way[i]
    BY <1>1, <2>1
  <2>3. way[(i + k) + 1] = After(way[i], street, halts)
    BY <2>2, WaySays
  <2>4. QED
    BY <2>2, <2>3 DEF After
<1>4. Nat \subseteq N
  <2>1. N \in SUBSET Nat
    OBVIOUS
  <2> HIDE DEF N
  <2>2. QED
    BY <1>2, <1>3, <2>1, CountingUp
<1>5. HowFar - i \in Nat /\ i + (HowFar - i) = HowFar
  BY <1>1
<1>6. QED
  BY <1>4, <1>5

(* A way never comes back to itself: every place it passes has two         *)
(* neighbours, so one that closed would be a ring with no junction on it,  *)
(* and in a city that is joined the whole of it.                           *)
CityHasJunctions ==
  /\ \A n \in Node : Reach(n, Edge) = Node
  /\ \E n \in Node : Cardinality(Neighbours(n)) # 2

Passed(way, i, street, halts) ==
  /\ ~Halts(way[i], street, halts) /\ Cardinality(Neighbours(way[i][2])) = 2

LEMMA NeighboursAreMutual ==
  /\ \A n, m \in Node : m \in Neighbours(n) <=> n \in Neighbours(m)
  /\ \A n \in Node : n \notin Neighbours(n)
<1>1. ASSUME NEW n \in Node, NEW m \in Node PROVE m \in Neighbours(n) <=> n \in Neighbours(m)
  <2>1. {n, m} = {m, n}
    OBVIOUS
  <2>2. QED
    BY <2>1 DEF Neighbours
<1>2. ASSUME NEW n \in Node, {n, n} \in Edge PROVE FALSE
  <2>1. PICK k \in Node : \E m \in Node \ {k} : {n, n} = {k, m}
    BY <1>2, StreetAssumption
  <2>2. PICK m \in Node \ {k} : {n, n} = {k, m}
    BY <2>1
  <2>3. k \in {n, n} /\ m \in {n, n}
    BY <2>2
  <2>4. QED
    BY <2>3
<1>3. QED
  BY <1>1, <1>2 DEF Neighbours

LEMMA TwoNeighbours ==
  ASSUME NEW n \in Node, NEW x \in Neighbours(n), NEW y \in Neighbours(n) \ {x},
         Cardinality(Neighbours(n)) = 2
  PROVE  Neighbours(n) = {x, y}
<1>1. IsFiniteSet(Neighbours(n))
  BY NodesAreFinite, FS_Subset DEF Neighbours
<1>2. Cardinality({x, y}) = 2
  <2>1. IsFiniteSet({x}) /\ Cardinality({x}) = 1
    BY FS_Singleton
  <2>2. Cardinality({x} \union {y}) = Cardinality({x}) + 1
    BY <2>1, FS_AddElement
  <2>3. {x} \union {y} = {x, y}
    OBVIOUS
  <2>4. QED
    BY <2>1, <2>2, <2>3
<1>3. QED
  BY <1>1, <1>2, FS_Subset

(* A place that is passed lies between the one before it and the one after.*)
LEMMA PassedSays ==
  ASSUME NEW n \in Node, NEW m \in Neighbours(n), NEW street, NEW halts, NEW way,
         IsWay(way, <<n, m>>, street, halts), NEW i \in 0..(HowFar - 1),
         way[i][1] \in Neighbours(way[i][2]), Passed(way, i, street, halts)
  PROVE  /\ way[i + 1][1] = way[i][2] /\ way[i + 1][2] \in Node
         /\ way[i + 1][1] \in Neighbours(way[i + 1][2])
         /\ way[i + 1][2] # way[i][1]
         /\ Neighbours(way[i][2]) = {way[i][1], way[i + 1][2]}
<1>1. HowFar \in Nat /\ i \in 0..HowFar /\ m \in Node /\ <<n, m>> \in Hops
  BY NodesAreFinite DEF HowFar, Neighbours, Hops
<1>2. way[i] \in Hops /\ way[i + 1] = After(way[i], street, halts)
  BY <1>1, WaySays
<1>3. PICK y \in Node : /\ Onward(way[i][2], way[i][1], street) = {y}
                        /\ After(way[i], street, halts) = <<way[i][2], y>>
  <2>1. ~Halts(way[i], street, halts)
    BY DEF Passed
  <2>2. PICK y \in Node : GoesOn(way[i], street, halts, y)
    BY <1>2, <2>1, HaltSays
  <2>3. QED
    BY <2>2 DEF GoesOn
<1>4. y \in Neighbours(way[i][2]) /\ y # way[i][1] /\ way[i][2] \in Node
  BY <1>2, <1>3 DEF Onward, Hops
<1>5. Neighbours(way[i][2]) = {way[i][1], y}
  BY <1>4, TwoNeighbours DEF Passed
<1>6. way[i][2] \in Neighbours(y)
  BY <1>4, NeighboursAreMutual
<1>7. way[i + 1][1] = way[i][2] /\ way[i + 1][2] = y
  BY <1>2, <1>3
<1>8. QED
  BY <1>4, <1>5, <1>6, <1>7

Apart(way, j) ==
  /\ \A i \in 0..j : way[i][1] \in Neighbours(way[i][2]) /\ way[i] \in Hops
  /\ \A i, k \in 0..j : i # k => way[i][2] # way[k][2]
  /\ \A i \in 0..(j - 1) : way[i + 1][1] = way[i][2]

LEMMA WaysComeApart ==
  ASSUME CityHasJunctions, NEW n \in Node, NEW m \in Neighbours(n), NEW street, NEW halts,
         NEW way, IsWay(way, <<n, m>>, street, halts), NEW j \in 0..(HowFar - 1),
         Apart(way, j), \A i \in 0..j : Passed(way, i, street, halts)
  PROVE  Apart(way, j + 1)
<1> DEFINE x(i) == way[i][2]
<1>1. /\ HowFar \in Nat /\ j \in Nat /\ m \in Node /\ <<n, m>> \in Hops
      /\ \A i \in 0..j : i \in 0..(HowFar - 1)
  BY NodesAreFinite DEF HowFar, Neighbours, Hops
<1>2. /\ \A i \in 0..j : way[i][1] \in Neighbours(x(i)) /\ way[i] \in Hops
      /\ \A i, k \in 0..j : i # k => x(i) # x(k)
      /\ \A i \in 0..(j - 1) : way[i + 1][1] = x(i)
  BY DEF Apart
<1>3. ASSUME NEW i \in 0..j
      PROVE  /\ way[i + 1][1] = x(i) /\ x(i + 1) \in Node /\ x(i) \in Node
             /\ way[i + 1][1] \in Neighbours(x(i + 1))
             /\ x(i + 1) # way[i][1] /\ x(i + 1) # x(i)
             /\ Neighbours(x(i)) = {way[i][1], x(i + 1)}
  <2>1. /\ way[i + 1][1] = x(i) /\ x(i + 1) \in Node
        /\ way[i + 1][1] \in Neighbours(x(i + 1))
        /\ x(i + 1) # way[i][1]
        /\ Neighbours(x(i)) = {way[i][1], x(i + 1)}
    <3>1. /\ i \in 0..(HowFar - 1) /\ way[i][1] \in Neighbours(way[i][2])
          /\ Passed(way, i, street, halts)
      BY <1>1, <1>2
    <3>2. QED
      BY <1>1, <3>1, PassedSays
  <2>2. x(i) \in Node
    BY <1>2 DEF Hops
  <2>3. x(i + 1) # x(i)
    BY <2>1, <2>2, NeighboursAreMutual
  <2>4. QED
    BY <2>1, <2>2, <2>3
<1>4. way[0] = <<n, m>>
  BY <1>1, WaySays
<1>5. ASSUME NEW i \in 0..j, x(j + 1) = x(i) PROVE FALSE
  <2>1. CASE i = j
    BY <1>3, <1>5, <2>1
  <2>2. CASE i = j - 1
    <3>1. way[j][1] = x(i)
      BY <1>1, <1>2, <2>2
    <3>2. j \in 0..j
      BY <1>1
    <3>3. x(j + 1) # way[j][1]
      BY <1>3, <3>2
    <3>4. QED
      BY <1>5, <3>1, <3>3
  <2>3. ASSUME i < j - 1 PROVE x(j) \in {way[i][1], x(i + 1)} /\ x(j) # x(i + 1)
    <3>1. j \in 0..j /\ i + 1 \in 0..j /\ i + 1 # j
      BY <1>1, <2>3
    <3>2. x(j) # x(i + 1)
      BY <1>2, <3>1
    <3>3. x(j) \in Neighbours(x(j + 1))
      BY <1>3, <3>1
    <3>4. QED
      BY <1>3, <1>5, <3>2, <3>3
  <2>4. CASE i < j - 1 /\ i # 0
    <3>1. i - 1 \in 0..(j - 1) /\ (i - 1) + 1 = i /\ i - 1 \in 0..j /\ i - 1 # j /\ j \in 0..j
      BY <1>1, <2>4
    <3>2. way[i][1] = x(i - 1)
      BY <1>2, <3>1
    <3>3. x(j) # x(i - 1)
      BY <1>2, <3>1
    <3>4. QED
      BY <2>3, <2>4, <3>2, <3>3
  <2>5. CASE i < j - 1 /\ i = 0
    <3>1. x(j) = n
      BY <1>4, <2>3, <2>5
    <3> DEFINE C == {x(k) : k \in 0..j}
    <3>2. x(0) \in C /\ x(0) \in Node /\ C \in SUBSET Node
      BY <1>1, <1>3
    <3>3. Closed(C, Edge)
      <4>1. SUFFICES ASSUME NEW k \in 0..j, NEW y \in Node, {x(k), y} \in Edge
                     PROVE  y \in C
        BY DEF Closed
      <4>2. y \in {way[k][1], x(k + 1)}
        <5>1. y \in Neighbours(x(k))
          BY <4>1 DEF Neighbours
        <5>2. QED
          BY <1>3, <5>1
      <4>3. way[k][1] \in C
        <5>1. CASE k = 0
          <6>1. way[k][1] = x(j) /\ j \in 0..j
            BY <1>1, <1>4, <3>1, <5>1
          <6>2. QED
            BY <6>1
        <5>2. CASE k # 0
          <6>1. k - 1 \in 0..(j - 1) /\ (k - 1) + 1 = k /\ k - 1 \in 0..j
            BY <1>1, <5>2
          <6>2. way[k][1] = x(k - 1)
            BY <1>2, <6>1
          <6>3. QED
            BY <6>1, <6>2
        <5>3. QED
          BY <5>1, <5>2
      <4>4. x(k + 1) \in C
        <5>1. CASE k = j
          <6>1. x(k + 1) = x(0) /\ 0 \in 0..j
            BY <1>1, <1>5, <2>5, <5>1
          <6>2. QED
            BY <6>1
        <5>2. CASE k # j
          <6>1. k + 1 \in 0..j
            BY <1>1, <5>2
          <6>2. QED
            BY <6>1
        <5>3. QED
          BY <5>1, <5>2
      <4>5. QED
        BY <4>2, <4>3, <4>4
    <3>4. Node \subseteq C
      <4>1. Reach(x(0), Edge) \subseteq C
        <5> HIDE DEF C
        <5>1. QED
          BY <3>2, <3>3, ReachIsLeast
      <4>2. QED
        BY <3>2, <4>1 DEF CityHasJunctions
    <3>5. \A y \in C : Cardinality(Neighbours(y)) = 2
      BY DEF Passed
    <3>6. QED
      BY <3>4, <3>5 DEF CityHasJunctions
  <2>6. QED
    BY <1>1, <2>1, <2>2, <2>4, <2>5
<1>6. \A i \in 0..(j + 1) : i \in 0..j \/ i = j + 1
  BY <1>1
<1>7. j \in 0..j
  BY <1>1
<1>8. /\ way[j + 1][1] = x(j) /\ way[j + 1][1] \in Neighbours(x(j + 1))
      /\ way[j + 1] \in Hops
  <2>1. j + 1 \in 0..HowFar
    BY <1>1
  <2>2. way[j + 1] \in Hops
    BY <1>1, <2>1, WaySays
  <2>3. QED
    BY <1>3, <1>7, <2>2
<1>9. \A i \in 0..((j + 1) - 1) : way[i + 1][1] = way[i][2]
  BY <1>1, <1>3
<1>10. \A i, k \in 0..(j + 1) : i # k => way[i][2] # way[k][2]
  BY <1>2, <1>5, <1>6
<1>11. \A i \in 0..(j + 1) : way[i][1] \in Neighbours(way[i][2]) /\ way[i] \in Hops
  BY <1>2, <1>6, <1>8
<1>12. QED
  BY <1>9, <1>10, <1>11 DEF Apart

LEMMA WaysAreApart ==
  ASSUME CityHasJunctions, NEW n \in Node, NEW m \in Neighbours(n), NEW street, NEW halts,
         NEW way, IsWay(way, <<n, m>>, street, halts), NEW j \in 0..HowFar,
         \A i \in 0..(j - 1) : Passed(way, i, street, halts)
  PROVE  Apart(way, j)
<1>1. HowFar \in Nat /\ m \in Node /\ <<n, m>> \in Hops
  BY NodesAreFinite DEF HowFar, Neighbours, Hops
<1> DEFINE N == {k \in Nat : k <= j => Apart(way, k)}
<1>2. 0 \in N
  <2>1. way[0] = <<n, m>> /\ n \in Neighbours(m)
    BY <1>1, WaySays, NeighboursAreMutual
  <2>2. Apart(way, 0)
    BY <1>1, <2>1 DEF Apart
  <2>3. QED
    BY <2>2
<1>3. ASSUME NEW k \in N PROVE k + 1 \in N
  <2>1. SUFFICES ASSUME k + 1 <= j PROVE Apart(way, k + 1)
    OBVIOUS
  <2>2. k \in 0..(HowFar - 1) /\ Apart(way, k)
    BY <1>1, <2>1
  <2>3. \A i \in 0..k : Passed(way, i, street, halts)
    <3>1. \A i \in 0..k : i \in 0..(j - 1)
      BY <2>1, <2>2
    <3>2. QED
      BY <3>1
  <2>4. QED
    BY <2>2, <2>3, WaysComeApart
<1>4. Nat \subseteq N
  <2>1. N \in SUBSET Nat
    OBVIOUS
  <2> HIDE DEF N
  <2>2. QED
    BY <1>2, <1>3, <2>1, CountingUp
<1>5. QED
  BY <1>1, <1>4

(* What halts the photograph of a street, and what halted the candidate    *)
(* line: a lamp only if the list the line was written under held it.       *)
Corners == {h \in Hops : Cardinality(Neighbours(h[1])) # 2}
PreviewHalts ==
  {h \in Hops : \/ h[1] \in doors
                \/ Cardinality(Neighbours(h[1])) > 2
                \/ SignalInAlbum(h[1], h[2]) /\ ~LookedPast(h[1], h[2])}
Preview(n, m) == Ahead(n, m, PreviewHalts)[HowFar][2]

LEMMA AheadSays ==
  ASSUME NEW n \in Node, NEW m \in Node, stride = "block"
  PROVE  BlockChain(n, m) = Range(Ahead(n, m, Corners))
  BY DEF BlockChain, Corners, Hops

(* Where a hop can go on, it passes.                                       *)
LEMMA GoingOnPasses ==
  ASSUME NEW hop \in Hops, hop[1] \in Neighbours(hop[2]), NEW y \in Node,
         NEW street, Onward(hop[2], hop[1], street) = {y},
         ~(Cardinality(Neighbours(hop[2])) > 2)
  PROVE  Cardinality(Neighbours(hop[2])) = 2 /\ hop[2] \in Neighbours(y)
<1>1. y \in Neighbours(hop[2]) /\ y # hop[1] /\ hop[1] \in Node /\ hop[2] \in Node
  BY DEF Onward, Hops
<1>2. IsFiniteSet(Neighbours(hop[2])) /\ Cardinality(Neighbours(hop[2])) \in Nat
  BY <1>1, NodesAreFinite, FS_Subset, FS_CardinalityType DEF Neighbours
<1>3. Cardinality({hop[1]} \union {y}) = 2
  <2>1. IsFiniteSet({hop[1]}) /\ Cardinality({hop[1]}) = 1
    BY FS_Singleton
  <2>2. y \notin {hop[1]}
    BY <1>1
  <2>3. Cardinality({hop[1]} \union {y}) = Cardinality({hop[1]}) + 1
    BY <2>1, <2>2, FS_AddElement
  <2>4. QED
    BY <2>1, <2>3
<1>4. {hop[1]} \union {y} \subseteq Neighbours(hop[2])
  BY <1>1
<1>5. Cardinality({hop[1]} \union {y}) <= Cardinality(Neighbours(hop[2]))
  BY <1>2, <1>4, FS_Subset
<1>6. QED
  BY <1>1, <1>2, <1>3, <1>5, NeighboursAreMutual

LEMMA PreviewPasses ==
  ASSUME NEW way, NEW i, way[i] \in Hops, way[i][1] \in Neighbours(way[i][2]), NEW street,
         ~Halts(way[i], street, PreviewHalts)
  PROVE  /\ Passed(way, i, street, PreviewHalts)
         /\ way[i][2] \notin doors /\ ~(Cardinality(Neighbours(way[i][2])) > 2)
         /\ \E y \in Node : /\ Onward(way[i][2], way[i][1], street) = {y}
                            /\ (SignalInAlbum(way[i][2], y) => LookedPast(way[i][2], y))
<1>1. PICK y \in Node : GoesOn(way[i], street, PreviewHalts, y)
  BY HaltSays
<1>2. Onward(way[i][2], way[i][1], street) = {y} /\ <<way[i][2], y>> \notin PreviewHalts
  BY <1>1 DEF GoesOn
<1>3. <<way[i][2], y>> \in Hops
  BY DEF Hops
<1>4. /\ way[i][2] \notin doors /\ ~(Cardinality(Neighbours(way[i][2])) > 2)
      /\ (SignalInAlbum(way[i][2], y) => LookedPast(way[i][2], y))
  BY <1>2, <1>3 DEF PreviewHalts
<1>5. Cardinality(Neighbours(way[i][2])) = 2
  BY <1>2, <1>4, GoingOnPasses
<1>6. QED
  BY <1>2, <1>4, <1>5 DEF Passed

(* As many places apart as there are places are all of them, and one of    *)
(* them is a junction or an end.                                           *)
LEMMA NoRoundTrip ==
  ASSUME CityHasJunctions, HowFar \in Nat \ {0}, NEW way, NEW street, NEW halts,
         Apart(way, HowFar - 1),
         \A i \in 0..(HowFar - 1) : Passed(way, i, street, halts)
  PROVE  FALSE
<1> DEFINE I == 0..(HowFar - 1)
           x == [i \in I |-> way[i][2]]
           C == {x[i] : i \in I}
<1>1. x \in [I -> Node]
  BY DEF Apart, Hops
<1>2. C \subseteq Node
  BY <1>1
<1>3. Cardinality(C) = HowFar
  <2>1. x \in Surjection(I, C)
    BY <1>1 DEF Surjection
  <2>2. x \in Injection(I, C)
    <3>1. x \in [I -> C]
      BY <1>1
    <3>2. \A i, k \in I : i # k => x[i] # x[k]
      BY DEF Apart
    <3>3. QED
      BY <3>1, <3>2 DEF Injection, IsInjective
  <2>3. IsFiniteSet(I) /\ Cardinality(I) = HowFar
    <3>1. (HowFar - 1) - 0 + 1 = HowFar /\ ~(0 > HowFar - 1)
      OBVIOUS
    <3>2. QED
      BY <3>1, FS_Interval
  <2> HIDE DEF x, C, I
  <2>4. QED
    BY <2>1, <2>2, <2>3, FS_Surjection
<1>4. C = Node
  <2> HIDE DEF C
  <2>1. QED
    BY <1>2, <1>3, NodesAreFinite, FS_Subset DEF HowFar
<1>5. \A n \in C : Cardinality(Neighbours(n)) = 2
  BY DEF Passed
<1>6. QED
  BY <1>4, <1>5 DEF CityHasJunctions

------------------------------------------------------------------------------
(* Along the street.                                                       *)

(* When the call comes, the line it goes by still is what the streets, the *)
(* doors and the list it was written under say.                            *)
LineInv ==
  pc = "act" => \A m \in Neighbours(node) : line.end[m] = Preview(node, m)

(* The courier has come i hops down the street from n by way of m, as the  *)
(* photograph and, on a calm walk, as the candidate line had it.           *)
AsPreviewed(n, m, i) ==
  /\ run.end = Preview(n, m)
  /\ <<arrived, node>> = Ahead(n, m, PreviewHalts)[i]
  /\ \A k \in 0..(i - 1) : Passed(Ahead(n, m, PreviewHalts), k, run.street, PreviewHalts)

HasCome(n, m, i) ==
  /\ run.street = EdgeStreet(n, m) /\ run.left = (HowFar - 1) - i
  /\ run.told = ToldBlocked(n, m)
  /\ <<arrived, node>> = Ahead(n, m, Corners)[i] /\ arrived \in Neighbours(node)
  /\ run.calm => AsPreviewed(n, m, i)

RunShape ==
  run = [street |-> run.street, left |-> run.left, corner |-> run.corner,
         turns |-> run.turns, rejected |-> run.rejected,
         told |-> run.told, end |-> run.end, calm |-> run.calm]

OnAStreet ==
  \E n \in Node : \E m \in Neighbours(n) : \E i \in 0..(HowFar - 1) : HasCome(n, m, i)

RunInv ==
  pc = "run" => RunShape /\ (run.corner => stride = "block" /\ OnAStreet)

(* What a walk that does not stop finds.                                   *)
GoesOnTo(k) ==
  /\ Onward(node, arrived, run.street) = {k} /\ k \in Node
  /\ Cardinality(Neighbours(node)) = 2 /\ node \in Neighbours(k) /\ run.left # 0
  /\ node \notin doors /\ ~SignalInAlbum(node, k)

LEMMA UnstoppedSays ==
  ASSUME OnTheMap, arrived \in Neighbours(node), ~Stops, run.corner
  PROVE  \E k \in Node : GoesOnTo(k)
<1> DEFINE on == Onward(node, arrived, run.street)
           hop == <<arrived, node>>
<1>1. /\ run.left # 0 /\ node \notin doors /\ Cardinality(on) = 1
      /\ \A m \in on : ~SignalInAlbum(node, m)
      /\ ~(Cardinality(Neighbours(node)) > 2)
  BY DEF Stops
<1>2. hop \in Hops /\ hop[1] = arrived /\ hop[2] = node
  BY DEF OnTheMap, Neighbours, Hops
<1>3. IsFiniteSet(on)
  BY <1>2, OnwardIsThere
<1>4. PICK k : on = {k}
  BY <1>1, <1>3, FS_Singleton
<1>5. k \in Node /\ k \in on
  BY <1>4 DEF Onward, Neighbours
<1>6. Cardinality(Neighbours(node)) = 2 /\ node \in Neighbours(k)
  BY <1>1, <1>2, <1>4, <1>5, GoingOnPasses
<1>7. QED
  BY <1>1, <1>4, <1>5, <1>6 DEF GoesOnTo

(* The next hop is the photograph's and the preview's.                     *)
LEMMA NextHop ==
  ASSUME OnTheMap, NEW n \in Node, NEW m \in Neighbours(n), NEW i \in 0..(HowFar - 1),
         HasCome(n, m, i), NEW k, GoesOnTo(k)
  PROVE  /\ i + 1 \in 0..(HowFar - 1) /\ i \in Nat
         /\ Ahead(n, m, Corners)[i + 1] = <<node, k>>
         /\ run.calm =>
              /\ Ahead(n, m, PreviewHalts)[i + 1] = <<node, k>>
              /\ Passed(Ahead(n, m, PreviewHalts), i, run.street, PreviewHalts)
<1>1. /\ HowFar \in Nat /\ m \in Node /\ <<n, m>> \in Hops
  BY NodesAreFinite DEF HowFar, Neighbours, Hops
<1>2. i + 1 \in 0..(HowFar - 1) /\ i \in Nat
  BY <1>1 DEF HasCome, GoesOnTo
<1>3. ASSUME NEW halts, NEW way, IsWay(way, <<n, m>>, run.street, halts),
             way[i] = <<arrived, node>>, <<node, k>> \notin halts
      PROVE  /\ way[i + 1] = <<node, k>>
             /\ ~Halts(way[i], run.street, halts)
  <2>1. way[i] \in Hops /\ way[i + 1] = After(way[i], run.street, halts)
    BY <1>1, <1>2, <1>3, WaySays
  <2>2. way[i][1] = arrived /\ way[i][2] = node
    BY <1>3
  <2>3. Onward(way[i][2], way[i][1], run.street) = {k}
    BY <2>2 DEF GoesOnTo
  <2>4. ~Halts(way[i], run.street, halts)
    BY <1>3, <2>1, <2>2, <2>3, HaltSays
  <2>5. PICK y \in Node : GoesOn(way[i], run.street, halts, y)
    BY <2>1, <2>4, HaltSays
  <2>6. y = k /\ After(way[i], run.street, halts) = <<node, k>>
    BY <2>2, <2>3, <2>5 DEF GoesOn
  <2>7. QED
    BY <2>1, <2>4, <2>6
<1>4. Ahead(n, m, Corners)[i + 1] = <<node, k>>
  <2>1. <<node, k>> \notin Corners
    BY DEF GoesOnTo, Corners
  <2>2. IsWay(Ahead(n, m, Corners), <<n, m>>, run.street, Corners)
    BY <1>1, AheadIsAWay DEF HasCome
  <2>3. QED
    BY <1>3, <2>1, <2>2 DEF HasCome
<1>5. ASSUME run.calm
      PROVE  /\ Ahead(n, m, PreviewHalts)[i + 1] = <<node, k>>
             /\ Passed(Ahead(n, m, PreviewHalts), i, run.street, PreviewHalts)
  <2>1. AsPreviewed(n, m, i)
    BY <1>5 DEF HasCome
  <2>2. <<node, k>> \notin PreviewHalts
    <3>1. ~SignalInAlbum(node, k)
      BY DEF GoesOnTo
    <3>2. node \notin doors /\ ~(Cardinality(Neighbours(node)) > 2)
      BY DEF GoesOnTo
    <3>3. QED
      BY <3>1, <3>2 DEF PreviewHalts
  <2>3. IsWay(Ahead(n, m, PreviewHalts), <<n, m>>, run.street, PreviewHalts)
    BY <1>1, AheadIsAWay DEF HasCome
  <2>4. Ahead(n, m, PreviewHalts)[i] = <<arrived, node>>
    BY <2>1 DEF AsPreviewed
  <2>5. /\ Ahead(n, m, PreviewHalts)[i + 1] = <<node, k>>
        /\ ~Halts(Ahead(n, m, PreviewHalts)[i], run.street, PreviewHalts)
    BY <1>3, <2>2, <2>3, <2>4
  <2>6. Cardinality(Neighbours(Ahead(n, m, PreviewHalts)[i][2])) = 2
    BY <2>4 DEF GoesOnTo
  <2>7. QED
    BY <2>5, <2>6 DEF Passed
<1>6. QED
  BY <1>2, <1>4, <1>5

LEMMA SetOffFinds ==
  ASSUME OnTheMap, LineInv, UNCHANGED <<field, stride>>, pc = "act", stride = "block",
         NEW m \in Neighbours(node), SetOff(m, HowFar, TRUE)
  PROVE  RunInv'
<1>1. PICK n \in Node : n = node
  BY DEF OnTheMap
<1>2. /\ node' = m /\ arrived' = n /\ line' = line
      /\ run' = [street |-> EdgeStreet(n, m), left |-> HowFar - 1, corner |-> TRUE,
                 turns |-> turns, rejected |-> rejected, told |-> ToldBlocked(n, m),
                 end |-> line.end[m], calm |-> (doors' = doors)]
  BY <1>1 DEF SetOff, StepTo
<1>3. HowFar \in Nat \ {0} /\ m \in Node /\ <<n, m>> \in Hops /\ n \in Neighbours(m)
  <2>1. Node # {} /\ m \in Node
    BY <1>1 DEF Neighbours
  <2>2. HowFar \in Nat \ {0}
    BY <2>1, NodesAreFinite, FS_EmptySet DEF HowFar
  <2>3. QED
    BY <1>1, <2>1, <2>2, NeighboursAreMutual DEF Hops
<1>4. \A halts : Ahead(n, m, halts)[0] = <<n, m>>
  BY <1>3, AheadIsAWay, WaySays
<1>5. ToldBlocked(n, m)' = ToldBlocked(n, m)
  BY DEF ToldBlocked, BlockChain, Blocks, InEffect
<1>6. run'.calm => run'.end = Preview(n, m)'
  <2>1. run'.end = Preview(n, m) /\ run'.calm = (doors' = doors)
    BY <1>1, <1>2 DEF LineInv
  <2>2. doors' = doors => PreviewHalts' = PreviewHalts
    BY <1>2 DEF PreviewHalts, LookedPast
  <2>3. QED
    BY <2>1, <2>2 DEF Preview
<1>7. HasCome(n, m, 0)'
  <2>1. run'.calm => AsPreviewed(n, m, 0)'
    BY <1>2, <1>4, <1>6 DEF AsPreviewed
  <2>2. run'.left = (HowFar - 1) - 0
    BY <1>2, <1>3
  <2>3. QED
    BY <1>1, <1>2, <1>3, <1>4, <1>5, <2>1, <2>2 DEF HasCome
<1>8. OnAStreet'
  <2>1. 0 \in 0..(HowFar - 1) /\ m \in Neighbours(n)
    BY <1>1, <1>3
  <2>2. QED
    BY <1>7, <2>1 DEF OnAStreet
<1>9. QED
  BY <1>2, <1>8 DEF RunInv, RunShape

LEMMA RunOnFinds ==
  ASSUME OnTheMap, RunInv, RunOn, UNCHANGED <<field, stride>>
  PROVE  RunInv'
<1>1. pc = "run" /\ ~Stops /\ pc' = "run" /\ line' = line
  BY DEF RunOn
<1>2. PICK k \in Onward(node, arrived, run.street) : StepTo(k)
  BY DEF RunOn
<1>3. RunShape /\ run' = [run EXCEPT !.left = @ - 1, !.calm = @ /\ doors' = doors]
  BY <1>1 DEF RunInv, RunOn
<1>4. /\ run'.street = run.street /\ run'.corner = run.corner /\ run'.told = run.told
      /\ run'.end = run.end /\ run'.left = run.left - 1
      /\ run'.calm = (run.calm /\ doors' = doors)
      /\ RunShape'
  <2>1. PICK r : r = run
    OBVIOUS
  <2>2. r = [street |-> r.street, left |-> r.left, corner |-> r.corner,
             turns |-> r.turns, rejected |-> r.rejected,
             told |-> r.told, end |-> r.end, calm |-> r.calm]
    BY <1>3, <2>1 DEF RunShape
  <2>3. run' = [street |-> r.street, left |-> r.left - 1, corner |-> r.corner,
                turns |-> r.turns, rejected |-> r.rejected,
                told |-> r.told, end |-> r.end, calm |-> r.calm /\ doors' = doors]
    BY <1>3, <2>1, <2>2
  <2>4. QED
    BY <2>1, <2>3 DEF RunShape
<1>5. SUFFICES ASSUME run.corner PROVE stride' = "block" /\ OnAStreet'
  BY <1>1, <1>4 DEF RunInv
<1>6. stride = "block"
  BY <1>1, <1>5 DEF RunInv
<1>n. PICK n \in Node : \E m \in Neighbours(n) :
        \E i \in 0..(HowFar - 1) : HasCome(n, m, i)
  BY <1>1, <1>5 DEF RunInv, OnAStreet
<1>m. PICK m \in Neighbours(n) : \E i \in 0..(HowFar - 1) : HasCome(n, m, i)
  BY <1>n
<1>7. PICK i \in 0..(HowFar - 1) : HasCome(n, m, i)
  BY <1>m
<1>8. GoesOnTo(k)
  <2>1. arrived \in Neighbours(node)
    BY <1>7 DEF HasCome
  <2>2. PICK y \in Node : GoesOnTo(y)
    BY <1>1, <1>5, <2>1, UnstoppedSays
  <2>3. y = k
    BY <1>2, <2>2 DEF GoesOnTo
  <2>4. QED
    BY <2>2, <2>3
<1>9. PICK here \in Node : here = node
  BY DEF OnTheMap
<1>10. node' = k /\ arrived' = here /\ here \in Neighbours(k)
  BY <1>2, <1>8, <1>9 DEF StepTo, GoesOnTo
<1>11. /\ i + 1 \in 0..(HowFar - 1) /\ i \in Nat /\ HowFar \in Nat
       /\ Ahead(n, m, Corners)[i + 1] = <<here, k>>
       /\ run.calm =>
            /\ Ahead(n, m, PreviewHalts)[i + 1] = <<here, k>>
            /\ Passed(Ahead(n, m, PreviewHalts), i, run.street, PreviewHalts)
  BY <1>7, <1>8, <1>9, NextHop, NodesAreFinite DEF HowFar
<1>12. ToldBlocked(n, m)' = ToldBlocked(n, m)
  BY DEF ToldBlocked, BlockChain, Blocks, InEffect
<1>13. ASSUME run'.calm PROVE AsPreviewed(n, m, i + 1)'
  <2>1. run.calm /\ doors' = doors
    BY <1>4, <1>13
  <2>2. AsPreviewed(n, m, i)
    BY <1>7, <2>1 DEF HasCome
  <2>3. PreviewHalts' = PreviewHalts /\ Preview(n, m)' = Preview(n, m)
    BY <1>1, <2>1 DEF PreviewHalts, LookedPast, Preview
  <2>4. \A h \in 0..((i + 1) - 1) : h \in 0..(i - 1) \/ h = i
    BY <1>11
  <2>5. \A h \in 0..((i + 1) - 1) :
          Passed(Ahead(n, m, PreviewHalts), h, run.street, PreviewHalts)
    BY <1>11, <2>1, <2>2, <2>4 DEF AsPreviewed
  <2>6. run'.end = Preview(n, m)'
    BY <1>1, <1>4, <2>2, <2>3 DEF AsPreviewed
  <2>7. <<arrived', node'>> = Ahead(n, m, PreviewHalts')[i + 1]
    BY <1>10, <1>11, <2>1, <2>3
  <2>8. QED
    BY <1>4, <2>3, <2>5, <2>6, <2>7 DEF AsPreviewed
<1>14. HasCome(n, m, i + 1)'
  <2>1. run'.left = (HowFar - 1) - (i + 1) /\ run'.street = EdgeStreet(n, m)
    BY <1>4, <1>7, <1>11 DEF HasCome
  <2>2. run'.told = ToldBlocked(n, m)'
    BY <1>4, <1>7, <1>12 DEF HasCome
  <2>3. <<arrived', node'>> = Ahead(n, m, Corners)[i + 1] /\ arrived' \in Neighbours(node')
    BY <1>10, <1>11
  <2>4. QED
    BY <1>13, <2>1, <2>2, <2>3 DEF HasCome
<1>15. QED
  BY <1>6, <1>11, <1>14 DEF OnAStreet

LEMMA RunInit == Init => RunInv
  BY DEF Init, RunInv

(* The line is written under the list of the turn before, and neither that *)
(* list nor a door changes before the call.                                *)
LEMMA LineStep == LineInv /\ [Next]_vars => LineInv'
<1>1. SUFFICES ASSUME LineInv, [Next]_vars, pc' = "act" PROVE LineInv'
  BY DEF LineInv
<1>2. CASE UNCHANGED vars
  <2>1. /\ pc' = pc /\ node' = node /\ line' = line /\ doors' = doors
    BY <1>2 DEF vars
  <2>2. PreviewHalts' = PreviewHalts
    BY <2>1 DEF PreviewHalts, LookedPast
  <2>3. QED
    BY <1>1, <2>1, <2>2 DEF LineInv, Preview
<1>3. CASE Observe
  <2>1. /\ node' = node /\ doors' = doors
        /\ line' = [lamps |-> shown,
                    end |-> [m \in Neighbours(node) |-> BlockPreview(node, m)]]
    BY <1>3 DEF Observe
  <2>2. line'.lamps = shown
    BY <2>1
  <2>3. PreviewHalts' = {h \in Hops : \/ h[1] \in doors
                                      \/ Cardinality(Neighbours(h[1])) > 2
                                      \/ SignalIsVisible(h[1], h[2])}
    BY <2>1, <2>2 DEF PreviewHalts, LookedPast, SignalIsVisible
  <2>4. \A m \in Neighbours(node) : line'.end[m] = BlockPreview(node, m)
    BY <2>1
  <2>5. \A m \in Neighbours(node) : BlockPreview(node, m) = Preview(node, m)'
    BY <2>1, <2>3 DEF BlockPreview, Preview, Hops, HowFar
  <2>6. QED
    BY <2>1, <2>4, <2>5 DEF LineInv
<1>4. QED
  BY <1>1, <1>2, <1>3
  DEF Next, Running, RunOn, RunStops, RunBarred, NoSuchStreet, WalkTo, FollowStreet,
      Wait, SetOff, Returns

LEMMA RunStep == OnTheMap /\ LineInv /\ RunInv /\ [Next]_vars => RunInv'
<1>1. SUFFICES ASSUME OnTheMap, LineInv, RunInv, [Next]_vars PROVE RunInv'
  OBVIOUS
<1>2. CASE pc' # "run"
  BY <1>2 DEF RunInv
<1>3. CASE UNCHANGED vars
  <2>1. /\ pc' = pc /\ run' = run /\ stride' = stride /\ node' = node
        /\ arrived' = arrived /\ doors' = doors /\ line' = line /\ field' = field
    BY <1>3 DEF vars
  <2>2. ASSUME NEW n \in Node, NEW m \in Neighbours(n), NEW i \in 0..(HowFar - 1)
        PROVE  HasCome(n, m, i) => HasCome(n, m, i)'
    <3>1. ToldBlocked(n, m)' = ToldBlocked(n, m)
      BY <2>1 DEF ToldBlocked, BlockChain, Blocks, InEffect
    <3>2. PreviewHalts' = PreviewHalts
      BY <2>1 DEF PreviewHalts, LookedPast
    <3>3. Preview(n, m)' = Preview(n, m)
      BY <3>2 DEF Preview
    <3>4. AsPreviewed(n, m, i) => AsPreviewed(n, m, i)'
      BY <2>1, <3>2, <3>3 DEF AsPreviewed, Passed
    <3>5. QED
      BY <2>1, <3>1, <3>4 DEF HasCome
  <2>4. OnAStreet => OnAStreet'
    BY <2>2 DEF OnAStreet
  <2>5. QED
    BY <1>1, <2>1, <2>4 DEF RunInv, RunShape
<1>4. CASE pc' = "run" /\ Next
  <2>1. UNCHANGED <<field, stride>>
    BY <1>4 DEF Next, Running
  <2>2. CASE RunOn
    BY <1>1, <2>1, <2>2, RunOnFinds
  <2>3. CASE WalkTo
    <3>1. PICK m \in Neighbours(node) :
            stride = "block" /\ SetOff(m, HowFar, TRUE) /\ pc = "act"
      BY <1>4, <2>3 DEF WalkTo, Returns, HowFar
    <3>2. QED
      BY <1>1, <2>1, <3>1, SetOffFinds
  <2>4. CASE FollowStreet
    <3>1. PICK m \in Neighbours(node), n \in 1..MAX_FOLLOW : SetOff(m, n, FALSE)
      BY <1>4, <2>4 DEF FollowStreet, Returns
    <3>2. ~run'.corner /\ RunShape'
      BY <3>1 DEF SetOff, RunShape
    <3>3. QED
      BY <3>2 DEF RunInv
  <2>5. QED
    BY <1>4, <2>2, <2>3, <2>4
    DEF Next, Running, RunStops, RunBarred, Observe, NoSuchStreet, Wait, Returns
<1>5. QED
  BY <1>1, <1>2, <1>3, <1>4

LEMMA RunHolds == Spec => [](OnTheMap /\ LineInv /\ RunInv)
<1>1. Init => OnTheMap /\ LineInv /\ RunInv
  BY MapInit, RunInit DEF Init, LineInv
<1>2. OnTheMap /\ LineInv /\ RunInv /\ [Next]_vars => (OnTheMap /\ LineInv /\ RunInv)'
  BY MapStep, LineStep, RunStep
<1>3. QED
  BY <1>1, <1>2, PTL DEF Spec

(* A street told clear is: the photograph looks as far as the walk can get.*)
LEMMA ClearIsClear ==
  ASSUME OnTheMap, RunInv
  PROVE  ToldClearIsClear
<1>1. SUFFICES ASSUME pc = "run", run.corner, ~run.told, ~Stops,
                      NEW k \in Onward(node, arrived, run.street)
               PROVE  ~Blocks(node, k)
  BY DEF ToldClearIsClear
<1>n. PICK n \in Node : \E m \in Neighbours(n) :
        \E i \in 0..(HowFar - 1) : HasCome(n, m, i)
  BY <1>1 DEF RunInv, OnAStreet
<1>m. PICK m \in Neighbours(n) : \E i \in 0..(HowFar - 1) : HasCome(n, m, i)
  BY <1>n
<1>2. PICK i \in 0..(HowFar - 1) : HasCome(n, m, i)
  BY <1>m
<1>3. arrived \in Neighbours(node) /\ m \in Node /\ stride = "block"
  BY <1>1, <1>2 DEF HasCome, RunInv, Neighbours
<1>4. GoesOnTo(k)
  <2>1. PICK y \in Node : GoesOnTo(y)
    BY <1>1, <1>3, UnstoppedSays
  <2>2. QED
    BY <1>1, <2>1 DEF GoesOnTo
<1>5. Ahead(n, m, Corners)[i + 1] = <<node, k>> /\ i + 1 \in 0..(HowFar - 1)
  BY <1>2, <1>4, NextHop
<1>6. i + 1 \in DOMAIN Ahead(n, m, Corners)
  <2>1. HowFar \in Nat
    BY NodesAreFinite DEF HowFar
  <2>2. i + 1 \in 0..HowFar
    BY <1>5, <2>1
  <2>3. IsWay(Ahead(n, m, Corners), <<n, m>>, EdgeStreet(n, m), Corners)
    BY <1>3, AheadIsAWay
  <2>4. QED
    BY <2>2, <2>3 DEF IsWay
<1>7. <<node, k>> \in BlockChain(n, m)
  BY <1>3, <1>5, <1>6, AheadSays DEF Range
<1>8. ~ToldBlocked(n, m)
  BY <1>1, <1>2 DEF HasCome
<1>9. QED
  BY <1>7, <1>8 DEF ToldBlocked

(* The walk gets no further than the line: it halts wherever the line did, *)
(* short of it only at a lamp the line looked past, and the way there      *)
(* passes no place twice.                                                  *)
LEMMA EndsAsTold ==
  ASSUME CityHasJunctions, OnTheMap, RunInv
  PROVE  WalksAsFarAsSaid
<1> DEFINE PastALamp == \E y \in Onward(node, arrived, run.street) : LookedPast(node, y)
<1>1. SUFFICES ASSUME pc = "run", run.corner, run.calm
               PROVE  /\ node = run.end => Stops
                      /\ Stops /\ node # run.end => PastALamp
  BY DEF WalksAsFarAsSaid
<1>n. PICK n \in Node : \E m \in Neighbours(n) :
        \E i \in 0..(HowFar - 1) : HasCome(n, m, i)
  BY <1>1 DEF RunInv, OnAStreet
<1>m. PICK m \in Neighbours(n) : \E i \in 0..(HowFar - 1) : HasCome(n, m, i)
  BY <1>n
<1>2. PICK i \in 0..(HowFar - 1) : HasCome(n, m, i)
  BY <1>m
<1> DEFINE way == Ahead(n, m, PreviewHalts)
           street == run.street
<1>3. /\ HowFar \in Nat \ {0} /\ i \in 0..HowFar /\ HowFar \in 0..HowFar
      /\ m \in Node /\ <<n, m>> \in Hops
  BY <1>2, NodesAreFinite DEF HowFar, Neighbours, Hops
<1>4. /\ AsPreviewed(n, m, i) /\ arrived \in Neighbours(node) /\ run.left = (HowFar - 1) - i
      /\ street = EdgeStreet(n, m)
  BY <1>1, <1>2 DEF HasCome
<1>5. IsWay(way, <<n, m>>, street, PreviewHalts)
  BY <1>3, <1>4, AheadIsAWay
<1>6. /\ way[i] = <<arrived, node>> /\ run.end = way[HowFar][2]
      /\ \A k \in 0..(i - 1) : Passed(way, k, street, PreviewHalts)
  BY <1>4 DEF AsPreviewed, Preview
<1> HIDE DEF way, street
<1>7. way[i] \in Hops /\ way[i][1] = arrived /\ way[i][2] = node
  BY <1>3, <1>5, <1>6, WaySays
<1>8. ASSUME Stops, node # run.end PROVE PastALamp
  <2>1. CASE Halts(way[i], street, PreviewHalts)
    BY <1>3, <1>5, <1>6, <1>7, <1>8, <2>1, HaltsStay
  <2>2. CASE ~Halts(way[i], street, PreviewHalts)
    <3>1. /\ Passed(way, i, street, PreviewHalts)
          /\ node \notin doors /\ ~(Cardinality(Neighbours(node)) > 2)
          /\ \E y \in Node : /\ Onward(node, arrived, street) = {y}
                             /\ (SignalInAlbum(node, y) => LookedPast(node, y))
      BY <1>4, <1>7, <2>2, PreviewPasses
    <3>2. PICK y \in Node : /\ Onward(node, arrived, street) = {y}
                            /\ (SignalInAlbum(node, y) => LookedPast(node, y))
      BY <3>1
    <3>3. SUFFICES ASSUME ~SignalInAlbum(node, y) PROVE FALSE
      BY <3>2 DEF street
    <3>4. Cardinality({y}) = 1
      BY FS_Singleton
    <3>5. run.left = 0
      BY <1>8, <3>1, <3>2, <3>3, <3>4 DEF Stops, street
    <3>6. i = HowFar - 1
      BY <1>3, <1>4, <3>5
    <3>7. \A k \in 0..(HowFar - 1) : Passed(way, k, street, PreviewHalts)
      <4>1. \A k \in 0..(HowFar - 1) : k \in 0..(i - 1) \/ k = i
        BY <1>3, <3>6
      <4>2. QED
        BY <1>6, <3>1, <4>1
    <3>8. Apart(way, i)
      BY <1>3, <1>5, <1>6, WaysAreApart
    <3>9. QED
      BY <1>3, <3>6, <3>7, <3>8, NoRoundTrip
  <2>3. QED
    BY <2>1, <2>2
<1>9. ASSUME ~Stops PROVE node # run.end
  <2>1. PICK k \in Node : GoesOnTo(k)
    BY <1>1, <1>4, <1>9, UnstoppedSays
  <2>2. i + 1 \in 0..(HowFar - 1) /\ Passed(way, i, street, PreviewHalts)
    BY <1>1, <1>2, <2>1, NextHop DEF way, street
  <2> DEFINE On(j) == /\ way[j][2] # node
                      /\ \/ Halts(way[j], street, PreviewHalts)
                         \/ \A h \in 0..(j - 1) : Passed(way, h, street, PreviewHalts)
             N == {j \in Nat : (i + 1) + j <= HowFar => On((i + 1) + j)}
  <2>3. ASSUME NEW j \in (i + 1)..HowFar,
               \A h \in 0..(j - 1) : Passed(way, h, street, PreviewHalts)
        PROVE  On(j) /\ way[j] \in Hops /\ way[j][1] \in Neighbours(way[j][2])
    <3>1. j \in 0..HowFar /\ i # j /\ i \in 0..j /\ j \in 0..j
      BY <1>3, <2>2
    <3>2. Apart(way, j)
      BY <1>3, <1>5, <2>3, <3>1, WaysAreApart
    <3>3. way[j][2] # node
      BY <1>7, <3>1, <3>2 DEF Apart
    <3>4. QED
      BY <2>3, <3>1, <3>2, <3>3 DEF Apart
  <2>4. 0 \in N
    <3>1. i + 1 \in (i + 1)..HowFar /\ (i + 1) + 0 = i + 1
      BY <1>3, <2>2
    <3>2. \A h \in 0..((i + 1) - 1) : h \in 0..(i - 1) \/ h = i
      BY <1>3
    <3>3. \A h \in 0..((i + 1) - 1) : Passed(way, h, street, PreviewHalts)
      BY <1>6, <2>2, <3>2
    <3>4. On(i + 1)
      BY <2>3, <3>1, <3>3
    <3>5. QED
      BY <3>1, <3>4
  <2>5. ASSUME NEW d \in N PROVE d + 1 \in N
    <3>1. SUFFICES ASSUME (i + 1) + (d + 1) <= HowFar PROVE On((i + 1) + (d + 1))
      OBVIOUS
    <3>2. PICK j \in (i + 1)..HowFar : j = (i + 1) + d
      BY <1>3, <3>1
    <3>3. /\ j \in 0..(HowFar - 1) /\ j \in 0..HowFar /\ j + 1 \in (i + 1)..HowFar
          /\ (i + 1) + (d + 1) = j + 1 /\ j \in Nat
      BY <1>3, <3>1, <3>2
    <3>4. On(j)
      BY <3>2, <3>3
    <3>5. way[j + 1] = After(way[j], street, PreviewHalts)
      BY <1>3, <1>5, <3>3, WaySays
    <3>6. CASE Halts(way[j], street, PreviewHalts)
      <4>1. way[j + 1] = way[j]
        BY <3>5, <3>6 DEF After
      <4>2. QED
        BY <3>3, <3>4, <3>6, <4>1
    <3>7. CASE ~Halts(way[j], street, PreviewHalts)
      <4>1. \A h \in 0..(j - 1) : Passed(way, h, street, PreviewHalts)
        BY <3>4, <3>7
      <4>2. way[j] \in Hops /\ way[j][1] \in Neighbours(way[j][2])
        BY <2>3, <4>1
      <4>3. Passed(way, j, street, PreviewHalts)
        BY <3>7, <4>2, PreviewPasses
      <4>4. \A h \in 0..((j + 1) - 1) : h \in 0..(j - 1) \/ h = j
        BY <3>3
      <4>5. \A h \in 0..((j + 1) - 1) : Passed(way, h, street, PreviewHalts)
        BY <4>1, <4>3, <4>4
      <4>6. On(j + 1)
        BY <2>3, <3>3, <4>5
      <4>7. QED
        BY <3>3, <4>6
    <3>8. QED
      BY <3>6, <3>7
  <2>6. Nat \subseteq N
    <3>1. N \in SUBSET Nat
      OBVIOUS
    <3> HIDE DEF N
    <3>2. QED
      BY <2>4, <2>5, <3>1, CountingUp
  <2>7. HowFar - (i + 1) \in Nat /\ (i + 1) + (HowFar - (i + 1)) = HowFar
    BY <1>3, <2>2
  <2>8. On(HowFar)
    BY <1>3, <2>6, <2>7
  <2>9. QED
    BY <1>6, <2>8
<1>10. QED
  BY <1>8, <1>9

(* A street told clear has no barrier anywhere a walk_to down it gets to.  *)
THEOREM ClearStreetsAreClear == Spec => []ToldClearIsClear
<1>1. OnTheMap /\ LineInv /\ RunInv => ToldClearIsClear
  BY ClearIsClear
<1>2. QED
  BY <1>1, RunHolds, PTL

(* In a city that is joined and has a junction or an end, the advice is    *)
(* the walk, whatever lamps were sent and whenever: what was told clear    *)
(* is; a calm walk never passes the end the candidate line gave, and short *)
(* of it only a lamp the line looked past stops it.  On a ring without a   *)
(* junction it would not be: the preview goes round as long as there are   *)
(* places, the walk one hop less.                                          *)
THEOREM TheAdviceIsTheWalk ==
  ASSUME CityHasJunctions
  PROVE  Spec => []AdviceIsTheWalk
<1>1. OnTheMap /\ LineInv /\ RunInv => AdviceIsTheWalk
  BY ClearIsClear, EndsAsTold DEF AdviceIsTheWalk
<1>2. QED
  BY <1>1, RunHolds, PTL

------------------------------------------------------------------------------
(* The bookkeeping of a run.                                               *)

OneTurnInv ==
  /\ pc \in {"observe", "act", "run"}
  /\ pc = "act" => turns = 0 /\ rejected = 0
  /\ pc = "run" =>
       /\ RunShape /\ run.left \in Nat
       /\ run.turns = 0 /\ run.rejected = 0 /\ rejected = 0

LEMMA SetOffOnce ==
  ASSUME OneTurnInv, pc = "act", NEW m, NEW limit \in Nat \ {0}, NEW corner,
         SetOff(m, limit, corner)
  PROVE  OneTurnInv'
<1>1. turns = 0 /\ rejected = 0 /\ rejected' = 0 /\ pc' = "run"
  BY DEF OneTurnInv, SetOff, StepTo
<1>2. run' = [street |-> EdgeStreet(node, m), left |-> limit - 1, corner |-> corner,
              turns |-> turns, rejected |-> rejected,
              told |-> ToldBlocked(node, m), end |-> line.end[m],
              calm |-> (doors' = doors)]
  BY DEF SetOff
<1>3. limit - 1 \in Nat
  OBVIOUS
<1>4. /\ RunShape' /\ run'.left = limit - 1 /\ run'.turns = turns
      /\ run'.rejected = rejected
  BY <1>2 DEF RunShape
<1>5. QED
  BY <1>1, <1>3, <1>4 DEF OneTurnInv

LEMMA RunOnShortens ==
  ASSUME OneTurnInv, RunOn
  PROVE  OneTurnInv' /\ run'.left = run.left - 1
<1>1. /\ pc = "run" /\ pc' = "run" /\ run.left # 0 /\ rejected' = rejected
      /\ RunShape /\ run' = [run EXCEPT !.left = @ - 1, !.calm = @ /\ doors' = doors]
  BY DEF OneTurnInv, RunOn, Stops, StepTo
<1>2. PICK r : r = run
  OBVIOUS
<1>3. r = [street |-> r.street, left |-> r.left, corner |-> r.corner,
           turns |-> r.turns, rejected |-> r.rejected,
           told |-> r.told, end |-> r.end, calm |-> r.calm]
  BY <1>1, <1>2 DEF RunShape
<1>4. run' = [street |-> r.street, left |-> r.left - 1, corner |-> r.corner,
              turns |-> r.turns, rejected |-> r.rejected,
              told |-> r.told, end |-> r.end, calm |-> r.calm /\ doors' = doors]
  BY <1>1, <1>2, <1>3
<1>5. /\ RunShape' /\ run'.left = run.left - 1
      /\ run'.turns = run.turns /\ run'.rejected = run.rejected
  BY <1>2, <1>4 DEF RunShape
<1>6. run.left \in Nat /\ run.left - 1 \in Nat
  BY <1>1 DEF OneTurnInv
<1>7. QED
  BY <1>1, <1>5, <1>6 DEF OneTurnInv

LEMMA OneTurnStep == OnTheMap /\ OneTurnInv /\ [Next]_vars => OneTurnInv'
<1>1. SUFFICES ASSUME OnTheMap, OneTurnInv, [Next]_vars PROVE OneTurnInv'
  OBVIOUS
<1>2. CASE RunOn
  BY <1>1, <1>2, RunOnShortens
<1>3. CASE WalkTo
  <2>1. CASE pc' = "observe"
    BY <2>1 DEF OneTurnInv
  <2>2. CASE pc' # "observe"
    <3>1. PICK m \in Neighbours(node) : SetOff(m, HowFar, TRUE)
      BY <1>3, <2>2 DEF WalkTo, Returns, HowFar
    <3>2. HowFar \in Nat \ {0}
      <4>1. Node # {}
        BY <1>1 DEF OnTheMap
      <4>2. QED
        BY <4>1, NodesAreFinite, FS_EmptySet DEF HowFar
    <3>3. pc = "act"
      BY <1>3 DEF WalkTo
    <3>4. QED
      BY <1>1, <3>1, <3>2, <3>3, SetOffOnce
  <2>3. QED
    BY <2>1, <2>2
<1>4. CASE FollowStreet
  <2>1. CASE pc' = "observe"
    BY <2>1 DEF OneTurnInv
  <2>2. CASE pc' # "observe"
    <3>1. PICK m \in Neighbours(node), n \in 1..MAX_FOLLOW : SetOff(m, n, FALSE)
      BY <1>4, <2>2 DEF FollowStreet, Returns
    <3>2. n \in Nat \ {0} /\ pc = "act"
      BY <1>4, StreetAssumption DEF FollowStreet
    <3>3. QED
      BY <1>1, <3>1, <3>2, SetOffOnce
  <2>3. QED
    BY <2>1, <2>2
<1>5. CASE Observe
  BY <1>5 DEF Observe, OneTurnInv
<1>6. CASE RunStops \/ RunBarred \/ NoSuchStreet \/ Wait
  BY <1>6 DEF RunStops, RunBarred, NoSuchStreet, Wait, Returns, OneTurnInv
<1>7. CASE UNCHANGED vars
  BY <1>1, <1>7 DEF vars, OneTurnInv, RunShape
<1>8. QED
  BY <1>1, <1>2, <1>3, <1>4, <1>5, <1>6, <1>7 DEF Next, Running

(* What a walk that got going comes to: every further hop is one less to   *)
(* go, and however it ends it is one turn and no refusal.  That the loop   *)
(* takes its next step at all is the fairness of WalkIsOneTurn.            *)
WalksAreOneTurn ==
  [][pc = "run" =>
       \/ pc' = "run" /\ run'.left = run.left - 1 /\ run'.left \in Nat
       \/ pc' = "observe" /\ turns' = 1 /\ rejected' = 0]_vars

THEOREM EveryWalkIsOneTurn == Spec => WalksAreOneTurn
<1>1. Init => OneTurnInv
  BY DEF Init, OneTurnInv
<1>2. ASSUME OneTurnInv, Next, pc = "run"
      PROVE  \/ pc' = "run" /\ run'.left = run.left - 1 /\ run'.left \in Nat
             \/ pc' = "observe" /\ turns' = 1 /\ rejected' = 0
  <2>1. RunOn \/ RunStops \/ RunBarred
    BY <1>2 DEF Next, Running, Observe, NoSuchStreet, WalkTo, FollowStreet, Wait
  <2>2. CASE RunOn
    <3>1. pc' = "run" /\ run'.left = run.left - 1 /\ OneTurnInv'
      BY <1>2, <2>2, RunOnShortens DEF RunOn
    <3>2. QED
      BY <3>1 DEF OneTurnInv
  <2>3. CASE RunStops \/ RunBarred
    BY <1>2, <2>3 DEF RunStops, RunBarred, Returns, OneTurnInv
  <2>4. QED
    BY <2>1, <2>2, <2>3
<1>3. OneTurnInv /\ [Next]_vars =>
        [pc = "run" =>
           \/ pc' = "run" /\ run'.left = run.left - 1 /\ run'.left \in Nat
           \/ pc' = "observe" /\ turns' = 1 /\ rejected' = 0]_vars
  BY <1>2
<1>4. QED
  BY <1>1, <1>3, OneTurnStep, OnTheMapHolds, PTL DEF Spec, WalksAreOneTurn
==============================================================================
