----------------------------- MODULE FiniteSums -----------------------------
(***************************************************************************)
(* MapThenSumSet adds up a finite set by a function that is defined in     *)
(* terms of itself.  That there is such a function, and what it comes to,  *)
(* for every finite set S and every h that maps S to numbers.              *)
(***************************************************************************)
EXTENDS Integers, FiniteSetTheorems, TLAPS

Pick(s) == CHOOSE x \in s : TRUE
Rest(s) == s \ {Pick(s)}

SumOver(h, g, s) == IF s = {} THEN 0 ELSE h[Pick(s)] + g[Rest(s)]
IsSum(S, h, g) == g = [s \in SUBSET S |-> SumOver(h, g, s)]

LEMMA CountingUp ==
  ASSUME NEW N \in SUBSET Nat, 0 \in N, \A n \in N : n + 1 \in N
  PROVE  Nat \subseteq N
<1>1. SUFFICES ASSUME Nat \ N # {} PROVE FALSE
  OBVIOUS
<1>2. PICK n \in Nat \ N : \A k \in Nat \ N : ~(<<k, n>> \in OpToRel(<, Nat))
  BY <1>1, NatLessThanWellFounded, WFMin
<1>3. \A k \in Nat \ N : ~(k < n)
  BY <1>2 DEF OpToRel
<1>4. n # 0 /\ n - 1 \in Nat /\ n - 1 < n
  OBVIOUS
<1>5. n - 1 \in N
  BY <1>3, <1>4
<1>6. (n - 1) + 1 \in N /\ (n - 1) + 1 = n
  BY <1>5
<1>7. QED
  BY <1>6, <1>2

LEMMA RestSays ==
  ASSUME NEW S, IsFiniteSet(S), NEW s \in SUBSET S
  PROVE  /\ Cardinality(s) \in Nat /\ (Cardinality(s) = 0 <=> s = {})
         /\ s # {} =>
              /\ Pick(s) \in s /\ Pick(s) \in S /\ Rest(s) \in SUBSET S
              /\ Cardinality(Rest(s)) = Cardinality(s) - 1
              /\ \A o : o \in s <=> o \in Rest(s) \/ o = Pick(s)
              /\ Pick(s) \notin Rest(s)
<1>1. IsFiniteSet(s) /\ Cardinality(s) \in Nat
  BY FS_Subset, FS_CardinalityType
<1>2. Cardinality(s) = 0 <=> s = {}
  BY <1>1, FS_EmptySet
<1>3. ASSUME s # {}
      PROVE  /\ Pick(s) \in s /\ Pick(s) \in S /\ Rest(s) \in SUBSET S
             /\ Cardinality(Rest(s)) = Cardinality(s) - 1
             /\ \A o : o \in s <=> o \in Rest(s) \/ o = Pick(s)
             /\ Pick(s) \notin Rest(s)
  <2>1. Pick(s) \in s
    BY <1>3 DEF Pick
  <2>2. Cardinality(Rest(s)) = Cardinality(s) - 1
    BY <1>1, <2>1, FS_RemoveElement DEF Rest
  <2>3. QED
    BY <2>1, <2>2 DEF Rest
<1>4. QED
  BY <1>1, <1>2, <1>3

(* What holds of the empty set, and of a set when it holds of it without   *)
(* the member the sum takes first, holds of every subset of S.             *)
LEMMA SubsetInduction ==
  ASSUME NEW S, IsFiniteSet(S), NEW Good \in SUBSET SUBSET S, {} \in Good,
         \A s \in SUBSET S : s # {} /\ Rest(s) \in Good => s \in Good
  PROVE  \A s \in SUBSET S : s \in Good
<1> DEFINE N == {n \in Nat : \A s \in SUBSET S : Cardinality(s) = n => s \in Good}
<1>1. 0 \in N
  BY RestSays
<1>2. ASSUME NEW n \in N PROVE n + 1 \in N
  <2>1. SUFFICES ASSUME NEW s \in SUBSET S, Cardinality(s) = n + 1 PROVE s \in Good
    OBVIOUS
  <2>2. n \in Nat
    OBVIOUS
  <2>3. s # {} /\ Rest(s) \in SUBSET S /\ Cardinality(Rest(s)) = n
    BY <2>1, <2>2, RestSays
  <2>4. QED
    BY <2>3
<1>3. Nat \subseteq N
  <2> HIDE DEF N
  <2>1. N \in SUBSET Nat
    BY DEF N
  <2>2. QED
    BY <1>1, <1>2, <2>1, CountingUp
<1>4. QED
  BY <1>3, RestSays

(* There is such a function on the sets of at most n members, for every n. *)
LEMMA SumOfSmall ==
  ASSUME NEW S, IsFiniteSet(S), NEW h
  PROVE  \A n \in Nat : \E g :
           \A s \in SUBSET S : Cardinality(s) <= n => g[s] = SumOver(h, g, s)
<1> DEFINE Has(n) == \E g :
             \A s \in SUBSET S : Cardinality(s) <= n => g[s] = SumOver(h, g, s)
           N == {n \in Nat : Has(n)}
<1>1. Has(0)
  <2>1. PICK g : g = [s \in SUBSET S |-> 0]
    OBVIOUS
  <2>2. \A s \in SUBSET S : Cardinality(s) <= 0 => s = {}
    BY RestSays
  <2>3. \A s \in SUBSET S : g[s] = 0
    BY <2>1
  <2>4. QED
    BY <2>2, <2>3 DEF SumOver
<1>2. ASSUME NEW n \in Nat, Has(n) PROVE Has(n + 1)
  <2>1. PICK g : \A s \in SUBSET S : Cardinality(s) <= n => g[s] = SumOver(h, g, s)
    BY <1>2
  <2>2. PICK k : k = [s \in SUBSET S |->
                        IF Cardinality(s) <= n THEN g[s] ELSE SumOver(h, g, s)]
    OBVIOUS
  <2>3. ASSUME NEW s \in SUBSET S, Cardinality(s) <= n + 1
        PROVE  k[s] = SumOver(h, k, s)
    <3>1. k[s] = SumOver(h, g, s)
      BY <2>1, <2>2
    <3>2. CASE s = {}
      BY <3>1, <3>2 DEF SumOver
    <3>3. CASE s # {}
      <4>1. Rest(s) \in SUBSET S /\ Cardinality(Rest(s)) <= n
        BY <2>3, <3>3, RestSays
      <4>2. k[Rest(s)] = g[Rest(s)]
        BY <2>2, <4>1
      <4>3. QED
        BY <3>1, <4>2 DEF SumOver
    <3>4. QED
      BY <3>2, <3>3
  <2>4. QED
    BY <2>3
<1> HIDE DEF Has
<1>3. 0 \in N /\ \A n \in N : n + 1 \in N
  BY <1>1, <1>2
<1>4. Nat \subseteq N
  <2> HIDE DEF N
  <2>1. N \in SUBSET Nat
    BY DEF N
  <2>2. QED
    BY <1>3, <2>1, CountingUp
<1>5. \A n \in Nat : Has(n)
  BY <1>4
<1>6. QED
  BY <1>5 DEF Has

THEOREM SumExists == ASSUME NEW S, IsFiniteSet(S), NEW h PROVE \E g : IsSum(S, h, g)
<1>1. Cardinality(S) \in Nat
  BY FS_CardinalityType
<1>2. PICK g : \A s \in SUBSET S :
                 Cardinality(s) <= Cardinality(S) => g[s] = SumOver(h, g, s)
  BY <1>1, SumOfSmall
<1>3. \A s \in SUBSET S : Cardinality(s) <= Cardinality(S)
  BY FS_Subset
<1>4. PICK k : k = [s \in SUBSET S |-> g[s]]
  OBVIOUS
<1>5. \A s \in SUBSET S : SumOver(h, g, s) = SumOver(h, k, s)
  <2>1. SUFFICES ASSUME NEW s \in SUBSET S
                 PROVE  SumOver(h, g, s) = SumOver(h, k, s)
    OBVIOUS
  <2>2. CASE s = {}
    BY <2>2 DEF SumOver
  <2>3. CASE s # {}
    <3>1. k[Rest(s)] = g[Rest(s)]
      BY <1>4, <2>3, RestSays
    <3>2. QED
      BY <3>1 DEF SumOver
  <2>4. QED
    BY <2>2, <2>3
<1>6. \A s \in SUBSET S : k[s] = SumOver(h, k, s)
  BY <1>2, <1>3, <1>4, <1>5
<1>7. IsSum(S, h, k)
  BY <1>4, <1>6 DEF IsSum
<1>8. QED
  BY <1>7

LEMMA SumStep ==
  ASSUME NEW S, IsFiniteSet(S), NEW h \in [S -> Nat], NEW g, IsSum(S, h, g),
         NEW s \in SUBSET S
  PROVE  /\ s = {} => g[s] = 0
         /\ s # {} => g[s] = h[Pick(s)] + g[Rest(s)] /\ h[Pick(s)] \in Nat
<1>1. g[s] = SumOver(h, g, s)
  BY DEF IsSum
<1>2. s # {} => h[Pick(s)] \in Nat
  BY RestSays
<1>3. QED
  BY <1>1, <1>2 DEF SumOver

(* A sum of naturals is one, and nothing but zeros add up to nothing.      *)
LEMMA PartsAreNat ==
  ASSUME NEW S, IsFiniteSet(S), NEW h \in [S -> Nat], NEW g, IsSum(S, h, g)
  PROVE  /\ \A s \in SUBSET S : g[s] \in Nat
         /\ (\A o \in S : h[o] = 0) => \A s \in SUBSET S : g[s] = 0
<1> DEFINE Good == {s \in SUBSET S : g[s] \in Nat /\ ((\A o \in S : h[o] = 0) => g[s] = 0)}
<1>1. {} \in Good
  <2>1. {} \in SUBSET S
    OBVIOUS
  <2>2. g[{}] = 0
    BY <2>1, SumStep
  <2>3. QED
    BY <2>1, <2>2
<1>2. ASSUME NEW s \in SUBSET S, s # {}, Rest(s) \in Good PROVE s \in Good
  <2>1. g[s] = h[Pick(s)] + g[Rest(s)] /\ h[Pick(s)] \in Nat /\ Pick(s) \in S
    BY <1>2, SumStep, RestSays
  <2>2. QED
    BY <1>2, <2>1
<1>3. \A s \in SUBSET S : s \in Good
  <2> HIDE DEF Good
  <2>1. Good \in SUBSET SUBSET S
    BY DEF Good
  <2>2. QED
    BY <1>1, <1>2, <2>1, SubsetInduction
<1>4. QED
  BY <1>3

Raised(S, h, h2, o, d) == \A q \in S : h2[q] = h[q] + (IF q = o THEN d ELSE 0)

(* A further d at one place adds d to the sum of every set it belongs to.  *)
LEMMA PartsMove ==
  ASSUME NEW S, IsFiniteSet(S), NEW h \in [S -> Nat], NEW h2 \in [S -> Nat],
         NEW g, IsSum(S, h, g), NEW g2, IsSum(S, h2, g2), NEW o, NEW d \in Nat,
         Raised(S, h, h2, o, d)
  PROVE  \A s \in SUBSET S : g2[s] = g[s] + (IF o \in s THEN d ELSE 0)
<1> DEFINE Good == {s \in SUBSET S : g2[s] = g[s] + (IF o \in s THEN d ELSE 0)}
<1>1. {} \in Good
  <2>1. {} \in SUBSET S
    OBVIOUS
  <2>2. g[{}] = 0 /\ g2[{}] = 0
    BY <2>1, SumStep
  <2>3. QED
    BY <2>1, <2>2
<1>2. ASSUME NEW s \in SUBSET S, s # {}, Rest(s) \in Good PROVE s \in Good
  <2>1. /\ g[s] = h[Pick(s)] + g[Rest(s)] /\ h[Pick(s)] \in Nat
        /\ g2[s] = h2[Pick(s)] + g2[Rest(s)]
    BY <1>2, SumStep
  <2>2. /\ Pick(s) \in S /\ Pick(s) \notin Rest(s) /\ Rest(s) \in SUBSET S
        /\ o \in s <=> o \in Rest(s) \/ o = Pick(s)
    BY <1>2, RestSays
  <2>3. h2[Pick(s)] = h[Pick(s)] + (IF Pick(s) = o THEN d ELSE 0)
    BY <2>2 DEF Raised
  <2>4. /\ g[Rest(s)] \in Nat
        /\ g2[Rest(s)] = g[Rest(s)] + (IF o \in Rest(s) THEN d ELSE 0)
    BY <1>2, <2>2, PartsAreNat
  <2>5. CASE o = Pick(s)
    <3>1. o \in s /\ o \notin Rest(s)
      BY <2>2, <2>5
    <3>2. QED
      BY <2>1, <2>3, <2>4, <2>5, <3>1
  <2>6. CASE o # Pick(s)
    <3>1. o \in s <=> o \in Rest(s)
      BY <2>2, <2>6
    <3>2. QED
      BY <2>1, <2>3, <2>4, <2>6, <3>1
  <2>7. QED
    BY <2>5, <2>6
<1>3. \A s \in SUBSET S : s \in Good
  <2> HIDE DEF Good
  <2>1. Good \in SUBSET SUBSET S
    BY DEF Good
  <2>2. QED
    BY <1>1, <1>2, <2>1, SubsetInduction
<1>4. QED
  BY <1>3

(* The same of the whole set.                                              *)
THEOREM SumIsNat ==
  ASSUME NEW S, IsFiniteSet(S), NEW h \in [S -> Nat], NEW g, IsSum(S, h, g)
  PROVE  g[S] \in Nat /\ ((\A o \in S : h[o] = 0) => g[S] = 0)
<1>1. S \in SUBSET S
  OBVIOUS
<1>2. QED
  BY <1>1, PartsAreNat

THEOREM SumMoves ==
  ASSUME NEW S, IsFiniteSet(S), NEW h \in [S -> Nat], NEW h2 \in [S -> Nat],
         NEW g, IsSum(S, h, g), NEW g2, IsSum(S, h2, g2), NEW o, NEW d \in Nat,
         Raised(S, h, h2, o, d)
  PROVE  g2[S] = g[S] + (IF o \in S THEN d ELSE 0)
<1>1. S \in SUBSET S
  OBVIOUS
<1>2. \A s \in SUBSET S : g2[s] = g[s] + (IF o \in s THEN d ELSE 0)
  BY PartsMove
<1>3. QED
  BY <1>1, <1>2
==============================================================================
