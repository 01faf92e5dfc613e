-------------------------- MODULE PhoneScreenProofs --------------------------
(***************************************************************************)
(* Proofs about OrderBook and PhoneScreen for any number of orders, any    *)
(* depth, windows, drains, streets and length of shift.                    *)
(***************************************************************************)
EXTENDS PhoneScreen, FiniteSums, FiniteSetTheorems, TLAPS

(* A list of orders as the calls leave it: orders are picked up after they *)
(* are issued, paid when they are delivered and issued in their order, and *)
(* no more are live than the queue is deep.                                *)
Listed(os) ==
  /\ os \in [Job -> Order]
  /\ \A o \in Job : os[o].stage \in {"waiting", "issued"} => os[o].pickedAt = 0
  /\ \A o \in Job : os[o].stage # "delivered" => os[o].paid = 0
  /\ \A w \in Waiting(os), o \in Job \ Waiting(os) : o < w
  /\ Cardinality(LiveIn(os)) <= Depth

Refilled(os) ==
  endless \/ Cardinality(LiveIn(os)) = Depth \/ Waiting(os) = {}

BookInv ==
  /\ sim \in Nat /\ rejected \in Nat /\ earnings \in Nat
  /\ Listed(orders) /\ Refilled(orders)

------------------------------------------------------------------------------
(* Numbers.                                                                *)

LEMMA MinIsLeast ==
  ASSUME NEW S \in SUBSET Nat, S # {}
  PROVE  Min(S) \in S /\ \A y \in S : Min(S) <= y
<1>1. PICK x \in S : \A y \in S : ~(<<y, x>> \in OpToRel(<, Nat))
  BY NatLessThanWellFounded, WFMin
<1>2. \A y \in S : ~(y < x)
  BY <1>1 DEF OpToRel
<1>3. \A y \in S : x <= y
  BY <1>2
<1>4. QED
  BY <1>3 DEF Min

LEMMA MinIsIt ==
  ASSUME NEW S \in SUBSET Nat, NEW x \in S, \A y \in S : x <= y
  PROVE  Min(S) = x
<1>1. Min(S) \in S /\ Min(S) <= x
  BY MinIsLeast
<1>2. Min(S) \in Nat /\ x \in Nat /\ x <= Min(S)
  BY <1>1
<1>3. QED
  BY <1>1, <1>2

LEMMA JobsAreNumbers ==
  Job \subseteq Nat /\ IsFiniteSet(Job) /\ Depth \in Nat \ {0}
BY BookAssumption, FS_Interval DEF Job

LEMMA JobSetsCount ==
  ASSUME NEW S \in SUBSET Job
  PROVE  S \subseteq Nat /\ IsFiniteSet(S) /\ Cardinality(S) \in Nat
BY JobsAreNumbers, FS_Subset, FS_CardinalityType

(* The n lowest members of a set with n members or more are n: ranking its *)
(* members by how many are lower numbers them from 0 without a gap.        *)
LEMMA LowestCount ==
  ASSUME NEW W \in SUBSET Job, NEW n \in 0..Cardinality(W)
  PROVE  Cardinality({o \in W : Cardinality({w \in W : w < o}) < n}) = n
<1> DEFINE below(o) == {w \in W : w < o}
           rank == [o \in W |-> Cardinality(below(o))]
           low == {o \in W : Cardinality(below(o)) < n}
<1>1. /\ W \subseteq Nat /\ IsFiniteSet(W) /\ Cardinality(W) \in Nat
      /\ \A o : IsFiniteSet(below(o)) /\ Cardinality(below(o)) \in Nat
  <2>1. \A o : below(o) \in SUBSET Job
    OBVIOUS
  <2>2. QED
    BY <2>1, JobSetsCount
<1>2. \A o, p \in W : o < p => Cardinality(below(o)) < Cardinality(below(p))
  <2>1. SUFFICES ASSUME NEW o \in W, NEW p \in W, o < p
                 PROVE  Cardinality(below(o)) < Cardinality(below(p))
    OBVIOUS
  <2>2. o \notin below(o) /\ below(o) \union {o} \subseteq below(p)
    <3>1. o \in Nat /\ p \in Nat /\ \A w \in W : w \in Nat
      BY <1>1
    <3>2. \A w \in W : w < o => w < p
      BY <2>1, <3>1
    <3>3. ~(o < o)
      BY <3>1
    <3>4. QED
      BY <2>1, <3>2, <3>3
  <2>3. Cardinality(below(o) \union {o}) = Cardinality(below(o)) + 1
    BY <1>1, <2>2, FS_AddElement
  <2>4. Cardinality(below(o) \union {o}) <= Cardinality(below(p))
    BY <1>1, <2>2, FS_Subset
  <2>5. QED
    BY <1>1, <2>3, <2>4
<1>3. \A o \in W : Cardinality(below(o)) < Cardinality(W)
  <2>1. SUFFICES ASSUME NEW o \in W PROVE Cardinality(below(o)) < Cardinality(W)
    OBVIOUS
  <2>2. o \notin below(o) /\ below(o) \union {o} \subseteq W
    BY <1>1
  <2>3. Cardinality(below(o) \union {o}) = Cardinality(below(o)) + 1
    BY <1>1, <2>2, FS_AddElement
  <2>4. Cardinality(below(o) \union {o}) <= Cardinality(W)
    BY <1>1, <2>2, FS_Subset
  <2>5. QED
    BY <1>1, <2>3, <2>4
<1> DEFINE all == 0..(Cardinality(W) - 1)
           few == 0..(n - 1)
<1>4. /\ IsFiniteSet(all) /\ Cardinality(all) = Cardinality(W)
      /\ IsFiniteSet(few) /\ Cardinality(few) = n
      /\ few \subseteq all
  <2>1. n \in Nat /\ n <= Cardinality(W)
    BY <1>1
  <2>2. Cardinality(W) - 1 \in Int /\ n - 1 \in Int
    BY <1>1, <2>1
  <2>3. /\ Cardinality(all) = IF 0 > Cardinality(W) - 1 THEN 0
                              ELSE (Cardinality(W) - 1) - 0 + 1
        /\ Cardinality(few) = IF 0 > n - 1 THEN 0 ELSE (n - 1) - 0 + 1
        /\ IsFiniteSet(all) /\ IsFiniteSet(few)
    BY <2>2, FS_Interval
  <2>4. QED
    BY <1>1, <2>1, <2>3
<1> HIDE DEF below
<1>5. \A o, p \in W : rank[o] = rank[p] => o = p
  <2>1. \A o \in W : rank[o] \in Nat
    BY <1>1
  <2>2. \A o, p \in W : o < p => rank[o] < rank[p]
    BY <1>2
  <2>3. \A o, p \in W : o < p \/ p < o \/ o = p
    BY <1>1
  <2>4. QED
    BY <2>1, <2>2, <2>3
<1>6. rank \in Injection(W, all)
  <2>1. \A o \in W : Cardinality(below(o)) \in all
    BY <1>1, <1>3
  <2>2. rank \in [W -> all]
    BY <2>1
  <2>3. QED
    BY <1>5, <2>2 DEF Injection, IsInjective
<1>7. rank \in Surjection(W, all)
  BY <1>1, <1>4, <1>6, FS_Injection
<1> DEFINE part == [o \in low |-> rank[o]]
<1>8. part \in [low -> few]
  <2>1. \A o \in low : rank[o] \in few
    BY <1>1
  <2>2. QED
    BY <2>1
<1>9. part \in Injection(low, few)
  BY <1>5, <1>8 DEF Injection, IsInjective
<1>10. part \in Surjection(low, few)
  <2>1. \A k \in few : \E o \in low : part[o] = k
    <3>1. SUFFICES ASSUME NEW k \in few PROVE \E o \in low : part[o] = k
      OBVIOUS
    <3>2. PICK o \in W : rank[o] = k
      BY <1>4, <1>7 DEF Surjection
    <3>3. o \in low
      BY <3>2
    <3>4. QED
      BY <3>2, <3>3
  <2>2. QED
    BY <1>8, <2>1 DEF Surjection
<1>11. IsFiniteSet(low)
  BY <1>1, FS_Subset
<1> HIDE DEF low, few, part
<1>12. ExistsBijection(low, few)
  BY <1>9, <1>10 DEF ExistsBijection, Bijection
<1>13. Cardinality(few) = Cardinality(low)
  BY <1>11, <1>12, FS_Bijection
<1>14. low = {o \in W : Cardinality({w \in W : w < o}) < n}
  BY DEF low, below
<1>15. QED
  BY <1>4, <1>13, <1>14

------------------------------------------------------------------------------
(* What reading the queue does to the list of orders.                      *)

(* From x to y with no call serving the order.                             *)
Kept(x, y) ==
  /\ y.pickedAt = x.pickedAt /\ y.paid = x.paid
  /\ x.stage \in {"delivered", "expired"} => y.stage = x.stage
  /\ x.stage = "carried" => y.stage \in {"carried", "expired"}
  /\ x.stage = "issued" => y.stage \in {"issued", "expired"}
  /\ x.stage = "waiting" => y.stage \in {"waiting", "issued", "expired"}

Aged(os, os2) == \A o \in Job : Kept(os[o], os2[o])

(* Whoever was live and still is had time left.                            *)
Prompt(os, os2, now) ==
  \A o \in Job : os[o].stage # "waiting" /\ os2[o].stage \in LiveStage =>
                   now <= ExpiresAt(os, o)

LEMMA OrderFields ==
  ASSUME NEW x \in Order
  PROVE  x.stage \in Stage /\ x.issuedAt \in Nat /\ x.pickedAt \in Nat /\ x.paid \in Nat
BY DEF Order

LEMMA KeptSame == \A x \in Order : Kept(x, x)
BY DEF Order, Kept, Stage, LiveStage

LEMMA AgedSame == ASSUME NEW os \in [Job -> Order] PROVE Aged(os, os)
BY KeptSame DEF Aged

LEMMA AgedOn ==
  ASSUME NEW os1, NEW os2 \in [Job -> Order], NEW os3, Aged(os1, os2), Aged(os2, os3),
         os1 \in [Job -> Order]
  PROVE  Aged(os1, os3)
<1>1. SUFFICES ASSUME NEW o \in Job PROVE Kept(os1[o], os3[o])
  BY DEF Aged
<1>2. Kept(os1[o], os2[o]) /\ Kept(os2[o], os3[o])
  BY DEF Aged
<1>3. os1[o].stage \in Stage /\ os2[o].stage \in Stage
  BY OrderFields
<1>4. QED
  BY <1>2, <1>3 DEF Kept, Stage, LiveStage

LEMMA ExpiryTyped ==
  ASSUME NEW os \in [Job -> Order], NEW o \in Job
  PROVE  ExpiresAt(os, o) \in Nat
<1>1. os[o].issuedAt \in Nat
  BY OrderFields
<1>2. EXPIRY_MULTIPLE * Window[o] \in Nat
  BY BookAssumption
<1>3. QED
  BY <1>1, <1>2 DEF ExpiresAt

(* Taking back what is overdue.                                            *)
LEMMA ExpireSays ==
  ASSUME NEW os, Listed(os), NEW now \in Nat
  PROVE  /\ Listed(Expire(os, now)) /\ Aged(os, Expire(os, now))
         /\ Waiting(Expire(os, now)) = Waiting(os)
         /\ \A o \in Job : Expire(os, now)[o].stage \in LiveStage =>
                             os[o].stage \in LiveStage /\ now <= ExpiresAt(os, o)
<1> DEFINE ex == Expire(os, now)
<1>1. os \in [Job -> Order]
  BY DEF Listed
<1>2. /\ DOMAIN ex = Job
      /\ \A o \in Job : ex[o] = IF o \in Overdue(os, now)
                                THEN [os[o] EXCEPT !.stage = "expired"] ELSE os[o]
      /\ ex = [o \in Job |-> ex[o]]
  BY DEF Expire
<1>3. \A o \in Overdue(os, now) : os[o].stage \in LiveStage /\ now > ExpiresAt(os, o)
  BY DEF Overdue, LiveIn
<1> HIDE DEF ex
<1>4. ASSUME NEW o \in Job
      PROVE  /\ ex[o] \in Order /\ Kept(os[o], ex[o])
             /\ ex[o].pickedAt = os[o].pickedAt /\ ex[o].paid = os[o].paid
             /\ o \in Overdue(os, now) => ex[o].stage = "expired"
             /\ o \notin Overdue(os, now) => ex[o].stage = os[o].stage
  <2>1. os[o] \in Order
    BY <1>1
  <2>2. CASE o \in Overdue(os, now)
    <3>1. ex[o] = [os[o] EXCEPT !.stage = "expired"]
      BY <1>2, <2>2
    <3>2. /\ ex[o] \in Order /\ ex[o].stage = "expired"
          /\ ex[o].pickedAt = os[o].pickedAt /\ ex[o].paid = os[o].paid
      BY <2>1, <3>1 DEF Order, Stage, LiveStage
    <3>3. QED
      BY <1>3, <2>2, <3>2 DEF Kept, LiveStage
  <2>3. CASE o \notin Overdue(os, now)
    <3>1. ex[o] = os[o]
      BY <1>2, <2>3
    <3>2. QED
      BY <2>1, <2>3, <3>1, KeptSame
  <2>4. QED
    BY <2>2, <2>3
<1>5. ex \in [Job -> Order]
  BY <1>2, <1>4
<1>6. Waiting(ex) = Waiting(os)
  BY <1>3, <1>4 DEF Waiting, LiveStage
<1>7. LiveIn(ex) \in SUBSET LiveIn(os) /\ LiveIn(os) \in SUBSET Job
  BY <1>4 DEF LiveIn, LiveStage
<1>8. Cardinality(LiveIn(ex)) <= Depth
  <2>1. LiveIn(ex) \in SUBSET Job
    BY <1>7
  <2>2. /\ Cardinality(LiveIn(ex)) <= Cardinality(LiveIn(os))
        /\ Cardinality(LiveIn(ex)) \in Nat /\ Cardinality(LiveIn(os)) \in Nat
    BY <1>7, <2>1, JobSetsCount, FS_Subset
  <2>3. QED
    BY <2>2, JobsAreNumbers DEF Listed
<1>9. \A o \in Job : ex[o].stage \in LiveStage =>
                       os[o].stage \in LiveStage /\ now <= ExpiresAt(os, o)
  <2>1. SUFFICES ASSUME NEW o \in Job, ex[o].stage \in LiveStage
                 PROVE  os[o].stage \in LiveStage /\ now <= ExpiresAt(os, o)
    OBVIOUS
  <2>2. o \notin Overdue(os, now) /\ os[o].stage \in LiveStage
    BY <1>4, <2>1 DEF LiveStage
  <2>3. ~(now > ExpiresAt(os, o))
    BY <2>2 DEF Overdue, LiveIn
  <2>4. QED
    BY <1>1, <2>2, <2>3, ExpiryTyped
<1>10. Listed(ex)
  BY <1>4, <1>5, <1>6, <1>8, <1>3 DEF Listed, LiveStage
<1>11. QED
  BY <1>4, <1>6, <1>9, <1>10 DEF ex, Aged

(* Handing out n of the waiting orders, as many as there is room for.      *)
LEMMA HandSays ==
  ASSUME NEW os, Listed(os), NEW now \in Nat, NEW n \in TopUp(os)
  PROVE  LET os2 == Hand(os, Oldest(os, n), now)
         IN /\ Listed(os2) /\ Refilled(os2) /\ Aged(os, os2)
            /\ \A o \in Job : os[o].stage # "waiting" => os2[o] = os[o]
<1> DEFINE os2 == Hand(os, Oldest(os, n), now)
           picks == Oldest(os, n)
<1>1. os \in [Job -> Order]
  BY DEF Listed
<1>2. /\ Waiting(os) \in SUBSET Job /\ LiveIn(os) \in SUBSET Job /\ picks \in SUBSET Job
      /\ picks \subseteq Waiting(os)
  BY DEF Waiting, LiveIn, Oldest
<1>3. /\ Cardinality(Waiting(os)) \in Nat /\ Cardinality(LiveIn(os)) \in Nat
      /\ Depth \in Nat /\ Cardinality(LiveIn(os)) <= Depth
  BY <1>2, JobSetsCount, JobsAreNumbers DEF Listed
<1>4. /\ n \in 0..Cardinality(Waiting(os)) /\ n <= Depth - Cardinality(LiveIn(os))
      /\ ~endless => \/ n = Depth - Cardinality(LiveIn(os))
                     \/ n = Cardinality(Waiting(os))
  <2> DEFINE room == Depth - Cardinality(LiveIn(os))
             most == Min({room, Cardinality(Waiting(os))})
  <2>1. room \in Nat
    BY <1>3
  <2>2. /\ most \in {room, Cardinality(Waiting(os))}
        /\ most <= room /\ most <= Cardinality(Waiting(os))
    <3>1. {room, Cardinality(Waiting(os))} \in SUBSET Nat
      BY <1>3, <2>1
    <3>2. QED
      BY <3>1, MinIsLeast
  <2>3. n \in IF endless THEN 0..most ELSE {most}
    BY DEF TopUp
  <2> HIDE DEF room, most
  <2>4. most \in Nat
    BY <1>3, <2>1, <2>2
  <2>5. n \in 0..most /\ (~endless => n = most)
    BY <2>3, <2>4
  <2>6. QED
    BY <1>3, <2>1, <2>2, <2>4, <2>5 DEF room
<1>5. Cardinality(picks) = n
  BY <1>2, <1>4, LowestCount DEF Oldest
<1>6. /\ DOMAIN os2 = Job /\ os2 = [o \in Job |-> os2[o]]
      /\ \A o \in Job : os2[o] = IF o \in picks
                                 THEN [os[o] EXCEPT !.stage = "issued", !.issuedAt = now]
                                 ELSE os[o]
  BY DEF Hand
<1>7. \A o \in Job : o \in Waiting(os) <=> os[o].stage = "waiting"
  BY DEF Waiting
<1> HIDE DEF os2, picks
<1>8. ASSUME NEW o \in Job
      PROVE  /\ os2[o] \in Order /\ Kept(os[o], os2[o])
             /\ os2[o].pickedAt = os[o].pickedAt /\ os2[o].paid = os[o].paid
             /\ o \in picks => os2[o].stage = "issued" /\ os[o].stage = "waiting"
             /\ o \notin picks => os2[o] = os[o]
  <2>1. os[o] \in Order
    BY <1>1
  <2>2. CASE o \in picks
    <3>1. os2[o] = [os[o] EXCEPT !.stage = "issued", !.issuedAt = now]
      BY <1>6, <2>2
    <3>2. /\ os2[o] \in Order /\ os2[o].stage = "issued"
          /\ os2[o].pickedAt = os[o].pickedAt /\ os2[o].paid = os[o].paid
      BY <2>1, <3>1 DEF Order, Stage, LiveStage
    <3>3. os[o].stage = "waiting"
      BY <1>2, <1>7, <2>2
    <3>4. QED
      BY <2>2, <3>2, <3>3 DEF Kept
  <2>3. CASE o \notin picks
    BY <1>6, <2>1, <2>3, KeptSame
  <2>4. QED
    BY <2>2, <2>3
<1>9. os2 \in [Job -> Order]
  BY <1>6, <1>8
<1>10. Waiting(os2) = Waiting(os) \ picks
  BY <1>8 DEF Waiting
<1>11. LiveIn(os2) = LiveIn(os) \union picks /\ LiveIn(os) \intersect picks = {}
  BY <1>2, <1>8 DEF LiveIn, LiveStage
<1>12. Cardinality(LiveIn(os2)) = Cardinality(LiveIn(os)) + n
  <2>1. IsFiniteSet(LiveIn(os)) /\ IsFiniteSet(picks)
    BY <1>2, JobSetsCount
  <2>2. Cardinality(LiveIn(os) \intersect picks) = 0
    BY <1>11, FS_EmptySet
  <2>3. Cardinality(LiveIn(os) \union picks)
          = Cardinality(LiveIn(os)) + Cardinality(picks)
            - Cardinality(LiveIn(os) \intersect picks)
    BY <2>1, FS_Union
  <2>4. n \in Nat
    BY <1>3, <1>4
  <2>5. QED
    BY <1>3, <1>5, <1>11, <2>2, <2>3, <2>4
<1>13. Refilled(os2)
  <2>1. CASE n = Depth - Cardinality(LiveIn(os))
    BY <1>3, <1>12, <2>1 DEF Refilled
  <2>2. CASE n = Cardinality(Waiting(os))
    <3>1. picks = Waiting(os)
      BY <1>2, <1>5, <2>2, JobSetsCount, FS_Subset
    <3>2. QED
      BY <1>10, <3>1 DEF Refilled
  <2>3. QED
    BY <1>4, <2>1, <2>2 DEF Refilled
<1>14. \A w \in Waiting(os2), o \in Job \ Waiting(os2) : o < w
  <2>1. SUFFICES ASSUME NEW w \in Waiting(os) \ picks,
                        NEW o \in (Job \ Waiting(os)) \union picks
                 PROVE  o < w
    BY <1>2, <1>10
  <2>2. CASE o \in Job \ Waiting(os)
    BY <2>2 DEF Listed
  <2>3. CASE o \in picks
    <3> DEFINE below(x) == {v \in Waiting(os) : v < x}
    <3>1. o \in Nat /\ w \in Nat /\ \A v \in Waiting(os) : v \in Nat
      BY <1>2, <2>3, JobsAreNumbers
    <3>2. Cardinality(below(o)) < n /\ ~(Cardinality(below(w)) < n)
      BY <2>1, <2>3 DEF picks, Oldest
    <3>3. SUFFICES ASSUME ~(o < w) PROVE FALSE
      OBVIOUS
    <3>4. below(w) \in SUBSET below(o) /\ below(o) \in SUBSET Job
      <4>1. w <= o
        BY <3>1, <3>3
      <4>2. \A v \in Waiting(os) : v < w => v < o
        BY <3>1, <4>1
      <4>3. QED
        BY <1>2, <4>2
    <3>5. /\ Cardinality(below(w)) <= Cardinality(below(o))
          /\ Cardinality(below(w)) \in Nat /\ Cardinality(below(o)) \in Nat
      BY <3>4, JobSetsCount, FS_Subset
    <3>6. QED
      BY <1>4, <3>2, <3>5
  <2>4. QED
    BY <2>2, <2>3
<1>15. Listed(os2)
  <2>1. \A o \in Job : os2[o].stage \in {"waiting", "issued"} => os2[o].pickedAt = 0
    BY <1>8 DEF Listed
  <2>2. \A o \in Job : os2[o].stage # "delivered" => os2[o].paid = 0
    BY <1>8 DEF Listed
  <2>3. Cardinality(LiveIn(os2)) <= Depth
    BY <1>3, <1>4, <1>12
  <2>4. QED
    BY <1>9, <1>14, <2>1, <2>2, <2>3 DEF Listed
<1>16. Aged(os, os2) /\ \A o \in Job : os[o].stage # "waiting" => os2[o] = os[o]
  BY <1>8 DEF Aged
<1>17. QED
  BY <1>13, <1>15, <1>16 DEF os2

(* _issue, whatever the state of the list and whatever the clock.          *)
LEMMA IssueSays ==
  ASSUME NEW os, Listed(os), NEW now \in Nat, NEW os2 \in Issue(os, now)
  PROVE  Listed(os2) /\ Refilled(os2) /\ Aged(os, os2) /\ Prompt(os, os2, now)
<1> DEFINE ex == Expire(os, now)
<1>1. /\ Listed(ex) /\ Aged(os, ex) /\ Waiting(ex) = Waiting(os)
      /\ \A o \in Job : ex[o].stage \in LiveStage =>
                          os[o].stage \in LiveStage /\ now <= ExpiresAt(os, o)
  BY ExpireSays
<1>2. PICK n \in TopUp(ex) : os2 = Hand(ex, Oldest(ex, n), now)
  BY DEF Issue
<1> HIDE DEF ex
<1>3. /\ Listed(os2) /\ Refilled(os2) /\ Aged(ex, os2)
      /\ \A o \in Job : ex[o].stage # "waiting" => os2[o] = ex[o]
  BY <1>1, <1>2, HandSays
<1>4. Aged(os, os2)
  BY <1>1, <1>3, AgedOn DEF Listed
<1>5. Prompt(os, os2, now)
  BY <1>1, <1>3 DEF Prompt, Waiting
<1>6. QED
  BY <1>3, <1>4, <1>5

------------------------------------------------------------------------------
(* The calls.                                                              *)

(* A step that serves no order, and one that collects or delivers o.       *)
Quiet == Aged(orders, orders') /\ earnings' = earnings

Serves(o) ==
  /\ Served(o) /\ orders[o].stage # "delivered" /\ orders[o].paid = 0
  /\ orders[o].stage = "waiting" \/ sim <= ExpiresAt(orders, o)
  /\ \A q \in Job \ {o} : Kept(orders[q], orders'[q])
  /\ earnings' = earnings + orders'[o].paid

LEMMA SecondsAreNat ==
  /\ WalkSeconds \subseteq Nat \ {0} /\ PauseSeconds \subseteq Nat \ {0}
  /\ ConsultSeconds \subseteq Nat \ {0} /\ RefusalSeconds \subseteq Nat \ {0}
  /\ HANDLING \in Nat \ {0} /\ \A o \in Job : DoorHandling[o] \in Nat \ {0}
BY BookAssumption

(* What a call does by reading the queue, and nothing else.                *)
LEMMA ReadSays ==
  ASSUME BookInv, NEW now \in Nat, orders' \in Issue(orders, now), sim' \in Nat,
         rejected' \in Nat, earnings' = earnings, endless' = endless
  PROVE  BookInv' /\ Quiet
<1>1. Listed(orders') /\ Refilled(orders') /\ Aged(orders, orders')
  BY IssueSays DEF BookInv
<1>2. Refilled(orders)'
  BY <1>1 DEF Refilled, LiveIn, Waiting
<1>3. Listed(orders)'
  BY <1>1 DEF Listed, LiveIn, Waiting
<1>4. QED
  BY <1>1, <1>2, <1>3 DEF BookInv, Quiet

LEMMA LeaveSays ==
  ASSUME BookInv, orders' = orders, sim' \in Nat,
         rejected' \in Nat, earnings' = earnings, endless' = endless
  PROVE  BookInv' /\ Quiet
<1>1. Aged(orders, orders')
  BY AgedSame DEF BookInv, Listed
<1>2. Refilled(orders)'
  BY DEF BookInv, Refilled, LiveIn, Waiting
<1>3. Listed(orders)'
  BY DEF BookInv, Listed, LiveIn, Waiting
<1>4. QED
  BY <1>1, <1>2, <1>3 DEF BookInv, Quiet

(* A refused call, after reading the queue or without.                     *)
LEMMA RefuseSays ==
  ASSUME BookInv, endless' = endless, NEW os \in {orders} \union Issue(orders, sim),
         Refuse(os)
  PROVE  BookInv' /\ Quiet /\ Refused
<1>1. PICK s \in RefusalSeconds : sim' = sim + s
  BY DEF Refuse, Takes
<1>2. sim' \in Nat /\ sim \in Nat
  BY <1>1, SecondsAreNat DEF BookInv
<1>3. /\ rejected' = rejected + 1 /\ rejected' \in Nat /\ rejected' # rejected
      /\ earnings' = earnings /\ orders' = os
  BY DEF Refuse, BookInv
<1>4. QED
  BY <1>2, <1>3, ReadSays, LeaveSays DEF Refused

LEMMA WalkSays ==
  ASSUME BookInv, endless' = endless, Walk
  PROVE  BookInv' /\ Quiet /\ (Refused => orders' = orders)
<1>1. sim \in Nat /\ orders \in [Job -> Order]
  BY DEF BookInv, Listed
<1>2. CASE Refuse(orders)
  BY <1>2, RefuseSays DEF Refuse
<1>3. ASSUME NEW s \in WalkSeconds, NEW first \in Issue(orders, sim + s),
             UNCHANGED <<earnings, rejected>>,
             \/ Takes(s) /\ orders' = first
             \/ \E t \in WalkSeconds : Takes(s + t) /\ orders' \in Issue(first, sim')
             \/ \E r \in RefusalSeconds : Takes(s + r) /\ orders' = first
      PROVE  BookInv' /\ Quiet
  <2>1. sim + s \in Nat /\ rejected' \in Nat
    BY <1>1, <1>3, SecondsAreNat DEF BookInv
  <2>2. CASE orders' = first /\ sim' \in Nat
    BY <1>3, <2>1, <2>2, ReadSays
  <2>3. CASE \E t \in WalkSeconds : Takes(s + t) /\ orders' \in Issue(first, sim')
    <3>1. PICK t \in WalkSeconds : sim' = sim + (s + t) /\ orders' \in Issue(first, sim')
      BY <2>3 DEF Takes
    <3>2. sim' \in Nat
      BY <1>1, <3>1, SecondsAreNat
    <3>3. Listed(first) /\ Aged(orders, first)
      BY <2>1, IssueSays DEF BookInv
    <3>4. Listed(orders') /\ Refilled(orders') /\ Aged(first, orders')
      BY <3>1, <3>2, <3>3, IssueSays
    <3>5. Aged(orders, orders')
      BY <1>1, <3>3, <3>4, AgedOn DEF Listed
    <3>6. Refilled(orders)' /\ Listed(orders)'
      BY <3>4 DEF Refilled, Listed, LiveIn, Waiting
    <3>7. QED
      BY <1>3, <2>1, <3>2, <3>5, <3>6 DEF BookInv, Quiet
  <2>4. \/ orders' = first /\ sim' \in Nat
        \/ \E t \in WalkSeconds : Takes(s + t) /\ orders' \in Issue(first, sim')
    <3>1. ASSUME Takes(s) PROVE sim' \in Nat
      BY <1>1, <3>1, SecondsAreNat DEF Takes
    <3>2. ASSUME NEW r \in RefusalSeconds, Takes(s + r) PROVE sim' \in Nat
      BY <1>1, <3>2, SecondsAreNat DEF Takes
    <3>3. QED
      BY <1>3, <3>1, <3>2
  <2>5. QED
    BY <2>2, <2>3, <2>4
<1>4. Refused => Refuse(orders)
  BY DEF Walk, Refused
<1>5. \/ Refuse(orders)
      \/ \E s \in WalkSeconds : \E first \in Issue(orders, sim + s) :
           /\ UNCHANGED <<earnings, rejected>>
           /\ \/ Takes(s) /\ orders' = first
              \/ \E t \in WalkSeconds : Takes(s + t) /\ orders' \in Issue(first, sim')
              \/ \E r \in RefusalSeconds : Takes(s + r) /\ orders' = first
  BY DEF Walk
<1>6. QED
  BY <1>2, <1>3, <1>4, <1>5 DEF Refuse

LEMMA PauseSays ==
  ASSUME BookInv, endless' = endless, Pause
  PROVE  BookInv' /\ Quiet /\ (Refused => orders' = orders)
<1>1. CASE Refuse(orders)
  BY <1>1, RefuseSays DEF Refuse
<1>2. CASE ~Refuse(orders)
  <2>1. PICK s \in PauseSeconds : Takes(s)
    BY <1>2 DEF Pause
  <2>2. sim' \in Nat
    BY <2>1, SecondsAreNat DEF Takes, BookInv
  <2>3. orders' \in Issue(orders, sim') /\ earnings' = earnings /\ rejected' = rejected
    BY <1>2 DEF Pause
  <2>4. QED
    BY <2>2, <2>3, ReadSays DEF BookInv, Refused
<1>3. QED
  BY <1>1, <1>2

LEMMA ConsultSays ==
  ASSUME BookInv, endless' = endless, Consult
  PROVE  BookInv' /\ Quiet
<1>1. PICK os \in {orders} \union Issue(orders, sim) :
        \/ /\ \E s \in ConsultSeconds : Takes(s)
           /\ orders' = os
           /\ UNCHANGED <<here, earnings, rejected, finished>>
        \/ Refuse(os)
  BY DEF Consult
<1>2. CASE Refuse(os)
  BY <1>2, RefuseSays
<1>3. CASE ~Refuse(os)
  <2>1. PICK s \in ConsultSeconds : Takes(s)
    BY <1>1, <1>3
  <2>2. sim' \in Nat /\ sim \in Nat
    BY <2>1, SecondsAreNat DEF Takes, BookInv
  <2>3. orders' = os /\ earnings' = earnings /\ rejected' \in Nat
    BY <1>1, <1>3 DEF BookInv
  <2>4. QED
    BY <2>2, <2>3, ReadSays, LeaveSays
<1>4. QED
  BY <1>2, <1>3

LEMMA NavigateSays ==
  ASSUME BookInv, endless' = endless, Navigate
  PROVE  BookInv' /\ Quiet
<1>1. \E os \in {orders} \union Issue(orders, sim) :
        \/ /\ \E s \in ConsultSeconds : Takes(s)
           /\ orders' = os
           /\ UNCHANGED <<here, earnings, rejected, finished>>
        \/ Refuse(os)
  BY DEF Navigate
<1>2. PICK os \in {orders} \union Issue(orders, sim) :
        \/ /\ \E s \in ConsultSeconds : Takes(s)
           /\ orders' = os
           /\ UNCHANGED <<here, earnings, rejected, finished>>
        \/ Refuse(os)
  BY <1>1
<1>3. CASE Refuse(os)
  BY <1>3, RefuseSays
<1>4. CASE ~Refuse(os)
  <2>1. PICK s \in ConsultSeconds : Takes(s)
    BY <1>2, <1>4
  <2>2. sim' \in Nat /\ sim \in Nat
    BY <2>1, SecondsAreNat DEF Takes, BookInv
  <2>3. orders' = os /\ earnings' = earnings /\ rejected' \in Nat
    BY <1>2, <1>4 DEF BookInv
  <2>4. QED
    BY <2>2, <2>3, ReadSays, LeaveSays
<1>5. QED
  BY <1>3, <1>4

LEMMA ObserveSays ==
  ASSUME BookInv, endless' = endless, Observe
  PROVE  BookInv' /\ Quiet
BY ReadSays DEF Observe, BookInv

------------------------------------------------------------------------------
(* The two calls that serve.                                               *)

(* An issued order is collected, a carried one collected or delivered.     *)
LEMMA SettleSays ==
  ASSUME NEW os, Listed(os), NEW o \in Job, os[o].stage \in LiveStage, NEW y \in Order,
         \/ y.stage = "carried" /\ y.paid = os[o].paid
         \/ y.stage = "delivered"
  PROVE  Listed([os EXCEPT ![o] = y])
<1> DEFINE mid == [os EXCEPT ![o] = y]
<1>1. /\ os \in [Job -> Order] /\ mid \in [Job -> Order] /\ mid[o] = y
      /\ \A q \in Job \ {o} : mid[q] = os[q]
  BY DEF Listed
<1>2. y.stage \notin {"waiting", "issued"} /\ os[o].stage \notin {"waiting", "delivered"}
  BY DEF LiveStage
<1> HIDE DEF mid
<1>3. Waiting(mid) = Waiting(os)
  BY <1>1, <1>2 DEF Waiting
<1>4. LiveIn(mid) \in SUBSET LiveIn(os) /\ LiveIn(os) \in SUBSET Job
  BY <1>1 DEF LiveIn
<1>5. Cardinality(LiveIn(mid)) <= Depth
  <2>1. LiveIn(mid) \in SUBSET Job
    BY <1>4
  <2>2. /\ Cardinality(LiveIn(mid)) <= Cardinality(LiveIn(os))
        /\ Cardinality(LiveIn(mid)) \in Nat /\ Cardinality(LiveIn(os)) \in Nat
    BY <1>4, <2>1, JobSetsCount, FS_Subset
  <2>3. QED
    BY <2>2, JobsAreNumbers DEF Listed
<1>6. \A q \in Job : mid[q].stage \in {"waiting", "issued"} => mid[q].pickedAt = 0
  BY <1>1, <1>2 DEF Listed
<1>7. \A q \in Job : mid[q].stage # "delivered" => mid[q].paid = 0
  BY <1>1, <1>2 DEF Listed
<1>8. Listed(mid)
  BY <1>1, <1>3, <1>5, <1>6, <1>7 DEF Listed
<1>9. QED
  BY <1>8 DEF mid

(* What follows a reading of the queue, a settled order and another one.   *)
LEMMA ServeSays ==
  ASSUME BookInv, endless' = endless, NEW os \in Issue(orders, sim),
         NEW o \in Job, os[o].stage \in LiveStage, NEW y \in Order,
         \/ y.stage = "carried" /\ y.paid = os[o].paid
         \/ y.stage = "delivered",
         sim' \in Nat, rejected' = rejected, earnings' \in Nat,
         orders' \in Issue([os EXCEPT ![o] = y], sim')
  PROVE  /\ BookInv' /\ Kept(y, orders'[o]) /\ Kept(orders[o], os[o])
         /\ orders[o].stage # "delivered" /\ orders[o].paid = 0 /\ os[o].paid = 0
         /\ orders[o].stage = "waiting" \/ sim <= ExpiresAt(orders, o)
         /\ \A q \in Job \ {o} : Kept(orders[q], orders'[q])
<1> DEFINE mid == [os EXCEPT ![o] = y]
<1>1. /\ Listed(os) /\ Aged(orders, os) /\ Prompt(orders, os, sim)
      /\ os \in [Job -> Order] /\ orders \in [Job -> Order] /\ Listed(orders)
  BY IssueSays DEF BookInv, Listed
<1>2. Listed(mid)
  BY <1>1, SettleSays
<1>3. Listed(orders') /\ Refilled(orders') /\ Aged(mid, orders')
  BY <1>2, IssueSays
<1>4. mid[o] = y /\ \A q \in Job \ {o} : mid[q] = os[q]
  BY <1>1
<1> HIDE DEF mid
<1>5. Kept(orders[o], os[o]) /\ Kept(y, orders'[o])
  BY <1>1, <1>3, <1>4 DEF Aged
<1>6. orders[o].stage # "delivered" /\ os[o].stage # "delivered"
  BY <1>5 DEF Kept, LiveStage
<1>7. orders[o].paid = 0 /\ os[o].paid = 0
  BY <1>1, <1>6 DEF Listed
<1>8. orders[o].stage = "waiting" \/ sim <= ExpiresAt(orders, o)
  BY <1>1 DEF Prompt
<1>9. \A q \in Job \ {o} : Kept(orders[q], orders'[q])
  <2>1. SUFFICES ASSUME NEW q \in Job \ {o} PROVE Kept(orders[q], orders'[q])
    OBVIOUS
  <2>2. Kept(orders[q], os[q]) /\ Kept(os[q], orders'[q])
    BY <1>1, <1>3, <1>4 DEF Aged
  <2>3. orders[q].stage \in Stage /\ os[q].stage \in Stage
    BY <1>1, OrderFields
  <2>4. QED
    BY <2>2, <2>3 DEF Kept, Stage, LiveStage
<1>10. Refilled(orders)' /\ Listed(orders)'
  BY <1>3 DEF Refilled, Listed, LiveIn, Waiting
<1>11. BookInv'
  BY <1>10 DEF BookInv
<1>12. QED
  BY <1>5, <1>6, <1>7, <1>8, <1>9, <1>11

LEMMA CollectSays ==
  ASSUME BookInv, endless' = endless, Collect
  PROVE  /\ BookInv'
         /\ \/ Refused /\ Quiet
            \/ ~Refused /\ \E o \in Job : Serves(o)
<1>1. PICK os \in Issue(orders, sim) :
        \/ Refuse(os)
        \/ \E o \in AtDoor(os, "issued", Pickup) :
             /\ Takes(HANDLING)
             /\ orders' \in Issue([os EXCEPT ![o].stage = "carried",
                                             ![o].pickedAt = sim'], sim')
             /\ UNCHANGED <<here, earnings, rejected, finished>>
  BY DEF Collect
<1>2. CASE Refuse(os)
  BY <1>2, RefuseSays
<1>3. CASE ~Refuse(os)
  <2>1. PICK o \in AtDoor(os, "issued", Pickup) :
             /\ Takes(HANDLING)
             /\ orders' \in Issue([os EXCEPT ![o].stage = "carried",
                                             ![o].pickedAt = sim'], sim')
             /\ UNCHANGED <<here, earnings, rejected, finished>>
    BY <1>1, <1>3
  <2>2. o \in Job /\ os[o].stage = "issued"
    BY DEF AtDoor
  <2>3. /\ Listed(os) /\ os \in [Job -> Order] /\ os[o] \in Order
        /\ orders \in [Job -> Order] /\ Listed(orders)
    BY <2>2, IssueSays DEF BookInv, Listed
  <2>4. sim' \in Nat /\ sim' # 0
    BY <2>1, SecondsAreNat DEF Takes, BookInv
  <2>5. PICK y : y = [os[o] EXCEPT !.stage = "carried", !.pickedAt = sim']
    OBVIOUS
  <2>6. y \in Order /\ y.stage = "carried" /\ y.paid = os[o].paid /\ y.pickedAt = sim'
    BY <2>3, <2>4, <2>5 DEF Order, Stage, LiveStage
  <2>7. [os EXCEPT ![o].stage = "carried", ![o].pickedAt = sim'] = [os EXCEPT ![o] = y]
    BY <2>2, <2>3, <2>5
  <2>8. orders' \in Issue([os EXCEPT ![o] = y], sim')
    BY <2>1, <2>7
  <2>9. rejected' = rejected /\ earnings' = earnings /\ earnings \in Nat
    BY <2>1 DEF BookInv
  <2>10. os[o].stage \in LiveStage
    BY <2>2 DEF LiveStage
  <2>11. /\ BookInv' /\ Kept(y, orders'[o]) /\ Kept(orders[o], os[o])
         /\ orders[o].stage # "delivered" /\ orders[o].paid = 0 /\ os[o].paid = 0
         /\ orders[o].stage = "waiting" \/ sim <= ExpiresAt(orders, o)
         /\ \A q \in Job \ {o} : Kept(orders[q], orders'[q])
    BY <2>2, <2>4, <2>6, <2>8, <2>9, <2>10, ServeSays
  <2>12. orders'[o].pickedAt = sim' /\ orders'[o].paid = 0
    BY <2>6, <2>11 DEF Kept
  <2>13. orders[o].pickedAt = 0
    BY <2>2, <2>3, <2>11 DEF Kept, Listed
  <2>14. Served(o)
    BY <2>4, <2>12, <2>13 DEF Served
  <2>15. earnings' = earnings + orders'[o].paid
    BY <2>9, <2>12
  <2>16. Serves(o) /\ ~Refused
    BY <2>9, <2>11, <2>14, <2>15 DEF Serves, Refused
  <2>17. QED
    BY <2>2, <2>11, <2>16
<1>4. QED
  BY <1>2, <1>3

LEMMA PayTyped ==
  ASSUME NEW os, NEW o \in Job, NEW now
  PROVE  Pay(os, o, now) \in Nat
<1>1. PICK late : late = IF OnTime(os, o, now) THEN 100 ELSE LATE_PCT
  OBVIOUS
<1>2. PICK bad : bad = IF Spoilt(os, o, now) THEN SpoilPct[o] ELSE 100
  OBVIOUS
<1>3. late \in Nat /\ bad \in Nat /\ Fee[o] \in Nat
  BY <1>1, <1>2, BookAssumption
<1>4. Fee[o] * late \in Nat
  BY <1>3
<1>5. (Fee[o] * late) * bad \in Nat
  BY <1>3, <1>4
<1>6. \A n \in Nat : n \div 10000 \in Nat
  OBVIOUS
<1>7. Pay(os, o, now) = (Fee[o] * late * bad) \div 10000
  BY <1>1, <1>2 DEF Pay
<1>8. QED
  BY <1>5, <1>6, <1>7

LEMMA HandOverSays ==
  ASSUME BookInv, endless' = endless, HandOver
  PROVE  /\ BookInv'
         /\ \/ Refused /\ Quiet
            \/ ~Refused /\ \E o \in Job : Serves(o)
<1>1. PICK os \in Issue(orders, sim) :
        \/ Refuse(os)
        \/ \E o \in AtDoor(os, "carried", Dropoff) :
             LET paid == Pay(os, o, sim + DoorHandling[o])
             IN /\ Takes(DoorHandling[o])
                /\ earnings' = earnings + paid
                /\ orders' \in Issue([os EXCEPT ![o].stage = "delivered",
                                                ![o].paid = paid], sim')
                /\ UNCHANGED rejected
  BY DEF HandOver
<1>2. CASE Refuse(os)
  BY <1>2, RefuseSays
<1>3. CASE ~Refuse(os)
  <2>1. PICK o \in AtDoor(os, "carried", Dropoff) :
             LET paid == Pay(os, o, sim + DoorHandling[o])
             IN /\ Takes(DoorHandling[o])
                /\ earnings' = earnings + paid
                /\ orders' \in Issue([os EXCEPT ![o].stage = "delivered",
                                                ![o].paid = paid], sim')
                /\ UNCHANGED rejected
    BY <1>1, <1>3
  <2>2. o \in Job /\ os[o].stage = "carried"
    BY DEF AtDoor
  <2>3. PICK paid \in Nat : paid = Pay(os, o, sim + DoorHandling[o])
    BY <2>2, PayTyped
  <2>4. /\ Takes(DoorHandling[o]) /\ earnings' = earnings + paid /\ rejected' = rejected
        /\ orders' \in Issue([os EXCEPT ![o].stage = "delivered", ![o].paid = paid], sim')
    BY <2>1, <2>3
  <2>5. os \in [Job -> Order] /\ os[o] \in Order
    BY <2>2, IssueSays DEF BookInv, Listed
  <2>6. sim' \in Nat
    BY <2>2, <2>4, SecondsAreNat DEF Takes, BookInv
  <2>7. PICK y : y = [os[o] EXCEPT !.stage = "delivered", !.paid = paid]
    OBVIOUS
  <2>8. y \in Order /\ y.stage = "delivered" /\ y.paid = paid
    BY <2>5, <2>7 DEF Order, Stage, LiveStage
  <2>9. [os EXCEPT ![o].stage = "delivered", ![o].paid = paid] = [os EXCEPT ![o] = y]
    BY <2>2, <2>5, <2>7
  <2>10. orders' \in Issue([os EXCEPT ![o] = y], sim')
    BY <2>4, <2>9
  <2>11. os[o].stage \in LiveStage /\ earnings' \in Nat
    BY <2>2, <2>4 DEF LiveStage, BookInv
  <2>12. /\ BookInv' /\ Kept(y, orders'[o]) /\ Kept(orders[o], os[o])
         /\ orders[o].stage # "delivered" /\ orders[o].paid = 0 /\ os[o].paid = 0
         /\ orders[o].stage = "waiting" \/ sim <= ExpiresAt(orders, o)
         /\ \A q \in Job \ {o} : Kept(orders[q], orders'[q])
    BY <2>2, <2>4, <2>6, <2>8, <2>10, <2>11, ServeSays
  <2>13. orders'[o].stage = "delivered" /\ orders'[o].paid = paid
    BY <2>8, <2>12 DEF Kept
  <2>14. Served(o)
    BY <2>12, <2>13 DEF Served
  <2>15. Serves(o) /\ ~Refused
    BY <2>4, <2>12, <2>13, <2>14 DEF Serves, Refused
  <2>16. QED
    BY <2>2, <2>12, <2>15
<1>4. QED
  BY <1>2, <1>3

------------------------------------------------------------------------------
(* The shift.                                                              *)

LEMMA BlankListed == Listed([o \in Job |-> Blank])
<1> DEFINE blank == [o \in Job |-> Blank]
<1>1. Blank \in Order /\ Blank.stage = "waiting" /\ Blank.paid = 0 /\ Blank.pickedAt = 0
  BY DEF Blank, Order, Stage
<1>2. blank \in [Job -> Order] /\ \A o \in Job : blank[o] = Blank
  BY <1>1
<1> HIDE DEF blank
<1>3. Waiting(blank) = Job /\ LiveIn(blank) = {}
  BY <1>1, <1>2 DEF Waiting, LiveIn, LiveStage
<1>4. Cardinality(LiveIn(blank)) <= Depth
  BY <1>3, FS_EmptySet, JobsAreNumbers
<1>5. Listed(blank)
  BY <1>1, <1>2, <1>3, <1>4 DEF Listed
<1>6. QED
  BY <1>5 DEF blank

LEMMA BookInitial == ASSUME Init PROVE BookInv
<1>1. orders \in Issue([o \in Job |-> Blank], 0) /\ sim = 0 /\ earnings = 0 /\ rejected = 0
  BY DEF Init
<1>2. Listed(orders) /\ Refilled(orders)
  BY <1>1, BlankListed, IssueSays
<1>3. QED
  BY <1>1, <1>2 DEF BookInv

LEMMA BookStep ==
  ASSUME BookInv, [PhoneNext]_phoneVars
  PROVE  BookInv' /\ (Quiet \/ \E o \in Job : Serves(o))
<1>1. CASE PhoneNext
  <2>1. endless' = endless
    BY <1>1 DEF PhoneNext
  <2>2. CASE PhoneWalk
    BY <2>1, <2>2, WalkSays DEF PhoneWalk
  <2>3. CASE PhonePause
    BY <2>1, <2>3, PauseSays DEF PhonePause
  <2>4. CASE PhoneConsult
    BY <2>1, <2>4, ConsultSays DEF PhoneConsult
  <2>5. CASE Navigate
    BY <2>1, <2>5, NavigateSays
  <2>6. CASE PhoneCollect
    BY <2>1, <2>6, CollectSays DEF PhoneCollect
  <2>7. CASE PhoneHandOver
    BY <2>1, <2>7, HandOverSays DEF PhoneHandOver
  <2>8. CASE PhoneObserve
    BY <2>1, <2>8, ObserveSays DEF PhoneObserve
  <2>9. QED
    BY <1>1, <2>2, <2>3, <2>4, <2>5, <2>6, <2>7, <2>8 DEF PhoneNext
<1>2. CASE UNCHANGED phoneVars
  <2>1. /\ orders' = orders /\ sim' = sim /\ rejected' = rejected
        /\ earnings' = earnings /\ endless' = endless
    BY <1>2 DEF phoneVars, vars
  <2>2. QED
    BY <2>1, LeaveSays DEF BookInv
<1>3. QED
  BY <1>1, <1>2

LEMMA BookAlways == PhoneSpec => []BookInv
<1>1. PhoneInit => BookInv
  BY BookInitial DEF PhoneInit
<1>2. BookInv /\ [PhoneNext]_phoneVars => BookInv'
  BY BookStep
<1>3. QED
  BY <1>1, <1>2, PTL DEF PhoneSpec

(* Through every call of every shift the queue is never deeper than it may *)
(* be, and it is that deep unless the shift is an endless one or has given *)
(* out all its orders.                                                     *)
THEOREM TheQueueIsRefilled == PhoneSpec => []RefilledAtOnce
<1>1. BookInv => RefilledAtOnce
  BY DEF BookInv, Listed, Refilled, RefilledAtOnce
<1>2. QED
  BY <1>1, BookAlways, PTL

LEMMA OrdersTyped ==
  ASSUME BookInv
  PROVE  \A o \in Job : orders[o] \in Order /\ orders[o].stage \in Stage
<1>1. orders \in [Job -> Order]
  BY DEF BookInv, Listed
<1>2. QED
  BY <1>1, OrderFields

LEMMA KeptIsNotServed ==
  ASSUME NEW o \in Job, Kept(orders[o], orders'[o]), orders[o].stage \in Stage
  PROVE  ~Served(o)
BY DEF Kept, Served, Stage, LiveStage

(* An order's own time decides: whatever the courier does, and whenever    *)
(* the queue was last read, no order is collected or handed over that the  *)
(* clock had already overtaken when the call was made.                     *)
THEOREM TooLateIsTooLate == PhoneSpec => OverdueNeverServed
<1>1. BookInv /\ [PhoneNext]_phoneVars =>
        [\A o \in Job : Served(o) =>
           sim <= ExpiresAt(orders, o) \/ orders[o].stage = "waiting"]_vars
  <2>1. SUFFICES ASSUME BookInv, [PhoneNext]_phoneVars, NEW o \in Job, Served(o)
                 PROVE  sim <= ExpiresAt(orders, o) \/ orders[o].stage = "waiting"
    OBVIOUS
  <2>2. orders[o].stage \in Stage
    BY <2>1, OrdersTyped
  <2>3. ~Kept(orders[o], orders'[o])
    BY <2>1, <2>2, KeptIsNotServed
  <2>4. PICK p \in Job : Serves(p)
    BY <2>1, <2>3, BookStep DEF Quiet, Aged
  <2>5. p = o
    BY <2>3, <2>4 DEF Serves
  <2>6. QED
    BY <2>4, <2>5 DEF Serves
<1>2. QED
  BY <1>1, BookAlways, PTL DEF PhoneSpec, OverdueNeverServed

------------------------------------------------------------------------------
(* The job in hand.                                                        *)

LEMMA FocusIs ==
  ASSUME NEW os, NEW o \in Focus(os)
  PROVE  /\ o \in Job /\ os[o].stage \in LiveStage
         /\ IF os[o].stage = "carried"
            THEN \A q \in Job : os[q].stage = "carried" => o <= q
            ELSE \A q \in Job : os[q].stage # "carried"
                                /\ (os[q].stage \in LiveStage => o <= q)
<1> DEFINE carried == {q \in Job : os[q].stage = "carried"}
<1>1. carried \in SUBSET Nat /\ LiveIn(os) \in SUBSET Nat
  BY JobsAreNumbers DEF LiveIn
<1>2. CASE carried # {}
  <2>1. o = Min(carried)
    BY <1>2 DEF Focus
  <2>2. o \in carried /\ \A q \in carried : o <= q
    BY <1>1, <1>2, <2>1, MinIsLeast
  <2>3. QED
    BY <2>2 DEF LiveStage
<1>3. CASE carried = {}
  <2>1. LiveIn(os) # {} /\ o = Min(LiveIn(os))
    BY <1>3 DEF Focus
  <2>2. o \in LiveIn(os) /\ \A q \in LiveIn(os) : o <= q
    BY <1>1, <2>1, MinIsLeast
  <2>3. QED
    BY <1>3, <2>2 DEF LiveIn
<1>4. QED
  BY <1>2, <1>3

LEMMA FocusIf ==
  ASSUME NEW os, NEW o \in Job, os[o].stage \in LiveStage,
         IF os[o].stage = "carried"
         THEN \A q \in Job : os[q].stage = "carried" => o <= q
         ELSE \A q \in Job : os[q].stage # "carried"
                             /\ (os[q].stage \in LiveStage => o <= q)
  PROVE  Focus(os) = {o}
<1> DEFINE carried == {q \in Job : os[q].stage = "carried"}
<1>1. carried \in SUBSET Nat /\ LiveIn(os) \in SUBSET Nat /\ o \in LiveIn(os)
  BY JobsAreNumbers DEF LiveIn
<1>2. CASE os[o].stage = "carried"
  <2>1. o \in carried /\ \A q \in carried : o <= q
    BY <1>2
  <2>2. Min(carried) = o
    BY <1>1, <2>1, MinIsIt
  <2>3. QED
    BY <2>1, <2>2 DEF Focus
<1>3. CASE os[o].stage # "carried"
  <2>1. carried = {} /\ \A q \in LiveIn(os) : o <= q
    BY <1>3 DEF LiveIn
  <2>2. Min(LiveIn(os)) = o
    BY <1>1, <2>1, MinIsIt
  <2>3. QED
    BY <1>1, <2>1, <2>2 DEF Focus
<1>4. QED
  BY <1>2, <1>3

(* The job in hand stays the job in hand while orders come, expire and     *)
(* change places in the queue; only serving an order, or settling this     *)
(* one, moves it.                                                          *)
THEOREM FocusStays == PhoneSpec => FocusSteady
<1>1. BookInv /\ [PhoneNext]_phoneVars =>
        [\A o \in Focus(orders) :
           \/ o \in Focus(orders')
           \/ orders'[o].stage \in {"delivered", "expired"}
           \/ \E q \in Job : Served(q)]_vars
  <2>1. SUFFICES ASSUME BookInv, [PhoneNext]_phoneVars, NEW o \in Focus(orders),
                        orders'[o].stage \notin {"delivered", "expired"},
                        ~\E q \in Job : Served(q)
                 PROVE  o \in Focus(orders')
    OBVIOUS
  <2>2. Aged(orders, orders')
    BY <2>1, BookStep DEF Quiet, Serves
  <2>3. /\ o \in Job /\ orders[o].stage \in LiveStage
        /\ IF orders[o].stage = "carried"
           THEN \A q \in Job : orders[q].stage = "carried" => o <= q
           ELSE \A q \in Job : orders[q].stage # "carried"
                               /\ (orders[q].stage \in LiveStage => o <= q)
    BY FocusIs
  <2>4. /\ \A q \in Job : orders[q].stage \in Stage /\ Kept(orders[q], orders'[q])
        /\ \A q \in Job : orders[q].stage = "waiting" => o <= q
    <3>1. o \notin Waiting(orders)
      BY <2>3 DEF Waiting, LiveStage
    <3>2. \A q \in Waiting(orders) : o < q
      BY <2>1, <2>3, <3>1 DEF BookInv, Listed
    <3>3. \A q \in Job : orders[q].stage = "waiting" => o <= q
      BY <2>3, <3>2, JobsAreNumbers DEF Waiting
    <3>4. QED
      BY <2>1, <2>2, <3>3, OrdersTyped DEF Aged
  <2>5. orders'[o].stage = orders[o].stage
    BY <2>1, <2>3, <2>4 DEF Kept, LiveStage
  <2>6. \A q \in Job : orders'[q].stage = "carried" => orders[q].stage = "carried"
    BY <2>4 DEF Kept, Stage, LiveStage
  <2>7. \A q \in Job : orders'[q].stage \in LiveStage =>
                         orders[q].stage \in LiveStage \union {"waiting"}
    BY <2>4 DEF Kept, Stage, LiveStage
  <2>8. Focus(orders') = {o}
    <3>1. CASE orders[o].stage = "carried"
      BY <2>3, <2>5, <2>6, <3>1, FocusIf
    <3>2. CASE orders[o].stage # "carried"
      BY <2>3, <2>4, <2>5, <2>6, <2>7, <3>2, FocusIf
    <3>3. QED
      BY <3>1, <3>2
  <2>9. QED
    BY <2>8
<1>2. QED
  BY <1>1, BookAlways, PTL DEF PhoneSpec, FocusSteady

------------------------------------------------------------------------------
(* The screen.                                                             *)

(* A screen that may be on a phone with charge b while the orders are os.  *)
ScreenOk(os, b, s) ==
  /\ s.owner = "automatic" => s \in OnJob(os)
  /\ s.owner = "explicit" => s.target \in Address
  /\ ~Phone \/ b = 0 => s = Dark
  /\ Phone /\ b > 0 /\ LiveIn(os) # {} => s.target # NoTarget

ScreenInv == BookInv /\ battery \in Nat /\ ScreenOk(orders, battery, screen)

LEMMA WorkHasFocus ==
  ASSUME NEW os, LiveIn(os) # {}
  PROVE  Focus(os) # {}
BY DEF Focus

LEMMA DarkIs ==
  Dark.target = NoTarget /\ Dark.owner = "none"
BY DEF Dark

LEMMA OnJobIs ==
  ASSUME NEW os, NEW s \in OnJob(os)
  PROVE  s.owner = "automatic" /\ s.target \in Address /\ s.target # NoTarget
<1>1. PICK o \in Focus(os) : s = [target |-> NextDoor(os, o), owner |-> "automatic"]
  BY DEF OnJob
<1>2. o \in Job
  BY FocusIs
<1>3. NextDoor(os, o) \in Address
  BY <1>2, PhoneAssumption DEF NextDoor
<1>4. QED
  BY <1>1, <1>3, PhoneAssumption

(* What _light_the_screen leaves on the screen.                            *)
LEMMA LightSays ==
  ASSUME NEW os, NEW b \in Nat, NEW reclaim \in BOOLEAN, NEW shown,
         ~Phone \/ b = 0 => shown = Dark,
         shown.owner = "explicit" => shown.target \in Address
  PROVE  ScreenOk(os, b, Light(os, shown, b, reclaim))
<1> DEFINE s == Light(os, shown, b, reclaim)
           kept == ~Phone \/ b = 0 \/ (shown.owner = "explicit" /\ ~reclaim)
           lit == IF Focus(os) = {} THEN {Dark} ELSE OnJob(os)
<1>1. s = IF kept THEN shown ELSE CHOOSE x \in lit : TRUE
  BY DEF Light
<1> HIDE DEF s
<1>2. SUFFICES ScreenOk(os, b, s)
  BY DEF s
<1>3. CASE kept
  <2>1. s = shown
    BY <1>1, <1>3
  <2>2. CASE ~Phone \/ b = 0
    <3>1. s = Dark
      BY <2>1, <2>2
    <3>2. s.owner # "automatic" /\ s.owner # "explicit"
      BY <3>1, DarkIs
    <3>3. ~(Phone /\ b > 0)
      BY <2>2
    <3>4. QED
      BY <3>1, <3>2, <3>3 DEF ScreenOk
  <2>3. CASE shown.owner = "explicit" /\ ~(~Phone \/ b = 0)
    <3>1. s.owner = "explicit" /\ s.target \in Address /\ s.target # NoTarget
      BY <2>1, <2>3, PhoneAssumption
    <3>2. QED
      BY <2>3, <3>1 DEF ScreenOk
  <2>4. QED
    BY <1>3, <2>2, <2>3
<1>4. CASE ~kept
  <2>1. lit # {}
    <3>1. Focus(os) # {} => OnJob(os) # {}
      BY DEF OnJob
    <3>2. QED
      BY <3>1
  <2>2. s \in lit
    BY <1>1, <1>4, <2>1
  <2>3. Phone /\ b # 0
    BY <1>4
  <2>4. CASE Focus(os) = {}
    <3>1. s = Dark /\ LiveIn(os) = {}
      BY <2>2, <2>4, WorkHasFocus
    <3>2. s.owner # "automatic" /\ s.owner # "explicit"
      BY <3>1, DarkIs
    <3>3. QED
      BY <2>3, <3>1, <3>2 DEF ScreenOk
  <2>5. CASE Focus(os) # {}
    <3>1. s \in OnJob(os)
      BY <2>2, <2>5
    <3>2. s.owner = "automatic" /\ s.target # NoTarget
      BY <3>1, OnJobIs
    <3>3. QED
      BY <2>3, <3>1, <3>2 DEF ScreenOk
  <2>6. QED
    BY <2>4, <2>5
<1>5. QED
  BY <1>3, <1>4

(* The same of the screen that is there, given what has become of the      *)
(* charge.                                                                 *)
LEMMA RelightSays ==
  ASSUME ScreenInv, battery' \in Nat, battery' = 0 => battery = 0,
         NEW reclaim \in BOOLEAN, screen' = Light(orders', screen, battery', reclaim)
  PROVE  ScreenOk(orders', battery', screen')
<1>1. ~Phone \/ battery' = 0 => screen = Dark
  BY DEF ScreenInv, ScreenOk
<1>2. screen.owner = "explicit" => screen.target \in Address
  BY DEF ScreenInv, ScreenOk
<1>3. QED
  BY <1>1, <1>2, LightSays

LEMMA DrainedTyped ==
  ASSUME battery \in Nat, NEW percent \in Nat
  PROVE  Drained(percent) \in Nat
BY DEF Drained

(* A call may leave the phone as it is.                                    *)
LEMMA PhoneLeft ==
  ASSUME ScreenInv, UNCHANGED <<battery, screen>>, orders' = orders
  PROVE  battery' \in Nat /\ ScreenOk(orders', battery', screen')
BY DEF ScreenInv

(* The screen after a step: fit for the orders and the charge, and still   *)
(* the courier's own route if it was one, but for the reasons the code     *)
(* has to take it off.                                                     *)
Standing ==
  screen.owner = "explicit" =>
    screen' = screen \/ screen'.owner = "explicit" \/ battery' = 0

LEMMA LightStands ==
  ASSUME screen' = Light(orders', screen, battery', FALSE)
  PROVE  Standing
BY DEF Light, Standing

LEMMA WalkScreen ==
  ASSUME ScreenInv, endless' = endless, PhoneWalk
  PROVE  battery' \in Nat /\ ScreenOk(orders', battery', screen') /\ Standing
<1>1. CASE Refused
  <2>1. orders' = orders /\ UNCHANGED <<battery, screen>>
    BY <1>1, WalkSays DEF PhoneWalk, ScreenInv, phone
  <2>2. QED
    BY <2>1, PhoneLeft DEF Standing
<1>2. CASE ~Refused
  <2>1. PICK blocks \in 0..2 :
          /\ battery' = Drained(blocks * WalkDrain)
          /\ screen' = Light(orders', IF battery' = 0 THEN Dark ELSE screen,
                             battery', FALSE)
    <3>1. PICK blocks \in IF screen = Dark THEN 0..1 ELSE 1..2 :
            /\ battery' = Drained(blocks * WalkDrain)
            /\ screen' = Light(orders', IF battery' = 0 THEN Dark ELSE screen,
                               battery', FALSE)
      BY <1>2 DEF PhoneWalk
    <3>2. 0..1 \subseteq 0..2 /\ 1..2 \subseteq 0..2
      OBVIOUS
    <3>3. blocks \in 0..2
      BY <3>2
    <3>4. QED
      BY <3>1, <3>3
  <2>2. battery' \in Nat
    <3>1. blocks * WalkDrain \in Nat
      BY PhoneAssumption
    <3>2. QED
      BY <2>1, <3>1, DrainedTyped DEF ScreenInv
  <2>3. CASE battery' = 0
    <3>1. screen' = Light(orders', Dark, battery', FALSE)
      BY <2>1, <2>3
    <3>2. ScreenOk(orders', battery', screen')
      BY <2>2, <3>1, LightSays, DarkIs
    <3>3. QED
      BY <2>2, <2>3, <3>2 DEF Standing
  <2>4. CASE battery' # 0
    <3>1. screen' = Light(orders', screen, battery', FALSE)
      BY <2>1, <2>4
    <3>2. QED
      BY <2>2, <2>4, <3>1, RelightSays, LightStands
  <2>5. QED
    BY <2>3, <2>4
<1>3. QED
  BY <1>1, <1>2

LEMMA PauseScreen ==
  ASSUME ScreenInv, endless' = endless, PhonePause
  PROVE  battery' \in Nat /\ ScreenOk(orders', battery', screen') /\ Standing
<1>1. CASE Refused
  <2>1. orders' = orders /\ UNCHANGED <<battery, screen>>
    BY <1>1, PauseSays DEF PhonePause, ScreenInv, phone
  <2>2. QED
    BY <2>1, PhoneLeft DEF Standing
<1>2. CASE ~Refused
  <2>1. /\ battery' \in {battery, Min({Full, battery + CHARGE})}
        /\ screen' = Light(orders', screen, battery', battery = 0 /\ battery' # 0)
    BY <1>2 DEF PhonePause
  <2>2. battery' \in Nat /\ (battery' = 0 => battery = 0)
    <3>1. /\ battery \in Nat /\ Full \in Nat /\ Full # 0 /\ CHARGE \in Nat
          /\ battery + CHARGE \in Nat
      BY PhoneAssumption DEF ScreenInv
    <3>2. Min({Full, battery + CHARGE}) \in {Full, battery + CHARGE}
      <4>1. {Full, battery + CHARGE} \in SUBSET Nat
        BY <3>1
      <4>2. QED
        BY <4>1, MinIsLeast
    <3>3. QED
      BY <2>1, <3>1, <3>2
  <2>3. ScreenOk(orders', battery', screen')
    BY <2>1, <2>2, RelightSays
  <2>4. Standing
    <3>1. SUFFICES ASSUME screen.owner = "explicit" PROVE screen' = screen
      BY DEF Standing
    <3>2. battery # 0
      BY <3>1, DarkIs DEF ScreenInv, ScreenOk
    <3>3. QED
      BY <2>1, <3>1, <3>2 DEF Light
  <2>5. QED
    BY <2>2, <2>3, <2>4
<1>3. QED
  BY <1>1, <1>2

LEMMA SweepScreen ==
  ASSUME ScreenInv, battery' = battery \/ battery' > 0, battery' \in Nat, Sweep
  PROVE  ScreenOk(orders', battery', screen') /\ Standing
<1>1. battery' = 0 => battery = 0
  BY DEF ScreenInv
<1>2. screen' = Light(orders', screen, battery', FALSE)
  BY DEF Sweep
<1>3. QED
  BY <1>1, <1>2, RelightSays, LightStands

LEMMA ConsultScreen ==
  ASSUME ScreenInv, PhoneConsult
  PROVE  battery' \in Nat /\ ScreenOk(orders', battery', screen') /\ Standing
<1>1. battery' = battery /\ battery' \in Nat
  BY DEF PhoneConsult, ScreenInv
<1>2. CASE orders' = orders /\ screen' = screen
  BY <1>1, <1>2, PhoneLeft DEF Standing
<1>3. CASE Sweep
  BY <1>1, <1>3, SweepScreen
<1>4. QED
  BY <1>2, <1>3 DEF PhoneConsult

LEMMA NavigateScreen ==
  ASSUME ScreenInv, endless' = endless, Navigate
  PROVE  battery' \in Nat /\ ScreenOk(orders', battery', screen') /\ Standing
<1>1. CASE Refuse(orders) /\ UNCHANGED phone
  <2>1. orders' = orders /\ UNCHANGED <<battery, screen>>
    BY <1>1 DEF Refuse, phone
  <2>2. QED
    BY <2>1, PhoneLeft DEF Standing
<1>2. CASE /\ Phone /\ battery > 0 /\ battery' = Drained(RouteDrain)
           /\ \/ battery' = 0 /\ screen' = Dark /\ Refuse(orders)
              \/ battery' > 0 /\ screen' = screen /\ Refuse(orders)
              \/ battery' > 0 /\ Sweep
              \/ /\ battery' > 0
                 /\ \E d \in Address : screen' = [target |-> d, owner |-> "explicit"]
  <2>1. battery' \in Nat
    BY <1>2, DrainedTyped, PhoneAssumption DEF ScreenInv
  <2>2. CASE battery' = 0 /\ screen' = Dark /\ Refuse(orders)
    <3>1. screen'.owner # "automatic" /\ screen'.owner # "explicit" /\ ~(battery' > 0)
      BY <2>2, DarkIs
    <3>2. QED
      BY <2>1, <2>2, <3>1 DEF ScreenOk, Standing
  <2>3. CASE battery' > 0 /\ screen' = screen /\ Refuse(orders)
    <3>1. orders' = orders
      BY <2>3 DEF Refuse
    <3>2. QED
      BY <1>2, <2>1, <2>3, <3>1 DEF ScreenInv, ScreenOk, Standing
  <2>4. CASE battery' > 0 /\ Sweep
    BY <2>1, <2>4, SweepScreen
  <2>5. CASE /\ battery' > 0
             /\ \E d \in Address : screen' = [target |-> d, owner |-> "explicit"]
    <3>1. PICK d \in Address : screen' = [target |-> d, owner |-> "explicit"]
      BY <2>5
    <3>2. screen'.owner = "explicit" /\ screen'.target \in Address
          /\ screen'.target # NoTarget
      BY <3>1, PhoneAssumption
    <3>3. Phone /\ battery' # 0
      BY <1>2, <2>1, <2>5
    <3>4. QED
      BY <2>1, <3>2, <3>3 DEF ScreenOk, Standing
  <2>6. QED
    BY <1>2, <2>2, <2>3, <2>4, <2>5
<1>3. QED
  BY <1>1, <1>2 DEF Navigate

LEMMA ServingScreen ==
  ASSUME ScreenInv, endless' = endless, PhoneCollect \/ PhoneHandOver
  PROVE  /\ battery' \in Nat /\ ScreenOk(orders', battery', screen')
         /\ Standing \/ \E o \in Job : Served(o)
<1>1. /\ battery' = battery /\ battery' \in Nat
      /\ screen' = Light(orders', screen, battery', ~Refused)
  BY DEF PhoneCollect, PhoneHandOver, ScreenInv
<1>2. ScreenOk(orders', battery', screen')
  BY <1>1, RelightSays
<1>3. Refused \/ \E o \in Job : Serves(o)
  BY CollectSays, HandOverSays DEF PhoneCollect, PhoneHandOver, ScreenInv
<1>4. CASE Refused
  <2>1. screen' = Light(orders', screen, battery', FALSE)
    BY <1>1, <1>4
  <2>2. QED
    BY <1>1, <1>2, <2>1, LightStands
<1>5. CASE \E o \in Job : Serves(o)
  BY <1>1, <1>2, <1>5 DEF Serves
<1>6. QED
  BY <1>3, <1>4, <1>5

LEMMA ScreenStep ==
  ASSUME ScreenInv, [PhoneNext]_phoneVars
  PROVE  ScreenInv' /\ (Standing \/ \E o \in Job : Served(o))
<1>1. BookInv'
  BY BookStep DEF ScreenInv
<1>2. SUFFICES /\ battery' \in Nat /\ ScreenOk(orders', battery', screen')
               /\ Standing \/ \E o \in Job : Served(o)
  BY <1>1 DEF ScreenInv, ScreenOk, OnJob, Focus, LiveIn, NextDoor
<1>3. CASE PhoneNext
  <2>1. endless' = endless
    BY <1>3 DEF PhoneNext
  <2>2. CASE PhoneObserve
    BY <2>2, SweepScreen DEF PhoneObserve, ScreenInv
  <2>3. QED
    BY <1>3, <2>1, <2>2, WalkScreen, PauseScreen, ConsultScreen, NavigateScreen,
       ServingScreen DEF PhoneNext
<1>4. CASE UNCHANGED phoneVars
  <2>1. orders' = orders /\ UNCHANGED <<battery, screen>>
    BY <1>4 DEF phoneVars, vars
  <2>2. QED
    BY <2>1, PhoneLeft DEF Standing
<1>5. QED
  BY <1>3, <1>4

LEMMA ScreenAlways == PhoneSpec => []ScreenInv
<1>1. PhoneInit => ScreenInv
  <2>1. SUFFICES ASSUME PhoneInit PROVE ScreenInv
    OBVIOUS
  <2>2. battery = Full /\ battery \in Nat /\ battery # 0
    BY <2>1, PhoneAssumption DEF PhoneInit
  <2>3. screen = Light(orders, Dark, battery, FALSE)
    BY <2>1, <2>2 DEF PhoneInit
  <2>4. ScreenOk(orders, battery, screen)
    BY <2>2, <2>3, LightSays, DarkIs
  <2>5. QED
    BY <2>1, <2>2, <2>4, BookInitial DEF PhoneInit, ScreenInv
<1>2. ScreenInv /\ [PhoneNext]_phoneVars => ScreenInv'
  BY ScreenStep
<1>3. QED
  BY <1>1, <1>2, PTL DEF PhoneSpec

(* Whatever the courier does, a route the phone drew by itself leads to    *)
(* the next door of the job in hand, a dead phone shows nothing, and a     *)
(* charged one always has a route to show when there is work.              *)
THEOREM TheJobIsOnScreen == PhoneSpec => []JobOnScreen
<1>1. ScreenInv => JobOnScreen
  BY DEF ScreenInv, ScreenOk, JobOnScreen
<1>2. QED
  BY <1>1, ScreenAlways, PTL

(* A route the courier asked for is never taken off the screen by the      *)
(* clock, by the queue or by reading it.                                   *)
THEOREM TheChosenRouteStands == PhoneSpec => ChosenRouteStands
<1>1. ScreenInv /\ [PhoneNext]_phoneVars =>
        [screen.owner = "explicit" =>
           \/ screen' = screen \/ screen'.owner = "explicit" \/ battery' = 0
           \/ \E o \in Job : Served(o)]_phoneVars
  BY ScreenStep DEF Standing
<1>2. QED
  BY <1>1, ScreenAlways, PTL DEF PhoneSpec, ChosenRouteStands

------------------------------------------------------------------------------
(* The sum of the slips.                                                   *)

Slips(os) == MapThenSumSet(LAMBDA o : os[o].paid, Job)
PaidOn(os) == [o \in Job |-> os[o].paid]

LEMMA SlipsAreASum ==
  ASSUME NEW os \in [Job -> Order]
  PROVE  /\ PaidOn(os) \in [Job -> Nat]
         /\ \E g : IsSum(Job, PaidOn(os), g) /\ Slips(os) = g[Job]
<1> DEFINE Over(g, s) == IF s = {} THEN 0 ELSE os[Pick(s)].paid + g[Rest(s)]
           Sums(g) == g = [s \in SUBSET Job |-> Over(g, s)]
<1>1. Slips(os) = (CHOOSE g : Sums(g))[Job]
  BY DEF Slips, MapThenSumSet, MapThenFoldSet, Pick, Rest
<1>2. ASSUME NEW g PROVE Sums(g) <=> IsSum(Job, PaidOn(os), g)
  <2>1. \A s \in SUBSET Job : Over(g, s) = SumOver(PaidOn(os), g, s)
    <3>1. \A s \in SUBSET Job : s # {} => Pick(s) \in Job
      BY JobsAreNumbers, RestSays
    <3>2. \A o \in Job : PaidOn(os)[o] = os[o].paid
      BY DEF PaidOn
    <3>3. QED
      BY <3>1, <3>2 DEF SumOver
  <2>2. QED
    BY <2>1 DEF IsSum
<1>3. PICK k : IsSum(Job, PaidOn(os), k)
  BY JobsAreNumbers, SumExists
<1>4. Sums(k)
  BY <1>2, <1>3
<1> HIDE DEF Sums
<1>5. Sums(CHOOSE g : Sums(g))
  BY <1>4
<1>6. PaidOn(os) \in [Job -> Nat]
  BY OrderFields DEF PaidOn
<1>7. QED
  BY <1>1, <1>2, <1>5, <1>6

(* The sum moves by what one slip is marked with.                          *)
LEMMA SlipsMove ==
  ASSUME NEW os \in [Job -> Order], NEW os2 \in [Job -> Order], NEW o, NEW d \in Nat,
         \A q \in Job : os2[q].paid = os[q].paid + (IF q = o THEN d ELSE 0)
  PROVE  Slips(os2) = Slips(os) + (IF o \in Job THEN d ELSE 0)
<1>1. PICK g : IsSum(Job, PaidOn(os), g) /\ Slips(os) = g[Job]
  BY SlipsAreASum
<1>2. PICK g2 : IsSum(Job, PaidOn(os2), g2) /\ Slips(os2) = g2[Job]
  BY SlipsAreASum
<1>3. /\ PaidOn(os) \in [Job -> Nat] /\ PaidOn(os2) \in [Job -> Nat]
      /\ Raised(Job, PaidOn(os), PaidOn(os2), o, d)
  BY SlipsAreASum DEF PaidOn, Raised
<1>4. IsFiniteSet(Job) /\ IsSum(Job, PaidOn(os), g) /\ IsSum(Job, PaidOn(os2), g2)
  BY <1>1, <1>2, JobsAreNumbers
<1>5. g2[Job] = g[Job] + (IF o \in Job THEN d ELSE 0)
  BY <1>3, <1>4, SumMoves, SMTT(30)
<1>6. QED
  BY <1>1, <1>2, <1>5

LEMMA NoSlips ==
  ASSUME NEW os \in [Job -> Order], \A o \in Job : os[o].paid = 0
  PROVE  Slips(os) = 0
<1>1. PICK g : IsSum(Job, PaidOn(os), g) /\ Slips(os) = g[Job]
  BY SlipsAreASum
<1>2. PaidOn(os) \in [Job -> Nat] /\ \A o \in Job : PaidOn(os)[o] = 0
  BY SlipsAreASum DEF PaidOn
<1>3. g[Job] = 0
  BY <1>1, <1>2, JobsAreNumbers, SumIsNat
<1>4. QED
  BY <1>1, <1>3

LEMMA UnpaidAtFirst ==
  ASSUME Init
  PROVE  orders \in [Job -> Order] /\ \A o \in Job : orders[o].paid = 0
<1> DEFINE blank == [o \in Job |-> Blank]
<1>1. orders \in Issue(blank, 0)
  BY DEF Init
<1>2. Listed(blank)
  BY BlankListed
<1>3. \A o \in Job : blank[o].paid = 0
  BY DEF Blank
<1> HIDE DEF blank
<1>4. Listed(orders) /\ Aged(blank, orders)
  BY <1>1, <1>2, IssueSays
<1>5. QED
  BY <1>3, <1>4 DEF Listed, Aged, Kept

SlipsInv == BookInv /\ earnings = Slips(orders)

(* The earnings are what the slips add up to, in every shift: a delivery   *)
(* marks one slip that was blank with what it pays, in the same call, and  *)
(* whatever else is issued, taken back or collected marks none.            *)
THEOREM EarningsAddUp == PhoneSpec => []EarningsAreTheSlips
<1>1. PhoneInit => SlipsInv
  <2>1. SUFFICES ASSUME PhoneInit PROVE SlipsInv
    OBVIOUS
  <2>2. BookInv /\ earnings = 0
    BY <2>1, BookInitial DEF PhoneInit, Init
  <2>3. orders \in [Job -> Order] /\ \A o \in Job : orders[o].paid = 0
    BY <2>1, UnpaidAtFirst DEF PhoneInit
  <2>4. QED
    BY <2>2, <2>3, NoSlips DEF SlipsInv
<1>2. SlipsInv /\ [PhoneNext]_phoneVars => SlipsInv'
  <2>1. SUFFICES ASSUME SlipsInv, [PhoneNext]_phoneVars PROVE SlipsInv'
    OBVIOUS
  <2>2. BookInv' /\ (Quiet \/ \E o \in Job : Serves(o))
    BY <2>1, BookStep DEF SlipsInv
  <2>3. /\ orders \in [Job -> Order] /\ orders' \in [Job -> Order]
        /\ earnings \in Nat /\ earnings' \in Nat
    BY <2>1, <2>2 DEF SlipsInv, BookInv, Listed
  <2>4. \A q \in Job : orders[q].paid \in Nat /\ orders'[q].paid \in Nat
    BY <2>3, OrderFields
  <2>5. CASE Quiet
    <3>1. \A q \in Job : orders'[q].paid = orders[q].paid + (IF q = 0 THEN 0 ELSE 0)
      BY <2>4, <2>5 DEF Quiet, Aged, Kept
    <3>2. Slips(orders') = Slips(orders) + (IF 0 \in Job THEN 0 ELSE 0)
      BY <2>3, <3>1, SlipsMove
    <3>3. Slips(orders') = Slips(orders) /\ earnings' = earnings
      BY <2>1, <2>3, <2>5, <3>2 DEF Quiet, SlipsInv
    <3>4. QED
      BY <2>1, <2>2, <3>3 DEF SlipsInv
  <2>6. CASE \E o \in Job : Serves(o)
    <3>1. PICK o \in Job : Serves(o)
      BY <2>6
    <3>2. PICK d \in Nat : d = orders'[o].paid
      BY <2>4
    <3>3. \A q \in Job : orders'[q].paid = orders[q].paid + (IF q = o THEN d ELSE 0)
      BY <2>4, <3>1, <3>2 DEF Serves, Kept
    <3>4. Slips(orders') = Slips(orders) + (IF o \in Job THEN d ELSE 0)
      BY <2>3, <3>3, SlipsMove
    <3>5. Slips(orders') = Slips(orders) + d /\ earnings' = earnings + d
      BY <3>1, <3>2, <3>4 DEF Serves
    <3>6. QED
      BY <2>1, <2>2, <3>5 DEF SlipsInv
  <2>7. QED
    BY <2>2, <2>5, <2>6
<1>3. SlipsInv => EarningsAreTheSlips
  <2>1. SUFFICES ASSUME SlipsInv PROVE EarningsAreTheSlips
    OBVIOUS
  <2>2. \A o \in Job : orders[o].paid > 0 => orders[o].stage = "delivered"
    BY <2>1 DEF SlipsInv, BookInv, Listed
  <2>3. earnings = MapThenSumSet(LAMBDA o : orders[o].paid, Job)
    BY <2>1 DEF SlipsInv, Slips
  <2>4. QED
    BY <2>2, <2>3 DEF EarningsAreTheSlips
<1>4. QED
  BY <1>1, <1>2, <1>3, PTL DEF PhoneSpec
==============================================================================
