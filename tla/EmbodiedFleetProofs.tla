------------------------- MODULE EmbodiedFleetProofs -------------------------
(***************************************************************************)
(* Proofs about EmbodiedFleet for every fleet, every number of processes,  *)
(* environments, seats, episodes and re-seats.                             *)
(***************************************************************************)
EXTENDS EmbodiedFleet, FiniteSetTheorems, TLAPS

PawnState == [at : Place \union {Away}, cut : BOOLEAN]

(* The types; struck and late are never read again.                        *)
CallTypes ==
  /\ pc \in [Env -> Label] /\ frame \in [Env -> Frame]
  /\ seq \in [Env -> Nat] /\ \A e \in Env : seq[e] <= MaxEpisodes[e]
  /\ node \in [Env -> Place]
  /\ open \in [Env -> BOOLEAN] /\ degraded \in [Env -> BOOLEAN]
  /\ stranded \in [Env -> BOOLEAN] /\ free \subseteq Env

SeatTypes ==
  /\ seat \in [Env -> Member \union {NoMember}]
  /\ leases \in [Process \X Member -> SUBSET Episode]

PawnTypes ==
  /\ pawn = [m \in Member |-> pawn[m]]
  /\ \A m \in Member : pawn[m] \in [On(m) -> PawnState]

FleetTypes == CallTypes /\ SeatTypes /\ PawnTypes

(* An environment that is out holds no seat, one that is not runs an       *)
(* episode; a pawn is respawned on an instance; an episode that goes on    *)
(* without an instance is degraded.                                        *)
SeatedInCalls(e) ==
  /\ pc[e] = "out" => seat[e] = NoMember
  /\ pc[e] # "out" => seq[e] > 0
  /\ pc[e] = "respawn" => seat[e] # NoMember
  /\ pc[e] \in {"ready", "walk", "rewalk", "relook"} /\ seat[e] = NoMember => degraded[e]

(* The pawn of an episode that is not open, or is about to be let go, is   *)
(* left of a call that failed.                                             *)
Cut(e) == Active(e) => pawn[seat[e]][Id(e)].cut

ClosedIsCut(e) == ~open[e] \/ pc[e] = "give" => Cut(e)

(* A hop leads elsewhere.                                                  *)
HopLeads(e) ==
  pc[e] \in {"walk", "rewalk"} \/ frame[e].why = "walk" => frame[e].to # node[e]

(* Where the pawn is: on the graph's node, or between two where a walk     *)
(* stopped, until it is respawned.                                         *)
PawnPlace(e) ==
  Active(e) =>
    /\ pc[e] = "respawn" => PawnAt(e) = Away
    /\ pc[e] \in {"ready", "walk", "rewalk", "relook"} /\ ~degraded[e] =>
         \/ PawnAt(e) = node[e]
         \/ stranded[e] /\ PawnAt(e) = Away

FreeIsDegraded(e) == e \in free => degraded[e]

EnvInv(e) ==
  /\ SeatedInCalls(e) /\ ClosedIsCut(e) /\ HopLeads(e)
  /\ PawnPlace(e) /\ FreeIsDegraded(e)

FleetInv ==
  /\ FleetTypes /\ LeasesAreSeats /\ GhostsHaveACause
  /\ \A e \in Env : EnvInv(e)

------------------------------------------------------------------------------
(* What a step of one environment leaves alone.                            *)

(* The other environments.                                                 *)
OthersSame(e) ==
  \A f \in Env \ {e} :
    /\ pc'[f] = pc[f] /\ frame'[f] = frame[f] /\ seq'[f] = seq[f]
    /\ node'[f] = node[f] /\ seat'[f] = seat[f] /\ open'[f] = open[f]
    /\ degraded'[f] = degraded[f] /\ stranded'[f] = stranded[f]
    /\ f \in free' => f \in free

(* The pawns of other episodes, except those that go.                      *)
OthersKept(e) ==
  \A m \in Member : \A x \in DOMAIN pawn'[m] :
    \/ m = seat[e] /\ x = Id(e)
    \/ x \in On(m) /\ pawn'[m][x] = pawn[m][x]

(* A pawn left behind by its episode was cut.                              *)
LeftIsCut(e) ==
  seat[e] \in Member /\ Id(e) \in DOMAIN pawn'[seat[e]] =>
    \/ pawn'[seat[e]][Id(e)].cut
    \/ seat'[e] = seat[e] /\ seq'[e] = seq[e]

LEMMA IdsDiffer ==
  ASSUME NEW e \in Env, NEW f \in Env, e # f
  PROVE  Id(e) # Id(f)
BY DEF Id

LEMMA OthersUntouched ==
  ASSUME NEW e \in Env, NEW f \in Env, f # e, EnvInv(f), OthersSame(e), OthersKept(e),
         SeatTypes
  PROVE  EnvInv(f)'
<1>1. /\ pc'[f] = pc[f] /\ frame'[f] = frame[f] /\ seq'[f] = seq[f]
      /\ node'[f] = node[f] /\ seat'[f] = seat[f] /\ open'[f] = open[f]
      /\ degraded'[f] = degraded[f] /\ stranded'[f] = stranded[f]
      /\ f \in free' => f \in free
  BY DEF OthersSame
<1>2. Id(f)' = Id(f) /\ Id(f) # Id(e)
  BY <1>1, IdsDiffer DEF Id
<1>3. Active(f)' => Active(f) /\ pawn'[seat[f]][Id(f)] = pawn[seat[f]][Id(f)]
  BY <1>1, <1>2 DEF Active, On, OthersKept, SeatTypes
<1>4. SeatedInCalls(f)' /\ HopLeads(f)' /\ FreeIsDegraded(f)'
  BY <1>1 DEF EnvInv, SeatedInCalls, HopLeads, FreeIsDegraded
<1>5. ClosedIsCut(f)'
  BY <1>1, <1>2, <1>3 DEF EnvInv, ClosedIsCut, Cut
<1>6. PawnPlace(f)'
  BY <1>1, <1>2, <1>3 DEF EnvInv, PawnPlace, PawnAt
<1>7. QED
  BY <1>4, <1>5, <1>6 DEF EnvInv

LEMMA GhostsKept ==
  ASSUME NEW e \in Env, LeasesAreSeats, LeasesAreSeats', GhostsHaveACause,
         OthersSame(e), OthersKept(e), LeftIsCut(e), FleetTypes
  PROVE  GhostsHaveACause'
<1>1. SUFFICES ASSUME NEW m \in Member, NEW x \in DOMAIN pawn'[m], ~pawn'[m][x].cut
               PROVE  \E p \in Process : x \in leases'[<<p, m>>]
  BY DEF GhostsHaveACause, On
<1>2. \A g \in Env : seat'[g] = m /\ Id(g)' = x =>
        \E p \in Process : x \in leases'[<<p, m>>]
  <2>1. SUFFICES ASSUME NEW g \in Env, seat'[g] = m, Id(g)' = x
                 PROVE  x \in leases'[<<ProcessOf[g], m>>] /\ ProcessOf[g] \in Process
    OBVIOUS
  <2>2. ProcessOf[g] \in Process /\ <<ProcessOf[g], m>> \in Process \X Member
    BY FleetAssumption
  <2>3. Seat(g)' = <<ProcessOf[g], m>>
    BY <2>1 DEF Seat
  <2>4. QED
    BY <2>1, <2>2, <2>3 DEF LeasesAreSeats
<1>3. CASE m = seat[e] /\ x = Id(e)
  <2>1. seat'[e] = m /\ Id(e)' = x
    BY <1>1, <1>3 DEF LeftIsCut, Id
  <2>2. QED
    BY <1>2, <2>1
<1>4. CASE ~(m = seat[e] /\ x = Id(e))
  <2>1. x \in On(m) /\ ~pawn[m][x].cut
    BY <1>1, <1>4 DEF OthersKept
  <2>2. PICK p \in Process : x \in leases[<<p, m>>]
    BY <2>1 DEF GhostsHaveACause
  <2>3. PICK g \in Env : Seat(g) = <<p, m>> /\ x = Id(g)
    BY <2>2 DEF LeasesAreSeats
  <2>4. g # e /\ seat[g] = m
    BY <1>4, <2>3 DEF Seat
  <2>5. seat'[g] = m /\ Id(g)' = x
    BY <2>3, <2>4 DEF OthersSame, Id
  <2>6. QED
    BY <1>2, <2>5
<1>5. QED
  BY <1>3, <1>4

(* So a step of e keeps the invariant when it keeps e's part of it.        *)
LEMMA StepKeeps ==
  ASSUME FleetInv, NEW e \in Env, OthersSame(e), OthersKept(e), LeftIsCut(e),
         FleetTypes', LeasesAreSeats', EnvInv(e)'
  PROVE  FleetInv'
<1>1. \A f \in Env : EnvInv(f)'
  BY OthersUntouched DEF FleetInv, FleetTypes
<1>2. GhostsHaveACause'
  BY GhostsKept DEF FleetInv
<1>3. QED
  BY <1>1, <1>2 DEF FleetInv

------------------------------------------------------------------------------
(* The calls to the service, by what they do to the pawns.                 *)

LEMMA Spawns ==
  ASSUME FleetTypes, NEW e \in Env, NEW cut \in BOOLEAN, seat[e] \in Member,
         Id(e) \in Episode, ServiceSpawns(e, cut)
  PROVE  /\ PawnTypes' /\ OthersKept(e)
         /\ Id(e) \in DOMAIN pawn'[seat[e]]
         /\ pawn'[seat[e]][Id(e)].at = node[e]
         /\ pawn'[seat[e]][Id(e)].cut = cut
<1> DEFINE m == seat[e]
           here(torn) == (On(m) \ torn) \union {Id(e)}
           after(torn) == [x \in here(torn) |->
                             IF x = Id(e) THEN [at |-> node[e], cut |-> cut] ELSE pawn[m][x]]
<1>1. PICK torn : pawn' = [pawn EXCEPT ![m] = after(torn)]
  <2>1. \A torn : (DOMAIN pawn[m] \ torn) \union {Id(e)} = here(torn)
    BY DEF On
  <2>2. QED
    BY <2>1 DEF ServiceSpawns
<1>2. pawn = [k \in Member |-> pawn[k]] /\ m \in Member
  BY DEF FleetTypes, PawnTypes
<1>3. pawn'[m] = after(torn) /\ \A k \in Member \ {m} : pawn'[k] = pawn[k]
  BY <1>1, <1>2
<1>4. DOMAIN pawn'[m] = here(torn) /\ Id(e) \in here(torn)
  BY <1>3
<1>5. [at |-> node[e], cut |-> cut] \in PawnState
  BY DEF PawnState, FleetTypes, CallTypes
<1>6. \A x \in On(m) : pawn[m][x] \in PawnState
  BY <1>2 DEF FleetTypes, PawnTypes
<1>7. pawn'[m] \in [DOMAIN pawn'[m] -> PawnState]
  BY <1>3, <1>4, <1>5, <1>6
<1>8. PawnTypes'
  <2>1. pawn' = [k \in Member |-> pawn'[k]]
    BY <1>1, <1>2
  <2>2. \A k \in Member : pawn'[k] \in [DOMAIN pawn'[k] -> PawnState]
    BY <1>3, <1>7 DEF FleetTypes, PawnTypes, On
  <2>3. QED
    BY <2>1, <2>2 DEF PawnTypes, On
<1>9. OthersKept(e)
  BY <1>3, <1>4 DEF OthersKept, On
<1>10. QED
  BY <1>3, <1>4, <1>8, <1>9

(* A call about a pawn that is there, which goes on standing there.        *)
LEMMA PawnChanges ==
  ASSUME FleetTypes, NEW e \in Env, Active(e), NEW new \in PawnState,
         pawn' = [pawn EXCEPT ![seat[e]][Id(e)] = new]
  PROVE  /\ PawnTypes' /\ OthersKept(e)
         /\ Id(e) \in DOMAIN pawn'[seat[e]] /\ pawn'[seat[e]][Id(e)] = new
<1>1. seat[e] \in Member /\ Id(e) \in On(seat[e])
  BY DEF Active, FleetTypes, SeatTypes
<1>2. pawn = [k \in Member |-> pawn[k]]
      /\ \A k \in Member : pawn[k] \in [On(k) -> PawnState]
  BY DEF FleetTypes, PawnTypes
<1>3. /\ pawn' = [k \in Member |-> pawn'[k]]
      /\ pawn'[seat[e]] = [pawn[seat[e]] EXCEPT ![Id(e)] = new]
      /\ \A k \in Member \ {seat[e]} : pawn'[k] = pawn[k]
  BY <1>1, <1>2
<1>4. DOMAIN pawn'[seat[e]] = On(seat[e])
  BY <1>3 DEF On
<1>5. /\ pawn'[seat[e]][Id(e)] = new
      /\ \A x \in On(seat[e]) \ {Id(e)} : pawn'[seat[e]][x] = pawn[seat[e]][x]
  BY <1>1, <1>2, <1>3
<1>6. pawn'[seat[e]] \in [DOMAIN pawn'[seat[e]] -> PawnState]
  BY <1>1, <1>2, <1>3, <1>4
<1>7. PawnTypes'
  BY <1>2, <1>3, <1>6 DEF PawnTypes, On
<1>8. OthersKept(e)
  BY <1>3, <1>4, <1>5 DEF OthersKept, On
<1>9. QED
  BY <1>1, <1>4, <1>5, <1>7, <1>8

LEMMA StateTyped ==
  ASSUME FleetTypes, NEW e \in Env, Active(e)
  PROVE  /\ pawn[seat[e]][Id(e)] \in PawnState
         /\ PawnAt(e) \in Place \union {Away}
         /\ pawn[seat[e]][Id(e)].cut \in BOOLEAN
BY DEF Active, FleetTypes, SeatTypes, PawnTypes, PawnState, PawnAt

LEMMA Moves ==
  ASSUME FleetTypes, NEW e \in Env, NEW cut \in BOOLEAN, NEW place \in Place \union {Away},
         Active(e), ServiceMoves(e, place, cut)
  PROVE  /\ PawnTypes' /\ OthersKept(e)
         /\ Id(e) \in DOMAIN pawn'[seat[e]]
         /\ pawn'[seat[e]][Id(e)].at = place
         /\ pawn'[seat[e]][Id(e)].cut <=> pawn[seat[e]][Id(e)].cut \/ cut
<1> DEFINE new == [at |-> place, cut |-> pawn[seat[e]][Id(e)].cut \/ cut]
<1>1. new \in PawnState
  BY StateTyped DEF PawnState
<1>2. pawn' = [pawn EXCEPT ![seat[e]][Id(e)] = new]
  BY DEF ServiceMoves
<1>3. new.at = place /\ (new.cut <=> pawn[seat[e]][Id(e)].cut \/ cut)
  OBVIOUS
<1>4. QED
  <2> HIDE DEF new
  <2>1. QED
    BY <1>1, <1>2, <1>3, PawnChanges

(* A failed call leaves the pawn where it is, if there is one.             *)
LEMMA NothingMoves ==
  ASSUME FleetTypes, NEW e \in Env, NothingDone(e)
  PROVE  /\ PawnTypes' /\ OthersKept(e)
         /\ seat[e] # NoMember /\ Id(e) \in DOMAIN pawn'[seat[e]] =>
              /\ Active(e)
              /\ pawn'[seat[e]][Id(e)].at = PawnAt(e)
              /\ pawn'[seat[e]][Id(e)].cut
<1>1. CASE Active(e)
  <2> DEFINE new == [pawn[seat[e]][Id(e)] EXCEPT !.cut = TRUE]
  <2>1. new \in PawnState /\ new.at = PawnAt(e) /\ new.cut
    <3>1. \A v \in PawnState : LET w == [v EXCEPT !.cut = TRUE]
                               IN w \in PawnState /\ w.at = v.at /\ w.cut
      BY DEF PawnState
    <3>2. QED
      BY <1>1, <3>1, StateTyped DEF PawnAt
  <2>2. pawn' = [pawn EXCEPT ![seat[e]][Id(e)] = new]
    BY <1>1 DEF NothingDone
  <2>3. QED
    <3> HIDE DEF new
    <3>1. QED
      BY <1>1, <2>1, <2>2, PawnChanges
<1>2. CASE ~Active(e)
  <2>1. pawn' = pawn
    BY <1>2 DEF NothingDone
  <2>2. QED
    BY <1>2, <2>1 DEF Active, FleetTypes, PawnTypes, OthersKept, On
<1>3. QED
  BY <1>1, <1>2

LEMMA PawnsGo ==
  ASSUME FleetTypes, NEW e \in Env, NEW m \in Member, NEW S,
         pawn' = [pawn EXCEPT ![m] = Without(@, S)]
  PROVE  /\ PawnTypes' /\ OthersKept(e)
         /\ \A k \in Member : DOMAIN pawn'[k] \subseteq On(k)
         /\ \A k \in Member : \A x \in DOMAIN pawn'[k] : pawn'[k][x] = pawn[k][x]
         /\ DOMAIN pawn'[m] \intersect S = {}
<1>1. pawn = [k \in Member |-> pawn[k]]
      /\ \A k \in Member : pawn[k] \in [On(k) -> PawnState]
  BY DEF FleetTypes, PawnTypes
<1>2. /\ pawn' = [k \in Member |-> pawn'[k]]
      /\ pawn'[m] = [x \in On(m) \ S |-> pawn[m][x]]
      /\ \A k \in Member \ {m} : pawn'[k] = pawn[k]
  BY <1>1 DEF Without, On
<1>3. DOMAIN pawn'[m] = On(m) \ S
      /\ \A x \in On(m) \ S : pawn'[m][x] = pawn[m][x]
  BY <1>2
<1>4. pawn'[m] \in [DOMAIN pawn'[m] -> PawnState]
  BY <1>1, <1>2, <1>3
<1>5. PawnTypes'
  BY <1>1, <1>2, <1>4 DEF PawnTypes, On
<1>6. OthersKept(e)
  BY <1>2, <1>3 DEF OthersKept, On
<1>7. QED
  BY <1>2, <1>3, <1>5, <1>6 DEF On

LEMMA PawnsStay ==
  ASSUME FleetTypes, NEW e \in Env, UNCHANGED pawn
  PROVE  PawnTypes' /\ OthersKept(e)
BY DEF FleetTypes, PawnTypes, OthersKept, On

------------------------------------------------------------------------------
(* The books of the pools.                                                 *)

LEMMA Seated ==
  ASSUME FleetTypes, NEW e \in Env
  PROVE  /\ seat[e] \in Member => Seat(e) \in Process \X Member
         /\ seat[e] = NoMember => Seat(e) \notin Process \X Member
         /\ seat[e] # NoMember => seat[e] \in Member
         /\ ProcessOf[e] \in Process
BY FleetAssumption DEF FleetTypes, SeatTypes, Seat

(* Nothing but the number of an episode without a seat changes.            *)
LEMMA BooksStay ==
  ASSUME FleetTypes, LeasesAreSeats, NEW e \in Env, OthersSame(e),
         leases' = leases, seat' = seat, seat[e] = NoMember \/ seq'[e] = seq[e]
  PROVE  LeasesAreSeats' /\ SeatTypes'
<1>1. SUFFICES ASSUME NEW s \in Process \X Member, NEW f \in Env, Seat(f) = s
               PROVE  Id(f)' = Id(f)
  BY DEF LeasesAreSeats, Seat, FleetTypes, SeatTypes
<1>2. CASE f = e
  BY <1>1, <1>2, Seated DEF Id
<1>3. CASE f # e
  BY <1>3 DEF OthersSame, Id
<1>4. QED
  BY <1>2, <1>3

LEMMA SeatIsGiven ==
  ASSUME FleetTypes, LeasesAreSeats, NEW e \in Env, OthersSame(e),
         seat[e] # NoMember, seat' = [seat EXCEPT ![e] = NoMember],
         leases' = [leases EXCEPT ![Seat(e)] = @ \ {Id(e)}]
  PROVE  LeasesAreSeats' /\ SeatTypes'
<1>1. Seat(e) \in Process \X Member
  BY Seated
<1>2. SeatTypes'
  <2>1. leases' \in [Process \X Member -> SUBSET Episode]
    BY <1>1 DEF FleetTypes, SeatTypes
  <2>2. seat' \in [Env -> Member \union {NoMember}]
    BY DEF FleetTypes, SeatTypes
  <2>3. QED
    BY <2>1, <2>2 DEF SeatTypes
<1>3. Seat(e)' \notin Process \X Member
  BY FleetAssumption DEF Seat, FleetTypes, SeatTypes
<1>4. \A f \in Env \ {e} : Seat(f)' = Seat(f) /\ Id(f)' = Id(f) /\ Id(f) # Id(e)
  BY IdsDiffer DEF OthersSame, Seat, Id
<1>5. ASSUME NEW s \in Process \X Member
      PROVE  leases'[s] = {Id(f)' : f \in {g \in Env : Seat(g)' = s}}
  <2>1. leases[s] = {Id(f) : f \in {g \in Env : Seat(g) = s}}
    BY DEF LeasesAreSeats
  <2>2. CASE s = Seat(e)
    <3>1. leases'[s] = leases[s] \ {Id(e)}
      BY <1>1, <2>2 DEF FleetTypes, SeatTypes
    <3>2. QED
      BY <1>3, <1>4, <2>1, <3>1
  <2>3. CASE s # Seat(e)
    <3>1. leases'[s] = leases[s]
      BY <1>1, <2>3 DEF FleetTypes, SeatTypes
    <3>2. QED
      BY <1>3, <1>4, <2>1, <2>3, <3>1
  <2>4. QED
    BY <2>2, <2>3
<1>6. QED
  BY <1>2, <1>5 DEF LeasesAreSeats

LEMMA SeatIsTaken ==
  ASSUME FleetTypes, LeasesAreSeats, NEW e \in Env, NEW m \in Member, OthersSame(e),
         seq' = seq, seat[e] = NoMember, seat' = [seat EXCEPT ![e] = m],
         Id(e) \in Episode,
         leases' = [leases EXCEPT ![<<ProcessOf[e], m>>] = @ \union {Id(e)}]
  PROVE  LeasesAreSeats' /\ SeatTypes'
<1> DEFINE here == <<ProcessOf[e], m>>
<1>1. here \in Process \X Member
  BY Seated
<1>2. SeatTypes'
  BY <1>1 DEF FleetTypes, SeatTypes
<1>3. Seat(e)' = here /\ Id(e)' = Id(e)
  BY DEF Seat, Id, FleetTypes, SeatTypes
<1>4. Seat(e) \notin Process \X Member
  BY Seated
<1>5. \A f \in Env \ {e} : Seat(f)' = Seat(f) /\ Id(f)' = Id(f)
  BY DEF OthersSame, Seat, Id
<1>6. ASSUME NEW s \in Process \X Member
      PROVE  leases'[s] = {Id(f)' : f \in {g \in Env : Seat(g)' = s}}
  <2>1. leases[s] = {Id(f) : f \in {g \in Env : Seat(g) = s}}
    BY DEF LeasesAreSeats
  <2>2. CASE s = here
    <3>1. leases'[s] = leases[s] \union {Id(e)}
      BY <1>1, <2>2 DEF FleetTypes, SeatTypes
    <3>2. QED
      BY <1>3, <1>4, <1>5, <2>1, <2>2, <3>1
  <2>3. CASE s # here
    <3>1. leases'[s] = leases[s]
      BY <1>1, <2>3 DEF FleetTypes, SeatTypes
    <3>2. QED
      BY <1>3, <1>4, <1>5, <2>1, <2>3, <3>1
  <2>4. QED
    BY <2>2, <2>3
<1>7. QED
  BY <1>2, <1>6 DEF LeasesAreSeats

(* _release_lease gives back the seat there is.                            *)
LEMMA Released ==
  ASSUME FleetTypes, LeasesAreSeats, NEW e \in Env, OthersSame(e), ReleaseLease(e)
  PROVE  LeasesAreSeats' /\ SeatTypes' /\ seat'[e] = NoMember
<1>1. CASE seat[e] = NoMember
  <2>1. leases' = leases /\ seat' = seat
    BY <1>1 DEF ReleaseLease
  <2>2. QED
    BY <1>1, <2>1, BooksStay
<1>2. CASE seat[e] # NoMember
  <2>1. /\ leases' = [leases EXCEPT ![Seat(e)] = @ \ {Id(e)}]
        /\ seat' = [seat EXCEPT ![e] = NoMember]
    BY <1>2 DEF ReleaseLease, LeaseExit, Pool!Give
  <2>2. seat'[e] = NoMember
    BY <2>1 DEF FleetTypes, SeatTypes
  <2>3. QED
    BY <1>2, <2>1, <2>2, SeatIsGiven
<1>3. QED
  BY <1>1, <1>2

------------------------------------------------------------------------------
(* The steps that leave seats and pawns alone.                             *)

LEMMA BlankFrame == EmptyFrame \in Frame /\ EmptyFrame.why = "none"
<1>1. Start \in Place /\ 0 \in 0..MaxReseats
  BY FleetAssumption
<1>2. QED
  BY <1>1 DEF EmptyFrame, Frame, Reason

LEMMA FreshFrame ==
  /\ \A reason \in Reason, to \in Place :
       LET f == [EmptyFrame EXCEPT !.why = reason, !.to = to]
       IN f \in Frame /\ f.why = reason /\ f.to = to
  /\ \A reason \in Reason, left \in Member \union {NoMember} :
       LET f == [EmptyFrame EXCEPT !.why = reason, !.left = left]
       IN f \in Frame /\ f.why = reason
<1>1. Start \in Place /\ 0 \in 0..MaxReseats
  BY FleetAssumption
<1>2. QED
  BY <1>1 DEF EmptyFrame, Frame, Reason

(* The thread of an environment moves, with or without its locals.         *)
LEMMA Moving ==
  ASSUME CallTypes, NEW e \in Env, NEW l \in Label, NEW f \in Frame,
         pc' = [pc EXCEPT ![e] = l], frame' = [frame EXCEPT ![e] = f]
  PROVE  /\ pc' \in [Env -> Label] /\ frame' \in [Env -> Frame]
         /\ pc'[e] = l /\ frame'[e] = f
         /\ \A g \in Env \ {e} : pc'[g] = pc[g] /\ frame'[g] = frame[g]
BY DEF CallTypes

(* It opens its episode, for a reason.                                     *)
LEMMA Opening ==
  ASSUME CallTypes, NEW e \in Env, NEW reason \in Reason, EpisodeWhenFree(e, reason)
  PROVE  /\ pc' \in [Env -> Label] /\ frame' \in [Env -> Frame]
         /\ pc'[e] = "spawn"
         /\ frame'[e].why = reason /\ frame'[e].to = frame[e].to
         /\ \A g \in Env \ {e} : pc'[g] = pc[g] /\ frame'[g] = frame[g]
<1> DEFINE f == [EmptyFrame EXCEPT !.why = reason, !.to = frame[e].to]
<1>1. frame[e].to \in Place
  BY DEF CallTypes, Frame
<1>2. f \in Frame /\ f.why = reason /\ f.to = frame[e].to
  BY <1>1, FreshFrame
<1>3. pc' = [pc EXCEPT ![e] = "spawn"] /\ frame' = [frame EXCEPT ![e] = f]
  BY DEF EpisodeWhenFree
<1>4. QED
  <2> HIDE DEF f
  <2>1. QED
    BY <1>2, <1>3, Moving DEF Label

LEMMA Going ==
  ASSUME CallTypes, NEW e \in Env, NEW l \in Label, Goto(e, l)
  PROVE  /\ pc' \in [Env -> Label] /\ frame' \in [Env -> Frame]
         /\ pc'[e] = l /\ frame'[e] = frame[e]
         /\ \A g \in Env \ {e} : pc'[g] = pc[g] /\ frame'[g] = frame[g]
BY DEF CallTypes, Goto

LEMMA Returning ==
  ASSUME CallTypes, NEW e \in Env, NEW l \in Label, Return(e, l)
  PROVE  /\ pc' \in [Env -> Label] /\ frame' \in [Env -> Frame]
         /\ pc'[e] = l /\ frame'[e].why = "none"
         /\ \A g \in Env \ {e} : pc'[g] = pc[g] /\ frame'[g] = frame[g]
BY Moving, BlankFrame DEF Return

(* A running episode is one the pool knows.                                *)
LEMMA Running ==
  ASSUME FleetInv, NEW e \in Env, pc[e] # "out"
  PROVE  Id(e) \in Episode
<1>1. seq[e] \in 1..MaxEpisodes[e]
  BY FleetAssumption DEF FleetInv, FleetTypes, CallTypes, EnvInv, SeatedInCalls
<1>2. QED
  BY <1>1 DEF Id, Episode

LEMMA SamePawn ==
  ASSUME NEW e \in Env, seat'[e] = seat[e], pawn' = pawn, seq'[e] = seq[e]
  PROVE  /\ Id(e)' = Id(e) /\ Active(e)' = Active(e)
         /\ PawnAt(e)' = PawnAt(e) /\ Cut(e)' = Cut(e)
BY DEF Id, Active, On, PawnAt, Cut

LEMMA QuietKeeps ==
  ASSUME FleetInv, NEW e \in Env, CallTypes', OthersSame(e), EnvInv(e)',
         UNCHANGED <<seat, leases, pawn>>, seat[e] = NoMember \/ seq'[e] = seq[e]
  PROVE  FleetInv'
<1>1. LeasesAreSeats' /\ SeatTypes'
  BY BooksStay DEF FleetInv
<1>2. PawnTypes' /\ OthersKept(e)
  BY PawnsStay DEF FleetInv
<1>3. LeftIsCut(e)
  BY FleetAssumption DEF LeftIsCut
<1>4. QED
  BY <1>1, <1>2, <1>3, StepKeeps DEF FleetTypes

(* An exception that leaves _episode_when_free.                            *)
LEMMA Raises ==
  ASSUME FleetInv, NEW e \in Env, NEW busy \in BOOLEAN, OpeningRaises(e, busy),
         UNCHANGED <<seat, open, free>>
  PROVE  /\ CallTypes' /\ OthersSame(e)
         /\ pc'[e] \in {"ready", "raised"} /\ frame'[e].why = "none"
         /\ seq'[e] = seq[e] /\ node'[e] = node[e] /\ stranded'[e] = stranded[e]
         /\ open'[e] = open[e]
         /\ degraded[e] => degraded'[e]
         /\ pc'[e] = "ready" /\ ~busy => degraded'[e]
<1>1. CallTypes
  BY DEF FleetInv, FleetTypes
<1>2. \E how \in {"ready", "raised"} : Return(e, how)
  BY DEF OpeningRaises
<1>3. UNCHANGED <<seq, node, stranded>>
      /\ (UNCHANGED degraded \/ degraded' = [degraded EXCEPT ![e] = TRUE])
  BY DEF OpeningRaises
<1>4. PICK how \in {"ready", "raised"} :
        /\ pc' \in [Env -> Label] /\ frame' \in [Env -> Frame]
        /\ pc'[e] = how /\ frame'[e].why = "none"
        /\ \A g \in Env \ {e} : pc'[g] = pc[g] /\ frame'[g] = frame[g]
  BY <1>1, <1>2, Returning DEF Label
<1>5. CallTypes' /\ OthersSame(e)
  BY <1>1, <1>3, <1>4 DEF CallTypes, OthersSame
<1>6. pc'[e] = "ready" /\ ~busy => degraded'[e]
  BY <1>1 DEF OpeningRaises, Return, CallTypes
<1>7. degraded[e] => degraded'[e]
  BY <1>1, <1>3 DEF CallTypes
<1>8. QED
  BY <1>3, <1>4, <1>5, <1>6, <1>7

LEMMA RefusedKeeps ==
  ASSUME FleetInv, NEW e \in Env, SpawnBusy(e) \/ LeaseRefused(e)
  PROVE  FleetInv'
<1>1. CallTypes /\ SeatTypes /\ EnvInv(e) /\ pc[e] # "out"
  BY DEF FleetInv, FleetTypes, SpawnBusy, LeaseRefused
<1>2. CASE \E busy \in BOOLEAN : /\ OpeningRaises(e, busy)
                                 /\ UNCHANGED <<seat, open, leases, pawn, free>>
                                 /\ busy => seat[e] # NoMember /\ ~Active(e)
  <2>1. PICK busy \in BOOLEAN : /\ OpeningRaises(e, busy)
                                /\ UNCHANGED <<seat, open, leases, pawn, free>>
                                /\ busy => seat[e] # NoMember /\ ~Active(e)
    BY <1>2
  <2>2. /\ CallTypes' /\ OthersSame(e)
        /\ pc'[e] \in {"ready", "raised"} /\ frame'[e].why = "none"
        /\ seq'[e] = seq[e] /\ open'[e] = open[e]
        /\ degraded[e] => degraded'[e]
        /\ pc'[e] = "ready" /\ ~busy => degraded'[e]
    BY <2>1, Raises
  <2>3. /\ seat'[e] = seat[e] /\ Active(e)' = Active(e) /\ Cut(e)' = Cut(e)
    BY <2>1, <2>2, SamePawn
  <2>4. SeatedInCalls(e)'
    BY <1>1, <2>1, <2>2, <2>3 DEF EnvInv, SeatedInCalls
  <2>5. ClosedIsCut(e)'
    BY <1>1, <2>2, <2>3 DEF EnvInv, ClosedIsCut
  <2>6. HopLeads(e)' /\ FreeIsDegraded(e)'
    BY <1>1, <2>1, <2>2 DEF EnvInv, HopLeads, FreeIsDegraded
  <2>7. PawnPlace(e)'
    BY <2>1, <2>2, <2>3 DEF PawnPlace
  <2>8. QED
    BY <2>1, <2>2, <2>4, <2>5, <2>6, <2>7, QuietKeeps DEF EnvInv
<1>3. CASE /\ Goto(e, "busy") \/ Return(e, "raised")
           /\ UNCHANGED <<course, seat, open, leases, pawn, free>>
  <2>0. /\ pc' \in [Env -> Label] /\ frame' \in [Env -> Frame]
        /\ pc'[e] \in {"busy", "raised"}
        /\ frame'[e] = frame[e] \/ frame'[e].why = "none"
        /\ \A g \in Env \ {e} : pc'[g] = pc[g] /\ frame'[g] = frame[g]
    BY <1>1, <1>3, Going, Returning DEF Label
  <2>1. CallTypes' /\ OthersSame(e)
    BY <1>1, <1>3, <2>0 DEF CallTypes, OthersSame, course
  <2>2. /\ pc'[e] \in {"busy", "raised"}
        /\ frame'[e] = frame[e] \/ frame'[e].why = "none"
        /\ seq'[e] = seq[e] /\ open'[e] = open[e] /\ seat'[e] = seat[e]
        /\ node'[e] = node[e] /\ degraded'[e] = degraded[e]
    BY <1>3, <2>0 DEF course
  <2>3. Active(e)' = Active(e) /\ Cut(e)' = Cut(e)
    BY <1>3, <2>2, SamePawn
  <2>4. SeatedInCalls(e)' /\ ClosedIsCut(e)' /\ HopLeads(e)'
    BY <1>1, <2>2, <2>3 DEF EnvInv, SeatedInCalls, ClosedIsCut, HopLeads
  <2>5. FreeIsDegraded(e)' /\ PawnPlace(e)'
    BY <1>1, <1>3, <2>2 DEF EnvInv, FreeIsDegraded, PawnPlace
  <2>6. QED
    BY <1>3, <2>1, <2>2, <2>4, <2>5, QuietKeeps DEF EnvInv
<1>4. QED
  BY <1>2, <1>3 DEF SpawnBusy, LeaseRefused, fleet

(* A step that moves the thread of an environment that has an episode, and *)
(* perhaps closes or degrades it.                                          *)
LEMMA ThreadMoves ==
  ASSUME FleetInv, NEW e \in Env, pc[e] # "out",
         pc' \in [Env -> Label], frame' \in [Env -> Frame],
         \A g \in Env \ {e} : pc'[g] = pc[g] /\ frame'[g] = frame[g],
         UNCHANGED <<seq, node, stranded, seat, leases, pawn, free>>,
         open' = open \/ (open' = [open EXCEPT ![e] = FALSE] /\ ~Active(e)),
         degraded' = degraded \/ degraded' = [degraded EXCEPT ![e] = TRUE],
         pc'[e] \notin {"out", "respawn", "give"},
         pc'[e] \in {"ready", "walk", "rewalk", "relook"} =>
           pc[e] \in {"ready", "walk", "rewalk", "relook"} \/ degraded'[e],
         pc'[e] \in {"walk", "rewalk"} \/ frame'[e].why = "walk" =>
           frame'[e].to # node[e]
  PROVE  FleetInv'
<1>1. CallTypes /\ EnvInv(e)
  BY DEF FleetInv, FleetTypes
<1>2. CallTypes' /\ OthersSame(e)
  BY <1>1 DEF CallTypes, OthersSame
<1>3. /\ Active(e)' = Active(e) /\ PawnAt(e)' = PawnAt(e) /\ Cut(e)' = Cut(e)
      /\ degraded[e] => degraded'[e]
      /\ ~open'[e] => ~open[e] \/ ~Active(e)
  BY <1>1, SamePawn DEF CallTypes
<1>4. SeatedInCalls(e)' /\ HopLeads(e)' /\ FreeIsDegraded(e)'
  BY <1>1, <1>3 DEF EnvInv, SeatedInCalls, HopLeads, FreeIsDegraded
<1>5. ClosedIsCut(e)'
  BY <1>1, <1>3 DEF EnvInv, ClosedIsCut, Cut
<1>6. PawnPlace(e)'
  BY <1>1, <1>3 DEF EnvInv, PawnPlace
<1>7. QED
  BY <1>2, <1>4, <1>5, <1>6, QuietKeeps DEF EnvInv

LEMMA ThreadSteps ==
  ASSUME FleetInv, NEW e \in Env,
         \/ Wake(e) \/ DeadlinePasses(e) \/ (\E to \in Place : StepTo(e, to))
         \/ WalkNotActive(e) \/ WalkRefused(e) \/ LookNotActive(e) \/ LookFails(e)
         \/ LookAgain(e) \/ \E reason \in {"reset", "close"} : Close(e, reason)
  PROVE  FleetInv'
<1>1. CallTypes /\ EnvInv(e) /\ frame[e] \in Frame
  BY DEF FleetInv, FleetTypes, CallTypes
<1>2. CASE Wake(e)
  <2>1. /\ pc' \in [Env -> Label] /\ frame' \in [Env -> Frame]
        /\ pc'[e] = "spawn" /\ frame'[e] = frame[e]
        /\ \A g \in Env \ {e} : pc'[g] = pc[g] /\ frame'[g] = frame[g]
    BY <1>1, <1>2, Going DEF Wake, Label
  <2>2. QED
    BY <1>1, <1>2, <2>1, ThreadMoves DEF Wake, course, fleet, EnvInv, HopLeads
<1>3. CASE DeadlinePasses(e)
  <2>1. [frame[e] EXCEPT !.late = TRUE] \in Frame
        /\ [frame[e] EXCEPT !.late = TRUE].why = frame[e].why
        /\ [frame[e] EXCEPT !.late = TRUE].to = frame[e].to
    BY <1>1 DEF Frame
  <2>2. /\ frame' = [frame EXCEPT ![e] = [frame[e] EXCEPT !.late = TRUE]]
        /\ pc' = [pc EXCEPT ![e] = pc[e]] /\ pc[e] \in Label
    BY <1>1, <1>3 DEF DeadlinePasses, CallTypes
  <2>3. /\ pc' \in [Env -> Label] /\ frame' \in [Env -> Frame]
        /\ pc'[e] = pc[e]
        /\ frame'[e].why = frame[e].why /\ frame'[e].to = frame[e].to
        /\ \A g \in Env \ {e} : pc'[g] = pc[g] /\ frame'[g] = frame[g]
    BY <1>1, <2>1, <2>2, Moving
  <2>4. QED
    BY <1>1, <1>3, <2>3, ThreadMoves DEF DeadlinePasses, course, fleet, EnvInv, HopLeads
<1>4. CASE \E to \in Place : StepTo(e, to)
  <2>1. PICK to \in Place : StepTo(e, to)
    BY <1>4
  <2>2. [frame[e] EXCEPT !.to = to] \in Frame /\ [frame[e] EXCEPT !.to = to].to = to
    BY <1>1 DEF Frame
  <2>3. frame' = [frame EXCEPT ![e] = [frame[e] EXCEPT !.to = to]]
    BY <1>1, <2>1 DEF StepTo, CallTypes
  <2>4. /\ pc' \in [Env -> Label] /\ frame' \in [Env -> Frame]
        /\ pc'[e] = "walk" /\ frame'[e].to = to
        /\ \A g \in Env \ {e} : pc'[g] = pc[g] /\ frame'[g] = frame[g]
    BY <1>1, <2>1, <2>2, <2>3, Moving DEF StepTo, Label
  <2>5. QED
    BY <2>1, <2>4, ThreadMoves DEF StepTo, course, fleet
<1>5. CASE WalkRefused(e) \/ LookFails(e) \/ LookAgain(e)
  <2>1. /\ pc' \in [Env -> Label] /\ frame' \in [Env -> Frame]
        /\ pc'[e] \in {"ready", "raised"} /\ frame'[e].why = "none"
        /\ \A g \in Env \ {e} : pc'[g] = pc[g] /\ frame'[g] = frame[g]
    BY <1>1, <1>5, Returning DEF WalkRefused, LookFails, LookAgain, Label
  <2>2. \/ degraded' = degraded /\ (pc'[e] = "raised" \/ pc[e] = "relook")
        \/ degraded' = [degraded EXCEPT ![e] = TRUE]
    BY <1>1, <1>5
       DEF WalkRefused, LookFails, LookAgain, Return, course, CallTypes
  <2>3. pc'[e] = "ready" => pc[e] = "relook" \/ degraded'[e]
    BY <1>1, <2>2 DEF CallTypes
  <2>4. UNCHANGED <<seq, node, stranded, seat, leases, pawn, free, open>> /\ pc[e] # "out"
    BY <1>5 DEF WalkRefused, LookFails, LookAgain, Walking, course, fleet
  <2>5. QED
    BY <2>1, <2>2, <2>3, <2>4, ThreadMoves
<1>6. CASE WalkNotActive(e) \/ LookNotActive(e)
  <2>1. /\ UNCHANGED <<seq, node, degraded, stranded, seat, leases, pawn, free>>
        /\ pc[e] \in {"walk", "rewalk", "ready"} /\ ~Active(e)
        /\ open' = open \/ open' = [open EXCEPT ![e] = FALSE]
    BY <1>6 DEF WalkNotActive, LookNotActive, Walking, course, fleet
  <2>2. CASE Return(e, "raised")
    BY <1>1, <2>1, <2>2, Returning, ThreadMoves DEF Label
  <2>3. CASE /\ EpisodeWhenFree(e, "walk") \/ EpisodeWhenFree(e, "look")
             /\ EpisodeWhenFree(e, "walk") => pc[e] = "walk"
    <3>1. PICK reason \in {"walk", "look"} :
            EpisodeWhenFree(e, reason) /\ (reason = "walk" => pc[e] = "walk")
      BY <2>3
    <3>2. /\ pc' \in [Env -> Label] /\ frame' \in [Env -> Frame]
          /\ pc'[e] = "spawn" /\ frame'[e].why = reason /\ frame'[e].to = frame[e].to
          /\ \A g \in Env \ {e} : pc'[g] = pc[g] /\ frame'[g] = frame[g]
      BY <1>1, <3>1, Opening DEF Reason
    <3>3. QED
      BY <1>1, <2>1, <3>1, <3>2, ThreadMoves DEF EnvInv, HopLeads
  <2>4. QED
    <3>1. CASE LookNotActive(e)
      <4>1. PICK reason \in {"look"} : EpisodeWhenFree(e, reason)
        BY <3>1 DEF LookNotActive
      <4>2. /\ pc' \in [Env -> Label] /\ frame' \in [Env -> Frame]
            /\ pc'[e] = "spawn" /\ frame'[e].why = "look"
            /\ \A g \in Env \ {e} : pc'[g] = pc[g] /\ frame'[g] = frame[g]
        BY <1>1, <4>1, Opening DEF Reason
      <4>3. QED
        BY <2>1, <4>2, ThreadMoves
    <3>2. QED
      BY <1>6, <2>2, <2>3, <3>1 DEF WalkNotActive, Walking
<1>7. CASE \E reason \in {"reset", "close"} : Close(e, reason)
  <2>1. PICK reason \in {"reset", "close"} : Close(e, reason)
    BY <1>7
  <2>2. [frame[e] EXCEPT !.why = reason] \in Frame
        /\ [frame[e] EXCEPT !.why = reason].why = reason
    BY <1>1 DEF Frame, Reason
  <2>3. frame' = [frame EXCEPT ![e] = [frame[e] EXCEPT !.why = reason]]
    BY <1>1, <2>1 DEF Close, CallTypes
  <2>4. /\ pc' \in [Env -> Label] /\ frame' \in [Env -> Frame]
        /\ pc'[e] = "end" /\ frame'[e].why = reason
        /\ \A g \in Env \ {e} : pc'[g] = pc[g] /\ frame'[g] = frame[g]
    BY <1>1, <2>1, <2>2, <2>3, Moving DEF Close, Label
  <2>5. QED
    BY <2>1, <2>4, ThreadMoves DEF Close, course, fleet
<1>8. QED
  BY <1>2, <1>3, <1>4, <1>5, <1>6, <1>7

------------------------------------------------------------------------------
(* The calls about the pawn of an environment.                             *)

(* One that leaves the seat where it is.                                   *)
LEMMA CallKeeps ==
  ASSUME FleetInv, NEW e \in Env, CallTypes', OthersSame(e), EnvInv(e)',
         PawnTypes', OthersKept(e), UNCHANGED <<seat, leases>>, seq'[e] = seq[e]
  PROVE  FleetInv'
<1>1. LeasesAreSeats' /\ SeatTypes'
  BY BooksStay DEF FleetInv
<1>2. LeftIsCut(e)
  BY DEF LeftIsCut
<1>3. QED
  BY <1>1, <1>2, StepKeeps DEF FleetTypes

(* One that fails: the pawn that is there afterwards is cut.               *)
FailedCall(e) == ServiceSpawns(e, TRUE) \/ NothingDone(e)

LEMMA Failed ==
  ASSUME FleetInv, NEW e \in Env, pc[e] # "out", seat[e] # NoMember, FailedCall(e)
  PROVE  /\ PawnTypes' /\ OthersKept(e)
         /\ Id(e) \in DOMAIN pawn'[seat[e]] =>
              /\ pawn'[seat[e]][Id(e)].cut
              /\ \/ pawn'[seat[e]][Id(e)].at = node[e]
                 \/ Active(e) /\ pawn'[seat[e]][Id(e)].at = PawnAt(e)
<1>1. FleetTypes /\ seat[e] \in Member /\ Id(e) \in Episode
  BY Running, Seated DEF FleetInv
<1>2. CASE ServiceSpawns(e, TRUE)
  <2>1. /\ PawnTypes' /\ OthersKept(e)
        /\ pawn'[seat[e]][Id(e)].at = node[e] /\ pawn'[seat[e]][Id(e)].cut
    BY <1>1, <1>2, Spawns
  <2>2. QED
    BY <2>1
<1>3. CASE NothingDone(e)
  BY <1>1, <1>3, NothingMoves
<1>4. QED
  BY <1>2, <1>3 DEF FailedCall

(* A failed call after which the seat is given back.                       *)
LEMMA LetGo ==
  ASSUME FleetInv, NEW e \in Env, pc[e] # "out", PawnTypes', OthersKept(e),
         seat[e] # NoMember /\ Id(e) \in DOMAIN pawn'[seat[e]] =>
           pawn'[seat[e]][Id(e)].cut,
         ReleaseLease(e), UNCHANGED <<course, free>>,
         open' = open \/ open' = [open EXCEPT ![e] = FALSE],
         pc' \in [Env -> Label], frame' \in [Env -> Frame],
         \A g \in Env \ {e} : pc'[g] = pc[g] /\ frame'[g] = frame[g],
         pc'[e] = "pause",
         frame'[e].why = "walk" => frame'[e].to # node[e]
  PROVE  FleetInv'
<1>1. CallTypes /\ FleetTypes /\ LeasesAreSeats /\ EnvInv(e)
  BY DEF FleetInv, FleetTypes
<1>2. CallTypes'
  BY <1>1 DEF CallTypes, course
<1>3. OthersSame(e)
  <2>1. seat' = seat \/ seat' = [seat EXCEPT ![e] = NoMember]
    BY DEF ReleaseLease, LeaseExit
  <2>2. QED
    BY <1>1, <2>1 DEF OthersSame, CallTypes, FleetTypes, SeatTypes, course
<1>4. LeasesAreSeats' /\ SeatTypes' /\ seat'[e] = NoMember
  BY <1>1, <1>3, Released
<1>5. LeftIsCut(e)
  BY FleetAssumption DEF LeftIsCut
<1>6. ~Active(e)'
  BY <1>4 DEF Active
<1>7. EnvInv(e)'
  BY <1>1, <1>4, <1>6
     DEF EnvInv, SeatedInCalls, ClosedIsCut, Cut, HopLeads, PawnPlace, FreeIsDegraded, course
<1>8. QED
  BY <1>2, <1>3, <1>4, <1>5, <1>7, StepKeeps DEF FleetTypes

(* A failed call whose error leaves _episode_when_free.                    *)
LEMMA RaisesKeeps ==
  ASSUME FleetInv, NEW e \in Env, pc[e] = "spawn", seat[e] # NoMember,
         FailedCall(e), OpeningRaises(e, FALSE), UNCHANGED <<seat, open, leases, free>>
  PROVE  FleetInv'
<1>1. EnvInv(e)
  BY DEF FleetInv
<1>2. /\ CallTypes' /\ OthersSame(e)
      /\ pc'[e] \in {"ready", "raised"} /\ frame'[e].why = "none"
      /\ seq'[e] = seq[e] /\ open'[e] = open[e]
      /\ degraded[e] => degraded'[e]
      /\ pc'[e] = "ready" => degraded'[e]
  BY Raises
<1>3. /\ PawnTypes' /\ OthersKept(e)
      /\ Id(e) \in DOMAIN pawn'[seat[e]] => pawn'[seat[e]][Id(e)].cut
  BY Failed
<1>4. Cut(e)'
  BY <1>2, <1>3 DEF Cut, Active, On, Id
<1>5. EnvInv(e)'
  BY <1>1, <1>2, <1>4
     DEF EnvInv, SeatedInCalls, ClosedIsCut, HopLeads, PawnPlace, FreeIsDegraded
<1>6. QED
  BY <1>2, <1>3, <1>5, CallKeeps

LEMMA SpawnKeeps ==
  ASSUME FleetInv, NEW e \in Env,
         SpawnAnswered(e) \/ SpawnLost(e) \/ SpawnRefused(e)
  PROVE  FleetInv'
<1>1. /\ CallTypes /\ FleetTypes /\ EnvInv(e) /\ frame[e] \in Frame
      /\ pc[e] = "spawn" /\ seat[e] # NoMember /\ pc[e] # "out"
      /\ seat[e] \in Member /\ Id(e) \in Episode
  BY Running, Seated
     DEF FleetInv, FleetTypes, CallTypes, SpawnAnswered, SpawnLost, SpawnRefused
<1>2. CASE SpawnAnswered(e)
  <2>1. /\ PawnTypes' /\ OthersKept(e)
        /\ pawn'[seat[e]][Id(e)].at = node[e]
    BY <1>1, <1>2, Spawns DEF SpawnAnswered
  <2>2. /\ pc' \in [Env -> Label] /\ frame' \in [Env -> Frame]
        /\ pc'[e] \in {"rewalk", "relook", "ready"}
        /\ pc'[e] = "rewalk" => frame[e].why = "walk" /\ frame'[e] = frame[e]
        /\ frame'[e] = frame[e] \/ frame'[e].why = "none"
        /\ \A g \in Env \ {e} : pc'[g] = pc[g] /\ frame'[g] = frame[g]
    <3>1. CASE Goto(e, Continue(frame[e].why)) /\ frame[e].why \in {"walk", "look"}
      <4>1. Continue(frame[e].why) \in Label
        BY DEF Continue, Label
      <4>2. QED
        BY <1>1, <3>1, <4>1, Going DEF Continue
    <3>2. CASE Return(e, "ready")
      <4>1. "ready" \in Label
        BY DEF Label
      <4>2. /\ pc' \in [Env -> Label] /\ frame' \in [Env -> Frame]
            /\ pc'[e] = "ready" /\ frame'[e].why = "none"
            /\ \A g \in Env \ {e} : pc'[g] = pc[g] /\ frame'[g] = frame[g]
        BY <1>1, <3>2, <4>1, Returning
      <4>3. QED
        BY <4>2
    <3>3. QED
      BY <1>2, <3>1, <3>2 DEF SpawnAnswered
  <2>3. /\ UNCHANGED <<seq, node, degraded, seat, leases, free>>
        /\ open' = [open EXCEPT ![e] = TRUE]
        /\ stranded' = [stranded EXCEPT ![e] = FALSE]
    BY <1>2 DEF SpawnAnswered, fleet
  <2>4. CallTypes' /\ OthersSame(e) /\ open'[e]
    BY <1>1, <2>2, <2>3 DEF CallTypes, OthersSame
  <2>5. PawnAt(e)' = node'[e]
    BY <2>1, <2>3 DEF PawnAt, Id
  <2>6. SeatedInCalls(e)' /\ ClosedIsCut(e)' /\ PawnPlace(e)'
    BY <1>1, <2>2, <2>3, <2>4, <2>5 DEF EnvInv, SeatedInCalls, ClosedIsCut, PawnPlace
  <2>7. HopLeads(e)' /\ FreeIsDegraded(e)'
    BY <1>1, <2>2, <2>3 DEF EnvInv, HopLeads, FreeIsDegraded
  <2>8. QED
    BY <2>1, <2>3, <2>4, <2>6, <2>7, CallKeeps DEF EnvInv
<1>3. CASE SpawnLost(e)
  <2>1. FailedCall(e) /\ UNCHANGED <<open, free>>
    BY <1>3 DEF SpawnLost, FailedCall
  <2>2. CASE OpeningRaises(e, FALSE) /\ UNCHANGED <<seat, leases, struck>>
    BY <1>1, <2>1, <2>2, RaisesKeeps
  <2>3. CASE /\ ~(frame[e].reseats >= MaxReseats)
             /\ frame' = [frame EXCEPT ![e].reseats = @ + 1]
             /\ pc' = [pc EXCEPT ![e] = "pause"]
             /\ ReleaseLease(e) /\ UNCHANGED course
    <3>1. LET f == [frame[e] EXCEPT !.reseats = @ + 1]
          IN f \in Frame /\ f.why = frame[e].why /\ f.to = frame[e].to
      BY <1>1, <2>3, FleetAssumption DEF Frame
    <3>2. frame' = [frame EXCEPT ![e] = [frame[e] EXCEPT !.reseats = @ + 1]]
      BY <1>1, <2>3 DEF CallTypes
    <3>3. /\ pc' \in [Env -> Label] /\ frame' \in [Env -> Frame]
          /\ pc'[e] = "pause"
          /\ frame'[e].why = frame[e].why /\ frame'[e].to = frame[e].to
          /\ \A g \in Env \ {e} : pc'[g] = pc[g] /\ frame'[g] = frame[g]
      BY <1>1, <2>3, <3>1, <3>2, Moving DEF Label
    <3>4. /\ PawnTypes' /\ OthersKept(e)
          /\ Id(e) \in DOMAIN pawn'[seat[e]] => pawn'[seat[e]][Id(e)].cut
      BY <1>1, <2>1, Failed
    <3>5. frame'[e].why = "walk" => frame'[e].to # node[e]
      BY <1>1, <3>3 DEF EnvInv, HopLeads
    <3>6. UNCHANGED <<course, free>> /\ open' = open
      BY <2>1, <2>3
    <3>7. QED
      BY <1>1, <2>3, <3>3, <3>4, <3>5, <3>6, LetGo
  <2>4. QED
    BY <1>3, <2>2, <2>3, Zenon DEF SpawnLost
<1>4. CASE SpawnRefused(e)
  BY <1>1, <1>4, RaisesKeeps DEF SpawnRefused, FailedCall, fleet
<1>5. QED
  BY <1>2, <1>3, <1>4

(* A walk that was answered, and the respawn after one that stopped short. *)
LEMMA WalkKeeps ==
  ASSUME FleetInv, NEW e \in Env, WalkArrives(e) \/ WalkStops(e)
  PROVE  FleetInv'
<1>1. /\ CallTypes /\ FleetTypes /\ EnvInv(e) /\ frame[e].to \in Place
      /\ pc[e] \in {"walk", "rewalk"} /\ seat[e] # NoMember /\ Active(e)
      /\ Away \notin Place
  BY FleetAssumption
     DEF FleetInv, FleetTypes, CallTypes, Frame, WalkArrives, WalkStops, Walking
<1>2. CASE WalkArrives(e)
  <2>1. /\ PawnTypes' /\ OthersKept(e)
        /\ pawn'[seat[e]][Id(e)].at = frame[e].to
        /\ pawn'[seat[e]][Id(e)].cut <=> pawn[seat[e]][Id(e)].cut
    BY <1>1, <1>2, Moves DEF WalkArrives
  <2>2. /\ pc' \in [Env -> Label] /\ frame' \in [Env -> Frame]
        /\ pc'[e] = "ready" /\ frame'[e].why = "none"
        /\ \A g \in Env \ {e} : pc'[g] = pc[g] /\ frame'[g] = frame[g]
    BY <1>1, <1>2, Returning DEF WalkArrives, Label
  <2>3. /\ UNCHANGED <<seq, degraded, seat, open, leases>>
        /\ node' = [node EXCEPT ![e] = frame[e].to]
        /\ stranded' = [stranded EXCEPT ![e] = FALSE]
        /\ free' = IF PawnAt(e) = frame[e].to THEN free \union {e} ELSE free
    BY <1>2 DEF WalkArrives, fleet
  <2>4. CallTypes' /\ OthersSame(e) /\ node'[e] = frame[e].to
    BY <1>1, <2>2, <2>3 DEF CallTypes, OthersSame
  <2>5. PawnAt(e)' = node'[e] /\ (Cut(e) => Cut(e)')
    BY <1>1, <2>1, <2>3, <2>4 DEF PawnAt, Id, Cut
  <2>6. SeatedInCalls(e)' /\ ClosedIsCut(e)' /\ HopLeads(e)' /\ PawnPlace(e)'
    BY <1>1, <2>2, <2>3, <2>5
       DEF EnvInv, SeatedInCalls, ClosedIsCut, HopLeads, PawnPlace
  <2>7. PawnAt(e) = frame[e].to => degraded[e]
    BY <1>1 DEF EnvInv, HopLeads, PawnPlace
  <2>8. FreeIsDegraded(e)'
    BY <1>1, <2>3, <2>7 DEF EnvInv, FreeIsDegraded
  <2>9. QED
    BY <2>1, <2>3, <2>4, <2>6, <2>8, CallKeeps DEF EnvInv
<1>3. CASE WalkStops(e)
  <2>1. /\ PawnTypes' /\ OthersKept(e)
        /\ pawn'[seat[e]][Id(e)].at = Away
        /\ pawn'[seat[e]][Id(e)].cut <=> pawn[seat[e]][Id(e)].cut
    BY <1>1, <1>3, Moves DEF WalkStops
  <2>2. /\ pc' \in [Env -> Label] /\ frame' \in [Env -> Frame]
        /\ pc'[e] = "respawn" /\ frame'[e].why = "none"
        /\ \A g \in Env \ {e} : pc'[g] = pc[g] /\ frame'[g] = frame[g]
    BY <1>1, <1>3, Returning DEF WalkStops, Label
  <2>3. UNCHANGED <<course, seat, open, leases, free>>
    BY <1>3 DEF WalkStops, fleet
  <2>4. CallTypes' /\ OthersSame(e)
    BY <1>1, <2>2, <2>3 DEF CallTypes, OthersSame, course
  <2>5. PawnAt(e)' = Away /\ (Cut(e) => Cut(e)')
    BY <1>1, <2>1, <2>3 DEF PawnAt, Id, Cut, course
  <2>6. EnvInv(e)'
    BY <1>1, <2>2, <2>3, <2>5
       DEF EnvInv, SeatedInCalls, ClosedIsCut, HopLeads, PawnPlace, FreeIsDegraded, course
  <2>7. QED
    BY <2>1, <2>3, <2>4, <2>6, CallKeeps DEF course
<1>4. QED
  BY <1>2, <1>3

LEMMA RespawnKeeps ==
  ASSUME FleetInv, NEW e \in Env, Respawned(e) \/ RespawnFails(e)
  PROVE  FleetInv'
<1>1. /\ CallTypes /\ FleetTypes /\ EnvInv(e)
      /\ pc[e] = "respawn" /\ seat[e] # NoMember /\ pc[e] # "out"
      /\ seat[e] \in Member /\ Id(e) \in Episode
  <2>1. pc[e] = "respawn" /\ EnvInv(e) /\ FleetTypes /\ CallTypes
    BY DEF FleetInv, FleetTypes, Respawned, RespawnFails
  <2>2. QED
    BY <2>1, Running, Seated DEF EnvInv, SeatedInCalls
<1>2. /\ pc' \in [Env -> Label] /\ frame' \in [Env -> Frame]
      /\ pc'[e] = "ready" /\ frame'[e] = frame[e]
      /\ \A g \in Env \ {e} : pc'[g] = pc[g] /\ frame'[g] = frame[g]
  BY <1>1, Going DEF Respawned, RespawnFails, Label
<1>3. /\ UNCHANGED <<seq, node, degraded, seat, open, leases, free>>
      /\ \E failed \in BOOLEAN : stranded' = [stranded EXCEPT ![e] = failed]
  BY DEF Respawned, RespawnFails, fleet
<1>4. CallTypes' /\ OthersSame(e)
  BY <1>1, <1>2, <1>3 DEF CallTypes, OthersSame
<1>5. SeatedInCalls(e)' /\ HopLeads(e)' /\ FreeIsDegraded(e)'
  BY <1>1, <1>2, <1>3 DEF EnvInv, SeatedInCalls, HopLeads, FreeIsDegraded
<1>6. CASE Respawned(e)
  <2>1. (~open[e]) \in BOOLEAN
    BY <1>1 DEF CallTypes
  <2>2. /\ PawnTypes' /\ OthersKept(e)
        /\ pawn'[seat[e]][Id(e)].at = node[e]
        /\ pawn'[seat[e]][Id(e)].cut <=> ~open[e]
    BY <1>1, <1>6, <2>1, Spawns DEF Respawned
  <2>3. PawnAt(e)' = node'[e] /\ (~open'[e] => Cut(e)')
    BY <1>3, <2>2 DEF PawnAt, Cut, Id
  <2>4. ClosedIsCut(e)' /\ PawnPlace(e)'
    BY <1>2, <2>3 DEF ClosedIsCut, PawnPlace
  <2>5. QED
    BY <1>3, <1>4, <1>5, <2>2, <2>4, CallKeeps DEF EnvInv
<1>7. CASE RespawnFails(e)
  <2>1. FailedCall(e) /\ stranded' = [stranded EXCEPT ![e] = TRUE]
    BY <1>7 DEF RespawnFails, FailedCall
  <2>2. /\ PawnTypes' /\ OthersKept(e)
        /\ Id(e) \in DOMAIN pawn'[seat[e]] =>
             /\ pawn'[seat[e]][Id(e)].cut
             /\ \/ pawn'[seat[e]][Id(e)].at = node[e]
                \/ Active(e) /\ pawn'[seat[e]][Id(e)].at = PawnAt(e)
    BY <1>1, <2>1, Failed
  <2>3. Cut(e)'
    BY <1>3, <2>2 DEF Cut, Active, On, Id
  <2>4. Active(e)' => PawnAt(e)' = node'[e] \/ PawnAt(e)' = Away
    BY <1>1, <1>3, <2>2 DEF Active, On, Id, PawnAt, EnvInv, PawnPlace
  <2>5. stranded'[e]
    BY <1>1, <2>1 DEF CallTypes
  <2>6. ClosedIsCut(e)' /\ PawnPlace(e)'
    BY <1>2, <2>3, <2>4, <2>5 DEF ClosedIsCut, PawnPlace
  <2>7. QED
    BY <1>3, <1>4, <1>5, <2>2, <2>6, CallKeeps DEF EnvInv
<1>8. QED
  BY <1>6, <1>7

(* A walk without an answer.                                               *)
LEMMA UnansweredKeeps ==
  ASSUME FleetInv, NEW e \in Env, WalkUnanswered(e)
  PROVE  FleetInv'
<1>1. /\ CallTypes /\ FleetTypes /\ EnvInv(e) /\ frame[e].to \in Place
      /\ pc[e] \in {"walk", "rewalk"} /\ seat[e] # NoMember
      /\ seat[e] \in Member
  BY Seated DEF FleetInv, FleetTypes, CallTypes, Frame, WalkUnanswered, Walking
<1>2. /\ PawnTypes' /\ OthersKept(e)
      /\ Id(e) \in DOMAIN pawn'[seat[e]] => pawn'[seat[e]][Id(e)].cut
  <2>1. CASE NothingDone(e)
    BY <1>1, <2>1, NothingMoves
  <2>2. ASSUME NEW at \in {frame[e].to, Away}, Active(e), ServiceMoves(e, at, TRUE)
        PROVE  /\ PawnTypes' /\ OthersKept(e)
               /\ pawn'[seat[e]][Id(e)].cut
    <3>1. at \in Place \union {Away}
      BY <1>1
    <3>2. QED
      BY <1>1, <2>2, <3>1, Moves
  <2>3. QED
    BY <2>1, <2>2 DEF WalkUnanswered
<1>3. CASE Return(e, "raised") /\ UNCHANGED <<open, seat, fleet>>
  <2>1. /\ pc' \in [Env -> Label] /\ frame' \in [Env -> Frame]
        /\ pc'[e] = "raised" /\ frame'[e].why = "none"
        /\ \A g \in Env \ {e} : pc'[g] = pc[g] /\ frame'[g] = frame[g]
    BY <1>1, <1>3, Returning DEF Label
  <2>2. UNCHANGED <<seq, node, degraded, stranded, seat, open, leases, free>>
    BY <1>3 DEF WalkUnanswered, course, fleet
  <2>3. CallTypes' /\ OthersSame(e)
    BY <1>1, <2>1, <2>2 DEF CallTypes, OthersSame
  <2>4. Cut(e)'
    BY <1>2, <2>2 DEF Cut, Active, On, Id
  <2>5. EnvInv(e)'
    BY <1>1, <2>1, <2>2, <2>4
       DEF EnvInv, SeatedInCalls, ClosedIsCut, HopLeads, PawnPlace, FreeIsDegraded
  <2>6. QED
    BY <1>2, <2>2, <2>3, <2>5, CallKeeps
<1>4. CASE /\ ReleaseLease(e)
           /\ open' = [open EXCEPT ![e] = FALSE]
           /\ pc' = [pc EXCEPT ![e] = "pause"]
           /\ frame' = [frame EXCEPT ![e] = [EmptyFrame EXCEPT !.why = "move",
                                                               !.left = seat[e]]]
  <2>1. LET f == [EmptyFrame EXCEPT !.why = "move", !.left = seat[e]]
        IN f \in Frame /\ f.why = "move"
    BY <1>1, FreshFrame DEF Reason
  <2>2. /\ pc' \in [Env -> Label] /\ frame' \in [Env -> Frame]
        /\ pc'[e] = "pause" /\ frame'[e].why = "move"
        /\ \A g \in Env \ {e} : pc'[g] = pc[g] /\ frame'[g] = frame[g]
    BY <1>1, <1>4, <2>1, Moving DEF Label
  <2>3. UNCHANGED <<course, free>>
    BY DEF WalkUnanswered
  <2>4. QED
    BY <1>1, <1>2, <1>4, <2>2, <2>3, LetGo
<1>5. QED
  BY <1>3, <1>4, Zenon DEF WalkUnanswered

------------------------------------------------------------------------------
(* Seats taken, episodes begun and ended, restarts.                        *)

(* A pawn that is there before its episode has a seat is left of a call    *)
(* that failed.                                                            *)
LEMMA UnseatedIsCut ==
  ASSUME FleetInv, NEW e \in Env, seat[e] = NoMember, NEW m \in Member, Id(e) \in On(m)
  PROVE  pawn[m][Id(e)].cut
<1>1. SUFFICES ASSUME NEW p \in Process, Id(e) \in leases[<<p, m>>]
               PROVE  FALSE
  BY DEF FleetInv, GhostsHaveACause
<1>2. PICK f \in Env : Seat(f) = <<p, m>> /\ Id(f) = Id(e)
  BY <1>1 DEF FleetInv, LeasesAreSeats
<1>3. f = e
  BY <1>2 DEF Id
<1>4. QED
  BY <1>2, <1>3, FleetAssumption DEF Seat

LEMMA LeaseKeeps ==
  ASSUME FleetInv, NEW e \in Env, NEW m \in Member, LeaseEnter(e, m)
  PROVE  FleetInv'
<1>1. /\ CallTypes /\ FleetTypes /\ LeasesAreSeats /\ EnvInv(e)
      /\ pc[e] \in {"spawn", "walk"} /\ seat[e] = NoMember /\ Id(e) \in Episode
  BY Running DEF FleetInv, FleetTypes, LeaseEnter
<1>2. /\ UNCHANGED <<pc, frame, seq, node, degraded, stranded, open, pawn, free>>
      /\ seat' = [seat EXCEPT ![e] = m]
      /\ leases' = [leases EXCEPT ![<<ProcessOf[e], m>>] = @ \union {Id(e)}]
  BY DEF LeaseEnter, Pool!Take, course
<1>3. CallTypes' /\ OthersSame(e) /\ seat'[e] = m
  BY <1>1, <1>2 DEF CallTypes, OthersSame, FleetTypes, SeatTypes
<1>4. LeasesAreSeats' /\ SeatTypes'
  BY <1>1, <1>2, <1>3, SeatIsTaken
<1>5. PawnTypes' /\ OthersKept(e)
  BY <1>1, <1>2, PawnsStay
<1>6. LeftIsCut(e)
  BY <1>1, FleetAssumption DEF LeftIsCut
<1>7. Cut(e)'
  BY <1>1, <1>2, <1>3, UnseatedIsCut DEF Cut, Active, On, Id
<1>8. EnvInv(e)'
  BY <1>1, <1>2, <1>3, <1>7, FleetAssumption
     DEF EnvInv, SeatedInCalls, ClosedIsCut, HopLeads, PawnPlace, FreeIsDegraded
<1>9. QED
  BY <1>3, <1>4, <1>5, <1>6, <1>8, StepKeeps DEF FleetTypes

(* A new episode is a new id, at the start, without a hop so far.          *)
LEMMA Begins ==
  ASSUME CallTypes, NEW e \in Env, NewEpisode(e), open' \in [Env -> BOOLEAN]
  PROVE  /\ CallTypes'
         /\ pc'[e] = "spawn" /\ frame'[e].why = "reset" /\ seq'[e] > 0 /\ e \notin free'
         /\ \A f \in Env \ {e} :
              /\ pc'[f] = pc[f] /\ frame'[f] = frame[f] /\ seq'[f] = seq[f]
              /\ node'[f] = node[f] /\ degraded'[f] = degraded[f]
              /\ stranded'[f] = stranded[f] /\ (f \in free' => f \in free)
<1>1. /\ pc' \in [Env -> Label] /\ frame' \in [Env -> Frame]
      /\ pc'[e] = "spawn" /\ frame'[e].why = "reset"
      /\ \A g \in Env \ {e} : pc'[g] = pc[g] /\ frame'[g] = frame[g]
  BY Opening DEF NewEpisode, Reason
<1>2. /\ seq' \in [Env -> Nat] /\ (\A f \in Env : seq'[f] <= MaxEpisodes[f])
      /\ seq'[e] > 0 /\ \A f \in Env \ {e} : seq'[f] = seq[f]
  <2>1. /\ seq[e] \in Nat /\ MaxEpisodes[e] \in Nat /\ seq[e] < MaxEpisodes[e]
        /\ seq' = [seq EXCEPT ![e] = seq[e] + 1] /\ seq \in [Env -> Nat]
    BY FleetAssumption DEF CallTypes, NewEpisode
  <2>2. seq' \in [Env -> Nat] /\ seq'[e] = seq[e] + 1
        /\ \A f \in Env \ {e} : seq'[f] = seq[f]
    BY <2>1
  <2>3. QED
    BY <2>1, <2>2 DEF CallTypes
<1>3. /\ node' \in [Env -> Place] /\ degraded' \in [Env -> BOOLEAN]
      /\ stranded' \in [Env -> BOOLEAN] /\ free' \subseteq Env
      /\ e \notin free' /\ free' \subseteq free
      /\ \A f \in Env \ {e} : /\ node'[f] = node[f] /\ degraded'[f] = degraded[f]
                              /\ stranded'[f] = stranded[f]
  BY FleetAssumption DEF CallTypes, NewEpisode
<1>4. QED
  BY <1>1, <1>2, <1>3 DEF CallTypes

LEMMA ResetKeeps ==
  ASSUME FleetInv, NEW e \in Env, Reset(e)
  PROVE  FleetInv'
<1>1. CallTypes /\ EnvInv(e) /\ pc[e] = "out" /\ seat[e] = NoMember
  BY DEF FleetInv, FleetTypes, Reset, EnvInv, SeatedInCalls
<1>2. NewEpisode(e) /\ UNCHANGED <<seat, open, leases, pawn>>
  BY DEF Reset, fleet
<1>3. CallTypes' /\ OthersSame(e)
  BY <1>1, <1>2, Begins DEF CallTypes, OthersSame
<1>4. ~Active(e)'
  BY <1>1, <1>2 DEF Active
<1>5. pc'[e] = "spawn" /\ frame'[e].why = "reset" /\ seq'[e] > 0 /\ e \notin free'
  BY <1>1, <1>2, Begins DEF CallTypes
<1>6. EnvInv(e)'
  BY <1>4, <1>5
     DEF EnvInv, SeatedInCalls, ClosedIsCut, Cut, HopLeads, PawnPlace, FreeIsDegraded
<1>7. QED
  BY <1>1, <1>2, <1>3, <1>6, QuietKeeps

LEMMA EndKeeps ==
  ASSUME FleetInv, NEW e \in Env, EpisodeEnd(e)
  PROVE  FleetInv'
<1>1. CallTypes /\ FleetTypes /\ EnvInv(e) /\ pc[e] = "end"
  BY DEF FleetInv, FleetTypes, EpisodeEnd
<1>2. /\ pc' \in [Env -> Label] /\ frame' \in [Env -> Frame]
      /\ pc'[e] = "give" /\ frame'[e] = frame[e]
      /\ \A g \in Env \ {e} : pc'[g] = pc[g] /\ frame'[g] = frame[g]
  BY <1>1, Going DEF EpisodeEnd, Label
<1>3. UNCHANGED <<seq, node, degraded, stranded, seat, open, leases, free>>
  BY DEF EpisodeEnd, course, fleet
<1>4. CallTypes' /\ OthersSame(e)
  BY <1>1, <1>2, <1>3 DEF CallTypes, OthersSame
<1>5. PawnTypes' /\ OthersKept(e) /\ Cut(e)'
  <2>1. CASE seat[e] # NoMember /\ ServiceDespawns(e)
    <3>1. seat[e] \in Member /\ pawn' = [pawn EXCEPT ![seat[e]] = Without(@, {Id(e)})]
      BY <1>1, <2>1, Seated DEF ServiceDespawns
    <3>2. /\ PawnTypes' /\ OthersKept(e)
          /\ DOMAIN pawn'[seat[e]] \intersect {Id(e)} = {}
      <4> DEFINE S == {Id(e)}
                 m == seat[e]
      <4>1. m \in Member /\ pawn' = [pawn EXCEPT ![m] = Without(@, S)]
        BY <3>1
      <4> HIDE DEF S, m
      <4>2. PawnTypes' /\ OthersKept(e) /\ DOMAIN pawn'[m] \intersect S = {}
        BY <1>1, <4>1, PawnsGo
      <4>3. QED
        BY <4>2 DEF S, m
    <3>3. Id(e) \notin DOMAIN pawn'[seat[e]]
      BY <3>2
    <3>4. QED
      BY <1>3, <3>2, <3>3 DEF Cut, Active, On, Id
  <2>2. CASE NothingDone(e)
    BY <1>1, <1>3, <2>2, NothingMoves DEF Cut, Active, On, Id
  <2>3. CASE pawn' = pawn /\ ~(open[e] /\ seat[e] # NoMember)
    <3>1. Cut(e)
      BY <1>1, <2>3 DEF EnvInv, ClosedIsCut, Cut, Active
    <3>2. QED
      BY <1>1, <1>3, <2>3, <3>1, PawnsStay, SamePawn
  <2>4. QED
    BY <2>1, <2>2, <2>3 DEF EpisodeEnd
<1>6. EnvInv(e)'
  BY <1>1, <1>2, <1>3, <1>5
     DEF EnvInv, SeatedInCalls, ClosedIsCut, HopLeads, PawnPlace, FreeIsDegraded
<1>7. QED
  BY <1>3, <1>4, <1>5, <1>6, CallKeeps

LEMMA ReleaseKeeps ==
  ASSUME FleetInv, NEW e \in Env, CloseReleases(e)
  PROVE  FleetInv'
<1>1. CallTypes /\ FleetTypes /\ LeasesAreSeats /\ EnvInv(e) /\ pc[e] = "give"
  BY DEF FleetInv, FleetTypes, CloseReleases
<1>2. ReleaseLease(e) /\ pawn' = pawn /\ open' = [open EXCEPT ![e] = FALSE]
  BY DEF CloseReleases
<1>3. open' \in [Env -> BOOLEAN] /\ \A f \in Env \ {e} : open'[f] = open[f]
  BY <1>1, <1>2 DEF CallTypes
<1>4. /\ CallTypes'
      /\ \/ pc'[e] = "out"
         \/ pc'[e] = "spawn" /\ seq'[e] > 0
      /\ frame'[e].why # "walk" /\ (e \in free' => degraded'[e])
      /\ \A f \in Env \ {e} :
           /\ pc'[f] = pc[f] /\ frame'[f] = frame[f] /\ seq'[f] = seq[f]
           /\ node'[f] = node[f] /\ degraded'[f] = degraded[f]
           /\ stranded'[f] = stranded[f] /\ (f \in free' => f \in free)
  <2>1. CASE NewEpisode(e)
    BY <1>1, <1>3, <2>1, Begins
  <2>2. CASE Return(e, "out") /\ UNCHANGED <<course, free>>
    <3>1. /\ pc' \in [Env -> Label] /\ frame' \in [Env -> Frame]
          /\ pc'[e] = "out" /\ frame'[e].why = "none"
          /\ \A g \in Env \ {e} : pc'[g] = pc[g] /\ frame'[g] = frame[g]
      BY <1>1, <2>2, Returning DEF Label
    <3>2. QED
      BY <1>1, <1>3, <2>2, <3>1 DEF CallTypes, course, EnvInv, FreeIsDegraded
  <2>3. QED
    BY <2>1, <2>2 DEF CloseReleases
<1>5. OthersSame(e)
  <2>1. seat' = seat \/ seat' = [seat EXCEPT ![e] = NoMember]
    BY <1>2 DEF ReleaseLease, LeaseExit
  <2>2. \A f \in Env \ {e} : seat'[f] = seat[f]
    BY <1>1, <2>1 DEF FleetTypes, SeatTypes
  <2>3. QED
    BY <1>3, <1>4, <2>2 DEF OthersSame
<1>6. LeasesAreSeats' /\ SeatTypes' /\ seat'[e] = NoMember
  BY <1>1, <1>2, <1>5, Released
<1>7. PawnTypes' /\ OthersKept(e)
  BY <1>1, <1>2, PawnsStay
<1>8. LeftIsCut(e)
  BY <1>1, <1>2, FleetAssumption
     DEF LeftIsCut, EnvInv, ClosedIsCut, Cut, Active, On
<1>9. EnvInv(e)'
  <2>1. ~Active(e)'
    BY <1>6 DEF Active
  <2>2. QED
    BY <1>4, <1>6, <2>1
       DEF EnvInv, SeatedInCalls, ClosedIsCut, Cut, HopLeads, PawnPlace, FreeIsDegraded
<1>10. QED
  BY <1>4, <1>5, <1>6, <1>7, <1>8, <1>9, StepKeeps DEF FleetTypes

(* A service that restarts takes pawns away and leaves the rest alone.     *)
LEMMA RestartKeeps ==
  ASSUME FleetInv, NEW m \in Member, ServiceRestarts(m)
  PROVE  FleetInv'
<1>1. /\ UNCHANGED <<pc, frame, seq, node, degraded, stranded, seat, open, leases, free>>
      /\ pawn' = [pawn EXCEPT ![m] = <<>>]
  BY DEF ServiceRestarts, course, fleet
<1>2. pawn = [k \in Member |-> pawn[k]]
      /\ \A k \in Member : pawn[k] \in [On(k) -> PawnState]
  BY DEF FleetInv, FleetTypes, PawnTypes
<1>3. /\ pawn' = [k \in Member |-> pawn'[k]] /\ pawn'[m] = <<>>
      /\ \A k \in Member \ {m} : pawn'[k] = pawn[k]
  BY <1>1, <1>2
<1>4. DOMAIN pawn'[m] = {} /\ pawn'[m] \in [{} -> PawnState]
  BY <1>3
<1>5. PawnTypes'
  BY <1>2, <1>3, <1>4 DEF PawnTypes, On
<1>6. \A k \in Member : \A x \in DOMAIN pawn'[k] : x \in On(k) /\ pawn'[k][x] = pawn[k][x]
  BY <1>3, <1>4 DEF On
<1>7. FleetTypes' /\ LeasesAreSeats'
  BY <1>1, <1>5
     DEF FleetInv, FleetTypes, CallTypes, SeatTypes, LeasesAreSeats, Seat, Id
<1>8. GhostsHaveACause'
  BY <1>1, <1>6 DEF FleetInv, GhostsHaveACause, On
<1>9. ASSUME NEW e \in Env
      PROVE  EnvInv(e)'
  <2>1. /\ EnvInv(e) /\ Id(e)' = Id(e)
        /\ Active(e)' => Active(e) /\ pawn'[seat[e]][Id(e)] = pawn[seat[e]][Id(e)]
    BY <1>1, <1>6 DEF FleetInv, FleetTypes, SeatTypes, Active, On, Id
  <2>2. SeatedInCalls(e)' /\ HopLeads(e)' /\ FreeIsDegraded(e)'
    BY <1>1, <2>1 DEF EnvInv, SeatedInCalls, HopLeads, FreeIsDegraded
  <2>3. ClosedIsCut(e)' /\ PawnPlace(e)'
    BY <1>1, <2>1 DEF EnvInv, ClosedIsCut, Cut, PawnPlace, PawnAt
  <2>4. QED
    BY <2>2, <2>3 DEF EnvInv
<1>10. QED
  BY <1>7, <1>8, <1>9 DEF FleetInv

------------------------------------------------------------------------------
LEMMA InitKeeps == Init => FleetInv
<1> SUFFICES ASSUME Init PROVE FleetInv
  OBVIOUS
<1>1. CallTypes
  BY BlankFrame, FleetAssumption DEF Init, CallTypes, Label
<1>2. SeatTypes /\ \A s \in Process \X Member : leases[s] = {}
  BY DEF Init, Pool!Init, SeatTypes
<1>3. \A m \in Member : pawn[m] = <<>> /\ On(m) = {}
  BY DEF Init, On
<1>4. PawnTypes
  BY <1>3 DEF Init, PawnTypes
<1>5. LeasesAreSeats
  BY <1>2, FleetAssumption DEF Init, LeasesAreSeats, Seat
<1>6. GhostsHaveACause
  BY <1>3 DEF GhostsHaveACause
<1>7. ASSUME NEW e \in Env
      PROVE  EnvInv(e)
  <2>1. ~Active(e)
    BY DEF Init, Active
  <2>2. QED
    BY <2>1, BlankFrame
       DEF Init, EnvInv, SeatedInCalls, ClosedIsCut, Cut, HopLeads, PawnPlace, FreeIsDegraded
<1>8. QED
  BY <1>1, <1>2, <1>4, <1>5, <1>6, <1>7 DEF FleetInv, FleetTypes

LEMMA NextKeeps == FleetInv /\ [Next]_vars => FleetInv'
<1> SUFFICES ASSUME FleetInv, [Next]_vars PROVE FleetInv'
  OBVIOUS
<1>1. ASSUME NEW e \in Env, Open(e) PROVE FleetInv'
  BY <1>1, SpawnKeeps, RefusedKeeps, LeaseKeeps, ThreadSteps DEF Open
<1>2. ASSUME NEW e \in Env, Walk(e) PROVE FleetInv'
  BY <1>2, WalkKeeps, UnansweredKeeps, RespawnKeeps, ThreadSteps DEF Walk
<1>3. ASSUME NEW e \in Env, \/ Look(e) \/ DeadlinePasses(e)
                            \/ \E to \in Place : StepTo(e, to)
      PROVE  FleetInv'
  BY <1>3, ThreadSteps DEF Look
<1>4. ASSUME NEW e \in Env, Gym(e) \/ EpisodeEnd(e) \/ CloseReleases(e) PROVE FleetInv'
  BY <1>4, ThreadSteps, ResetKeeps, EndKeeps, ReleaseKeeps DEF Gym
<1>5. CASE \E m \in Member : ServiceRestarts(m)
  BY <1>5, RestartKeeps
<1>6. CASE UNCHANGED vars
  <2>1. UNCHANGED <<pc, frame, seq, node, degraded, stranded, seat, open, leases, pawn,
                    free>>
    BY <1>6 DEF vars
  <2>2. FleetTypes' /\ LeasesAreSeats' /\ GhostsHaveACause'
    BY <2>1 DEF FleetInv, FleetTypes, CallTypes, SeatTypes, PawnTypes, On, LeasesAreSeats,
                Seat, Id, GhostsHaveACause
  <2>3. ASSUME NEW e \in Env PROVE EnvInv(e)'
    <3>1. EnvInv(e)
      BY DEF FleetInv
    <3>2. QED
      BY <2>1, <3>1
         DEF EnvInv, SeatedInCalls, ClosedIsCut, Cut, Active, On, Id, HopLeads, PawnPlace,
             PawnAt, FreeIsDegraded
  <2>4. QED
    BY <2>2, <2>3 DEF FleetInv
<1>7. QED
  BY <1>1, <1>2, <1>3, <1>4, <1>5, <1>6 DEF Next, Quiesced

LEMMA Safe == Spec => []FleetInv
BY InitKeeps, NextKeeps, PTL DEF Spec

(* Every pool's books are the seats its environments hold: no seat is     *)
(* leaked and no environment drives an instance it has given up, whatever  *)
(* fails and in whatever order.                                            *)
THEOREM BooksAreTrue == Spec => []LeasesAreSeats
<1>1. FleetInv => LeasesAreSeats
  BY DEF FleetInv
<1>2. QED
  BY <1>1, Safe, PTL

(* A pawn without a seat is left of a call that failed.                    *)
THEOREM NoUnexplainedGhost == Spec => []GhostsHaveACause
<1>1. FleetInv => GhostsHaveACause
  BY DEF FleetInv
<1>2. QED
  BY <1>1, Safe, PTL

(* A hop begins where the graph believes the courier stands, unless the    *)
(* log or the degraded flag says otherwise, and none is free.              *)
THEOREM HopsStartOnTheGraph == Spec => []PawnWhereTheGraphSays
<1>1. FleetInv => PawnWhereTheGraphSays
  <2>1. SUFFICES ASSUME FleetInv, NEW e \in Env
                 PROVE  /\ Standing(e) => PawnAt(e) = node[e] \/ stranded[e] \/ degraded[e]
                        /\ ~degraded[e] => e \notin free
    BY DEF PawnWhereTheGraphSays
  <2>2. PawnPlace(e) /\ FreeIsDegraded(e)
    BY <2>1 DEF FleetInv, EnvInv
  <2>3. QED
    BY <2>2 DEF PawnPlace, FreeIsDegraded, Standing
<1>2. QED
  BY <1>1, Safe, PTL

(* Each process's pool is used as its contract allows: a seat is asked for *)
(* by an episode that has none and given back once, by the one that has it. *)
THEOREM FleetLeaseRefinement == Spec => ImplementsSeatLease
<1>1. Init => Pool!Init
  BY DEF Init
<1>2. FleetInv /\ [Next]_vars => [Pool!Next]_leases
  <2>1. SUFFICES ASSUME FleetInv, [Next]_vars, leases' # leases
                 PROVE  Pool!Next
    OBVIOUS
  <2>2. PICK e \in Env : \/ \E m \in Member : LeaseEnter(e, m)
                         \/ ReleaseLease(e) /\ pc[e] # "out"
    BY <2>1
       DEF Next, vars, course, fleet, Quiesced, Open, Walk, Look, Gym, SpawnAnswered,
           SpawnBusy, SpawnLost, SpawnRefused, LeaseRefused, Wake, DeadlinePasses,
           WalkArrives, WalkStops, WalkNotActive, WalkUnanswered, WalkRefused, Walking,
           Respawned, RespawnFails, LookNotActive, LookFails, LookAgain, Reset, Close,
           EpisodeEnd, CloseReleases, StepTo, ServiceRestarts
  <2>3. CASE \E m \in Member : LeaseEnter(e, m)
    <3>1. PICK m \in Member : LeaseEnter(e, m)
      BY <2>3
    <3>2. Id(e) \in Episode /\ <<ProcessOf[e], m>> \in Process \X Member
      BY <2>1, <3>1, Running, Seated DEF LeaseEnter, FleetInv
    <3>3. Pool!Take(Id(e), <<ProcessOf[e], m>>)
      BY <3>1 DEF LeaseEnter
    <3>4. QED
      BY <3>2, <3>3 DEF Pool!Next
  <2>4. CASE ReleaseLease(e) /\ pc[e] # "out"
    <3>1. Pool!Give(Id(e), Seat(e)) /\ seat[e] # NoMember
      BY <2>1, <2>4 DEF ReleaseLease, LeaseExit
    <3>2. Id(e) \in Episode /\ Seat(e) \in Process \X Member
      BY <2>1, <2>4, <3>1, Running, Seated DEF FleetInv
    <3>3. QED
      BY <3>1, <3>2 DEF Pool!Next
  <2>5. QED
    BY <2>2, <2>3, <2>4
<1>3. QED
  BY <1>1, <1>2, Safe, PTL DEF Spec, ImplementsSeatLease, Pool!Spec
==============================================================================
