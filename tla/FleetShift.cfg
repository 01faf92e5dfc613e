SPECIFICATION FairSpec
CONSTANTS
  e1 = e1
  Env = {e1, e2}
  Process = {"trainer"}
  ProcessOf <- SharedProcess
  Member = {m1}
  Seats <- OneSeat
  Place = {n0, n1}
  Start = n0
  MaxReseats = 1
  AllowFallback = FALSE
  MaxEpisodes <- SecondReset
  Away = Away
  NoMember = NoMember
INVARIANT LeasesAreSeats
INVARIANT GhostsHaveACause
INVARIANT PawnWhereTheGraphSays
PROPERTY ImplementsSeatLease
PROPERTY EveryOpeningEnds
