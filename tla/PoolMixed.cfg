SPECIFICATION Spec
CONSTANTS
  m1 = m1
  Member = {m1, m2}
  Seats <- MCSeats
  Caller = {c1}
  Episode = {e1, e2}
  Checker = {h1}
  Skips <- NoSkip
  QUARANTINE_STRIKES = 2
  BACKOFFS = 1
  MaxStrikes = 2
  MaxCalls = 1
  NoMember = NoMember
  NoThread = NoThread
INVARIANT TypeOK
INVARIANT LeaseLedger
INVARIANT SeatsRespected
 
PROPERTY ImplementsSeatLease
INVARIANT InFlightLedger
