SPECIFICATION FairSpec
CONSTANTS
  m1 = m1
  Member = {m1, m2}
  Seats <- MCSeats
  Caller = {c1}
  Episode = {e1, e2}
  Checker = {}
  Skips <- OnlyFirst
  QUARANTINE_STRIKES = 2
  BACKOFFS = 3
  MaxStrikes = 2
  MaxCalls = 1
  NoMember = NoMember
  NoThread = NoThread
PROPERTY EverySeatIsGivenBack
PROPERTY EveryWaitEnds
PROPERTY EveryRenderReturns
