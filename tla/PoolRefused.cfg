SPECIFICATION FairSpec
CONSTANTS
  m1 = m1
  Member = {m1}
  Seats <- MCSeats
  Caller = {}
  Episode = {e1, e2}
  Checker = {}
  Skips <- NoSkip
  QUARANTINE_STRIKES = 2
  BACKOFFS = 3
  MaxStrikes = 2
  MaxCalls = 1
  NoMember = NoMember
  NoThread = NoThread
PROPERTY RefusedMeansDead
