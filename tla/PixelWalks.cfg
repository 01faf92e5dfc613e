SPECIFICATION FairSpec
CONSTANTS
  a = a
  b = b
  c = c
  d = d
  x = x
  Node = {a, b, c, d, x}
  Position <- Places
  Edge <- Paving
  Spot = {a, b, c, d, x}
  Protected = {a, c}
  Entrance = {a}
  Connector <- Doorways
  MinLeg = 3
  MaxLeg = 6
  Epsilon = 1
  StepCost = 1
  Pools <- PoolFiles
  Spawn = a
  MaxReplans = 1
  Away = Away
  NoNode = NoNode
INVARIANT PixelsStayFresh
INVARIANT NodeTracksPawn
INVARIANT EveryStopHasAWay
INVARIANT ReportedIsWhatHappened
INVARIANT PrunedPoolsLoad
PROPERTY LegsAreCertifiedHere
PROPERTY EveryWalkEnds
