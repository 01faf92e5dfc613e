SPECIFICATION Spec
CONSTANTS
  a = a
  b = b
  c = c
  d = d
  e = e
  f = f
  g = g
  Node = {a, b, c, d, e, f, g}
  Edge <- Roads
  EdgeOrder <- RoadOrder
  StreetAt <- Names
  NorthSouth <- Upright
  Signalised = {c, d}
  Album <- Lamps
  Hashed <- HashedRoads
  Photographed <- Photos
  Door = {b}
  PHASE = 2
  HopSeconds = {1}
  SLOW = 1
  BLOCKED = 2
  REJECTED = 1
  RED_PENALTY = 3
  WAIT = 1
  MAX_FOLLOW = 4
  All = All
  NoNode = NoNode
PROPERTY ChargedLampsWereSent
