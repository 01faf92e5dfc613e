SPECIFICATION PhoneSpec
CONSTANTS
  a = a
  b = b
  c = c
  Jobs = 3
  Depth = 2
  Window <- MCWindow
  EXPIRY_MULTIPLE = 2
  Fee <- MCFee
  LATE_PCT = 50
  Spoils <- MCSpoils
  SpoilPct <- MCSpoilPct
  Never = Never
  HANDLING = 1
  DoorHandling <- MCDoorHandling
  Place = {a, b}
  Pickup <- MCPickup
  Dropoff <- MCDropoff
  Gap <- MCGap
  TOLERANCE = 1
  WalkSeconds = {1}
  PauseSeconds = {1, 3}
  ConsultSeconds = {1}
  RefusalSeconds = {1}
  SHIFT = 8
  MaxTurns = 6
  Address = {a, b, c}
  Phone = TRUE
  Full = 3
  WalkDrain = 1
  RouteDrain = 1
  CHARGE = 2
  NoTarget = NoTarget
INVARIANT RefilledAtOnce
INVARIANT EarningsAreTheSlips
INVARIANT JobOnScreen
PROPERTY OverdueNeverServed
PROPERTY FocusSteady
PROPERTY ChosenRouteStands
