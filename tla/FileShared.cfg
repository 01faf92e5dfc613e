SPECIFICATION Spec
CONSTANTS
  Member = {m1, m2}
  Writer = {t1, t2}
  QUARANTINE_STRIKES = 2
  MaxStrikes = 2
  MaxRestarts = 1
  MaxSaves = 3
  NoFile = NoFile
  Garbled = Garbled
INVARIANT OneSaverIsSafe
INVARIANT QuarantineRemembered
INVARIANT SavesLeaveOneFile
