SPECIFICATION Spec
CONSTANTS
  Member = {m1}
  Writer = {t1, t2}
  QUARANTINE_STRIKES = 2
  MaxStrikes = 2
  MaxRestarts = 0
  MaxSaves = 1
  NoFile = NoFile
  Garbled = Garbled
INVARIANT NoTornRead
