\* Rounds of up to four symbols, cancelled at any time.
SPECIFICATION FairSpec
CONSTANTS
  Symbols = {s1, s2, s3, s4}
  ScanConc = 1
  BatchSize = 1
INVARIANTS
  TypeOK
  NothingLost
  RoundsDisjoint
  CrashOnlyAfterCancel
PROPERTIES
  RoundEnds
  ScannerStops
\* The scanner returns when it is cancelled, and the program may crash.
CHECK_DEADLOCK FALSE
