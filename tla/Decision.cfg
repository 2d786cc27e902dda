\* Two workers while the operator switches modes.
SPECIFICATION FairSpec
CONSTANTS
  Workers = {w1, w2}
  HasTrader = TRUE
  MaxAttempts = 3
  ErrorLengths = {120, 240}
INVARIANTS
  TypeOK
  ModeRespected
PROPERTIES
  DecisionEnds
