\* Statements of documents and log messages that Decision refutes; TLC stops
\* at the first, so keep one of them at a time.
SPECIFICATION Spec
CONSTANTS
  Workers = {w1, w2}
  HasTrader = TRUE
  MaxAttempts = 3
  ErrorLengths = {120, 240}
INVARIANTS
  RequestsCounted
  LatestDecisionShown
PROPERTIES
  AccountErrorHarmless
  RuleStatsRecorded
