\* Statements of comments that SymbolScan refutes; TLC stops at the first, so
\* keep one of them at a time.
SPECIFICATION Spec
CONSTANTS
  Frames <- MCFrames
  Answers <- MCAnswers
  Core <- MCCore
  Trend = "1h"
  OIs <- MCOIs
  RSIPeriod = 2
  BBPeriod = 3
  EMAPeriod = 2
  StdDev = 2
  Bandwidth <- MCBandwidth
  PrefilterEnabled = TRUE
  MinOIChange = 2
INVARIANTS
  FlatMarketWaits
  OversoldIsBought
  OverboughtIsRecent
  OIRemembered
