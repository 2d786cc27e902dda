\* Scans of one symbol, with hits, misses, expired entries and failed calls.
SPECIFICATION FairSpec
CONSTANTS
  Frames <- MCFrames
  Answers <- MCAnswers
  Core <- MCCore
  Trend = "1h"
  OIs <- MCOIs
  RSIPeriod = 2
  BBPeriod = 3
  EMAPeriod = 2
  StdDev = 2
  Bandwidth <- MCBandwidth
  PrefilterEnabled = TRUE
  MinOIChange = 2
INVARIANTS
  TypeOK
  MapAccessExclusive
  SignalHasCause
  IndicatorBounds
PROPERTIES
  ScanEnds
