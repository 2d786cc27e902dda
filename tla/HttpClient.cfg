\* Two goroutines share the bucket and the window.
SPECIFICATION FairSpec
CONSTANTS
  Callers = {f1, f2}
  NoHeader = NoHeader
  Capacity = 2
  Period = 2
  Second = 2
  Base418 = 4
  MaxSec = 5
  MaxLevel = 1
  JitterDivisor = 2
  RetryAfters <- SomeHeaders
  MaxCalls = 2
  MaxLimited = 2
  MaxAge = 4
INVARIANTS
  TypeOK
  RateBound
PROPERTIES
  DemandHonoured
  EveryCallReturns
