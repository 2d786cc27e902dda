\* The window is checked before the wait for a token.
SPECIFICATION Spec
CONSTANTS
  Callers = {f1, f2}
  NoHeader = NoHeader
  Capacity = 2
  Period = 2
  Second = 2
  Base418 = 4
  MaxSec = 5
  MaxLevel = 1
  JitterDivisor = 2
  RetryAfters <- SomeHeaders
  MaxCalls = 2
  MaxLimited = 2
  MaxAge = 1
PROPERTIES
  NoRequestInWindow
