\* A queue of two, two workers that push, two bots that pop, and two symbols
\* that are decided twice each.
SPECIFICATION FairSpec
CONSTANTS
  Workers = {w1, w2}
  Symbols = {s1, s2}
  Bots = {b1, b2}
  MaxQueue = 2
  MaxHistory = 1
  MaxRetries = 1
  None = None
  Limit = 2
  MaxFaults = 2
INVARIANTS
  TypeOK
  ListsBounded
  PoppedInDecidedOrder
PROPERTIES
  ImplementsChannel
  SignalsLeaveQueue
\* Once Limit signals of every symbol are worked off the system is at rest.
CHECK_DEADLOCK FALSE
