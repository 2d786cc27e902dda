\* A second round on a protected position, and the only position closed by its
\* stop: both statements are refuted, keep one of them at a time.
SPECIFICATION FairSpec
CONSTANTS
  Bots = {b1}
  btc = btc
  eth = eth
  Symbols = {btc}
  Free = Free
  Orphan = Orphan
  None = None
  Signals <- OneEntry
  Held <- NoneHeld
  EntryQty = 1
  TP1Percent = 50
  WindowSec = 1
  GuardDue = TRUE
  Faulty = {}
  MaxFaults = 0
  MaxSignals = 1
  MaxOrders = 4
  MaxTime = 0
INVARIANTS
  NoDuplicateStop
PROPERTIES
  FlatIsCleaned
