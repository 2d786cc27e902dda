\* A round with an old snapshot meets a position opened since.
SPECIFICATION Spec
CONSTANTS
  Bots = {b1, b2}
  btc = btc
  eth = eth
  Symbols = {btc}
  Free = Free
  Orphan = Orphan
  None = None
  Signals <- OneEntry
  Held <- ShortHeld
  EntryQty = 1
  TP1Percent = 50
  WindowSec = 1
  GuardDue = TRUE
  Faulty = {}
  MaxFaults = 0
  MaxSignals = 1
  MaxOrders = 4
  MaxTime = 0
PROPERTY CancelsOnlyWhenFlat
