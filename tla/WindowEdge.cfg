\* The same signal twice, one second apart, in two buckets of two seconds.
SPECIFICATION Spec
CONSTANTS
  Bots = {b1}
  btc = btc
  eth = eth
  Symbols = {btc}
  Free = Free
  Orphan = Orphan
  None = None
  Signals <- OneEntry
  Held <- NoneHeld
  EntryQty = 1
  TP1Percent = 50
  WindowSec = 2
  GuardDue = FALSE
  Faulty = {}
  MaxFaults = 0
  MaxSignals = 2
  MaxOrders = 4
  MaxTime = 2
INVARIANT NoRepeatWithinWindow
