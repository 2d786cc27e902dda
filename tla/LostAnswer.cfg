\* The exchange accepts the entry and its answer is lost.
SPECIFICATION FairSpec
CONSTANTS
  Bots = {b1}
  btc = btc
  eth = eth
  Symbols = {btc}
  Free = Free
  Orphan = Orphan
  None = None
  Signals <- OneEntry
  Held <- NoneHeld
  EntryQty = 1
  TP1Percent = 50
  WindowSec = 1
  GuardDue = TRUE
  Faulty = {"exchange"}
  MaxFaults = 1
  MaxSignals = 1
  MaxOrders = 4
  MaxTime = 0
PROPERTY EntriesGetStop
