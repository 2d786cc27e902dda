\* Faults, crashes and orphaned locks: every position gets its stop.
SPECIFICATION FairSpec
CONSTANTS
  Bots = {b1, b2}
  btc = btc
  eth = eth
  Symbols = {btc}
  Free = Free
  Orphan = Orphan
  None = None
  Signals <- OneEntry
  Held <- NoneHeld
  EntryQty = 1
  TP1Percent = 50
  WindowSec = 1
  GuardDue = TRUE
  Faulty = {"redis", "exchange", "crash", "shutdown", "expiry"}
  MaxFaults = 1
  MaxSignals = 1
  MaxOrders = 4
  MaxTime = 0
PROPERTIES
  GuardProtects
  BotsReturn
