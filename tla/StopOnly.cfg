\* An entry whose strategy gave a stop and no target.
SPECIFICATION FairSpec
CONSTANTS
  Bots = {b1}
  btc = btc
  eth = eth
  Symbols = {btc}
  Free = Free
  Orphan = Orphan
  None = None
  Signals <- StopOnly
  Held <- NoneHeld
  EntryQty = 1
  TP1Percent = 50
  WindowSec = 1
  GuardDue = TRUE
  Faulty = {}
  MaxFaults = 0
  MaxSignals = 1
  MaxOrders = 4
  MaxTime = 0
PROPERTY EntriesGetStop
