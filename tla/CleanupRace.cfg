\* An entry fills after a round that read the positions before it.
SPECIFICATION FairSpec
CONSTANTS
  Bots = {b1}
  btc = btc
  eth = eth
  Symbols = {btc}
  Free = Free
  Orphan = Orphan
  None = None
  Signals <- OneEntry
  Held <- ShortHeld
  EntryQty = 1
  TP1Percent = 50
  WindowSec = 1
  GuardDue = TRUE
  Faulty = {}
  MaxFaults = 0
  MaxSignals = 1
  MaxOrders = 4
  MaxTime = 0
PROPERTY EntriesGetStop
