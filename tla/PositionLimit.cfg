\* Entries on two symbols beside a position that is held.
SPECIFICATION Spec
CONSTANTS
  Bots = {b1}
  btc = btc
  eth = eth
  Symbols = {btc, eth}
  Free = Free
  Orphan = Orphan
  None = None
  Signals <- TwoSymbols
  Held <- ShortHeld
  EntryQty = 1
  TP1Percent = 50
  WindowSec = 1
  GuardDue = FALSE
  Faulty = {}
  MaxFaults = 0
  MaxSignals = 2
  MaxOrders = 4
  MaxTime = 0
INVARIANT ConcurrentPositionsBounded
