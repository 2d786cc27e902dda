\* Guard rounds of two bots around one entry, with one fault.
SPECIFICATION Spec
CONSTANTS
  Bots = {b1, b2}
  btc = btc
  eth = eth
  Symbols = {btc}
  Free = Free
  Orphan = Orphan
  None = None
  Signals <- OneEntry
  Held <- ShortHeld
  EntryQty = 2
  TP1Percent = 50
  WindowSec = 1
  GuardDue = TRUE
  Faulty = {"redis", "exchange", "crash"}
  MaxFaults = 1
  MaxSignals = 1
  MaxOrders = 4
  MaxTime = 0
SYMMETRY BotSymmetry
INVARIANTS
  TypeOK
  LevelsFromEntries
PROPERTIES
  CleanupSparesLive
