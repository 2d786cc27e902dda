\* Two bots and repeated signals: dedupe, the execution lock, the record.
SPECIFICATION Spec
CONSTANTS
  Bots = {b1, b2}
  btc = btc
  eth = eth
  Symbols = {btc}
  Free = Free
  Orphan = Orphan
  None = None
  Signals <- RecordSignals
  Held <- NoneHeld
  EntryQty = 1
  TP1Percent = 50
  WindowSec = 1
  GuardDue = FALSE
  Faulty = {"redis", "exchange", "crash", "shutdown"}
  MaxFaults = 1
  MaxSignals = 3
  MaxOrders = 3
  MaxTime = 1
SYMMETRY BotSymmetry
INVARIANTS
  OneOrderPerWindow
  ProtectionOfLatest
PROPERTIES
  ImplementsSectionLocks
