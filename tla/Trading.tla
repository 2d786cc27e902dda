------------------------------ MODULE Trading ------------------------------
(***************************************************************************)
(* The state shared by the parts of the executor: the exchange (orders and *)
(* positions), Redis (locks, dedupe marks, protection records, the trade   *)
(* queue) and the bot processes, with the operations the engine and the    *)
(* guard build on.                                                         *)
(*                                                                         *)
(* The exchange and Redis are external: they are modelled from the way     *)
(* internal/exchange and internal/execution use them.  A call has the      *)
(* outcomes its caller can observe, and a failed call may have taken       *)
(* effect.  Lock expiry under a live holder is excluded here: RedisLock    *)
(* shows when that is sound.  What a dead holder leaves is an Orphan.      *)
(***************************************************************************)
EXTENDS Integers, Sequences, FiniteSets

CONSTANTS
  Bots,        \* processes that run RunBot on the same Redis and account
  Symbols,     \* the symbols traded
  Free,        \* a lock key that is absent
  Orphan,      \* a lock key whose token nobody will release
  None,        \* an absent protection record
  Signals,     \* the signals the strategies may push
  Held,        \* size of every position at the start
  EntryQty,    \* quantity of an entry order, in units of 1e-8
  TP1Percent,  \* TP1PartialRatio
  WindowSec,   \* OrderDedupeWindow
  GuardDue,    \* the guard interval comes round in the time modelled
  Faulty,      \* kinds of fault that may happen
  MaxFaults,   \* bound of the model: faults
  MaxSignals,  \* bound of the model: signals pushed
  MaxOrders,   \* bound of the model: orders the exchange accepts
  MaxTime      \* bound of the model: seconds that pass

Sides == {"LONG", "SHORT"}
Keys == Symbols \X Sides
Locks == ({"execution"} \X Symbols) \cup ({"guard"} \X Keys)

FaultKinds == {"redis", "exchange", "crash", "shutdown", "expiry"}

Actions == {"open_long", "open_short", "close_long", "close_short"}

(* A strategy's output: no stop or target is a price of 0. *)
SignalType ==
  [action : Actions, symbol : Symbols, price : Nat, sl : Nat, tp1 : Nat, tp2 : Nat]

(* A protection record. *)
RecordType == [sl : Nat, tp1 : Nat, tp2 : Nat]

ASSUME TradingConstants ==
  /\ Signals \subseteq SignalType
  /\ Held \in [Keys -> Nat]
  /\ Free \notin Bots /\ Orphan \notin Bots /\ Free # Orphan
  /\ None \notin RecordType
  /\ None \notin SignalType
  /\ EntryQty \in Nat \ {0}
  /\ TP1Percent \in 0..100
  /\ WindowSec \in Nat \ {0}
  /\ GuardDue \in BOOLEAN
  /\ Faulty \subseteq FaultKinds
  /\ MaxFaults \in Nat /\ MaxSignals \in Nat /\ MaxOrders \in Nat /\ MaxTime \in Nat

VARIABLES
  orders,      \* open orders on the exchange
  nextId,      \* number of orders accepted so far; the next one is nextId + 1
  pos,         \* size of every position
  lock,        \* value of every lock key
  marks,       \* dedupe keys that were set
  protection,  \* protection:<symbol>:<side>
  queue,       \* trade_queue, oldest first
  pc,          \* where each bot is
  ex,          \* the local variables of the engine call a bot is in
  rd,          \* the local variables of the guard round a bot is in
  done,        \* the context of a bot is cancelled
  now,         \* seconds
  faults,      \* faults so far
  pushed,      \* signals pushed so far
  attempts,    \* history: the entry orders posted, in order
  steady       \* history: keys open since a bot's snapshot of the positions

exchange == <<orders, nextId, pos>>
redis == <<lock, marks, protection, queue>>
history == <<attempts, steady>>
vars == <<exchange, redis, pc, ex, rd, done, now, faults, pushed, history>>

Fault(kind) ==
  /\ kind \in Faulty
  /\ faults < MaxFaults
  /\ faults' = faults + 1

(***************************************************************************)
(* Redis commands, one at a time, each with its outcomes.                  *)
(***************************************************************************)

(* go-redis refuses to start a command on a cancelled context. *)
Answers(b) == ~done[b] /\ UNCHANGED faults
Fails(b) == (done[b] /\ UNCHANGED faults) \/ (~done[b] /\ Fault("redis"))

GoTo(b, to) == pc' = [pc EXCEPT ![b] = to]

(* Faulty variant: the key is taken whoever holds it. *)
TakeLock(b, l, then, otherwise) ==
  /\ Answers(b)
  /\ lock' = [lock EXCEPT ![l] = b]
  /\ GoTo(b, then)

(* acquireLock: the caller goes on with the lock, or to "otherwise" when   *)
(* the key is taken, when the command fails, and when it succeeded but its *)
(* answer was lost.                                                        *)
AcquireLock(b, l, then, otherwise) ==
  \/ /\ Answers(b)
     /\ lock[l] = Free
     /\ lock' = [lock EXCEPT ![l] = b]
     /\ GoTo(b, then)
  \/ /\ Answers(b)
     /\ lock[l] # Free
     /\ GoTo(b, otherwise)
     /\ UNCHANGED lock
  \/ /\ Fails(b)
     /\ GoTo(b, otherwise)
     /\ \/ UNCHANGED lock
        \/ ~done[b] /\ lock[l] = Free /\ lock' = [lock EXCEPT ![l] = Orphan]

(* releaseLock: compare-and-delete; its error is ignored. *)
ReleaseLock(b, l) ==
  \/ /\ Answers(b)
     /\ lock' = [lock EXCEPT ![l] = IF @ = b THEN Free ELSE @]
  \/ /\ Fails(b)
     /\ lock' = [lock EXCEPT ![l] = IF @ = b THEN Orphan ELSE @]

(***************************************************************************)
(* Exchange calls.                                                         *)
(***************************************************************************)

ExchangeAnswers == UNCHANGED faults
ExchangeFails == Fault("exchange")

OpenKeys == {k \in Keys : pos[k] > 0}
Reduced(size, qty) == IF qty < size THEN size - qty ELSE 0

(* PlaceOrder: acknowledged, refused (an error), or lost: accepted by the  *)
(* exchange while the caller sees its 10s timeout as an error.             *)
Outcomes == {"ok", "refused", "lost"}

OutcomeCost(out) == IF out = "ok" THEN ExchangeAnswers ELSE ExchangeFails

BuyOrSell(k, opening) ==
  IF (k[2] = "LONG") = opening THEN "BUY" ELSE "SELL"

EntryOrder(k, price) ==
  [id |-> nextId + 1, key |-> k, type |-> "LIMIT", side |-> BuyOrSell(k, TRUE),
   reduceOnly |-> FALSE, qty |-> EntryQty, price |-> price, stop |-> 0]

ProtectiveOrder(k, type, qty, stop) ==
  [id |-> nextId + 1, key |-> k, type |-> type, side |-> BuyOrSell(k, FALSE),
   reduceOnly |-> TRUE, qty |-> qty, price |-> 0, stop |-> stop]

ProtectiveTypes == {"STOP_MARKET", "TAKE_PROFIT_MARKET"}

OrderType ==
  [id : Nat, key : Keys, type : {"LIMIT"} \cup ProtectiveTypes, side : {"BUY", "SELL"},
   reduceOnly : BOOLEAN, qty : Nat, price : Nat, stop : Nat]

(* An order that rests in the book. *)
PlaceResting(o, out) ==
  \/ /\ nextId < MaxOrders
     /\ OutcomeCost(out)
     /\ IF out = "refused"
          THEN UNCHANGED exchange
          ELSE /\ nextId' = nextId + 1
               /\ orders' = orders \cup {o}
               /\ UNCHANGED pos
  \/ /\ nextId = MaxOrders        \* the bound of the model: all refused
     /\ out = "refused"
     /\ UNCHANGED <<exchange, faults>>

(* A reduce-only market order takes effect at once; without a position it  *)
(* is refused.                                                             *)
PlaceMarketReduce(k, qty, out) ==
  \/ /\ pos[k] > 0
     /\ OutcomeCost(out)
     /\ pos' = IF out = "refused" THEN pos
               ELSE [pos EXCEPT ![k] = Reduced(@, qty)]
     /\ UNCHANGED <<orders, nextId>>
  \/ /\ pos[k] = 0
     /\ out = "refused"
     /\ UNCHANGED <<exchange, faults>>

(***************************************************************************)
(* What happens on the exchange and in Redis on its own.                   *)
(***************************************************************************)

(* Part of an entry order, or all of it, is executed. *)
FillEntry(o, qty) ==
  /\ o.type = "LIMIT"
  /\ qty \in 1..o.qty
  /\ pos' = [pos EXCEPT ![o.key] = @ + qty]
  /\ orders' = (orders \ {o}) \cup
               (IF qty < o.qty THEN {[o EXCEPT !.qty = @ - qty]} ELSE {})
  /\ UNCHANGED <<nextId, redis, pc, ex, rd, done, now, faults, pushed, history>>

StillOpen(open) == [b \in Bots |-> steady[b] \ {k \in Keys : open[k] = 0}]

(* The price reaches a protective order: it reduces the position, or is    *)
(* dropped when there is none.                                             *)
Trigger(o) ==
  /\ o.type \in ProtectiveTypes
  /\ pos' = [pos EXCEPT ![o.key] = Reduced(@, o.qty)]
  /\ orders' = orders \ {o}
  /\ steady' = StillOpen(pos')
  /\ UNCHANGED <<nextId, redis, pc, ex, rd, done, now, faults, pushed, attempts>>

(* The TTL of a lock nobody will release. *)
OrphanExpires(l) ==
  /\ lock[l] = Orphan
  /\ lock' = [lock EXCEPT ![l] = Free]
  /\ UNCHANGED <<exchange, marks, protection, queue, pc, ex, rd, done, now,
                 faults, pushed, history>>

(* PROTECTION_TTL_SEC is over. *)
ProtectionExpires(k) ==
  /\ Fault("expiry")
  /\ protection[k] # None
  /\ protection' = [protection EXCEPT ![k] = None]
  /\ UNCHANGED <<exchange, lock, marks, queue, pc, ex, rd, done, now, pushed, history>>

(* ProcessSignal of some scanner process hands a signal over. *)
Push(s) ==
  /\ pushed < MaxSignals
  /\ pushed' = pushed + 1
  /\ queue' = Append(queue, s)
  /\ UNCHANGED <<exchange, lock, marks, protection, pc, ex, rd, done, now, faults, history>>

Tick ==
  /\ now < MaxTime
  /\ now' = now + 1
  /\ UNCHANGED <<exchange, redis, pc, ex, rd, done, faults, pushed, history>>

Environment ==
  \/ \E o \in orders : (\E qty \in 1..o.qty : FillEntry(o, qty)) \/ Trigger(o)
  \/ \E l \in Locks : OrphanExpires(l)
  \/ \E k \in Keys : ProtectionExpires(k)
  \/ \E s \in Signals : Push(s)
  \/ Tick

=============================================================================
