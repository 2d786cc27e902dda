------------------------------- MODULE Guard -------------------------------
(***************************************************************************)
(* internal/execution/guard.go: one round of EnsureSLTPGuardOnce with the  *)
(* cleanupProtection it ends with, one action per Redis command or         *)
(* exchange call.  The positions are read once, at the start of the round, *)
(* and used until its end.                                                 *)
(***************************************************************************)
EXTENDS Engine

GuardLock(k) == <<"guard", k>>

(* The locals of a round: the positions read at its start, what is left to *)
(* visit, the position or record being visited, its levels, the protective *)
(* orders it has, and the orders to cancel.                                *)
RoundType ==
  [snap : [Keys -> Nat], todo : SUBSET Keys, key : Keys \cup {None},
   prot : RecordType \cup {None}, has : SUBSET {"sl", "tp1", "tp2"},
   victims : SUBSET Nat]
NoRound == [snap |-> [k \in Keys |-> 0], todo |-> {}, key |-> None,
            prot |-> None, has |-> {}, victims |-> {}]

(* The side as the guard holds it (strings.ToLower) and as the exchange    *)
(* writes it.                                                              *)
Lower(side) == IF side = "LONG" THEN "long" ELSE "short"

Distance(x, y) == IF x > y THEN x - y ELSE y - x

(* The order is on the closing side of the position.  The guard compares   *)
(* its lower-case side with the upper-case names.                          *)
Closes(o, side) ==
  \/ side = "LONG" /\ o.side = "SELL"
  \/ side = "SHORT" /\ o.side = "BUY"

(* Faulty variant: any reduce-only order counts as the whole protection. *)
PresentAny(k, prot) ==
  IF \E o \in orders : o.key[1] = k[1] /\ o.reduceOnly
    THEN {"sl", "tp1", "tp2"} ELSE {}

(* The protective orders the guard finds among the open ones.  A take      *)
(* profit belongs to the target its price is nearer to.                    *)
Present(k, prot) ==
  LET mine(type) == {o \in orders : /\ o.key[1] = k[1]
                                    /\ o.reduceOnly /\ o.type = type
                                    /\ Closes(o, Lower(k[2]))}
      first(o) == Distance(o.price, prot.tp1) < Distance(o.price, prot.tp2)
      targets == mine("TAKE_PROFIT_MARKET")
  IN  (IF mine("STOP_MARKET") # {} THEN {"sl"} ELSE {})
      \cup (IF \E o \in targets : first(o) THEN {"tp1"} ELSE {})
      \cup (IF prot.tp2 > 0 /\ \E o \in targets : ~first(o) THEN {"tp2"} ELSE {})

(* The quantities of the two take-profit orders, rounded to 1e-8. *)
FirstPart(size) == (size * TP1Percent + 50) \div 100

(* Faulty variant: the first part rounded up, beyond the whole. *)
AmountUp(size) == FirstPart(size) + 1

Amount1(size) == IF FirstPart(size) > 0 THEN FirstPart(size) ELSE size
Amount2(size) == size - Amount1(size)

-----------------------------------------------------------------------------

(* GetPositions: an error or an empty account ends the round at once.      *)
GuardStart(b) ==
  /\ pc[b] = "due"
  /\ \/ /\ ExchangeAnswers
        /\ OpenKeys # {}
        /\ rd' = [rd EXCEPT ![b] = [@ EXCEPT !.snap = pos, !.todo = OpenKeys]]
        /\ steady' = [steady EXCEPT ![b] = OpenKeys]
        /\ GoTo(b, "guard_lock")
     \/ /\ ExchangeAnswers
        /\ OpenKeys = {}
        /\ GoTo(b, "brpop")
        /\ UNCHANGED <<rd, steady>>
     \/ /\ ExchangeFails
        /\ GoTo(b, "brpop")
        /\ UNCHANGED <<rd, steady>>
  /\ UNCHANGED <<exchange, redis, ex, done, now, pushed, attempts>>

(* Faulty variant: a position stays on the list of those to visit. *)
GuardTakeAgain(b) ==
  /\ pc[b] = "guard_lock"
  /\ \E k \in rd[b].todo :
       /\ AcquireLock(b, GuardLock(k), "guard_read", "guard_lock")
       /\ rd' = [rd EXCEPT ![b] = [rd[b] EXCEPT !.key = k]]
  /\ UNCHANGED <<exchange, marks, protection, queue, ex, done, now, pushed, history>>

(* The next position; one whose lock is taken is left to its holder. *)
GuardTake(b) ==
  /\ pc[b] = "guard_lock"
  /\ \E k \in rd[b].todo :
       /\ AcquireLock(b, GuardLock(k), "guard_read", "guard_lock")
       /\ rd' = [rd EXCEPT ![b] = [rd[b] EXCEPT !.todo = @ \ {k}, !.key = k]]
  /\ UNCHANGED <<exchange, marks, protection, queue, ex, done, now, pushed, history>>

Positioned(b) ==
  /\ pc[b] = "guard_lock"
  /\ rd[b].todo = {}
  /\ GoTo(b, "scan")
  /\ UNCHANGED <<exchange, redis, ex, rd, done, now, faults, pushed, history>>

Valid(prot) == prot # None /\ prot.sl > 0 /\ prot.tp1 > 0

(* Faulty variant: the record of the long side for either side. *)
GuardReadLong(b) ==
  LET prot == protection[<<rd[b].key[1], "LONG">>] IN
  /\ pc[b] = "guard_read"
  /\ Answers(b)
  /\ IF Valid(prot)
       THEN rd' = [rd EXCEPT ![b].prot = prot] /\ GoTo(b, "guard_orders")
       ELSE UNCHANGED rd /\ GoTo(b, "guard_release")
  /\ UNCHANGED <<exchange, redis, ex, done, now, pushed, history>>

(* GET of the record: without one, or with a stop or a first target that   *)
(* is missing, nothing is placed for the position.                         *)
GuardRead(b) ==
  LET prot == protection[rd[b].key] IN
  /\ pc[b] = "guard_read"
  /\ \/ /\ Answers(b)
        /\ Valid(prot)
        /\ rd' = [rd EXCEPT ![b].prot = prot]
        /\ GoTo(b, "guard_orders")
     \/ /\ \/ Answers(b) /\ ~Valid(prot)
           \/ Fails(b)
        /\ GoTo(b, "guard_release")
        /\ UNCHANGED rd
  /\ UNCHANGED <<exchange, redis, ex, done, now, pushed, history>>

(* GetOpenOrders; an error counts as no orders. *)
GuardOrders(b) ==
  /\ pc[b] = "guard_orders"
  /\ \/ ExchangeAnswers /\ rd' = [rd EXCEPT ![b].has = Present(rd[b].key, rd[b].prot)]
     \/ ExchangeFails /\ rd' = [rd EXCEPT ![b].has = {}]
  /\ GoTo(b, "guard_sl")
  /\ UNCHANGED <<exchange, redis, ex, done, now, pushed, history>>

(* One of the three protective orders, for the size of the snapshot; an    *)
(* error is logged and the next one is tried.                              *)
GuardPlace(b, name, type, qty, stop, then) ==
  /\ IF name \in rd[b].has \/ qty = 0 \/ stop = 0
       THEN UNCHANGED <<exchange, faults>>
       ELSE \E out \in Outcomes :
              PlaceResting(ProtectiveOrder(rd[b].key, type, qty, stop), out)
  /\ GoTo(b, then)
  /\ UNCHANGED <<redis, ex, rd, done, now, pushed, history>>

Size(b) == rd[b].snap[rd[b].key]

GuardStop(b) ==
  /\ pc[b] = "guard_sl"
  /\ GuardPlace(b, "sl", "STOP_MARKET", Size(b), rd[b].prot.sl, "guard_tp1")

GuardTarget1(b) ==
  /\ pc[b] = "guard_tp1"
  /\ GuardPlace(b, "tp1", "TAKE_PROFIT_MARKET", Amount1(Size(b)), rd[b].prot.tp1,
                "guard_tp2")

GuardTarget2(b) ==
  /\ pc[b] = "guard_tp2"
  /\ GuardPlace(b, "tp2", "TAKE_PROFIT_MARKET", Amount2(Size(b)), rd[b].prot.tp2,
                "guard_release")

GuardRelease(b) ==
  /\ pc[b] = "guard_release"
  /\ ReleaseLock(b, GuardLock(rd[b].key))
  /\ GoTo(b, "guard_lock")
  /\ rd' = [rd EXCEPT ![b] = [NoRound EXCEPT !.snap = rd[b].snap,
                                               !.todo = rd[b].todo]]
  /\ UNCHANGED <<exchange, marks, protection, queue, ex, done, now, pushed, history>>

-----------------------------------------------------------------------------
(* cleanupProtection, which holds no lock.                                 *)

EndRound(b) ==
  /\ GoTo(b, "brpop")
  /\ rd' = [rd EXCEPT ![b] = NoRound]
  /\ steady' = [steady EXCEPT ![b] = {}]

(* Faulty variant: every record counts as left over. *)
CleanScanAll(b) ==
  /\ pc[b] = "scan"
  /\ Answers(b)
  /\ rd' = [rd EXCEPT ![b].todo = {k \in Keys : protection[k] # None}]
  /\ GoTo(b, "clean")
  /\ UNCHANGED <<exchange, redis, ex, done, now, pushed, history>>

(* SCAN for the records, minus those whose position the snapshot holds. *)
CleanScan(b) ==
  /\ pc[b] = "scan"
  /\ \/ /\ Answers(b)
        /\ rd' = [rd EXCEPT ![b].todo = {k \in Keys : protection[k] # None /\ rd[b].snap[k] = 0}]
        /\ GoTo(b, "clean")
        /\ UNCHANGED steady
     \/ /\ Fails(b)
        /\ EndRound(b)
  /\ UNCHANGED <<exchange, redis, ex, done, now, pushed, attempts>>

(* GetOpenOrders for the next record: its protective orders are the ones   *)
(* to cancel, none on an error.                                            *)
CleanOrders(b) ==
  /\ pc[b] = "clean"
  /\ \E k \in rd[b].todo :
       LET residual == {o \in orders : o.key = k /\ o.type \in ProtectiveTypes}
           next(ids) == [rd[b] EXCEPT !.todo = @ \ {k}, !.key = k, !.victims = ids]
       IN  \/ /\ ExchangeAnswers
              /\ rd' = [rd EXCEPT ![b] = next({o.id : o \in residual})]
           \/ /\ ExchangeFails
              /\ rd' = [rd EXCEPT ![b] = next({})]
  /\ GoTo(b, "cancel")
  /\ UNCHANGED <<exchange, redis, ex, done, now, pushed, history>>

(* CancelOrder for each of them, whatever its result. *)
CleanCancel(b) ==
  /\ pc[b] = "cancel"
  /\ \E v \in rd[b].victims :
       /\ \/ /\ ExchangeAnswers
             /\ orders' = {o \in orders : o.id # v}
          \/ ExchangeFails /\ UNCHANGED orders
       /\ rd' = [rd EXCEPT ![b].victims = rd[b].victims \ {v}]
  /\ UNCHANGED <<nextId, pos, redis, pc, ex, done, now, pushed, history>>

(* DEL of the record, without looking at it or at the position again. *)
CleanDel(b) ==
  /\ pc[b] = "cancel"
  /\ rd[b].victims = {}
  /\ \/ Answers(b) /\ protection' = [protection EXCEPT ![rd[b].key] = None]
     \/ Fails(b) /\ UNCHANGED protection
  /\ GoTo(b, "clean")
  /\ rd' = [rd EXCEPT ![b].key = None]
  /\ UNCHANGED <<exchange, lock, marks, queue, ex, done, now, pushed, history>>

CleanEnd(b) ==
  /\ pc[b] = "clean"
  /\ rd[b].todo = {}
  /\ EndRound(b)
  /\ UNCHANGED <<exchange, redis, ex, done, now, faults, pushed, attempts>>

GuardStep(b) ==
  \/ GuardStart(b)
  \/ GuardTake(b)
  \/ Positioned(b)
  \/ GuardRead(b)
  \/ GuardOrders(b)
  \/ GuardStop(b)
  \/ GuardTarget1(b)
  \/ GuardTarget2(b)
  \/ GuardRelease(b)
  \/ CleanScan(b)
  \/ CleanOrders(b)
  \/ CleanCancel(b)
  \/ CleanDel(b)
  \/ CleanEnd(b)

=============================================================================
