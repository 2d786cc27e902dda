----------------------------- MODULE BotProofs -----------------------------
(***************************************************************************)
(* Theorems about Bot for any number of bots, symbols, signals, orders and *)
(* faults.                                                                 *)
(***************************************************************************)
EXTENDS Bot, SequenceTheorems, TLAPS

(* The position a signal is about is one of the keys. *)
LEMMA KeyOfType == \A s \in SignalType : KeyOf(s) \in Keys
BY DEF KeyOf, Keys, Sides, SignalType

(* The empty locals of a call are well typed. *)
LEMMA NoCallType == NoCall \in CallType
BY DEF NoCall, CallType

(* The empty locals of a guard round are well typed. *)
LEMMA NoRoundType == NoRound \in RoundType
BY DEF NoRound, RoundType

(* What the steps of a call need to know of its signal. *)
LEMMA SignalFacts ==
  ASSUME NEW s \in Signals
  PROVE  /\ s \in SignalType /\ s.symbol \in Symbols /\ s.action \in Actions
         /\ s.price \in Nat /\ KeyOf(s) \in Keys
         /\ Record(s) \in RecordType
         /\ ExecutionLock(s) \in Locks
<1>1. s \in SignalType
  BY TradingConstants
<1>2. QED
  BY <1>1, KeyOfType DEF SignalType, Record, RecordType, ExecutionLock, Locks

(* A fault keeps the count of faults within its bound. *)
LEMMA FaultFacts ==
  ASSUME RestOK, NEW kind
  PROVE  Fault(kind) => faults' \in 0..MaxFaults
BY TradingConstants DEF RestOK, Fault

(* Placing an order keeps the book and the positions well typed. *)
LEMMA PlaceRestingType ==
  ASSUME TypeOK, NEW o \in OrderType, NEW out \in Outcomes, PlaceResting(o, out)
  PROVE  ExchangeOK' /\ faults' \in 0..MaxFaults
BY TradingConstants
   DEF TypeOK, ExchangeOK, RestOK, PlaceResting, OutcomeCost, ExchangeAnswers,
       ExchangeFails, Fault, exchange

(* A reduce-only order never makes the size of a position negative. *)
LEMMA ReducedType ==
  \A size, qty \in Nat : Reduced(size, qty) \in Nat
BY DEF Reduced

LockValues == Bots \cup {Free, Orphan}

(* The two lock operations keep the lock keys well typed. *)
LEMMA AcquireType ==
  ASSUME TypeOK, NEW b \in Bots, NEW l \in Locks, NEW then, NEW otherwise,
         AcquireLock(b, l, then, otherwise)
  PROVE  /\ lock' \in [Locks -> LockValues]
         /\ faults' \in 0..MaxFaults
         /\ GoTo(b, then) \/ GoTo(b, otherwise)
<1>1. lock \in [Locks -> LockValues] /\ faults \in 0..MaxFaults
  BY DEF TypeOK, RedisOK, RestOK, LockValues
<1>2. faults' \in 0..MaxFaults
  BY <1>1, TradingConstants DEF AcquireLock, Answers, Fails, Fault
<1>3. GoTo(b, then) \/ GoTo(b, otherwise)
  BY DEF AcquireLock
<1>4. \/ lock' = [lock EXCEPT ![l] = b]
      \/ lock' = lock
      \/ lock' = [lock EXCEPT ![l] = Orphan]
  BY DEF AcquireLock
<1>5. lock' \in [Locks -> LockValues]
  BY <1>1, <1>4 DEF LockValues
<1>6. QED
  BY <1>2, <1>3, <1>5

(* releaseLock keeps the lock keys well typed. *)
LEMMA ReleaseType ==
  ASSUME TypeOK, NEW b \in Bots, NEW l \in Locks, ReleaseLock(b, l)
  PROVE  /\ lock' \in [Locks -> LockValues]
         /\ faults' \in 0..MaxFaults
<1>1. lock \in [Locks -> LockValues] /\ faults \in 0..MaxFaults
  BY DEF TypeOK, RedisOK, RestOK, LockValues
<1>2. faults' \in 0..MaxFaults
  BY <1>1, TradingConstants DEF ReleaseLock, Answers, Fails, Fault
<1>3. \/ lock' = [lock EXCEPT ![l] = IF @ = b THEN Free ELSE @]
      \/ lock' = [lock EXCEPT ![l] = IF @ = b THEN Orphan ELSE @]
  BY DEF ReleaseLock
<1>4. lock' \in [Locks -> LockValues]
  BY <1>1, <1>3 DEF LockValues
<1>5. QED
  BY <1>2, <1>4

(* The time bucket of the dedupe key is a natural number. *)
LEMMA BucketType == RestOK => Bucket \in Nat
BY TradingConstants DEF RestOK, Bucket

(* Updates of the locals of a call. *)
LEMMA CallUpdates ==
  ASSUME NEW e \in CallType, NEW n \in Nat
  PROVE  /\ [e EXCEPT !.bucket = n, !.checked = TRUE] \in CallType
         /\ [e EXCEPT !.bucket = n, !.checked = TRUE].sig = e.sig
         /\ [e EXCEPT !.bucket = n] \in CallType
         /\ [e EXCEPT !.bucket = n].sig = e.sig
         /\ [e EXCEPT !.marked = TRUE] \in CallType
         /\ [e EXCEPT !.marked = TRUE].sig = e.sig
         /\ [e EXCEPT !.size = n] \in CallType
         /\ [e EXCEPT !.size = n].sig = e.sig
BY DEF CallType

(* A step that moves one bot, and its locals, to typed values.             *)
Moves(b) ==
  /\ pc' = [pc EXCEPT ![b] = pc'[b]] /\ pc'[b] \in PCs
  /\ ex' = [ex EXCEPT ![b] = ex'[b]] /\ ex'[b] \in CallType
  /\ rd' = [rd EXCEPT ![b] = rd'[b]] /\ rd'[b] \in RoundType
  /\ pc'[b] \in InCall => ex'[b].sig \in Signals
  /\ pc'[b] \in Visiting => rd'[b].key \in Keys
  /\ pc'[b] \in GuardPlacing => rd'[b].prot \in RecordType

(* A step that only moves one bot keeps the bots well typed. *)
LEMMA MovesType ==
  ASSUME BotsOK, NEW b \in Bots, Moves(b)
  PROVE  BotsOK'
<1>1. pc' \in [Bots -> PCs] /\ ex' \in [Bots -> CallType] /\ rd' \in [Bots -> RoundType]
  BY DEF BotsOK, Moves
<1>2. ASSUME NEW c \in Bots
      PROVE  /\ pc'[c] \in InCall => ex'[c].sig \in Signals
             /\ pc'[c] \in Visiting => rd'[c].key \in Keys
             /\ pc'[c] \in GuardPlacing => rd'[c].prot \in RecordType
  <2>1. CASE c = b
    BY <2>1 DEF Moves
  <2>2. CASE c # b
    <3>1. pc'[c] = pc[c] /\ ex'[c] = ex[c] /\ rd'[c] = rd[c]
      BY <2>2 DEF Moves, BotsOK
    <3>2. QED
      BY <3>1 DEF BotsOK
  <2>3. QED
    BY <2>1, <2>2
<1>3. QED
  BY <1>1, <1>2 DEF BotsOK

(* The steps of an engine call. *)
LEMMA EngineType ==
  ASSUME TypeOK, NEW b \in Bots, EngineStep(b)
  PROVE  TypeOK'
<1> USE DEF GoTo, Sig, InCall, Visiting, GuardPlacing, GuardSection, ExecutionSection, PCs
<1>0. /\ ExchangeOK /\ RedisOK /\ BotsOK /\ RestOK
      /\ pc[b] \in InCall => ex[b].sig \in Signals
      /\ ex[b] \in CallType /\ faults \in 0..MaxFaults
      /\ pc \in [Bots -> PCs] /\ ex \in [Bots -> CallType] /\ rd \in [Bots -> RoundType]
      /\ rd[b] \in RoundType
  BY DEF TypeOK, BotsOK, RestOK
<1>1. CASE OpenLock(b)
  <2>1. Sig(b) \in Signals /\ ExecutionLock(Sig(b)) \in Locks
    BY <1>0, <1>1, SignalFacts DEF OpenLock
  <2>2. RedisOK' /\ faults' \in 0..MaxFaults
    BY <1>0, <1>1, <2>1, AcquireType DEF OpenLock, RedisOK, LockValues
  <2>3. GoTo(b, "open_dedupe") \/ GoTo(b, "finish")
    BY <1>1, <2>1, AcquireType DEF OpenLock
  <2>4. Moves(b)
    BY <1>0, <1>1, <2>1, <2>3 DEF OpenLock, Moves
  <2>5. QED
    BY <1>0, <1>1, <2>2, <2>4, MovesType DEF OpenLock, TypeOK, ExchangeOK, RestOK, exchange, history
<1>2. CASE OpenDedupe(b)
  <2>1. Sig(b) \in Signals /\ Bucket \in Nat
    BY <1>0, <1>2, BucketType DEF OpenDedupe
  <2>2. /\ \/ ex' = ex
           \/ ex' = [ex EXCEPT ![b] = [@ EXCEPT !.bucket = Bucket, !.checked = TRUE]]
           \/ ex' = [ex EXCEPT ![b] = [@ EXCEPT !.bucket = Bucket]]
        /\ GoTo(b, "release") \/ GoTo(b, "open_mark") \/ GoTo(b, "open_place")
    BY <1>2 DEF OpenDedupe
  <2>3. ex'[b] \in CallType /\ ex'[b].sig = ex[b].sig /\ ex' = [ex EXCEPT ![b] = ex'[b]]
    <3>1. \/ ex'[b] = ex[b]
          \/ ex'[b] = [ex[b] EXCEPT !.bucket = Bucket, !.checked = TRUE]
          \/ ex'[b] = [ex[b] EXCEPT !.bucket = Bucket]
      BY <1>0, <2>2
    <3>2. ex' = [ex EXCEPT ![b] = ex'[b]]
      BY <1>0, <2>2
    <3>3. Bucket \in Nat /\ ex[b].sig \in Signals
      BY <2>1
    <3>4. /\ [ex[b] EXCEPT !.bucket = Bucket, !.checked = TRUE] \in CallType
          /\ [ex[b] EXCEPT !.bucket = Bucket, !.checked = TRUE].sig = ex[b].sig
          /\ [ex[b] EXCEPT !.bucket = Bucket] \in CallType
          /\ [ex[b] EXCEPT !.bucket = Bucket].sig = ex[b].sig
      BY <1>0, <3>3, CallUpdates
    <3>5. QED
      BY <1>0, <3>1, <3>2, <3>4
  <2>4. Moves(b)
    BY <1>0, <1>2, <2>1, <2>2, <2>3 DEF OpenDedupe, Moves
  <2>5. faults' \in 0..MaxFaults
    BY <1>0, <1>2, TradingConstants DEF OpenDedupe, Answers, Fails, Fault
  <2>6. QED
    BY <1>0, <1>2, <2>4, <2>5, MovesType DEF OpenDedupe, TypeOK, ExchangeOK, RestOK, RedisOK, redis, exchange, history
<1>3. CASE OpenMark(b)
  <2>1. Sig(b) \in Signals
    BY <1>0, <1>3 DEF OpenMark
  <2>2. marks' \subseteq (Symbols \X Actions \X Nat) \X Nat
    <3>1. <<DedupeKey(Sig(b)), ex[b].bucket>> \in (Symbols \X Actions \X Nat) \X Nat
      BY <1>0, <2>1, SignalFacts DEF DedupeKey, CallType
    <3>2. QED
      BY <1>0, <1>3, <3>1 DEF OpenMark, RedisOK
  <2>3. ex'[b] \in CallType /\ ex'[b].sig = ex[b].sig /\ ex' = [ex EXCEPT ![b] = ex'[b]]
    <3>1. /\ [ex[b] EXCEPT !.marked = TRUE] \in CallType
          /\ [ex[b] EXCEPT !.marked = TRUE].sig = ex[b].sig
      BY <1>0, CallUpdates
    <3>2. ex' = ex \/ ex' = [ex EXCEPT ![b] = [@ EXCEPT !.marked = TRUE]]
      BY <1>3 DEF OpenMark
    <3>3. QED
      BY <1>0, <3>1, <3>2
  <2>4. Moves(b)
    BY <1>0, <1>3, <2>1, <2>3 DEF OpenMark, Moves
  <2>5. faults' \in 0..MaxFaults
    BY <1>0, <1>3, TradingConstants DEF OpenMark, Answers, Fails, Fault
  <2>6. QED
    BY <1>0, <1>3, <2>2, <2>4, <2>5, MovesType
       DEF OpenMark, TypeOK, ExchangeOK, RestOK, RedisOK, exchange, history
<1>4. CASE OpenPlace(b)
  <2>1. Sig(b) \in Signals
    BY <1>0, <1>4 DEF OpenPlace
  <2>2. EntryOrder(KeyOf(Sig(b)), Sig(b).price) \in OrderType
    BY <1>0, <2>1, SignalFacts, TradingConstants
       DEF EntryOrder, OrderType, BuyOrSell, ExchangeOK
  <2>3. PICK out \in Outcomes :
          /\ PlaceResting(EntryOrder(KeyOf(Sig(b)), Sig(b).price), out)
          /\ GoTo(b, IF out = "ok" THEN "open_save" ELSE "release")
          /\ attempts' = Append(attempts,
               [sig |-> Sig(b), at |-> now, bucket |-> ex[b].bucket, out |-> out,
                marked |-> ex[b].marked, checked |-> ex[b].checked])
    BY <1>4 DEF OpenPlace
  <2>4. ExchangeOK' /\ faults' \in 0..MaxFaults
    BY <2>2, <2>3, PlaceRestingType
  <2>5. attempts' \in Seq(AttemptType)
    <3>1. [sig |-> Sig(b), at |-> now, bucket |-> ex[b].bucket, out |-> out,
           marked |-> ex[b].marked, checked |-> ex[b].checked] \in AttemptType
      BY <1>0, <2>1 DEF AttemptType, CallType, RestOK
    <3>2. attempts \in Seq(AttemptType)
      BY <1>0 DEF RestOK
    <3>3. QED
      BY <2>3, <3>1, <3>2, AppendProperties
  <2>6. Moves(b)
    BY <1>0, <1>4, <2>1, <2>3 DEF OpenPlace, Moves
  <2>7. QED
    BY <1>0, <1>4, <2>4, <2>5, <2>6, MovesType
       DEF OpenPlace, TypeOK, RestOK, RedisOK, redis
<1>5. CASE OpenSave(b)
  <2>1. Sig(b) \in Signals /\ KeyOf(Sig(b)) \in Keys /\ Record(Sig(b)) \in RecordType
    BY <1>0, <1>5, SignalFacts DEF OpenSave
  <2>2. \/ protection' = protection
        \/ protection' = [protection EXCEPT ![KeyOf(Sig(b))] = Record(Sig(b))]
    BY <1>5 DEF OpenSave
  <2>3. protection' \in [Keys -> RecordType \cup {None}]
    BY <1>0, <2>1, <2>2 DEF RedisOK
  <2>4. Moves(b)
    BY <1>0, <1>5, <2>1 DEF OpenSave, Moves
  <2>5. faults' \in 0..MaxFaults
    BY <1>0, <1>5, TradingConstants DEF OpenSave, Answers, Fails, Fault
  <2>6. QED
    BY <1>0, <1>5, <2>3, <2>4, <2>5, MovesType
       DEF OpenSave, TypeOK, ExchangeOK, RestOK, RedisOK, exchange, history
<1>6. CASE CloseRead(b)
  <2>1. Sig(b) \in Signals
    BY <1>0, <1>6 DEF CloseRead
  <2>2. /\ \/ ex' = ex
           \/ \E k \in Keys : ex' = [ex EXCEPT ![b] = [@ EXCEPT !.size = pos[k]]]
        /\ GoTo(b, "close_lock") \/ GoTo(b, "finish")
    BY <1>6 DEF CloseRead, Listed, OpenKeys
  <2>3. ex'[b] \in CallType /\ ex'[b].sig = ex[b].sig /\ ex' = [ex EXCEPT ![b] = ex'[b]]
    <3>1. ASSUME NEW k \in Keys, ex' = [ex EXCEPT ![b] = [@ EXCEPT !.size = pos[k]]]
          PROVE  <2>3
      <4>1. pos[k] \in Nat
        BY <1>0 DEF ExchangeOK
      <4>2. /\ [ex[b] EXCEPT !.size = pos[k]] \in CallType
            /\ [ex[b] EXCEPT !.size = pos[k]].sig = ex[b].sig
        BY <1>0, <4>1, CallUpdates
      <4>3. QED
        BY <1>0, <3>1, <4>2
    <3>2. QED
      BY <1>0, <2>2, <3>1
  <2>4. Moves(b)
    BY <1>0, <1>6, <2>1, <2>2, <2>3 DEF CloseRead, Moves
  <2>5. faults' \in 0..MaxFaults
    BY <1>0, <1>6, TradingConstants DEF CloseRead, ExchangeAnswers, ExchangeFails, Fault
  <2>6. QED
    BY <1>0, <1>6, <2>4, <2>5, MovesType
       DEF CloseRead, TypeOK, ExchangeOK, RestOK, RedisOK, redis, exchange, history
<1>7. CASE CloseLock(b)
  <2>1. Sig(b) \in Signals /\ ExecutionLock(Sig(b)) \in Locks
    BY <1>0, <1>7, SignalFacts DEF CloseLock
  <2>2. RedisOK' /\ faults' \in 0..MaxFaults
    BY <1>0, <1>7, <2>1, AcquireType DEF CloseLock, RedisOK, LockValues
  <2>3. GoTo(b, "close_place") \/ GoTo(b, "finish")
    BY <1>7, <2>1, AcquireType DEF CloseLock
  <2>4. Moves(b)
    BY <1>0, <1>7, <2>1, <2>3 DEF CloseLock, Moves
  <2>5. QED
    BY <1>0, <1>7, <2>2, <2>4, MovesType DEF CloseLock, TypeOK, ExchangeOK, RestOK, exchange, history
<1>8. CASE ClosePlace(b)
  <2>1. Sig(b) \in Signals /\ KeyOf(Sig(b)) \in Keys /\ ex[b].size \in Nat
    BY <1>0, <1>8, SignalFacts DEF ClosePlace, CallType
  <2>2. PICK out \in Outcomes : PlaceMarketReduce(KeyOf(Sig(b)), ex[b].size, out)
    BY <1>8 DEF ClosePlace
  <2>3. ExchangeOK'
    <3>1. \/ pos' = pos
          \/ pos' = [pos EXCEPT ![KeyOf(Sig(b))] = Reduced(@, ex[b].size)]
      BY <2>2 DEF PlaceMarketReduce, exchange
    <3>2. pos' \in [Keys -> Nat]
      <4>1. Reduced(pos[KeyOf(Sig(b))], ex[b].size) \in Nat
        BY <1>0, <2>1, ReducedType DEF ExchangeOK
      <4>2. QED
        BY <1>0, <3>1, <4>1 DEF ExchangeOK
    <3>3. QED
      BY <1>0, <2>2, <3>2 DEF PlaceMarketReduce, ExchangeOK, exchange
  <2>4. faults' \in 0..MaxFaults
    BY <1>0, <2>2, TradingConstants
       DEF PlaceMarketReduce, OutcomeCost, ExchangeAnswers, ExchangeFails, Fault
  <2>5. Moves(b)
    BY <1>0, <1>8, <2>1 DEF ClosePlace, Moves
  <2>6. steady' \in [Bots -> SUBSET Keys]
    BY <1>0, <1>8 DEF ClosePlace, StillOpen, RestOK
  <2>7. QED
    BY <1>0, <1>8, <2>3, <2>4, <2>5, <2>6, MovesType
       DEF ClosePlace, TypeOK, RestOK, RedisOK, redis
<1>9. CASE Release(b)
  <2>1. Sig(b) \in Signals /\ ExecutionLock(Sig(b)) \in Locks
    BY <1>0, <1>9, SignalFacts DEF Release
  <2>2. RedisOK' /\ faults' \in 0..MaxFaults
    BY <1>0, <1>9, <2>1, ReleaseType DEF Release, RedisOK, LockValues
  <2>3. Moves(b)
    BY <1>0, <1>9 DEF Release, Moves
  <2>4. QED
    BY <1>0, <1>9, <2>2, <2>3, MovesType DEF Release, TypeOK, ExchangeOK, RestOK, exchange, history
<1>10. CASE Finish(b)
  <2>1. Moves(b)
    BY <1>0, <1>10, NoCallType DEF Finish, Back, Moves
  <2>2. QED
    BY <1>0, <1>10, <2>1, MovesType
       DEF Finish, TypeOK, ExchangeOK, RestOK, RedisOK, redis, exchange, history
<1>11. QED
  BY <1>1, <1>2, <1>3, <1>4, <1>5, <1>6, <1>7, <1>8, <1>9, <1>10 DEF EngineStep
(* The quantities of the two take-profit orders are natural numbers. *)
LEMMA AmountTypes ==
  ASSUME NEW size \in Nat
  PROVE  Amount1(size) \in Nat /\ Amount2(size) \in Nat
<1>1. FirstPart(size) \in Nat /\ FirstPart(size) <= size
  BY TradingConstants DEF FirstPart
<1>2. QED
  BY <1>1 DEF Amount1, Amount2

(* One protective order of the guard. *)
LEMMA GuardPlaceType ==
  ASSUME TypeOK, NEW b \in Bots, rd[b].key \in Keys, NEW qty \in Nat, NEW stop \in Nat,
         NEW type \in ProtectiveTypes, NEW name, NEW then,
         GuardPlace(b, name, type, qty, stop, then)
  PROVE  ExchangeOK' /\ faults' \in 0..MaxFaults
<1>1. ProtectiveOrder(rd[b].key, type, qty, stop) \in OrderType
  BY TradingConstants DEF ProtectiveOrder, OrderType, BuyOrSell, TypeOK, ExchangeOK
<1>2. CASE UNCHANGED <<exchange, faults>>
  BY <1>2 DEF TypeOK, ExchangeOK, RestOK, exchange
<1>3. CASE \E out \in Outcomes :
             PlaceResting(ProtectiveOrder(rd[b].key, type, qty, stop), out)
  BY <1>1, <1>3, PlaceRestingType
<1>4. QED
  BY <1>2, <1>3 DEF GuardPlace

(* Updates of the locals of a round. *)
LEMMA RoundUpdates ==
  ASSUME NEW r \in RoundType
  PROVE  /\ \A todo \in SUBSET Keys, key \in Keys \cup {None} :
              /\ [r EXCEPT !.todo = todo, !.key = key] \in RoundType
              /\ [r EXCEPT !.todo = todo, !.key = key].key = key
         /\ \A prot \in RecordType \cup {None} :
              /\ [r EXCEPT !.prot = prot] \in RoundType
              /\ [r EXCEPT !.prot = prot].key = r.key
              /\ [r EXCEPT !.prot = prot].prot = prot
         /\ \A has \in SUBSET {"sl", "tp1", "tp2"} :
              /\ [r EXCEPT !.has = has] \in RoundType
              /\ [r EXCEPT !.has = has].key = r.key
              /\ [r EXCEPT !.has = has].prot = r.prot
         /\ \A ids \in SUBSET Nat :
              /\ [r EXCEPT !.victims = ids] \in RoundType
              /\ [r EXCEPT !.victims = ids].key = r.key
BY DEF RoundType

(* The steps of a guard round. *)
LEMMA GuardType ==
  ASSUME TypeOK, NEW b \in Bots, GuardStep(b)
  PROVE  TypeOK'
<1> USE DEF GoTo, InCall, Visiting, GuardPlacing, GuardSection, ExecutionSection, PCs
<1>0. /\ ExchangeOK /\ RedisOK /\ BotsOK /\ RestOK
      /\ pc[b] \in Visiting => rd[b].key \in Keys
      /\ pc[b] \in GuardPlacing => rd[b].prot \in RecordType
      /\ rd[b] \in RoundType /\ faults \in 0..MaxFaults
      /\ pc \in [Bots -> PCs] /\ ex \in [Bots -> CallType] /\ rd \in [Bots -> RoundType]
      /\ ex[b] \in CallType
  BY DEF TypeOK, BotsOK, RestOK
<1>1. CASE GuardStart(b)
  <2>1. /\ \/ rd' = rd
           \/ rd' = [rd EXCEPT ![b] = [@ EXCEPT !.snap = pos, !.todo = OpenKeys]]
        /\ GoTo(b, "guard_lock") \/ GoTo(b, "brpop")
        /\ steady' = steady \/ steady' = [steady EXCEPT ![b] = OpenKeys]
    BY <1>1 DEF GuardStart
  <2>2. OpenKeys \in SUBSET Keys /\ pos \in [Keys -> Nat]
    BY <1>0 DEF OpenKeys, ExchangeOK
  <2>3. [rd[b] EXCEPT !.snap = pos, !.todo = OpenKeys] \in RoundType
    BY <1>0, <2>2 DEF RoundType
  <2>4. Moves(b)
    BY <1>0, <1>1, <2>1, <2>3 DEF GuardStart, Moves
  <2>5. faults' \in 0..MaxFaults
    BY <1>0, <1>1, TradingConstants DEF GuardStart, ExchangeAnswers, ExchangeFails, Fault
  <2>6. steady' \in [Bots -> SUBSET Keys]
    BY <1>0, <2>1, <2>2 DEF RestOK
  <2>7. QED
    BY <1>0, <1>1, <2>4, <2>5, <2>6, MovesType
       DEF GuardStart, TypeOK, ExchangeOK, RestOK, RedisOK, redis, exchange
<1>2. CASE GuardTake(b)
  <2>1. PICK k \in rd[b].todo :
          /\ AcquireLock(b, GuardLock(k), "guard_read", "guard_lock")
          /\ rd' = [rd EXCEPT ![b] = [rd[b] EXCEPT !.todo = @ \ {k}, !.key = k]]
    BY <1>2 DEF GuardTake
  <2>2. k \in Keys /\ GuardLock(k) \in Locks
    BY <1>0, <2>1 DEF RoundType, GuardLock, Locks
  <2>3. RedisOK' /\ faults' \in 0..MaxFaults
    BY <1>0, <1>2, <2>1, <2>2, AcquireType DEF GuardTake, RedisOK, LockValues
  <2>4. GoTo(b, "guard_read") \/ GoTo(b, "guard_lock")
    BY <2>1, <2>2, AcquireType
  <2>5. rd'[b] \in RoundType /\ rd'[b].key \in Keys
    <3>1. /\ [rd[b] EXCEPT !.todo = @ \ {k}, !.key = k] \in RoundType
          /\ [rd[b] EXCEPT !.todo = @ \ {k}, !.key = k].key = k
      BY <1>0, <2>2 DEF RoundType
    <3>2. rd' = [rd EXCEPT ![b] = [rd[b] EXCEPT !.todo = @ \ {k}, !.key = k]]
      BY <2>1
    <3>3. rd'[b] = [rd[b] EXCEPT !.todo = @ \ {k}, !.key = k]
      BY <1>0, <3>2
    <3>4. QED
      BY <2>2, <3>1, <3>3
  <2>6. Moves(b)
    BY <1>0, <1>2, <2>1, <2>4, <2>5 DEF GuardTake, Moves
  <2>7. QED
    BY <1>0, <1>2, <2>3, <2>6, MovesType DEF GuardTake, TypeOK, ExchangeOK, RestOK, exchange, history
<1>3. CASE Positioned(b)
  <2>1. Moves(b)
    BY <1>0, <1>3 DEF Positioned, Moves
  <2>2. QED
    BY <1>0, <1>3, <2>1, MovesType
       DEF Positioned, TypeOK, ExchangeOK, RestOK, RedisOK, redis, exchange, history
<1>4. CASE GuardRead(b)
  <2> DEFINE prot == protection[rd[b].key]
  <2>1. rd[b].key \in Keys /\ prot \in RecordType \cup {None}
    BY <1>0, <1>4 DEF GuardRead, RedisOK
  <2>2. \/ GoTo(b, "guard_orders") /\ rd' = [rd EXCEPT ![b].prot = prot] /\ Valid(prot)
        \/ GoTo(b, "guard_release") /\ rd' = rd
    BY <1>4 DEF GuardRead
  <2> HIDE DEF prot
  <2>3. /\ rd' = [rd EXCEPT ![b] = rd'[b]] /\ rd'[b] \in RoundType
        /\ rd'[b].key \in Keys
        /\ pc'[b] = "guard_orders" => rd'[b].prot \in RecordType
    <3>1. /\ [rd[b] EXCEPT !.prot = prot] \in RoundType
          /\ [rd[b] EXCEPT !.prot = prot].key = rd[b].key
          /\ [rd[b] EXCEPT !.prot = prot].prot = prot
      BY <1>0, <2>1, RoundUpdates
    <3>2. rd' = rd \/ rd' = [rd EXCEPT ![b] = [rd[b] EXCEPT !.prot = prot]]
      BY <1>0, <2>2
    <3>3. GoTo(b, "guard_orders") =>
            /\ rd' = [rd EXCEPT ![b] = [rd[b] EXCEPT !.prot = prot]]
            /\ prot \in RecordType
      BY <1>0, <2>1, <2>2 DEF Valid
    <3>4. GoTo(b, "guard_orders") \/ pc'[b] # "guard_orders"
      BY <1>0, <2>2
    <3>5. QED
      BY <1>0, <2>1, <3>1, <3>2, <3>3, <3>4
  <2>4. Moves(b)
    BY <1>0, <1>4, <2>2, <2>3 DEF GuardRead, Moves
  <2>5. faults' \in 0..MaxFaults
    BY <1>0, <1>4, TradingConstants DEF GuardRead, Answers, Fails, Fault
  <2>6. QED
    BY <1>0, <1>4, <2>4, <2>5, MovesType
       DEF GuardRead, TypeOK, ExchangeOK, RestOK, RedisOK, redis, exchange, history
<1>5. CASE GuardOrders(b)
  <2>1. PICK has \in SUBSET {"sl", "tp1", "tp2"} : rd' = [rd EXCEPT ![b].has = has]
    <3>1. Present(rd[b].key, rd[b].prot) \in SUBSET {"sl", "tp1", "tp2"}
      BY DEF Present
    <3>2. QED
      BY <1>5, <3>1 DEF GuardOrders
  <2>2. /\ [rd[b] EXCEPT !.has = has] \in RoundType
        /\ [rd[b] EXCEPT !.has = has].key = rd[b].key
        /\ [rd[b] EXCEPT !.has = has].prot = rd[b].prot
    BY <1>0, RoundUpdates
  <2>3. rd' = [rd EXCEPT ![b] = [rd[b] EXCEPT !.has = has]]
    BY <1>0, <2>1
  <2>4. Moves(b)
    <3>1. rd'[b] = [rd[b] EXCEPT !.has = has] /\ pc' = [pc EXCEPT ![b] = "guard_sl"] /\ ex' = ex
      BY <1>0, <1>5, <2>3 DEF GuardOrders
    <3>2. rd[b].key \in Keys
      BY <1>0, <1>5 DEF GuardOrders
    <3>3. rd'[b] \in RoundType /\ rd'[b].key \in Keys /\ rd'[b].prot = rd[b].prot
      BY <2>2, <3>1, <3>2
    <3>4. rd[b].prot \in RecordType
      BY <1>0, <1>5 DEF GuardOrders
    <3>5. QED
      BY <1>0, <2>3, <3>1, <3>3, <3>4 DEF Moves
  <2>5. faults' \in 0..MaxFaults
    BY <1>0, <1>5, TradingConstants DEF GuardOrders, ExchangeAnswers, ExchangeFails, Fault
  <2>6. QED
    BY <1>0, <1>5, <2>4, <2>5, MovesType
       DEF GuardOrders, TypeOK, ExchangeOK, RestOK, RedisOK, redis, exchange, history
<1>6. CASE GuardStop(b) \/ GuardTarget1(b) \/ GuardTarget2(b)
  <2>1. rd[b].key \in Keys /\ rd[b].prot \in RecordType
    BY <1>0, <1>6 DEF GuardStop, GuardTarget1, GuardTarget2
  <2>2. /\ Size(b) \in Nat /\ Amount1(Size(b)) \in Nat /\ Amount2(Size(b)) \in Nat
        /\ rd[b].prot.sl \in Nat /\ rd[b].prot.tp1 \in Nat /\ rd[b].prot.tp2 \in Nat
    <3>1. Size(b) \in Nat
      BY <1>0, <2>1 DEF Size, RoundType
    <3>2. QED
      BY <2>1, <3>1, AmountTypes DEF RecordType
  <2>3. PICK name \in {"sl", "tp1", "tp2"}, type \in ProtectiveTypes, qty \in Nat,
             stop \in Nat, then \in {"guard_tp1", "guard_tp2", "guard_release"} :
          GuardPlace(b, name, type, qty, stop, then)
    <3>1. "STOP_MARKET" \in ProtectiveTypes /\ "TAKE_PROFIT_MARKET" \in ProtectiveTypes
      BY DEF ProtectiveTypes
    <3>2. CASE GuardStop(b)
      BY <2>2, <3>1, <3>2 DEF GuardStop
    <3>3. CASE GuardTarget1(b)
      BY <2>2, <3>1, <3>3 DEF GuardTarget1
    <3>4. CASE GuardTarget2(b)
      BY <2>2, <3>1, <3>4 DEF GuardTarget2
    <3>5. QED
      BY <1>6, <3>2, <3>3, <3>4
  <2>4. ExchangeOK' /\ faults' \in 0..MaxFaults
    BY <2>1, <2>3, GuardPlaceType
  <2>5. Moves(b)
    BY <1>0, <2>1, <2>3 DEF GuardPlace, Moves
  <2>6. QED
    BY <1>0, <2>3, <2>4, <2>5, MovesType DEF GuardPlace, TypeOK, RestOK, RedisOK, redis, history
<1>7. CASE GuardRelease(b)
  <2>1. rd[b].key \in Keys /\ GuardLock(rd[b].key) \in Locks
    BY <1>0, <1>7 DEF GuardRelease, GuardLock, Locks
  <2>2. RedisOK' /\ faults' \in 0..MaxFaults
    BY <1>0, <1>7, <2>1, ReleaseType DEF GuardRelease, RedisOK, LockValues
  <2>3. [NoRound EXCEPT !.snap = rd[b].snap, !.todo = rd[b].todo] \in RoundType
    BY <1>0 DEF NoRound, RoundType
  <2>4. Moves(b)
    BY <1>0, <1>7, <2>3 DEF GuardRelease, Moves
  <2>5. QED
    BY <1>0, <1>7, <2>2, <2>4, MovesType
       DEF GuardRelease, TypeOK, ExchangeOK, RestOK, exchange, history
<1>8. CASE CleanScan(b) \/ CleanEnd(b)
  <2>1. PICK r \in RoundType : rd' = [rd EXCEPT ![b] = r]
    <3>1. [rd[b] EXCEPT !.todo = {k \in Keys : protection[k] # None /\ rd[b].snap[k] = 0}]
            \in RoundType
      BY <1>0 DEF RoundType
    <3>2. QED
      BY <1>0, <1>8, <3>1, NoRoundType DEF CleanScan, CleanEnd, EndRound
  <2>2. Moves(b)
    BY <1>0, <1>8, <2>1 DEF CleanScan, CleanEnd, EndRound, Moves
  <2>3. faults' \in 0..MaxFaults
    BY <1>0, <1>8, TradingConstants DEF CleanScan, CleanEnd, Answers, Fails, Fault
  <2>4. steady' \in [Bots -> SUBSET Keys]
    BY <1>0, <1>8 DEF CleanScan, CleanEnd, EndRound, RestOK
  <2>5. QED
    BY <1>0, <1>8, <2>2, <2>3, <2>4, MovesType
       DEF CleanScan, CleanEnd, TypeOK, ExchangeOK, RestOK, RedisOK, redis, exchange
<1>9. CASE CleanOrders(b)
  <2>1. PICK k \in rd[b].todo, ids \in SUBSET Nat :
          rd' = [rd EXCEPT ![b] = [rd[b] EXCEPT !.todo = @ \ {k}, !.key = k, !.victims = ids]]
    <3>1. ASSUME NEW k \in Keys
          PROVE  {o.id : o \in {o \in orders : o.key = k /\ o.type \in ProtectiveTypes}}
                   \in SUBSET Nat
      BY <1>0 DEF ExchangeOK, OrderType
    <3>2. rd[b].todo \subseteq Keys
      BY <1>0 DEF RoundType
    <3>3. QED
      BY <1>9, <3>1, <3>2 DEF CleanOrders
  <2>2. /\ [rd[b] EXCEPT !.todo = @ \ {k}, !.key = k, !.victims = ids] \in RoundType
        /\ [rd[b] EXCEPT !.todo = @ \ {k}, !.key = k, !.victims = ids].key \in Keys
    BY <1>0 DEF RoundType
  <2>3. Moves(b)
    BY <1>0, <1>9, <2>1, <2>2 DEF CleanOrders, Moves
  <2>4. faults' \in 0..MaxFaults
    BY <1>0, <1>9, TradingConstants DEF CleanOrders, ExchangeAnswers, ExchangeFails, Fault
  <2>5. QED
    BY <1>0, <1>9, <2>3, <2>4, MovesType
       DEF CleanOrders, TypeOK, ExchangeOK, RestOK, RedisOK, redis, exchange, history
<1>10. CASE CleanCancel(b)
  <2>1. PICK v \in rd[b].victims : rd' = [rd EXCEPT ![b].victims = rd[b].victims \ {v}]
    BY <1>10 DEF CleanCancel
  <2>2. /\ [rd[b] EXCEPT !.victims = rd[b].victims \ {v}] \in RoundType
        /\ [rd[b] EXCEPT !.victims = rd[b].victims \ {v}].key = rd[b].key
    BY <1>0, RoundUpdates DEF RoundType
  <2>3. rd' = [rd EXCEPT ![b] = [rd[b] EXCEPT !.victims = rd[b].victims \ {v}]]
    BY <1>0, <2>1
  <2>4. Moves(b)
    BY <1>0, <1>10, <2>2, <2>3 DEF CleanCancel, Moves
  <2>5. orders' \subseteq orders /\ faults' \in 0..MaxFaults
    BY <1>0, <1>10, TradingConstants DEF CleanCancel, ExchangeAnswers, ExchangeFails, Fault
  <2>6. QED
    BY <1>0, <1>10, <2>4, <2>5, MovesType
       DEF CleanCancel, TypeOK, ExchangeOK, RestOK, RedisOK, redis, history
<1>11. CASE CleanDel(b)
  <2>1. rd' = [rd EXCEPT ![b] = [rd[b] EXCEPT !.key = None]]
    BY <1>0, <1>11 DEF CleanDel
  <2>2. [rd[b] EXCEPT !.key = None] \in RoundType
    BY <1>0 DEF RoundType
  <2>3. Moves(b)
    BY <1>0, <1>11, <2>1, <2>2 DEF CleanDel, Moves
  <2>4. faults' \in 0..MaxFaults
    BY <1>0, <1>11, TradingConstants DEF CleanDel, Answers, Fails, Fault
  <2>5. protection' \in [Keys -> RecordType \cup {None}]
    BY <1>0, <1>11 DEF CleanDel, RedisOK
  <2>6. QED
    BY <1>0, <1>11, <2>3, <2>4, <2>5, MovesType
       DEF CleanDel, TypeOK, ExchangeOK, RestOK, RedisOK, exchange, history
<1>12. QED
  BY <1>1, <1>2, <1>3, <1>4, <1>5, <1>6, <1>7, <1>8, <1>9, <1>10, <1>11 DEF GuardStep

(* The loop, the life of the process, and the environment. *)
LEMMA LoopType ==
  ASSUME TypeOK, NEW b \in Bots,
         LoopStep(b) \/ Shutdown(b) \/ Die(b) \/ Restart(b)
  PROVE  TypeOK'
<1> USE DEF GoTo, InCall, Visiting, GuardPlacing, GuardSection, ExecutionSection, PCs
<1>0. /\ ExchangeOK /\ RedisOK /\ BotsOK /\ RestOK
      /\ pc \in [Bots -> PCs] /\ ex \in [Bots -> CallType] /\ rd \in [Bots -> RoundType]
      /\ ex[b] \in CallType /\ rd[b] \in RoundType /\ faults \in 0..MaxFaults
  BY DEF TypeOK, BotsOK, RestOK
<1>1. CASE Pop(b)
  <2>1. Head(queue) \in Signals /\ queue' \in Seq(Signals)
    BY <1>0, <1>1, HeadTailProperties DEF Pop, RedisOK
  <2>2. /\ [ex[b] EXCEPT !.sig = Head(queue)] \in CallType
        /\ [ex[b] EXCEPT !.sig = Head(queue)].sig = Head(queue)
    BY <1>0, <2>1 DEF CallType
  <2>3. ex' = [ex EXCEPT ![b] = [ex[b] EXCEPT !.sig = Head(queue)]]
    BY <1>0, <1>1 DEF Pop
  <2>4. Moves(b)
    <3>1. pc' = [pc EXCEPT ![b] = Dispatch(Head(queue))] /\ rd' = rd
      BY <1>1 DEF Pop
    <3>2. Dispatch(Head(queue)) \in {"close_read", "open_lock", "finish"}
      BY DEF Dispatch
    <3>3. pc'[b] \in {"close_read", "open_lock", "finish"} /\ pc' = [pc EXCEPT ![b] = pc'[b]]
      BY <1>0, <3>1, <3>2
    <3>4. ex'[b] \in CallType /\ ex'[b].sig \in Signals /\ ex' = [ex EXCEPT ![b] = ex'[b]]
      BY <1>0, <2>1, <2>2, <2>3
    <3>5. QED
      BY <1>0, <3>1, <3>3, <3>4 DEF Moves
  <2>5. QED
    BY <1>0, <1>1, <2>1, <2>4, MovesType
       DEF Pop, TypeOK, ExchangeOK, RestOK, RedisOK, exchange, history
<1>2. CASE PopTimeout(b)
  <2>1. Moves(b)
    BY <1>0, <1>2 DEF PopTimeout, Moves
  <2>2. QED
    BY <1>0, <1>2, <2>1, MovesType
       DEF PopTimeout, TypeOK, ExchangeOK, RestOK, RedisOK, redis, exchange, history
<1>3. CASE Shutdown(b)
  BY <1>0, <1>3, FaultFacts
     DEF Shutdown, TypeOK, ExchangeOK, RestOK, RedisOK, BotsOK, redis, exchange, history
<1>4. CASE Die(b)
  <2>1. Moves(b)
    BY <1>0, <1>4, NoCallType, NoRoundType DEF Die, Moves
  <2>2. lock' \in [Locks -> Bots \cup {Free, Orphan}]
    BY <1>0, <1>4 DEF Die, RedisOK
  <2>3. faults' \in 0..MaxFaults
    BY <1>0, <1>4, FaultFacts DEF Die
  <2>4. QED
    BY <1>0, <1>4, <2>1, <2>2, <2>3, MovesType
       DEF Die, TypeOK, ExchangeOK, RestOK, RedisOK, exchange
<1>5. CASE Restart(b)
  <2>1. Moves(b)
    BY <1>0, <1>5 DEF Restart, Moves
  <2>2. QED
    BY <1>0, <1>5, <2>1, MovesType
       DEF Restart, TypeOK, ExchangeOK, RestOK, RedisOK, redis, exchange, history
<1>6. QED
  BY <1>1, <1>2, <1>3, <1>4, <1>5 DEF LoopStep

(* Steps of the exchange, of Redis and of time keep every type. *)
LEMMA EnvironmentType ==
  ASSUME TypeOK, Environment
  PROVE  TypeOK'
<1>0. ExchangeOK /\ RedisOK /\ BotsOK /\ RestOK
  BY DEF TypeOK
<1>1. ASSUME NEW o \in orders, NEW qty \in 1..o.qty, FillEntry(o, qty)
      PROVE  TypeOK'
  <2>1. o \in OrderType /\ o.key \in Keys /\ o.qty \in Nat /\ qty \in Nat
    BY <1>0 DEF ExchangeOK, OrderType
  <2>2. pos' \in [Keys -> Nat]
    BY <1>0, <1>1, <2>1 DEF FillEntry, ExchangeOK
  <2>3. orders' \subseteq OrderType
    <3>1. qty < o.qty => [o EXCEPT !.qty = @ - qty] \in OrderType
      BY <2>1 DEF OrderType
    <3>2. QED
      BY <1>0, <1>1, <3>1 DEF FillEntry, ExchangeOK
  <2>4. QED
    BY <1>0, <1>1, <2>2, <2>3
       DEF FillEntry, TypeOK, ExchangeOK, RestOK, RedisOK, BotsOK, redis, history
<1>2. ASSUME NEW o \in orders, Trigger(o)
      PROVE  TypeOK'
  <2>1. o.key \in Keys /\ o.qty \in Nat
    BY <1>0 DEF ExchangeOK, OrderType
  <2>2. pos' \in [Keys -> Nat]
    <3>1. Reduced(pos[o.key], o.qty) \in Nat
      BY <1>0, <2>1, ReducedType DEF ExchangeOK
    <3>2. QED
      BY <1>0, <1>2, <3>1 DEF Trigger, ExchangeOK
  <2>3. steady' \in [Bots -> SUBSET Keys]
    BY <1>0, <1>2 DEF Trigger, StillOpen, RestOK
  <2>4. QED
    BY <1>0, <1>2, <2>2, <2>3
       DEF Trigger, TypeOK, ExchangeOK, RestOK, RedisOK, BotsOK, redis
<1>3. ASSUME NEW l \in Locks, OrphanExpires(l)
      PROVE  TypeOK'
  BY <1>0, <1>3 DEF OrphanExpires, TypeOK, ExchangeOK, RestOK, RedisOK, BotsOK, exchange, history
<1>4. ASSUME NEW k \in Keys, ProtectionExpires(k)
      PROVE  TypeOK'
  BY <1>0, <1>4, FaultFacts
     DEF ProtectionExpires, TypeOK, ExchangeOK, RestOK, RedisOK, BotsOK, exchange, history
<1>5. ASSUME NEW s \in Signals, Push(s)
      PROVE  TypeOK'
  <2>1. queue' \in Seq(Signals) /\ pushed' \in 0..MaxSignals
    BY <1>0, <1>5, AppendProperties, TradingConstants DEF Push, RedisOK, RestOK
  <2>2. QED
    BY <1>0, <1>5, <2>1
       DEF Push, TypeOK, ExchangeOK, RestOK, RedisOK, BotsOK, exchange, history
<1>6. CASE Tick
  BY <1>0, <1>6 DEF Tick, TypeOK, ExchangeOK, RestOK, RedisOK, BotsOK, redis, exchange, history
<1>7. QED
  BY <1>1, <1>2, <1>3, <1>4, <1>5, <1>6 DEF Environment

(* Type correctness of the exchange, Redis, every bot and the histories.   *)
THEOREM TypeCorrect == Spec => []TypeOK
<1>1. Init => TypeOK
  <2> SUFFICES ASSUME Init
               PROVE  TypeOK
    OBVIOUS
  <2>1. ExchangeOK
    BY TradingConstants DEF Init, ExchangeOK
  <2>2. RedisOK
    BY DEF Init, RedisOK
  <2>3. BotsOK
    BY NoCallType, NoRoundType
       DEF Init, BotsOK, PCs, InCall, Visiting, GuardPlacing, GuardSection, ExecutionSection
  <2>4. RestOK
    BY TradingConstants DEF Init, RestOK
  <2>5. QED
    BY <2>1, <2>2, <2>3, <2>4 DEF TypeOK
<1>2. TypeOK /\ [Next]_vars => TypeOK'
  <2> SUFFICES ASSUME TypeOK, [Next]_vars
               PROVE  TypeOK'
    OBVIOUS
  <2>1. CASE UNCHANGED vars
    BY <2>1 DEF vars, TypeOK, ExchangeOK, RedisOK, BotsOK, RestOK, exchange, redis, history
  <2>2. ASSUME NEW b \in Bots, BotStep(b) \/ Shutdown(b) \/ Die(b) \/ Restart(b)
        PROVE  TypeOK'
    BY <2>2, EngineType, GuardType, LoopType DEF BotStep
  <2>3. QED
    BY <2>1, <2>2, EnvironmentType DEF Next
<1>3. QED
  BY <1>1, <1>2, PTL DEF Spec


-----------------------------------------------------------------------------
(* Safety: the sections under one lock exclude each other, and a dedupe    *)
(* mark that was set and can be read is respected.                         *)

(***************************************************************************)
(* Exclusion.  SectionsExclusive is not inductive: nothing in it says why  *)
(* acquireLock fails while another bot is inside.  What is: a bot in a     *)
(* section is the value of the section's lock key.                         *)
(***************************************************************************)
HoldsLocks(b) ==
  /\ pc[b] \in ExecutionSection => lock[ExecutionLock(Sig(b))] = b
  /\ pc[b] \in GuardSection => lock[GuardLock(rd[b].key)] = b

LockInv == \A b \in Bots : HoldsLocks(b)

(* A step that is local to b. *)
LocalTo(b) ==
  \A c \in Bots \ {b} : pc'[c] = pc[c] /\ ex'[c] = ex[c] /\ rd'[c] = rd[c]

(* No lock is taken away from another bot. *)
LeavesLocks(b) ==
  \A l \in Locks, c \in Bots \ {b} : lock[l] = c => lock'[l] = c

(* What a step of b may do to a key: end no section and free no key, end   *)
(* its own section, or take a free key.                                    *)
SectionMoves(b, l) ==
  \/ (lock'[l] = Free <=> lock[l] = Free) /\ (UnderLock(b, l)' => UnderLock(b, l))
  \/ UnderLock(b, l) /\ ~UnderLock(b, l)'
  \/ lock[l] = Free /\ lock'[l] # Free

(* acquireLock takes no key from its holder, and success means holding it. *)
LEMMA AcquireFacts ==
  ASSUME TypeOK, NEW b \in Bots, NEW l \in Locks, NEW then, NEW otherwise,
         then # otherwise, AcquireLock(b, l, then, otherwise)
  PROVE  /\ \A m \in Locks, c \in Bots : lock[m] = c => lock'[m] = c
         /\ pc'[b] = then => lock'[l] = b
         /\ pc'[b] \in {then, otherwise}
BY TradingConstants DEF TypeOK, RedisOK, BotsOK, AcquireLock, GoTo

(* It takes no key that is not free. *)
LEMMA AcquireMoves ==
  ASSUME TypeOK, NEW b \in Bots, NEW l \in Locks, NEW then, NEW otherwise,
         then # otherwise, AcquireLock(b, l, then, otherwise),
         \A m \in Locks : UnderLock(b, m)' => m = l /\ pc'[b] = then
  PROVE  \A m \in Locks : SectionMoves(b, m)
<1>1. /\ lock \in [Locks -> LockValues] /\ pc \in [Bots -> PCs]
      /\ b # Free /\ Orphan # Free
  BY TradingConstants DEF TypeOK, RedisOK, BotsOK, LockValues
<1>2. \/ lock[l] = Free /\ lock'[l] # Free
      \/ lock' = lock /\ pc'[b] # then
  BY <1>1 DEF AcquireLock, GoTo
<1>3. \A m \in Locks \ {l} : lock'[m] = lock[m]
  BY <1>1 DEF AcquireLock
<1>4. QED
  BY <1>2, <1>3 DEF SectionMoves

(* releaseLock leaves the keys of the others alone. *)
LEMMA ReleaseFacts ==
  ASSUME TypeOK, NEW b \in Bots, NEW l \in Locks, ReleaseLock(b, l)
  PROVE  LeavesLocks(b)
<1>1. lock' = [lock EXCEPT ![l] = lock'[l]] /\ (lock[l] # b => lock'[l] = lock[l])
  BY DEF TypeOK, RedisOK, ReleaseLock
<1>2. QED
  BY <1>1 DEF TypeOK, RedisOK, LeavesLocks

(* It ends a section of its own. *)
LEMMA ReleaseMoves ==
  ASSUME TypeOK, NEW b \in Bots, NEW l \in Locks, ReleaseLock(b, l),
         UnderLock(b, l), \A m \in Locks : ~UnderLock(b, m)'
  PROVE  \A m \in Locks : SectionMoves(b, m)
<1>1. \A m \in Locks \ {l} : lock'[m] = lock[m]
  BY DEF TypeOK, RedisOK, ReleaseLock
<1>2. QED
  BY <1>1 DEF SectionMoves

(* A step of one bot that leaves the other keys alone keeps LockInv. *)
LEMMA LockKept ==
  ASSUME TypeOK, TypeOK', LockInv, NEW b \in Bots,
         LocalTo(b), LeavesLocks(b), HoldsLocks(b)'
  PROVE  LockInv'
<1>1. SUFFICES ASSUME NEW c \in Bots \ {b}
               PROVE  HoldsLocks(c)'
  BY DEF LockInv
<1>2. HoldsLocks(c) /\ pc'[c] = pc[c] /\ ex'[c] = ex[c] /\ rd'[c] = rd[c]
  BY DEF LockInv, LocalTo
<1>3. ASSUME pc[c] \in ExecutionSection
      PROVE  lock'[ExecutionLock(ex[c].sig)] = c
  <2>1. ExecutionLock(ex[c].sig) \in Locks
    BY <1>3, SignalFacts DEF TypeOK, BotsOK, InCall
  <2>2. QED
    BY <1>2, <1>3, <2>1 DEF HoldsLocks, LeavesLocks, Sig
<1>4. ASSUME pc[c] \in GuardSection
      PROVE  lock'[GuardLock(rd[c].key)] = c
  <2>1. GuardLock(rd[c].key) \in Locks
    BY <1>4 DEF TypeOK, BotsOK, Visiting, GuardLock, Locks
  <2>2. QED
    BY <1>2, <1>4, <2>1 DEF HoldsLocks, LeavesLocks
<1>5. QED
  BY <1>2, <1>3, <1>4 DEF HoldsLocks, Sig

(* A step that takes and releases no lock, and stays in or leaves the      *)
(* section it is in.                                                       *)
LEMMA QuietStep ==
  ASSUME TypeOK, TypeOK', LockInv, NEW b \in Bots, LocalTo(b), lock' = lock,
         pc'[b] \in ExecutionSection => pc[b] \in ExecutionSection /\ ex'[b].sig = ex[b].sig,
         pc'[b] \in GuardSection => pc[b] \in GuardSection /\ rd'[b].key = rd[b].key
  PROVE  LockInv' /\ \A l \in Locks : SectionMoves(b, l)
<1>1. LeavesLocks(b)
  BY DEF LeavesLocks
<1>2. HoldsLocks(b)'
  BY DEF LockInv, HoldsLocks, Sig
<1>3. ASSUME NEW l \in Locks
      PROVE  SectionMoves(b, l)
  <2>1. UnderLock(b, l)' => UnderLock(b, l)
    BY DEF UnderLock, Sig
  <2>2. QED
    BY <2>1 DEF SectionMoves
<1>4. QED
  BY <1>1, <1>2, <1>3, LockKept

(* The steps of the two engine calls keep LockInv. *)
LEMMA EngineLocks ==
  ASSUME TypeOK, TypeOK', LockInv, NEW b \in Bots, EngineStep(b)
  PROVE  LockInv' /\ LocalTo(b) /\ \A l \in Locks : SectionMoves(b, l)
<1> USE DEF GoTo, GuardPlacing, GuardSection, ExecutionSection
<1>0. /\ pc \in [Bots -> PCs] /\ ex \in [Bots -> CallType] /\ ex[b] \in CallType
      /\ pc[b] \in InCall => ExecutionLock(Sig(b)) \in Locks
  BY SignalFacts DEF TypeOK, BotsOK, Sig
<1>1. CASE OpenLock(b)
  <2>1. LocalTo(b) /\ ex' = ex
    BY <1>0, <1>1 DEF OpenLock, LocalTo, AcquireLock
  <2>2. ExecutionLock(Sig(b)) \in Locks
    BY <1>0, <1>1 DEF OpenLock, InCall
  <2>3. AcquireLock(b, ExecutionLock(Sig(b)), "open_dedupe", "finish")
    BY <1>1 DEF OpenLock
  <2>4. LeavesLocks(b) /\ HoldsLocks(b)'
    BY <2>1, <2>2, <2>3, AcquireFacts DEF LeavesLocks, HoldsLocks, Sig
  <2>5. \A m \in Locks : SectionMoves(b, m)
    <3>1. pc'[b] \in {"open_dedupe", "finish"}
      BY <2>2, <2>3, AcquireFacts
    <3>2. \A m \in Locks :
            UnderLock(b, m)' => m = ExecutionLock(Sig(b)) /\ pc'[b] = "open_dedupe"
      BY <2>1, <3>1 DEF UnderLock, Sig
    <3>3. QED
      BY <2>2, <2>3, <3>2, AcquireMoves
  <2>6. QED
    BY <2>1, <2>4, <2>5, LockKept
<1>2. CASE OpenDedupe(b)
  <2>1. LocalTo(b) /\ lock' = lock
    BY <1>0, <1>2 DEF OpenDedupe, LocalTo, redis
  <2>2. ex'[b].sig = ex[b].sig /\ pc[b] \in ExecutionSection /\ pc'[b] \notin GuardSection
    <3>1. /\ [ex[b] EXCEPT !.bucket = Bucket, !.checked = TRUE].sig = ex[b].sig
          /\ [ex[b] EXCEPT !.bucket = Bucket].sig = ex[b].sig
      BY <1>0 DEF CallType
    <3>2. QED
      BY <1>0, <1>2, <3>1 DEF OpenDedupe
  <2>3. QED
    BY <2>1, <2>2, QuietStep
<1>3. CASE OpenMark(b)
  <2>1. LocalTo(b) /\ lock' = lock
    BY <1>0, <1>3 DEF OpenMark, LocalTo
  <2>2. ex'[b].sig = ex[b].sig /\ pc[b] \in ExecutionSection /\ pc'[b] \notin GuardSection
    BY <1>0, <1>3 DEF OpenMark, CallType
  <2>3. QED
    BY <2>1, <2>2, QuietStep
<1>4. CASE OpenPlace(b)
  <2>1. LocalTo(b) /\ lock' = lock /\ ex' = ex
    BY <1>0, <1>4 DEF OpenPlace, LocalTo, redis
  <2>2. pc[b] \in ExecutionSection /\ pc'[b] \notin GuardSection
    BY <1>0, <1>4 DEF OpenPlace
  <2>3. QED
    BY <2>1, <2>2, QuietStep
<1>5. CASE OpenSave(b)
  <2>1. LocalTo(b) /\ lock' = lock /\ ex' = ex
    BY <1>0, <1>5 DEF OpenSave, LocalTo
  <2>2. pc[b] \in ExecutionSection /\ pc'[b] \notin GuardSection
    BY <1>0, <1>5 DEF OpenSave
  <2>3. QED
    BY <2>1, <2>2, QuietStep
<1>6. CASE CloseRead(b)
  <2>1. LocalTo(b) /\ lock' = lock
    BY <1>0, <1>6 DEF CloseRead, LocalTo, redis
  <2>2. pc'[b] \notin ExecutionSection /\ pc'[b] \notin GuardSection
    BY <1>0, <1>6 DEF CloseRead
  <2>3. QED
    BY <2>1, <2>2, QuietStep
<1>7. CASE CloseLock(b)
  <2>1. LocalTo(b) /\ ex' = ex
    BY <1>0, <1>7 DEF CloseLock, LocalTo, AcquireLock
  <2>2. ExecutionLock(Sig(b)) \in Locks
    BY <1>0, <1>7 DEF CloseLock, InCall
  <2>3. AcquireLock(b, ExecutionLock(Sig(b)), "close_place", "finish")
    BY <1>7 DEF CloseLock
  <2>4. LeavesLocks(b) /\ HoldsLocks(b)'
    BY <2>1, <2>2, <2>3, AcquireFacts DEF LeavesLocks, HoldsLocks, Sig
  <2>5. \A m \in Locks : SectionMoves(b, m)
    <3>1. pc'[b] \in {"close_place", "finish"}
      BY <2>2, <2>3, AcquireFacts
    <3>2. \A m \in Locks :
            UnderLock(b, m)' => m = ExecutionLock(Sig(b)) /\ pc'[b] = "close_place"
      BY <2>1, <3>1 DEF UnderLock, Sig
    <3>3. QED
      BY <2>2, <2>3, <3>2, AcquireMoves
  <2>6. QED
    BY <2>1, <2>4, <2>5, LockKept
<1>8. CASE ClosePlace(b)
  <2>1. LocalTo(b) /\ lock' = lock /\ ex' = ex
    BY <1>0, <1>8 DEF ClosePlace, LocalTo, redis
  <2>2. pc[b] \in ExecutionSection /\ pc'[b] \notin GuardSection
    BY <1>0, <1>8 DEF ClosePlace
  <2>3. QED
    BY <2>1, <2>2, QuietStep
<1>9. CASE Release(b)
  <2>1. LocalTo(b) /\ pc'[b] = "finish"
    BY <1>0, <1>9 DEF Release, LocalTo
  <2>2. ExecutionLock(Sig(b)) \in Locks
    BY <1>0, <1>9 DEF Release, InCall
  <2>3. LeavesLocks(b)
    BY <1>9, <2>2, ReleaseFacts DEF Release
  <2>4. HoldsLocks(b)'
    BY <2>1 DEF HoldsLocks
  <2>5. \A m \in Locks : SectionMoves(b, m)
    <3>1. UnderLock(b, ExecutionLock(Sig(b)))
      BY <1>9 DEF Release, UnderLock
    <3>2. \A m \in Locks : ~UnderLock(b, m)'
      BY <2>1 DEF UnderLock
    <3>3. QED
      BY <1>9, <2>2, <3>1, <3>2, ReleaseMoves DEF Release
  <2>6. QED
    BY <2>1, <2>3, <2>4, <2>5, LockKept
<1>10. CASE Finish(b)
  <2>1. LocalTo(b) /\ lock' = lock
    BY <1>0, <1>10 DEF Finish, Back, LocalTo, redis
  <2>2. pc'[b] \notin ExecutionSection /\ pc'[b] \notin GuardSection
    BY <1>0, <1>10 DEF Finish, Back
  <2>3. QED
    BY <2>1, <2>2, QuietStep
<1>11. QED
  BY <1>1, <1>2, <1>3, <1>4, <1>5, <1>6, <1>7, <1>8, <1>9, <1>10 DEF EngineStep

(* The steps of a guard round keep LockInv. *)
LEMMA GuardLocks ==
  ASSUME TypeOK, TypeOK', LockInv, NEW b \in Bots, GuardStep(b)
  PROVE  LockInv' /\ LocalTo(b) /\ \A l \in Locks : SectionMoves(b, l)
<1> USE DEF GoTo, GuardPlacing, GuardSection, ExecutionSection
<1>0. /\ pc \in [Bots -> PCs] /\ rd \in [Bots -> RoundType] /\ rd[b] \in RoundType
      /\ pc[b] \in Visiting => rd[b].key \in Keys
  BY DEF TypeOK, BotsOK
<1>1. CASE GuardTake(b)
  <2>1. PICK k \in rd[b].todo :
          /\ AcquireLock(b, GuardLock(k), "guard_read", "guard_lock")
          /\ rd' = [rd EXCEPT ![b] = [rd[b] EXCEPT !.todo = @ \ {k}, !.key = k]]
    BY <1>1 DEF GuardTake
  <2>2. GuardLock(k) \in Locks /\ rd'[b].key = k
    BY <1>0, <2>1 DEF RoundType, GuardLock, Locks
  <2>3. LocalTo(b)
    BY <1>0, <1>1, <2>1 DEF GuardTake, LocalTo, AcquireLock
  <2>4. LeavesLocks(b) /\ HoldsLocks(b)'
    BY <2>1, <2>2, AcquireFacts DEF LeavesLocks, HoldsLocks
  <2>5. \A m \in Locks : SectionMoves(b, m)
    <3>1. pc'[b] \in {"guard_read", "guard_lock"}
      BY <2>1, <2>2, AcquireFacts
    <3>2. \A m \in Locks : UnderLock(b, m)' => m = GuardLock(k) /\ pc'[b] = "guard_read"
      BY <2>2, <3>1 DEF UnderLock
    <3>3. QED
      BY <2>1, <2>2, <3>2, AcquireMoves
  <2>6. QED
    BY <2>3, <2>4, <2>5, LockKept
<1>2. CASE GuardRead(b)
  <2>1. LocalTo(b) /\ lock' = lock
    BY <1>0, <1>2 DEF GuardRead, LocalTo, redis
  <2>2. rd'[b].key = rd[b].key /\ pc[b] \in GuardSection /\ pc'[b] \notin ExecutionSection
    BY <1>0, <1>2 DEF GuardRead, RoundType
  <2>3. QED
    BY <2>1, <2>2, QuietStep
<1>3. CASE GuardOrders(b)
  <2>1. LocalTo(b) /\ lock' = lock
    BY <1>0, <1>3 DEF GuardOrders, LocalTo, redis
  <2>2. rd'[b].key = rd[b].key /\ pc[b] \in GuardSection /\ pc'[b] \notin ExecutionSection
    BY <1>0, <1>3 DEF GuardOrders, RoundType
  <2>3. QED
    BY <2>1, <2>2, QuietStep
<1>4. CASE GuardStop(b) \/ GuardTarget1(b) \/ GuardTarget2(b)
  <2>1. LocalTo(b) /\ lock' = lock /\ rd' = rd
    BY <1>0, <1>4 DEF GuardStop, GuardTarget1, GuardTarget2, GuardPlace, LocalTo, redis
  <2>2. pc[b] \in GuardSection /\ pc'[b] \notin ExecutionSection
    BY <1>0, <1>4 DEF GuardStop, GuardTarget1, GuardTarget2, GuardPlace
  <2>3. QED
    BY <2>1, <2>2, QuietStep
<1>5. CASE GuardRelease(b)
  <2>1. LocalTo(b) /\ pc'[b] = "guard_lock"
    BY <1>0, <1>5 DEF GuardRelease, LocalTo
  <2>2. GuardLock(rd[b].key) \in Locks
    BY <1>0, <1>5 DEF GuardRelease, Visiting, GuardLock, Locks
  <2>3. LeavesLocks(b)
    BY <1>5, <2>2, ReleaseFacts DEF GuardRelease
  <2>4. HoldsLocks(b)'
    BY <2>1 DEF HoldsLocks
  <2>5. \A m \in Locks : SectionMoves(b, m)
    <3>1. UnderLock(b, GuardLock(rd[b].key))
      BY <1>5 DEF GuardRelease, UnderLock
    <3>2. \A m \in Locks : ~UnderLock(b, m)'
      BY <2>1 DEF UnderLock
    <3>3. QED
      BY <1>5, <2>2, <3>1, <3>2, ReleaseMoves DEF GuardRelease
  <2>6. QED
    BY <2>1, <2>3, <2>4, <2>5, LockKept
<1>6. CASE \/ GuardStart(b) \/ Positioned(b) \/ CleanScan(b) \/ CleanOrders(b)
           \/ CleanCancel(b) \/ CleanDel(b) \/ CleanEnd(b)
  <2>1. LocalTo(b) /\ lock' = lock
    BY <1>0, <1>6
       DEF GuardStart, Positioned, CleanScan, CleanOrders, CleanCancel, CleanDel, CleanEnd,
           EndRound, LocalTo, redis
  <2>2. pc'[b] \notin ExecutionSection /\ pc'[b] \notin GuardSection
    BY <1>0, <1>6
       DEF GuardStart, Positioned, CleanScan, CleanOrders, CleanCancel, CleanDel, CleanEnd,
           EndRound
  <2>3. QED
    BY <2>1, <2>2, QuietStep
<1>7. QED
  BY <1>1, <1>2, <1>3, <1>4, <1>5, <1>6 DEF GuardStep

(* So do the loop, a crash, a shutdown, a restart and the environment. *)
LEMMA OtherLocks ==
  ASSUME TypeOK, TypeOK', LockInv,
         \/ \E b \in Bots : LoopStep(b) \/ Shutdown(b) \/ Die(b) \/ Restart(b)
         \/ Environment
         \/ UNCHANGED vars
  PROVE  LockInv'
<1> USE DEF GoTo, GuardPlacing, GuardSection, ExecutionSection
<1>0. pc \in [Bots -> PCs] /\ ex \in [Bots -> CallType] /\ rd \in [Bots -> RoundType]
  BY DEF TypeOK, BotsOK
<1>1. ASSUME NEW b \in Bots, Pop(b) \/ PopTimeout(b) \/ Restart(b)
      PROVE  LockInv'
  <2>1. LocalTo(b) /\ lock' = lock
    BY <1>0, <1>1 DEF Pop, PopTimeout, Restart, LocalTo, redis
  <2>2. pc'[b] \notin ExecutionSection /\ pc'[b] \notin GuardSection
    BY <1>0, <1>1 DEF Pop, PopTimeout, Restart, Dispatch
  <2>3. QED
    BY <2>1, <2>2, QuietStep
<1>2. ASSUME NEW b \in Bots, Die(b)
      PROVE  LockInv'
  <2>1. LocalTo(b) /\ LeavesLocks(b)
    BY <1>0, <1>2 DEF Die, LocalTo, LeavesLocks
  <2>2. HoldsLocks(b)'
    BY <1>0, <1>2 DEF Die, HoldsLocks
  <2>3. QED
    BY <2>1, <2>2, LockKept
<1>3. CASE UNCHANGED <<pc, ex, rd, lock>>
  BY <1>3 DEF LockInv, HoldsLocks, Sig
<1>4. ASSUME NEW l \in Locks, OrphanExpires(l)
      PROVE  LockInv'
  <2>1. \A m \in Locks, b \in Bots : lock[m] = b => lock'[m] = b
    BY <1>4, TradingConstants DEF OrphanExpires, TypeOK, RedisOK
  <2>2. pc' = pc /\ ex' = ex /\ rd' = rd
    BY <1>4 DEF OrphanExpires
  <2>3. \A b \in Bots :
          /\ pc[b] \in ExecutionSection => ExecutionLock(ex[b].sig) \in Locks
          /\ pc[b] \in GuardSection => GuardLock(rd[b].key) \in Locks
    BY SignalFacts DEF TypeOK, BotsOK, InCall, Visiting, GuardLock, Locks
  <2>4. SUFFICES ASSUME NEW b \in Bots
                 PROVE  HoldsLocks(b)'
    BY DEF LockInv
  <2>5. HoldsLocks(b)
    BY DEF LockInv
  <2>6. /\ pc[b] \in ExecutionSection => lock'[ExecutionLock(ex[b].sig)] = b
        /\ pc[b] \in GuardSection => lock'[GuardLock(rd[b].key)] = b
    <3>1. pc[b] \in ExecutionSection =>
            ExecutionLock(ex[b].sig) \in Locks /\ lock[ExecutionLock(ex[b].sig)] = b
      BY <2>3, <2>5 DEF HoldsLocks, Sig
    <3>2. pc[b] \in GuardSection =>
            GuardLock(rd[b].key) \in Locks /\ lock[GuardLock(rd[b].key)] = b
      BY <2>3, <2>5 DEF HoldsLocks
    <3>3. \A m \in Locks : lock[m] = b => lock'[m] = b
      BY <2>1
    <3>4. QED
      BY <3>1, <3>2, <3>3
  <2>7. QED
    BY <2>2, <2>6 DEF HoldsLocks, Sig
<1>5. CASE \/ \E b \in Bots : Shutdown(b)
           \/ \E o \in orders : (\E qty \in 1..o.qty : FillEntry(o, qty)) \/ Trigger(o)
           \/ \E k \in Keys : ProtectionExpires(k)
           \/ \E s \in Signals : Push(s)
           \/ Tick
           \/ UNCHANGED vars
  <2>1. UNCHANGED <<pc, ex, rd, lock>>
    BY <1>5 DEF Shutdown, FillEntry, Trigger, ProtectionExpires, Push, Tick, vars, redis
  <2>2. QED
    BY <1>3, <2>1
<1>6. QED
  BY <1>1, <1>2, <1>4, <1>5 DEF LoopStep, Environment

(* The lock invariant, the heart of Exclusion. *)
THEOREM LocksHeld == Spec => []LockInv
<1>1. Init => LockInv
  BY DEF Init, LockInv, HoldsLocks, ExecutionSection, GuardSection, GuardPlacing
<1>2. TypeOK /\ TypeOK' /\ LockInv /\ [Next]_vars => LockInv'
  BY EngineLocks, GuardLocks, OtherLocks DEF Next, BotStep
<1>3. QED
  BY <1>1, <1>2, TypeCorrect, PTL DEF Spec

(* No two bots are in an engine call on one symbol, or place the orders of *)
(* one position, at once (acquireLock around PlaceOrderFromSignal,         *)
(* ClosePositionFromAction and each position of the guard).                *)
THEOREM Exclusion == Spec => []SectionsExclusive
<1>1. LockInv => SectionsExclusive
  <2> SUFFICES ASSUME LockInv, NEW a \in Bots, NEW b \in Bots, a # b
               PROVE  /\ \A s \in Symbols : ~(InExecution(a, s) /\ InExecution(b, s))
                      /\ \A k \in Keys : ~(InGuard(a, k) /\ InGuard(b, k))
    BY DEF SectionsExclusive
  <2>1. HoldsLocks(a) /\ HoldsLocks(b)
    BY DEF LockInv
  <2>2. ASSUME NEW s \in Symbols, InExecution(a, s), InExecution(b, s)
        PROVE  FALSE
    BY <2>1, <2>2 DEF HoldsLocks, InExecution, ExecutionLock
  <2>3. ASSUME NEW k \in Keys, InGuard(a, k), InGuard(b, k)
        PROVE  FALSE
    BY <2>1, <2>3 DEF HoldsLocks, InGuard
  <2>4. QED
    BY <2>2, <2>3
<1>2. QED
  BY <1>1, LocksHeld, PTL

(***************************************************************************)
(* Implementation.  Every lock key of the executor behaves like a          *)
(* SectionLock: a step of a bot takes it, ends the section under it or     *)
(* leaves it, and only an orphaned key becomes free of its own accord.     *)
(***************************************************************************)
AbstractStep(l) == SectionOf(l)!Next \/ UNCHANGED SectionOf(l)!lockVars

(* Whoever is in the section of a key holds it. *)
LEMMA UnderOwnLock ==
  ASSUME LockInv, NEW l \in Locks, NEW b \in Bots, UnderLock(b, l)
  PROVE  lock[l] = b
BY DEF LockInv, HoldsLocks, UnderLock

(* What a step of one bot does to a key, seen from SectionLock. *)
LEMMA MovesImplement ==
  ASSUME LockInv, NEW b \in Bots, LocalTo(b), NEW l \in Locks, SectionMoves(b, l)
  PROVE  AbstractStep(l)
<1> DEFINE Taken == lock[l] # Free
           Inside == {c \in Bots : UnderLock(c, l)}
<1>1. \A c \in Bots \ {b} : UnderLock(c, l)' <=> UnderLock(c, l)
  BY DEF LocalTo, UnderLock, Sig
<1>2. CASE Inside' = Inside /\ Taken' = Taken
  BY <1>2 DEF AbstractStep, SectionOf!lockVars
<1>3. CASE UnderLock(b, l) /\ ~UnderLock(b, l)'
  <2>1. b \in Inside /\ Inside' = Inside \ {b} /\ Taken' \in BOOLEAN
    BY <1>1, <1>3
  <2>2. QED
    BY <2>1 DEF AbstractStep, SectionOf!Next, SectionOf!Leave
<1>4. CASE lock[l] = Free /\ lock'[l] # Free
  <2>1. ~Taken /\ Taken'
    BY <1>4
  <2>2. ~UnderLock(b, l)
    BY <1>4, UnderOwnLock, TradingConstants
  <2>3. CASE UnderLock(b, l)'
    <3>1. Inside' = Inside \cup {b}
      BY <1>1, <2>2, <2>3
    <3>2. QED
      BY <2>1, <3>1 DEF AbstractStep, SectionOf!Next, SectionOf!Enter
  <2>4. CASE ~UnderLock(b, l)'
    <3>1. Inside' = Inside
      BY <1>1, <2>2, <2>4
    <3>2. QED
      BY <2>1, <3>1 DEF AbstractStep, SectionOf!Next, SectionOf!Strand
  <2>5. QED
    BY <2>3, <2>4
<1>5. CASE /\ lock'[l] = Free <=> lock[l] = Free
           /\ UnderLock(b, l)' <=> UnderLock(b, l)
  <2>1. Inside' = Inside /\ Taken' = Taken
    BY <1>1, <1>5
  <2>2. QED
    BY <1>2, <2>1
<1>6. QED
  BY <1>3, <1>4, <1>5 DEF SectionMoves

(* The steps of the loop, of a crash and of the environment. *)
LEMMA OtherMoves ==
  ASSUME TypeOK, LockInv, NEW l \in Locks,
         \/ \E b \in Bots : LoopStep(b) \/ Shutdown(b) \/ Die(b) \/ Restart(b)
         \/ Environment
         \/ UNCHANGED vars
  PROVE  AbstractStep(l)
<1>0. pc \in [Bots -> PCs] /\ ex \in [Bots -> CallType] /\ rd \in [Bots -> RoundType]
  BY DEF TypeOK, BotsOK
<1>1. CASE UNCHANGED <<pc, ex, rd, lock>>
  BY <1>1 DEF AbstractStep, SectionOf!lockVars, UnderLock, Sig
<1>2. ASSUME NEW b \in Bots, Pop(b) \/ PopTimeout(b) \/ Restart(b)
      PROVE  AbstractStep(l)
  <2>1. LocalTo(b) /\ lock' = lock
    BY <1>0, <1>2 DEF Pop, PopTimeout, Restart, LocalTo, GoTo, redis
  <2>2. pc'[b] \notin ExecutionSection /\ pc'[b] \notin GuardSection
    BY <1>0, <1>2
       DEF Pop, PopTimeout, Restart, Dispatch, GoTo, ExecutionSection, GuardSection,
           GuardPlacing
  <2>3. SectionMoves(b, l)
    BY <2>1, <2>2 DEF SectionMoves, UnderLock
  <2>4. QED
    BY <2>1, <2>3, MovesImplement
<1>3. ASSUME NEW b \in Bots, Die(b)
      PROVE  AbstractStep(l)
  <2>1. LocalTo(b) /\ pc'[b] = "down"
    BY <1>0, <1>3 DEF Die, LocalTo, GoTo
  <2>2. ~UnderLock(b, l)'
    BY <2>1 DEF UnderLock, ExecutionSection, GuardSection, GuardPlacing
  <2>3. lock'[l] = Free <=> lock[l] = Free
    BY <1>3, TradingConstants DEF Die
  <2>4. SectionMoves(b, l)
    BY <2>2, <2>3 DEF SectionMoves
  <2>5. QED
    BY <2>1, <2>4, MovesImplement
<1>4. ASSUME NEW m \in Locks, OrphanExpires(m)
      PROVE  AbstractStep(l)
  <2>1. \A c \in Bots : UnderLock(c, l)' <=> UnderLock(c, l)
    BY <1>4 DEF OrphanExpires, UnderLock, Sig
  <2>2. CASE m = l
    <3>1. lock[l] = Orphan /\ lock'[l] = Free
      BY <1>4, <2>2 DEF OrphanExpires, TypeOK, RedisOK
    <3>2. {c \in Bots : UnderLock(c, l)} = {}
      BY <3>1, UnderOwnLock, TradingConstants
    <3>3. QED
      BY <2>1, <3>1, <3>2, TradingConstants
         DEF AbstractStep, SectionOf!Next, SectionOf!Expire
  <2>3. CASE m # l
    <3>1. lock'[l] = lock[l]
      BY <1>4, <2>3 DEF OrphanExpires, TypeOK, RedisOK
    <3>2. QED
      BY <2>1, <3>1 DEF AbstractStep, SectionOf!lockVars
  <2>4. QED
    BY <2>2, <2>3
<1>5. CASE \/ \E b \in Bots : Shutdown(b)
           \/ \E o \in orders : (\E qty \in 1..o.qty : FillEntry(o, qty)) \/ Trigger(o)
           \/ \E k \in Keys : ProtectionExpires(k)
           \/ \E s \in Signals : Push(s)
           \/ Tick
           \/ UNCHANGED vars
  <2>1. UNCHANGED <<pc, ex, rd, lock>>
    BY <1>5 DEF Shutdown, FillEntry, Trigger, ProtectionExpires, Push, Tick, vars, redis
  <2>2. QED
    BY <1>1, <2>1
<1>6. QED
  BY <1>2, <1>3, <1>4, <1>5 DEF LoopStep, Environment

(* So does every step of the executor. *)
LEMMA StepImplements ==
  ASSUME TypeOK, TypeOK', LockInv, [Next]_vars, NEW l \in Locks
  PROVE  AbstractStep(l)
<1>1. ASSUME NEW b \in Bots, EngineStep(b) \/ GuardStep(b)
      PROVE  AbstractStep(l)
  BY <1>1, EngineLocks, GuardLocks, MovesImplement
<1>2. QED
  BY <1>1, OtherMoves DEF Next, BotStep

(* At the start every key is free and no bot is in a section. *)
LEMMA StartImplements ==
  ASSUME Init, NEW l \in Locks
  PROVE  SectionOf(l)!Init
BY DEF Init, SectionOf!Init, UnderLock, ExecutionSection, GuardSection, GuardPlacing

(* The locks of the executor implement SectionLock, whatever fails. *)
THEOREM LocksImplemented == Spec => ImplementsSectionLocks
<1>1. Init => \A l \in Locks : SectionOf(l)!Init
  BY StartImplements
<1>2. TypeOK /\ TypeOK' /\ LockInv /\ [Next]_vars
        => [\A l \in Locks : SectionOf(l)!Next \/ UNCHANGED SectionOf(l)!lockVars]_vars
  BY StepImplements DEF AbstractStep
<1>3. QED
  BY <1>1, <1>2, TypeCorrect, LocksHeld, PTL DEF Spec, ImplementsSectionLocks

(* The same, key by key, as a refinement. *)
THEOREM Implementation ==
  ASSUME NEW l \in Locks
  PROVE  Spec => SectionOf(l)!Spec
<1>1. Init => SectionOf(l)!Init
  BY StartImplements
<1>2. TypeOK /\ TypeOK' /\ LockInv /\ [Next]_vars
        => [SectionOf(l)!Next]_(SectionOf(l)!lockVars)
  BY StepImplements DEF AbstractStep
<1>3. QED
  BY <1>1, <1>2, TypeCorrect, LocksHeld, PTL DEF Spec, SectionOf!Spec

(***************************************************************************)
(* The dedupe mark works: OneOrderPerWindow.                               *)
(*                                                                         *)
(* The argument: a posted entry that was marked has its mark in Redis      *)
(* (Kept); a call that looked and found no mark has no marked predecessor  *)
(* (Clear), and none can appear before it posts, because the execution     *)
(* lock keeps every other call on that symbol out (Exclusion).             *)
(***************************************************************************)

Checking == {"open_mark", "open_place"}
Posted == {"open_save", "release", "finish"}

MarkOf(s, bucket) == <<DedupeKey(s), bucket>>

(* The locals of a call are reset before the next one. *)
Fresh == \A b \in Bots :
  /\ ex[b].checked => pc[b] \in Checking \cup Posted
  /\ ex[b].marked => pc[b] \in {"open_place"} \cup Posted

(* Whatever claims to be marked is. *)
Kept ==
  /\ \A i \in DOMAIN attempts :
       attempts[i].marked => MarkOf(attempts[i].sig, attempts[i].bucket) \in marks
  /\ \A b \in Bots :
       pc[b] = "open_place" /\ ex[b].marked => MarkOf(ex[b].sig, ex[b].bucket) \in marks

(* A call that found no mark has no marked predecessor. *)
Clear ==
  \A b \in Bots : pc[b] \in Checking /\ ex[b].checked =>
    \A i \in DOMAIN attempts :
      attempts[i].marked =>
        MarkOf(attempts[i].sig, attempts[i].bucket) # MarkOf(ex[b].sig, ex[b].bucket)

DedupeInv == Fresh /\ Kept /\ Clear /\ OneOrderPerWindow

(* A step that posts nothing, sets no mark and starts no check. *)
LEMMA Unrelated ==
  ASSUME TypeOK, DedupeInv, NEW b \in Bots, LocalTo(b),
         attempts' = attempts, marks' = marks,
         ~ex'[b].checked \/ (pc'[b] \in Posted /\ pc[b] \in Checking \cup Posted),
         ~ex'[b].marked \/ pc'[b] \in Posted
  PROVE  DedupeInv'
<1>1. Fresh'
  BY DEF DedupeInv, Fresh, LocalTo, Checking, Posted
<1>2. Kept'
  BY DEF DedupeInv, Kept, LocalTo, Posted
<1>3. Clear'
  BY DEF DedupeInv, Clear, LocalTo, Checking, Posted
<1>4. OneOrderPerWindow'
  BY DEF DedupeInv, OneOrderPerWindow
<1>5. QED
  BY <1>1, <1>2, <1>3, <1>4 DEF DedupeInv

(* The EXISTS of a call keeps DedupeInv: it goes on only without a mark. *)
LEMMA DedupeStep ==
  ASSUME TypeOK, DedupeInv, NEW b \in Bots, OpenDedupe(b)
  PROVE  DedupeInv'
<1> USE DEF GoTo, Checking, Posted
<1>0. /\ pc \in [Bots -> PCs] /\ ex \in [Bots -> CallType] /\ ex[b] \in CallType
      /\ pc[b] = "open_dedupe" /\ ~ex[b].checked /\ ~ex[b].marked
  BY DEF TypeOK, BotsOK, OpenDedupe, DedupeInv, Fresh
<1>1. LocalTo(b) /\ attempts' = attempts /\ marks' = marks
  BY <1>0 DEF OpenDedupe, LocalTo, redis, history
<1>2. CASE pc'[b] # "open_mark"
  <2>1. ~ex'[b].checked /\ ~ex'[b].marked
    BY <1>0, <1>2 DEF OpenDedupe, CallType
  <2>2. QED
    BY <1>1, <2>1, Unrelated
<1>3. CASE pc'[b] = "open_mark"
  <2>1. /\ ex'[b].sig = ex[b].sig /\ ex'[b].bucket = Bucket /\ ~ex'[b].marked
        /\ MarkOf(ex[b].sig, Bucket) \notin marks
    BY <1>0, <1>3 DEF OpenDedupe, CallType, MarkOf, Sig
  <2>2. Fresh'
    BY <1>1, <1>3, <2>1 DEF DedupeInv, Fresh, LocalTo
  <2>3. Kept'
    BY <1>1, <1>3, <2>1 DEF DedupeInv, Kept, LocalTo
  <2>4. Clear'
    <3>1. \A i \in DOMAIN attempts : attempts[i].marked =>
            MarkOf(attempts[i].sig, attempts[i].bucket) # MarkOf(ex'[b].sig, ex'[b].bucket)
      BY <2>1 DEF DedupeInv, Kept
    <3>2. QED
      BY <1>1, <3>1 DEF DedupeInv, Clear, LocalTo
  <2>5. OneOrderPerWindow'
    BY <1>1 DEF DedupeInv, OneOrderPerWindow
  <2>6. QED
    BY <2>2, <2>3, <2>4, <2>5 DEF DedupeInv
<1>4. QED
  BY <1>2, <1>3

(* The SET of its mark keeps DedupeInv. *)
LEMMA MarkStep ==
  ASSUME TypeOK, DedupeInv, NEW b \in Bots, OpenMark(b)
  PROVE  DedupeInv'
<1> USE DEF GoTo, Checking, Posted
<1>0. /\ pc \in [Bots -> PCs] /\ ex \in [Bots -> CallType] /\ ex[b] \in CallType
      /\ pc[b] = "open_mark" /\ pc'[b] = "open_place" /\ ~ex[b].marked
  BY DEF TypeOK, BotsOK, OpenMark, DedupeInv, Fresh
<1>1. LocalTo(b) /\ attempts' = attempts /\ marks \subseteq marks'
  BY <1>0 DEF OpenMark, LocalTo, history
<1>2. /\ ex'[b].sig = ex[b].sig /\ ex'[b].bucket = ex[b].bucket
      /\ ex'[b].checked = ex[b].checked
      /\ ex'[b].marked => MarkOf(ex[b].sig, ex[b].bucket) \in marks'
  BY <1>0 DEF OpenMark, CallType, MarkOf, Sig
<1>3. Fresh'
  BY <1>0, <1>1 DEF DedupeInv, Fresh, LocalTo
<1>4. Kept'
  BY <1>0, <1>1, <1>2 DEF DedupeInv, Kept, LocalTo
<1>5. Clear'
  BY <1>0, <1>1, <1>2 DEF DedupeInv, Clear, LocalTo
<1>6. OneOrderPerWindow'
  BY <1>1 DEF DedupeInv, OneOrderPerWindow
<1>7. QED
  BY <1>3, <1>4, <1>5, <1>6 DEF DedupeInv

(* So does the posting of the order, which becomes part of the history. *)
LEMMA PlaceStep ==
  ASSUME TypeOK, LockInv, DedupeInv, NEW b \in Bots, OpenPlace(b)
  PROVE  DedupeInv'
<1> USE DEF GoTo, Checking, Posted
<1> DEFINE n == Len(attempts) + 1
<1>0. /\ pc \in [Bots -> PCs] /\ ex \in [Bots -> CallType] /\ ex[b] \in CallType
      /\ pc[b] = "open_place" /\ ex[b].sig \in Signals /\ attempts \in Seq(AttemptType)
  BY DEF TypeOK, BotsOK, RestOK, OpenPlace, InCall, ExecutionSection
<1>1. LocalTo(b) /\ marks' = marks /\ ex' = ex /\ pc'[b] \in {"open_save", "release"}
  BY <1>0 DEF OpenPlace, LocalTo, redis
<1>2. PICK a : /\ attempts' = Append(attempts, a)
               /\ a.sig = ex[b].sig /\ a.bucket = ex[b].bucket
               /\ a.marked = ex[b].marked /\ a.checked = ex[b].checked
  BY DEF OpenPlace, Sig
<1>3. /\ DOMAIN attempts' = 1..n /\ DOMAIN attempts = 1..(n - 1) /\ n \in Nat
      /\ attempts'[n] = a
      /\ \A i \in 1..(n - 1) : attempts'[i] = attempts[i]
  BY <1>0, <1>2
<1>4. Fresh'
  BY <1>1, <1>0 DEF DedupeInv, Fresh, LocalTo
<1>5. Kept'
  <2>1. \A i \in DOMAIN attempts' : attempts'[i].marked =>
          MarkOf(attempts'[i].sig, attempts'[i].bucket) \in marks'
    <3>1. \A i \in 1..(n - 1) : attempts'[i].marked =>
            MarkOf(attempts'[i].sig, attempts'[i].bucket) \in marks'
      BY <1>1, <1>3 DEF DedupeInv, Kept
    <3>2. attempts'[n].marked => MarkOf(attempts'[n].sig, attempts'[n].bucket) \in marks'
      BY <1>0, <1>1, <1>2, <1>3 DEF DedupeInv, Kept
    <3>3. \A i \in 1..n : i \in 1..(n - 1) \/ i = n
      BY <1>3
    <3>4. QED
      BY <1>3, <3>1, <3>2, <3>3
  <2>2. QED
    BY <1>1, <2>1 DEF DedupeInv, Kept, LocalTo
<1>6. Clear'
  <2>1. SUFFICES ASSUME NEW c \in Bots, pc'[c] \in Checking, ex'[c].checked,
                        NEW i \in DOMAIN attempts', attempts'[i].marked
                 PROVE  MarkOf(attempts'[i].sig, attempts'[i].bucket)
                          # MarkOf(ex'[c].sig, ex'[c].bucket)
    BY DEF Clear
  <2>2. c # b /\ pc[c] = pc'[c] /\ ex[c] = ex'[c]
    BY <1>1, <2>1 DEF LocalTo
  <2>3. CASE i \in 1..(n - 1)
    BY <1>3, <2>1, <2>2, <2>3 DEF DedupeInv, Clear
  <2>4. CASE i = n
    <3>1. HoldsLocks(b) /\ HoldsLocks(c)
      BY DEF LockInv
    <3>2. lock[ExecutionLock(ex[b].sig)] = b /\ lock[ExecutionLock(ex[c].sig)] = c
      BY <1>0, <2>1, <2>2, <3>1 DEF HoldsLocks, ExecutionSection, Sig
    <3>3. ex[b].sig.symbol # ex[c].sig.symbol
      BY <2>2, <3>2 DEF ExecutionLock
    <3>4. QED
      BY <1>2, <1>3, <2>2, <2>4, <3>3 DEF MarkOf, DedupeKey
  <2>5. QED
    BY <1>3, <2>1, <2>3, <2>4
<1>7. OneOrderPerWindow'
  <2>1. SUFFICES ASSUME NEW i \in 1..n, NEW j \in 1..n, i < j,
                        MarkOf(attempts'[i].sig, attempts'[i].bucket)
                          = MarkOf(attempts'[j].sig, attempts'[j].bucket),
                        attempts'[i].marked, attempts'[j].checked
                 PROVE  FALSE
    BY <1>3 DEF OneOrderPerWindow, MarkOf
  <2>2. i \in 1..(n - 1)
    BY <1>3, <2>1
  <2>3. CASE j \in 1..(n - 1)
    BY <1>3, <2>1, <2>2, <2>3 DEF DedupeInv, OneOrderPerWindow, MarkOf
  <2>4. CASE j = n
    BY <1>0, <1>2, <1>3, <2>1, <2>2, <2>4 DEF DedupeInv, Clear
  <2>5. QED
    BY <1>3, <2>3, <2>4
<1>8. QED
  BY <1>4, <1>5, <1>6, <1>7 DEF DedupeInv

(* The other steps of the engine. *)
LEMMA OtherEngineSteps ==
  ASSUME TypeOK, DedupeInv, NEW b \in Bots,
         \/ OpenLock(b) \/ OpenSave(b) \/ CloseRead(b) \/ CloseLock(b)
         \/ ClosePlace(b) \/ Release(b) \/ Finish(b)
  PROVE  DedupeInv'
<1> USE DEF GoTo, Checking, Posted
<1>0. /\ pc \in [Bots -> PCs] /\ ex \in [Bots -> CallType] /\ ex[b] \in CallType
      /\ ex[b].checked => pc[b] \in Checking \cup Posted
      /\ ex[b].marked => pc[b] \in {"open_place"} \cup Posted
  BY DEF TypeOK, BotsOK, DedupeInv, Fresh
<1>1. CASE OpenLock(b) \/ CloseLock(b)
  BY <1>0, <1>1, Unrelated
     DEF OpenLock, CloseLock, AcquireLock, LocalTo, history
<1>2. CASE OpenSave(b) \/ ClosePlace(b) \/ Release(b)
  BY <1>0, <1>2, Unrelated
     DEF OpenSave, ClosePlace, Release, LocalTo, history, redis
<1>3. CASE CloseRead(b)
  <2>1. LocalTo(b) /\ attempts' = attempts /\ marks' = marks
    BY <1>0, <1>3 DEF CloseRead, LocalTo, history, redis
  <2>2. ex'[b].checked = ex[b].checked /\ ex'[b].marked = ex[b].marked
    BY <1>0, <1>3 DEF CloseRead, CallType
  <2>3. ~ex[b].checked /\ ~ex[b].marked
    BY <1>0, <1>3 DEF CloseRead
  <2>4. QED
    BY <2>1, <2>2, <2>3, Unrelated
<1>4. CASE Finish(b)
  <2>1. LocalTo(b) /\ attempts' = attempts /\ marks' = marks
    BY <1>0, <1>4 DEF Finish, Back, LocalTo, history, redis
  <2>2. ex'[b] = NoCall
    BY <1>0, <1>4 DEF Finish, Back
  <2>3. ~ex'[b].checked /\ ~ex'[b].marked
    BY <2>2 DEF NoCall
  <2>4. QED
    BY <2>1, <2>3, Unrelated
<1>5. QED
  BY <1>1, <1>2, <1>3, <1>4

(* The steps outside the engine, in which no call is in progress. *)
LEMMA StepsOutside ==
  ASSUME TypeOK, DedupeInv, NEW b \in Bots,
         LoopStep(b) \/ GuardStep(b) \/ Die(b) \/ Restart(b)
  PROVE  DedupeInv'
<1> USE DEF GoTo, Checking, Posted
<1>0. /\ pc \in [Bots -> PCs] /\ ex \in [Bots -> CallType] /\ rd \in [Bots -> RoundType]
      /\ ex[b] \in CallType
      /\ ex[b].checked => pc[b] \in Checking \cup Posted
      /\ ex[b].marked => pc[b] \in {"open_place"} \cup Posted
  BY DEF TypeOK, BotsOK, DedupeInv, Fresh
<1>1. CASE Pop(b)
  <2>1. LocalTo(b) /\ attempts' = attempts /\ marks' = marks
    BY <1>0, <1>1 DEF Pop, LocalTo, history
  <2>2. ex'[b].checked = ex[b].checked /\ ex'[b].marked = ex[b].marked
    BY <1>0, <1>1 DEF Pop, CallType
  <2>3. ~ex[b].checked /\ ~ex[b].marked
    BY <1>0, <1>1 DEF Pop
  <2>4. QED
    BY <2>1, <2>2, <2>3, Unrelated
<1>2. CASE PopTimeout(b) \/ Restart(b)
  BY <1>0, <1>2, Unrelated DEF PopTimeout, Restart, LocalTo, history, redis
<1>3. CASE Die(b)
  <2>1. LocalTo(b) /\ attempts' = attempts /\ marks' = marks
    BY <1>0, <1>3 DEF Die, LocalTo
  <2>2. ~ex'[b].checked /\ ~ex'[b].marked
    BY <1>0, <1>3 DEF Die, NoCall
  <2>3. QED
    BY <2>1, <2>2, Unrelated
<1>4. CASE GuardStep(b)
  <2>1. LocalTo(b) /\ attempts' = attempts /\ marks' = marks /\ ex' = ex
    <3>1. CASE GuardStart(b) \/ GuardTake(b) \/ Positioned(b) \/ GuardRead(b) \/ GuardOrders(b)
      BY <1>0, <3>1
         DEF GuardStart, GuardTake, AcquireLock, Positioned, GuardRead, GuardOrders,
             LocalTo, history, redis
    <3>2. CASE GuardStop(b) \/ GuardTarget1(b) \/ GuardTarget2(b) \/ GuardRelease(b)
      BY <1>0, <3>2
         DEF GuardStop, GuardTarget1, GuardTarget2, GuardPlace, GuardRelease,
             LocalTo, history, redis
    <3>3. CASE CleanScan(b) \/ CleanOrders(b) \/ CleanCancel(b) \/ CleanDel(b) \/ CleanEnd(b)
      BY <1>0, <3>3
         DEF CleanScan, CleanOrders, CleanCancel, CleanDel, CleanEnd, EndRound,
             LocalTo, history, redis
    <3>4. QED
      BY <1>4, <3>1, <3>2, <3>3 DEF GuardStep
  <2>2. pc[b] \notin Checking \cup Posted
    BY <1>4
       DEF GuardStep, GuardStart, GuardTake, Positioned, GuardRead, GuardOrders,
           GuardStop, GuardTarget1, GuardTarget2, GuardRelease,
           CleanScan, CleanOrders, CleanCancel, CleanDel, CleanEnd
  <2>3. ~ex'[b].checked /\ ~ex'[b].marked
    BY <1>0, <2>1, <2>2
  <2>4. QED
    BY <2>1, <2>3, Unrelated
<1>5. QED
  BY <1>1, <1>2, <1>3, <1>4 DEF LoopStep

(* Steps that touch neither calls nor marks nor attempts keep DedupeInv. *)
LEMMA QuietSteps ==
  ASSUME DedupeInv, UNCHANGED <<pc, ex, marks, attempts>>
  PROVE  DedupeInv'
BY DEF DedupeInv, Fresh, Kept, Clear, OneOrderPerWindow

(* An entry that was posted under a mark is not posted again in that       *)
(* window by a call that can read the marks (checkAndSetDedupe under the   *)
(* execution lock of PlaceOrderFromSignal).                                *)
THEOREM WindowRespected == Spec => []OneOrderPerWindow
<1>1. Init => DedupeInv
  BY DEF Init, DedupeInv, Fresh, Kept, Clear, OneOrderPerWindow, NoCall, Checking
<1>2. TypeOK /\ LockInv /\ DedupeInv /\ [Next]_vars => DedupeInv'
  <2> SUFFICES ASSUME TypeOK, LockInv, DedupeInv, [Next]_vars
               PROVE  DedupeInv'
    OBVIOUS
  <2>1. ASSUME NEW b \in Bots, EngineStep(b)
        PROVE  DedupeInv'
    BY <2>1, DedupeStep, MarkStep, PlaceStep, OtherEngineSteps DEF EngineStep
  <2>2. ASSUME NEW b \in Bots, Shutdown(b)
        PROVE  DedupeInv'
    BY <2>2, QuietSteps DEF Shutdown, redis, history
  <2>3. CASE Environment
    BY <2>3, QuietSteps
       DEF Environment, FillEntry, Trigger, OrphanExpires, ProtectionExpires, Push, Tick,
           redis, history
  <2>4. CASE UNCHANGED vars
    BY <2>4, QuietSteps DEF vars, redis, history
  <2>5. QED
    BY <2>1, <2>2, <2>3, <2>4, StepsOutside DEF Next, BotStep
<1>3. DedupeInv => OneOrderPerWindow
  BY DEF DedupeInv
<1>4. QED
  BY <1>1, <1>2, <1>3, TypeCorrect, LocksHeld, PTL DEF Spec

(***************************************************************************)
(* The guard protects a position with the levels of its own entries:       *)
(* LevelsFromEntries.                                                      *)
(*                                                                         *)
(* The argument: levels travel from the signal of an acknowledged entry to *)
(* the record that OpenSave writes, from there to the locals of a guard    *)
(* round, and from those to the orders it places.  Every station of that   *)
(* way is about one key, and the entries of a key are never forgotten.     *)
(***************************************************************************)

(* The acknowledged entries of a key in a history, and their levels. *)
AckedIn(h, k) == {i \in DOMAIN h : /\ h[i].out = "ok" /\ KeyOf(h[i].sig) = k
                                   /\ Protects(h[i].sig)}
Levels(h, k) == {Record(h[i].sig) : i \in AckedIn(h, k)}

(* A protective order carries a price of that record. *)
Carries(o, r) ==
  IF o.type = "STOP_MARKET" THEN o.stop = r.sl ELSE o.stop \in {r.tp1, r.tp2}

RecordsBacked ==
  \A k \in Keys : protection[k] # None => protection[k] \in Levels(attempts, k)
OrdersBacked ==
  \A o \in orders : o.reduceOnly => \E r \in Levels(attempts, o.key) : Carries(o, r)
SavesBacked ==
  \A b \in Bots : pc[b] = "open_save" /\ Protects(ex[b].sig) =>
    Record(ex[b].sig) \in Levels(attempts, KeyOf(ex[b].sig))
RoundsBacked ==
  \A b \in Bots : pc[b] \in GuardPlacing => rd[b].prot \in Levels(attempts, rd[b].key)

LevelsInv == RecordsBacked /\ OrdersBacked /\ SavesBacked /\ RoundsBacked

(* The history only grows, and so do the levels of every key. *)
LEMMA LevelsGrow ==
  ASSUME NEW h \in Seq(AttemptType), NEW a
  PROVE  /\ \A k : Levels(h, k) \subseteq Levels(Append(h, a), k)
         /\ a.out = "ok" /\ Protects(a.sig) =>
              Record(a.sig) \in Levels(Append(h, a), KeyOf(a.sig))
<1> DEFINE n == Len(h) + 1
           g == Append(h, a)
<1>1. /\ n \in 1..n /\ n \in Nat /\ DOMAIN g = 1..n /\ DOMAIN h = 1..(n - 1) /\ g[n] = a
      /\ \A i \in 1..(n - 1) : g[i] = h[i] /\ i \in 1..n
  OBVIOUS
<1> HIDE DEF g, n
<1>2. \A k : AckedIn(h, k) \subseteq AckedIn(g, k)
  BY <1>1 DEF AckedIn
<1>3. \A k : Levels(h, k) \subseteq Levels(g, k)
  <2>1. \A k : \A i \in AckedIn(h, k) : i \in AckedIn(g, k) /\ g[i] = h[i]
    BY <1>1, <1>2 DEF AckedIn
  <2>2. ASSUME NEW k, NEW r \in Levels(h, k)
        PROVE  r \in Levels(g, k)
    <3>1. PICK i \in AckedIn(h, k) : r = Record(h[i].sig)
      BY DEF Levels
    <3>2. i \in AckedIn(g, k) /\ r = Record(g[i].sig)
      BY <2>1, <3>1
    <3>3. QED
      BY <3>2 DEF Levels
  <2>3. QED
    BY <2>2
<1>4. a.out = "ok" /\ Protects(a.sig) => n \in AckedIn(g, KeyOf(a.sig))
  BY <1>1 DEF AckedIn
<1>5. a.out = "ok" /\ Protects(a.sig) => Record(a.sig) \in Levels(g, KeyOf(a.sig))
  BY <1>1, <1>4 DEF Levels
<1>6. QED
  BY <1>3, <1>5 DEF g

(* A step of one bot that posts no entry, and takes what it adds to the    *)
(* records, to the book and to its round from the levels there are.        *)
LEMMA BackedStep ==
  ASSUME TypeOK, TypeOK', LevelsInv, NEW b \in Bots, LocalTo(b), attempts' = attempts,
         \A k \in Keys : protection'[k] \in {None, protection[k]} \cup Levels(attempts, k),
         \A o \in orders' : o.reduceOnly =>
           o \in orders \/ \E r \in Levels(attempts, o.key) : Carries(o, r),
         pc'[b] # "open_save",
         pc'[b] \in GuardPlacing => rd'[b].prot \in Levels(attempts, rd'[b].key)
  PROVE  LevelsInv'
<1>1. RecordsBacked'
  BY DEF LevelsInv, RecordsBacked
<1>2. OrdersBacked'
  BY DEF LevelsInv, OrdersBacked
<1>3. SavesBacked'
  BY DEF LevelsInv, SavesBacked, LocalTo
<1>4. RoundsBacked'
  BY DEF LevelsInv, RoundsBacked, LocalTo
<1>5. QED
  BY <1>1, <1>2, <1>3, <1>4 DEF LevelsInv

(* A step that moves no bot, posts no entry and only takes records away. *)
LEMMA BackedQuietly ==
  ASSUME LevelsInv, UNCHANGED <<pc, ex, rd, attempts>>,
         \A k \in Keys : protection'[k] \in {None, protection[k]},
         \A o \in orders' : \E p \in orders :
           p.key = o.key /\ p.type = o.type /\ p.stop = o.stop /\ p.reduceOnly = o.reduceOnly
  PROVE  LevelsInv'
<1>1. RecordsBacked'
  BY DEF LevelsInv, RecordsBacked
<1>2. OrdersBacked'
  BY DEF LevelsInv, OrdersBacked, Carries
<1>3. SavesBacked' /\ RoundsBacked'
  BY DEF LevelsInv, SavesBacked, RoundsBacked
<1>4. QED
  BY <1>1, <1>2, <1>3 DEF LevelsInv

(* The posting of an entry: its order is not reduce-only, and its levels   *)
(* are in the history before they are saved.                               *)
LEMMA BackedPlace ==
  ASSUME TypeOK, TypeOK', LevelsInv, NEW b \in Bots, OpenPlace(b)
  PROVE  LevelsInv'
<1>1. /\ LocalTo(b) /\ protection' = protection /\ ex' = ex /\ rd' = rd
      /\ pc'[b] \in {"open_save", "release"}
  BY DEF OpenPlace, LocalTo, GoTo, redis, TypeOK, BotsOK
<1>2. PICK a : /\ attempts' = Append(attempts, a)
               /\ a.sig = ex[b].sig /\ (pc'[b] = "open_save" => a.out = "ok")
  BY DEF OpenPlace, Sig, GoTo, TypeOK, BotsOK
<1>3. /\ \A k : Levels(attempts, k) \subseteq Levels(attempts', k)
      /\ a.out = "ok" /\ Protects(a.sig) =>
           Record(a.sig) \in Levels(attempts', KeyOf(a.sig))
  BY <1>2, LevelsGrow DEF TypeOK, RestOK
<1>4. RecordsBacked'
  BY <1>1, <1>3 DEF LevelsInv, RecordsBacked
<1>5. OrdersBacked'
  <2>1. orders' \subseteq orders \cup {EntryOrder(KeyOf(Sig(b)), Sig(b).price)}
    BY DEF OpenPlace, PlaceResting, exchange
  <2>2. ~EntryOrder(KeyOf(Sig(b)), Sig(b).price).reduceOnly
    BY DEF EntryOrder
  <2>3. QED
    BY <1>3, <2>1, <2>2 DEF LevelsInv, OrdersBacked
<1>6. SavesBacked'
  <2>1. SUFFICES ASSUME NEW c \in Bots, pc'[c] = "open_save", Protects(ex[c].sig)
                 PROVE  Record(ex[c].sig) \in Levels(attempts', KeyOf(ex[c].sig))
    BY <1>1 DEF SavesBacked
  <2>2. CASE c = b
    BY <1>2, <1>3, <2>1, <2>2
  <2>3. CASE c # b
    BY <1>1, <1>3, <2>1, <2>3 DEF LevelsInv, SavesBacked, LocalTo
  <2>4. QED
    BY <2>2, <2>3
<1>7. RoundsBacked'
  BY <1>1, <1>3 DEF LevelsInv, RoundsBacked, LocalTo, GuardPlacing
<1>8. QED
  BY <1>4, <1>5, <1>6, <1>7 DEF LevelsInv

(* The steps of an engine call keep LevelsInv. *)
LEMMA EngineBacked ==
  ASSUME TypeOK, TypeOK', LevelsInv, NEW b \in Bots, EngineStep(b)
  PROVE  LevelsInv'
<1> USE DEF GoTo, GuardPlacing
<1>0. /\ pc \in [Bots -> PCs] /\ ex \in [Bots -> CallType] /\ rd \in [Bots -> RoundType]
      /\ protection \in [Keys -> RecordType \cup {None}]
  BY DEF TypeOK, BotsOK, RedisOK
<1>1. CASE OpenPlace(b)
  BY <1>1, BackedPlace
<1>2. CASE OpenSave(b)
  <2>1. /\ LocalTo(b) /\ attempts' = attempts /\ orders' = orders /\ pc'[b] = "release"
    BY <1>0, <1>2 DEF OpenSave, LocalTo, exchange, history
  <2>2. ASSUME NEW k \in Keys
        PROVE  protection'[k] \in {None, protection[k]} \cup Levels(attempts, k)
    BY <1>0, <1>2 DEF OpenSave, Sig, LevelsInv, SavesBacked
  <2>3. QED
    BY <2>1, <2>2, BackedStep
<1>3. CASE OpenLock(b) \/ CloseLock(b)
  <2>1. /\ LocalTo(b) /\ attempts' = attempts /\ orders' = orders /\ protection' = protection
        /\ pc'[b] \in {"open_dedupe", "close_place", "finish"}
    BY <1>0, <1>3 DEF OpenLock, CloseLock, AcquireLock, LocalTo, exchange, history
  <2>2. QED
    BY <2>1, BackedStep
<1>4. CASE OpenDedupe(b) \/ OpenMark(b)
  <2>1. /\ LocalTo(b) /\ attempts' = attempts /\ orders' = orders /\ protection' = protection
        /\ pc'[b] \in {"open_mark", "open_place", "release"}
    BY <1>0, <1>4 DEF OpenDedupe, OpenMark, LocalTo, exchange, redis, history
  <2>2. QED
    BY <2>1, BackedStep
<1>5. CASE CloseRead(b) \/ ClosePlace(b)
  <2>1. /\ LocalTo(b) /\ attempts' = attempts /\ orders' = orders /\ protection' = protection
        /\ pc'[b] \in {"close_lock", "release", "finish"}
    BY <1>0, <1>5
       DEF CloseRead, ClosePlace, PlaceMarketReduce, LocalTo, exchange, redis, history
  <2>2. QED
    BY <2>1, BackedStep
<1>6. CASE Release(b) \/ Finish(b)
  <2>1. /\ LocalTo(b) /\ attempts' = attempts /\ orders' = orders /\ protection' = protection
        /\ pc'[b] \in {"finish", "down", "brpop", "due"}
    BY <1>0, <1>6 DEF Release, Finish, Back, LocalTo, exchange, redis, history
  <2>2. QED
    BY <2>1, BackedStep
<1>7. QED
  BY <1>1, <1>2, <1>3, <1>4, <1>5, <1>6 DEF EngineStep

(* A protective order that is placed carries a level of its position. *)
LEMMA BackedGuardPlace ==
  ASSUME TypeOK, LevelsInv, NEW b \in Bots, NEW name, NEW type, NEW qty, NEW stop, NEW then,
         pc[b] \in GuardPlacing, GuardPlace(b, name, type, qty, stop, then),
         IF type = "STOP_MARKET" THEN stop = rd[b].prot.sl
                                 ELSE stop \in {rd[b].prot.tp1, rd[b].prot.tp2}
  PROVE  \A o \in orders' : o.reduceOnly =>
           o \in orders \/ \E r \in Levels(attempts, o.key) : Carries(o, r)
<1>1. rd[b].prot \in Levels(attempts, rd[b].key)
  BY DEF LevelsInv, RoundsBacked
<1>2. orders' \subseteq orders \cup {ProtectiveOrder(rd[b].key, type, qty, stop)}
  BY DEF GuardPlace, PlaceResting, exchange
<1>3. /\ ProtectiveOrder(rd[b].key, type, qty, stop).key = rd[b].key
      /\ Carries(ProtectiveOrder(rd[b].key, type, qty, stop), rd[b].prot)
  BY DEF ProtectiveOrder, Carries
<1>4. QED
  BY <1>1, <1>2, <1>3

(* The steps of a guard round keep LevelsInv. *)
LEMMA GuardBacked ==
  ASSUME TypeOK, TypeOK', LevelsInv, NEW b \in Bots, GuardStep(b)
  PROVE  LevelsInv'
<1> USE DEF GoTo, GuardPlacing
<1>0. /\ pc \in [Bots -> PCs] /\ ex \in [Bots -> CallType] /\ rd \in [Bots -> RoundType]
      /\ protection \in [Keys -> RecordType \cup {None}]
      /\ rd[b] \in RoundType
      /\ pc[b] \in Visiting => rd[b].key \in Keys
  BY DEF TypeOK, BotsOK, RedisOK
<1>1. CASE GuardRead(b)
  <2>1. /\ LocalTo(b) /\ attempts' = attempts /\ orders' = orders /\ protection' = protection
        /\ pc'[b] # "open_save"
    BY <1>0, <1>1 DEF GuardRead, LocalTo, exchange, redis, history
  <2>2. pc'[b] \in GuardPlacing => rd'[b].prot \in Levels(attempts, rd'[b].key)
    <3>1. rd[b].key \in Keys
      BY <1>0, <1>1 DEF GuardRead, Visiting, GuardSection
    <3>2. ASSUME pc'[b] \in GuardPlacing
          PROVE  /\ rd'[b].prot = protection[rd[b].key] /\ rd'[b].key = rd[b].key
                 /\ protection[rd[b].key] # None
      BY <1>0, <1>1, <3>2 DEF GuardRead, Valid, RoundType
    <3>3. QED
      BY <3>1, <3>2 DEF LevelsInv, RecordsBacked
  <2>3. QED
    BY <2>1, <2>2, BackedStep
<1>2. CASE GuardOrders(b)
  <2>1. /\ LocalTo(b) /\ attempts' = attempts /\ orders' = orders /\ protection' = protection
        /\ pc[b] \in GuardPlacing /\ pc'[b] # "open_save"
    BY <1>0, <1>2 DEF GuardOrders, LocalTo, exchange, redis, history
  <2>2. rd'[b].prot = rd[b].prot /\ rd'[b].key = rd[b].key
    BY <1>0, <1>2 DEF GuardOrders, RoundType
  <2>3. QED
    BY <2>1, <2>2, BackedStep DEF LevelsInv, RoundsBacked
<1>3. CASE GuardStop(b) \/ GuardTarget1(b) \/ GuardTarget2(b)
  <2>1. /\ LocalTo(b) /\ attempts' = attempts /\ protection' = protection /\ rd' = rd
        /\ pc[b] \in GuardPlacing /\ pc'[b] # "open_save"
    BY <1>0, <1>3
       DEF GuardStop, GuardTarget1, GuardTarget2, GuardPlace, LocalTo, redis, history
  <2>2. \A o \in orders' : o.reduceOnly =>
          o \in orders \/ \E r \in Levels(attempts, o.key) : Carries(o, r)
    BY <1>3, <2>1, BackedGuardPlace DEF GuardStop, GuardTarget1, GuardTarget2
  <2>3. QED
    BY <2>1, <2>2, BackedStep DEF LevelsInv, RoundsBacked
<1>4. CASE GuardStart(b) \/ GuardTake(b) \/ Positioned(b)
  <2>1. /\ LocalTo(b) /\ attempts' = attempts /\ orders' = orders /\ protection' = protection
        /\ pc'[b] \in {"guard_lock", "guard_read", "brpop", "scan"}
    BY <1>0, <1>4
       DEF GuardStart, GuardTake, Positioned, AcquireLock, LocalTo, exchange, redis, history
  <2>2. QED
    BY <2>1, BackedStep
<1>5. CASE GuardRelease(b) \/ CleanScan(b) \/ CleanOrders(b) \/ CleanEnd(b)
  <2>1. /\ LocalTo(b) /\ attempts' = attempts /\ orders' = orders /\ protection' = protection
        /\ pc'[b] \in {"guard_lock", "brpop", "clean", "cancel"}
    BY <1>0, <1>5
       DEF GuardRelease, CleanScan, CleanOrders, CleanEnd, EndRound, LocalTo,
           exchange, redis, history
  <2>2. QED
    BY <2>1, BackedStep
<1>6. CASE CleanCancel(b)
  <2>1. /\ LocalTo(b) /\ attempts' = attempts /\ orders' \subseteq orders
        /\ protection' = protection /\ pc'[b] = "cancel"
    BY <1>0, <1>6 DEF CleanCancel, LocalTo, redis, history
  <2>2. QED
    BY <2>1, BackedStep
<1>7. CASE CleanDel(b)
  <2>1. /\ LocalTo(b) /\ attempts' = attempts /\ orders' = orders /\ pc'[b] = "clean"
        /\ \A k \in Keys : protection'[k] \in {None, protection[k]}
    BY <1>0, <1>7 DEF CleanDel, LocalTo, exchange, history
  <2>2. QED
    BY <2>1, BackedStep
<1>8. QED
  BY <1>1, <1>2, <1>3, <1>4, <1>5, <1>6, <1>7 DEF GuardStep

(* So do the loop, a crash, a shutdown, a restart and the environment. *)
LEMMA OthersBacked ==
  ASSUME TypeOK, TypeOK', LevelsInv,
         \/ \E b \in Bots : LoopStep(b) \/ Shutdown(b) \/ Die(b) \/ Restart(b)
         \/ Environment
         \/ UNCHANGED vars
  PROVE  LevelsInv'
<1> USE DEF GoTo, GuardPlacing
<1>0. /\ pc \in [Bots -> PCs] /\ ex \in [Bots -> CallType] /\ rd \in [Bots -> RoundType]
      /\ protection \in [Keys -> RecordType \cup {None}]
  BY DEF TypeOK, BotsOK, RedisOK
<1>1. ASSUME NEW b \in Bots, Pop(b) \/ PopTimeout(b) \/ Die(b) \/ Restart(b)
      PROVE  LevelsInv'
  <2>1. /\ LocalTo(b) /\ attempts' = attempts /\ orders' = orders /\ protection' = protection
        /\ pc'[b] # "open_save" /\ pc'[b] \notin GuardPlacing
    BY <1>0, <1>1
       DEF Pop, PopTimeout, Die, Restart, Dispatch, LocalTo, exchange, redis, history
  <2>2. QED
    BY <2>1, BackedStep
<1>2. ASSUME NEW o \in orders, NEW qty \in 1..o.qty, FillEntry(o, qty)
      PROVE  LevelsInv'
  <2>1. o \in OrderType
    BY DEF TypeOK, ExchangeOK
  <2>2. \A q \in orders' : \E p \in orders :
          p.key = q.key /\ p.type = q.type /\ p.stop = q.stop /\ p.reduceOnly = q.reduceOnly
    BY <1>2, <2>1 DEF FillEntry, OrderType
  <2>3. QED
    BY <1>2, <2>2, BackedQuietly DEF FillEntry, redis, history
<1>3. CASE \/ \E b \in Bots : Shutdown(b)
           \/ \E o \in orders : Trigger(o)
           \/ \E l \in Locks : OrphanExpires(l)
           \/ \E k \in Keys : ProtectionExpires(k)
           \/ \E s \in Signals : Push(s)
           \/ Tick
           \/ UNCHANGED vars
  <2>1. /\ UNCHANGED <<pc, ex, rd, attempts>> /\ orders' \subseteq orders
        /\ \A k \in Keys : protection'[k] \in {None, protection[k]}
    BY <1>0, <1>3
       DEF Shutdown, Trigger, OrphanExpires, ProtectionExpires, Push, Tick, vars,
           exchange, redis, history
  <2>2. QED
    BY <2>1, BackedQuietly
<1>4. QED
  BY <1>1, <1>2, <1>3 DEF LoopStep, Environment

(* Whatever a record or a protective order says was in an acknowledged     *)
(* entry of that position: SaveProtection and the guard never mix the      *)
(* levels of two positions.                                                *)
THEOREM LevelsRespected == Spec => []LevelsFromEntries
<1>1. Init => LevelsInv
  BY DEF Init, LevelsInv, RecordsBacked, OrdersBacked, SavesBacked, RoundsBacked, GuardPlacing
<1>2. TypeOK /\ TypeOK' /\ LevelsInv /\ [Next]_vars => LevelsInv'
  BY EngineBacked, GuardBacked, OthersBacked DEF Next, BotStep
<1>3. LevelsInv => LevelsFromEntries
  BY DEF LevelsInv, RecordsBacked, OrdersBacked, LevelsFromEntries, Carries, Levels,
         AckedIn, Acked, Record
<1>4. QED
  BY <1>1, <1>2, <1>3, TypeCorrect, PTL DEF Spec

(***************************************************************************)
(* The record is the one of the latest entry: ProtectionOfLatest.          *)
(*                                                                         *)
(* The argument: between the answer to an entry and the record written for *)
(* it, the execution lock keeps every other entry on that symbol out, so   *)
(* the entry whose record is being written is still the latest.  Without   *)
(* faults every write is carried out and no bot stops in between.          *)
(***************************************************************************)

(* r is the record of the latest acknowledged entry of k in history h. *)
OfLatest(h, k, r) ==
  \E i \in AckedIn(h, k) : r = Record(h[i].sig) /\ \A j \in AckedIn(h, k) : j <= i

(* b is about to write a record for k. *)
SavesTo(b, k) == pc[b] = "open_save" /\ Protects(ex[b].sig) /\ KeyOf(ex[b].sig) = k

Latest ==
  /\ \A b \in Bots : ~done[b]
  /\ \A k \in Keys : \/ protection[k] = None
                     \/ \E b \in Bots : SavesTo(b, k)
                     \/ OfLatest(attempts, k, protection[k])
  /\ \A b \in Bots, k \in Keys : SavesTo(b, k) => OfLatest(attempts, k, Record(ex[b].sig))

LatestInv == faults = 0 => Latest

(* An entry that is posted is the latest of its key, and leaves the latest *)
(* entry of every other key what it is. *)
LEMMA LatestAppend ==
  ASSUME NEW h \in Seq(AttemptType), NEW a
  PROVE  /\ a.out = "ok" /\ Protects(a.sig) =>
              OfLatest(Append(h, a), KeyOf(a.sig), Record(a.sig))
         /\ \A k, r : OfLatest(h, k, r) /\ (k # KeyOf(a.sig) \/ a.out # "ok" \/ ~Protects(a.sig)) =>
              OfLatest(Append(h, a), k, r)
<1> DEFINE n == Len(h) + 1
           g == Append(h, a)
<1>1. /\ n \in Nat /\ n \in 1..n /\ DOMAIN g = 1..n /\ DOMAIN h = 1..(n - 1) /\ g[n] = a
      /\ \A i \in 1..(n - 1) : g[i] = h[i] /\ i \in 1..n
      /\ \A i \in 1..n : i <= n /\ (i = n \/ i \in 1..(n - 1))
  OBVIOUS
<1> HIDE DEF g, n
<1>2. ASSUME a.out = "ok", Protects(a.sig)
      PROVE  OfLatest(g, KeyOf(a.sig), Record(a.sig))
  <2>1. n \in AckedIn(g, KeyOf(a.sig)) /\ \A j \in AckedIn(g, KeyOf(a.sig)) : j <= n
    BY <1>1, <1>2 DEF AckedIn
  <2>2. QED
    BY <1>1, <2>1 DEF OfLatest
<1>3. ASSUME NEW k, NEW r, OfLatest(h, k, r),
             k # KeyOf(a.sig) \/ a.out # "ok" \/ ~Protects(a.sig)
      PROVE  OfLatest(g, k, r)
  <2>1. AckedIn(g, k) = AckedIn(h, k)
    BY <1>1, <1>3 DEF AckedIn
  <2>2. \A i \in AckedIn(h, k) : g[i] = h[i]
    BY <1>1 DEF AckedIn
  <2>3. QED
    BY <1>3, <2>1, <2>2 DEF OfLatest
<1>4. QED
  BY <1>2, <1>3 DEF g

(* A step that posts nothing, starts or ends no write of a record, and     *)
(* only takes records away.                                                *)
LEMMA LatestKept ==
  ASSUME Latest, attempts' = attempts, \A c \in Bots : ~done'[c],
         \A c \in Bots : pc[c] = "open_save" \/ pc'[c] = "open_save" =>
           pc'[c] = pc[c] /\ ex'[c] = ex[c],
         \A k \in Keys : protection'[k] \in {None, protection[k]}
  PROVE  Latest'
<1>1. \A c \in Bots, k \in Keys :
        /\ SavesTo(c, k)' <=> SavesTo(c, k)
        /\ SavesTo(c, k) => ex'[c] = ex[c]
  BY DEF SavesTo
<1>2. QED
  BY <1>1 DEF Latest

(* The write of a record: it is the one of the latest entry. *)
LEMMA LatestSave ==
  ASSUME TypeOK, Latest, NEW b \in Bots, OpenSave(b), faults' = 0, faults = 0
  PROVE  Latest'
<1>0. /\ pc \in [Bots -> PCs] /\ protection \in [Keys -> RecordType \cup {None}]
      /\ ex[b].sig \in Signals /\ KeyOf(ex[b].sig) \in Keys
      /\ ~done[b]
  BY SignalFacts
     DEF TypeOK, BotsOK, RedisOK, OpenSave, InCall, ExecutionSection, Latest
<1>1. /\ attempts' = attempts /\ ex' = ex /\ done' = done
      /\ pc'[b] = "release" /\ \A c \in Bots \ {b} : pc'[c] = pc[c]
  BY <1>0 DEF OpenSave, GoTo, history
<1>2. IF Protects(ex[b].sig)
        THEN protection' = [protection EXCEPT ![KeyOf(ex[b].sig)] = Record(ex[b].sig)]
        ELSE protection' = protection
  BY <1>0 DEF OpenSave, Fails, Fault, Sig
<1>3. ASSUME NEW k \in Keys
      PROVE  \/ protection'[k] = None
             \/ \E c \in Bots : SavesTo(c, k)'
             \/ OfLatest(attempts, k, protection'[k])
  <2>1. CASE SavesTo(b, k)
    BY <1>0, <1>2, <2>1 DEF Latest, SavesTo
  <2>2. CASE ~SavesTo(b, k)
    <3>1. protection'[k] = protection[k]
      BY <1>0, <1>2, <2>2 DEF SavesTo, OpenSave
    <3>2. \A c \in Bots : SavesTo(c, k) => SavesTo(c, k)'
      BY <1>1, <2>2 DEF SavesTo
    <3>3. QED
      BY <3>1, <3>2 DEF Latest
  <2>3. QED
    BY <2>1, <2>2
<1>4. ASSUME NEW c \in Bots, NEW k \in Keys, SavesTo(c, k)'
      PROVE  OfLatest(attempts, k, Record(ex[c].sig))
  BY <1>1, <1>4 DEF SavesTo, Latest
<1>5. QED
  BY <1>1, <1>3, <1>4 DEF Latest

(* The posting of an entry, while no other bot writes a record of that     *)
(* symbol.                                                                 *)
LEMMA LatestPlace ==
  ASSUME TypeOK, LockInv, Latest, NEW b \in Bots, OpenPlace(b)
  PROVE  Latest'
<1>0. /\ pc \in [Bots -> PCs] /\ attempts \in Seq(AttemptType)
      /\ pc[b] = "open_place"
  BY DEF TypeOK, BotsOK, RestOK, OpenPlace
<1>1. /\ ex' = ex /\ done' = done /\ protection' = protection
      /\ pc'[b] \in {"open_save", "release"} /\ \A c \in Bots \ {b} : pc'[c] = pc[c]
  BY <1>0 DEF OpenPlace, GoTo, redis
<1>2. PICK a : /\ attempts' = Append(attempts, a) /\ a.sig = ex[b].sig
               /\ (pc'[b] = "open_save" <=> a.out = "ok")
  BY <1>0 DEF OpenPlace, Sig, GoTo
<1>3. /\ a.out = "ok" /\ Protects(a.sig) =>
           OfLatest(attempts', KeyOf(a.sig), Record(a.sig))
      /\ \A k, r : OfLatest(attempts, k, r) /\ (k # KeyOf(a.sig) \/ a.out # "ok" \/ ~Protects(a.sig))
           => OfLatest(attempts', k, r)
  BY <1>0, <1>2, LatestAppend
<1>4. \A c \in Bots, k \in Keys : SavesTo(c, k) => c # b /\ SavesTo(c, k)'
  BY <1>0, <1>1 DEF SavesTo
<1>5. \A k \in Keys : k = KeyOf(a.sig) /\ a.out = "ok" /\ Protects(a.sig) => SavesTo(b, k)'
  BY <1>1, <1>2 DEF SavesTo
<1>6. ASSUME NEW c \in Bots, NEW k \in Keys, c # b, SavesTo(c, k)
      PROVE  k # KeyOf(a.sig)
  <2>1. lock[ExecutionLock(ex[c].sig)] = c /\ lock[ExecutionLock(ex[b].sig)] = b
    BY <1>0, <1>6 DEF LockInv, HoldsLocks, ExecutionSection, SavesTo, Sig
  <2>2. ex[c].sig.symbol # ex[b].sig.symbol
    BY <1>6, <2>1 DEF ExecutionLock
  <2>3. QED
    BY <1>2, <1>6, <2>2 DEF SavesTo, KeyOf
<1>7. \A k \in Keys : \/ protection'[k] = None
                      \/ \E c \in Bots : SavesTo(c, k)'
                      \/ OfLatest(attempts', k, protection'[k])
  BY <1>1, <1>3, <1>4, <1>5 DEF Latest
<1>8. ASSUME NEW c \in Bots, NEW k \in Keys, SavesTo(c, k)'
      PROVE  OfLatest(attempts', k, Record(ex[c].sig))
  <2>1. CASE c = b
    BY <1>1, <1>2, <1>3, <1>8, <2>1 DEF SavesTo
  <2>2. CASE c # b
    <3>1. SavesTo(c, k)
      BY <1>1, <1>8, <2>2 DEF SavesTo
    <3>2. QED
      BY <1>3, <1>6, <2>2, <3>1 DEF Latest
  <2>3. QED
    BY <2>1, <2>2
<1>9. QED
  BY <1>1, <1>7, <1>8 DEF Latest

(* Faults are never taken back, and without one no context is cancelled. *)
LEMMA FaultFree ==
  ASSUME TypeOK, LatestInv, [Next]_vars, faults' = 0
  PROVE  faults = 0 /\ Latest /\ \A b \in Bots : ~done'[b]
<1>0. /\ faults \in Nat /\ done \in [Bots -> BOOLEAN]
      /\ \A kind : ~Fault(kind)
  BY TradingConstants DEF TypeOK, RestOK, Fault
<1>1. ASSUME NEW b \in Bots, EngineStep(b)
      PROVE  faults = 0 /\ done' = done
  <2>1. CASE OpenLock(b) \/ CloseLock(b) \/ Release(b)
    BY <1>0, <2>1
       DEF OpenLock, CloseLock, AcquireLock, Release, ReleaseLock, Answers, Fails
  <2>2. CASE OpenDedupe(b) \/ OpenMark(b) \/ OpenSave(b) \/ CloseRead(b) \/ Finish(b)
    BY <1>0, <2>2
       DEF OpenDedupe, OpenMark, OpenSave, CloseRead, Finish, Answers, Fails,
           ExchangeAnswers, ExchangeFails
  <2>3. CASE OpenPlace(b) \/ ClosePlace(b)
    <3>1. \A o, out : PlaceResting(o, out) => faults' = faults
      BY <1>0 DEF PlaceResting, OutcomeCost, ExchangeAnswers, ExchangeFails
    <3>2. \A k, qty, out : PlaceMarketReduce(k, qty, out) => faults' = faults
      BY <1>0 DEF PlaceMarketReduce, OutcomeCost, ExchangeAnswers, ExchangeFails
    <3>3. QED
      BY <2>3, <3>1, <3>2 DEF OpenPlace, ClosePlace
  <2>4. QED
    BY <1>1, <2>1, <2>2, <2>3 DEF EngineStep
<1>2. ASSUME NEW b \in Bots, GuardStep(b)
      PROVE  faults = 0 /\ done' = done
  <2>1. CASE GuardStart(b) \/ GuardTake(b) \/ Positioned(b) \/ GuardRead(b) \/ GuardOrders(b)
    BY <1>0, <2>1
       DEF GuardStart, GuardTake, AcquireLock, Positioned, GuardRead, GuardOrders,
           Answers, Fails, ExchangeAnswers, ExchangeFails
  <2>2. CASE GuardStop(b) \/ GuardTarget1(b) \/ GuardTarget2(b) \/ GuardRelease(b)
    BY <1>0, <2>2
       DEF GuardStop, GuardTarget1, GuardTarget2, GuardPlace, PlaceResting, OutcomeCost,
           GuardRelease, ReleaseLock, Answers, Fails, ExchangeAnswers, ExchangeFails
  <2>3. CASE CleanScan(b) \/ CleanOrders(b) \/ CleanCancel(b) \/ CleanDel(b) \/ CleanEnd(b)
    BY <1>0, <2>3
       DEF CleanScan, CleanOrders, CleanCancel, CleanDel, CleanEnd, Answers, Fails,
           ExchangeAnswers, ExchangeFails
  <2>4. QED
    BY <1>2, <2>1, <2>2, <2>3 DEF GuardStep
<1>3. ASSUME NEW b \in Bots, LoopStep(b) \/ Shutdown(b) \/ Die(b) \/ Restart(b)
      PROVE  faults = 0 /\ \A c \in Bots : done'[c] => done[c]
  BY <1>0, <1>3 DEF LoopStep, Pop, PopTimeout, Shutdown, Die, Restart
<1>4. ASSUME Environment \/ UNCHANGED vars
      PROVE  faults = 0 /\ done' = done
  BY <1>0, <1>4
     DEF Environment, FillEntry, Trigger, OrphanExpires, ProtectionExpires, Push, Tick,
         vars
<1>5. faults = 0 /\ \A c \in Bots : done'[c] => done[c]
  BY <1>1, <1>2, <1>3, <1>4
     DEF Next, BotStep
<1>6. QED
  BY <1>5 DEF LatestInv, Latest

(* The other steps neither start nor end the write of a record. *)
LEMMA LatestOtherwise ==
  ASSUME TypeOK, Latest, [Next]_vars, faults' = 0, \A c \in Bots : ~done'[c],
         \A b \in Bots : ~OpenPlace(b) /\ ~OpenSave(b)
  PROVE  Latest'
<1> USE DEF GoTo
<1>0. /\ pc \in [Bots -> PCs] /\ ex \in [Bots -> CallType] /\ faults \in Nat
      /\ protection \in [Keys -> RecordType \cup {None}]
  BY TradingConstants DEF TypeOK, BotsOK, RedisOK, RestOK
<1>1. ASSUME NEW b \in Bots, EngineStep(b)
      PROVE  Latest'
  <2>1. attempts' = attempts /\ protection' = protection
    BY <1>1
       DEF EngineStep, OpenLock, OpenDedupe, OpenMark, CloseRead, CloseLock, ClosePlace,
           Release, Finish, redis, history
  <2>2. \A c \in Bots \ {b} : pc'[c] = pc[c] /\ ex'[c] = ex[c]
    BY <1>0, <1>1
       DEF EngineStep, OpenLock, OpenDedupe, OpenMark, CloseRead, CloseLock, ClosePlace,
           AcquireLock, Release, Finish, Back
  <2>3. pc[b] # "open_save" /\ pc'[b] # "open_save"
    BY <1>0, <1>1
       DEF EngineStep, OpenLock, OpenDedupe, OpenMark, CloseRead, CloseLock, ClosePlace,
           AcquireLock, Release, Finish, Back
  <2>4. QED
    BY <2>1, <2>2, <2>3, LatestKept
<1>2. ASSUME NEW b \in Bots, GuardStep(b)
      PROVE  Latest'
  <2>1. attempts' = attempts /\ ex' = ex
    BY <1>2
       DEF GuardStep, GuardStart, GuardTake, Positioned, GuardRead, GuardOrders, GuardStop,
           GuardTarget1, GuardTarget2, GuardPlace, GuardRelease, CleanScan, CleanOrders,
           CleanCancel, CleanDel, CleanEnd, EndRound, history
  <2>2. \A k \in Keys : protection'[k] \in {None, protection[k]}
    BY <1>0, <1>2
       DEF GuardStep, GuardStart, GuardTake, Positioned, GuardRead, GuardOrders, GuardStop,
           GuardTarget1, GuardTarget2, GuardPlace, GuardRelease, CleanScan, CleanOrders,
           CleanCancel, CleanDel, CleanEnd, redis
  <2>3. \A c \in Bots : pc'[c] = pc[c] \/ (pc[c] # "open_save" /\ pc'[c] # "open_save")
    <3>1. CASE GuardStart(b) \/ GuardTake(b) \/ Positioned(b) \/ GuardRead(b) \/ GuardOrders(b)
      BY <1>0, <3>1
         DEF GuardStart, GuardTake, AcquireLock, Positioned, GuardRead, GuardOrders
    <3>2. CASE GuardStop(b) \/ GuardTarget1(b) \/ GuardTarget2(b) \/ GuardRelease(b)
      BY <1>0, <3>2 DEF GuardStop, GuardTarget1, GuardTarget2, GuardPlace, GuardRelease
    <3>3. CASE CleanScan(b) \/ CleanOrders(b) \/ CleanCancel(b) \/ CleanDel(b) \/ CleanEnd(b)
      BY <1>0, <3>3 DEF CleanScan, CleanOrders, CleanCancel, CleanDel, CleanEnd, EndRound
    <3>4. QED
      BY <1>2, <3>1, <3>2, <3>3 DEF GuardStep
  <2>4. QED
    BY <2>1, <2>2, <2>3, LatestKept
<1>3. ASSUME NEW b \in Bots, LoopStep(b) \/ Restart(b)
      PROVE  Latest'
  <2>1. attempts' = attempts /\ protection' = protection
    BY <1>3 DEF LoopStep, Pop, PopTimeout, Restart, redis, history
  <2>2. \A c \in Bots : pc[c] = "open_save" \/ pc'[c] = "open_save" =>
          pc'[c] = pc[c] /\ ex'[c] = ex[c]
    BY <1>0, <1>3 DEF LoopStep, Pop, PopTimeout, Restart, Dispatch
  <2>3. QED
    BY <2>1, <2>2, LatestKept
<1>4. ASSUME NEW b \in Bots, Shutdown(b) \/ Die(b)
      PROVE  FALSE
  BY <1>0, <1>4 DEF Shutdown, Die, Fault, Latest
<1>5. CASE Environment \/ UNCHANGED vars
  <2>1. UNCHANGED <<pc, ex, attempts>> /\ \A k \in Keys : protection'[k] \in {None, protection[k]}
    BY <1>0, <1>5
       DEF Environment, FillEntry, Trigger, OrphanExpires, ProtectionExpires, Push, Tick,
           vars, redis, history
  <2>2. QED
    BY <2>1, LatestKept
<1>6. QED
  BY <1>1, <1>2, <1>3, <1>4, <1>5 DEF Next, BotStep

(* As long as nothing fails, the record of a position is the one of its    *)
(* latest acknowledged entry, or is about to be (SaveProtection after      *)
(* PlaceOrder, both under the execution lock).                             *)
THEOREM LatestRespected == Spec => []ProtectionOfLatest
<1>1. Init => LatestInv
  BY DEF Init, LatestInv, Latest, SavesTo
<1>2. TypeOK /\ LockInv /\ LatestInv /\ [Next]_vars => LatestInv'
  <2> SUFFICES ASSUME TypeOK, LockInv, LatestInv, [Next]_vars, faults' = 0
               PROVE  Latest'
    BY DEF LatestInv
  <2>1. faults = 0 /\ Latest /\ \A b \in Bots : ~done'[b]
    BY FaultFree
  <2>2. QED
    BY <2>1, LatestSave, LatestPlace, LatestOtherwise
<1>3. LatestInv => ProtectionOfLatest
  BY DEF LatestInv, Latest, ProtectionOfLatest, Saving, SavesTo, Sig, OfLatest, AckedIn, Acked
<1>4. QED
  BY <1>1, <1>2, <1>3, TypeCorrect, LocksHeld, PTL DEF Spec

(***************************************************************************)
(* The cleanup spares live positions: CleanupSparesLive.                   *)
(*                                                                         *)
(* The argument: the cleanup works on keys that were flat in its snapshot, *)
(* a key that has been open ever since was not, and the identifiers it     *)
(* collected stay those of orders of the key it visits, because the        *)
(* exchange never gives one out twice.                                     *)
(***************************************************************************)

UniqueIds ==
  /\ \A o \in orders : o.id <= nextId
  /\ \A o, p \in orders : o.id = p.id => o = p

(* What a round holds fits the snapshot it works from. *)
RoundFits(b) ==
  /\ \A k \in steady[b] : rd[b].snap[k] > 0
  /\ pc[b] \in {"clean", "cancel"} => \A k \in rd[b].todo : rd[b].snap[k] = 0
  /\ pc[b] = "cancel" =>
       /\ rd[b].snap[rd[b].key] = 0
       /\ \A v \in rd[b].victims :
            v <= nextId /\ \A o \in orders : o.id = v => o.key = rd[b].key

CleanInv == UniqueIds /\ \A b \in Bots : RoundFits(b)

(* What the updates of a round leave of it. *)
LEMMA RoundFields ==
  ASSUME NEW r \in RoundType, NEW todo, NEW key, NEW x
  PROVE  /\ [r EXCEPT !.snap = x, !.todo = todo].snap = x
         /\ [r EXCEPT !.todo = todo, !.key = key].snap = r.snap
         /\ [NoRound EXCEPT !.snap = r.snap, !.todo = r.todo].snap = r.snap
         /\ [r EXCEPT !.todo = todo].snap = r.snap
         /\ [r EXCEPT !.todo = todo].todo = todo
         /\ [r EXCEPT !.todo = todo, !.key = key, !.victims = x].snap = r.snap
         /\ [r EXCEPT !.todo = todo, !.key = key, !.victims = x].todo = todo
         /\ [r EXCEPT !.todo = todo, !.key = key, !.victims = x].key = key
         /\ [r EXCEPT !.todo = todo, !.key = key, !.victims = x].victims = x
BY DEF RoundType, NoRound

(* No order changes its position, and a new one has a new identifier. *)
BookGrows ==
  /\ nextId' >= nextId
  /\ \A o \in orders' :
       o.id > nextId \/ \E p \in orders : p.id = o.id /\ p.key = o.key

(* An order that is accepted gets an identifier that no other one has. *)
LEMMA PlacedBook ==
  ASSUME TypeOK, UniqueIds, NEW o \in OrderType, o.id = nextId + 1, NEW out,
         PlaceResting(o, out)
  PROVE  UniqueIds' /\ BookGrows
<1>1. nextId \in Nat /\ \A p \in orders : p.id \in Nat
  BY TradingConstants DEF TypeOK, ExchangeOK, OrderType
<1>2. \/ orders' = orders /\ nextId' = nextId
      \/ orders' = orders \cup {o} /\ nextId' = nextId + 1
  BY DEF PlaceResting, exchange
<1>3. QED
  BY <1>1, <1>2 DEF UniqueIds, BookGrows

(* Orders that go leave the identifiers of the others unique. *)
LEMMA SmallerBook ==
  ASSUME TypeOK, UniqueIds, orders' \subseteq orders, nextId' = nextId
  PROVE  UniqueIds' /\ BookGrows
BY TradingConstants DEF TypeOK, ExchangeOK, UniqueIds, BookGrows

(* A bot that does not move, while the book grows or shrinks and positions *)
(* are closed, keeps what its round holds.                                 *)
LEMMA RoundKept ==
  ASSUME TypeOK, TypeOK', BookGrows, NEW c \in Bots, RoundFits(c),
         pc'[c] = pc[c], rd'[c] = rd[c], steady'[c] \subseteq steady[c]
  PROVE  RoundFits(c)'
<1>1. /\ nextId \in Nat /\ nextId' \in Nat /\ rd[c] \in RoundType
      /\ \A o \in orders' : o.id \in Nat
  BY TradingConstants DEF TypeOK, ExchangeOK, BotsOK, OrderType
<1>2. /\ \A k \in steady'[c] : rd'[c].snap[k] > 0
      /\ pc'[c] \in {"clean", "cancel"} => \A k \in rd'[c].todo : rd'[c].snap[k] = 0
  BY DEF RoundFits
<1>3. ASSUME pc'[c] = "cancel"
      PROVE  /\ rd'[c].snap[rd'[c].key] = 0
             /\ \A v \in rd'[c].victims :
                  v <= nextId' /\ \A o \in orders' : o.id = v => o.key = rd'[c].key
  <2>1. SUFFICES ASSUME NEW v \in rd[c].victims
                 PROVE  v <= nextId' /\ \A o \in orders' : o.id = v => o.key = rd[c].key
    BY <1>3 DEF RoundFits
  <2>2. v \in Nat /\ v <= nextId /\ \A o \in orders : o.id = v => o.key = rd[c].key
    BY <1>1, <1>3 DEF RoundFits, RoundType
  <2>3. QED
    BY <1>1, <2>2 DEF BookGrows
<1>4. QED
  BY <1>2, <1>3 DEF RoundFits

(* A step of one bot. *)
LEMMA RoundsKept ==
  ASSUME TypeOK, TypeOK', CleanInv, NEW b \in Bots, LocalTo(b), UniqueIds', BookGrows,
         \A c \in Bots \ {b} : steady'[c] \subseteq steady[c],
         RoundFits(b)'
  PROVE  CleanInv'
<1>1. ASSUME NEW c \in Bots \ {b}
      PROVE  RoundFits(c)'
  BY RoundKept DEF CleanInv, LocalTo
<1>2. QED
  BY <1>1 DEF CleanInv

(* A step of one bot outside the cleanup that keeps its snapshot. *)
LEMMA OutsideCleanup ==
  ASSUME TypeOK, TypeOK', CleanInv, NEW b \in Bots, LocalTo(b), UniqueIds', BookGrows,
         \A c \in Bots : steady'[c] \subseteq steady[c],
         rd'[b].snap = rd[b].snap \/ steady'[b] = {},
         pc'[b] \notin {"clean", "cancel"}
  PROVE  CleanInv'
<1>1. RoundFits(b)'
  BY DEF CleanInv, RoundFits
<1>2. QED
  BY <1>1, RoundsKept

(* The steps of an engine call keep CleanInv. *)
LEMMA EngineFits ==
  ASSUME TypeOK, TypeOK', CleanInv, NEW b \in Bots, EngineStep(b)
  PROVE  CleanInv'
<1> USE DEF GoTo
<1>0. /\ pc \in [Bots -> PCs] /\ ex \in [Bots -> CallType] /\ rd \in [Bots -> RoundType]
      /\ steady \in [Bots -> SUBSET Keys] /\ UniqueIds
  BY DEF TypeOK, BotsOK, RestOK, CleanInv
<1>1. CASE OpenPlace(b)
  <2>1. PICK out \in Outcomes :
          PlaceResting(EntryOrder(KeyOf(Sig(b)), Sig(b).price), out)
    BY <1>1 DEF OpenPlace
  <2>2. /\ EntryOrder(KeyOf(Sig(b)), Sig(b).price) \in OrderType
        /\ EntryOrder(KeyOf(Sig(b)), Sig(b).price).id = nextId + 1
    <3>1. Sig(b) \in Signals
      BY <1>1 DEF OpenPlace, TypeOK, BotsOK, InCall, ExecutionSection, Sig
    <3>2. QED
      BY <3>1, SignalFacts, TradingConstants
         DEF EntryOrder, OrderType, BuyOrSell, TypeOK, ExchangeOK
  <2>3. UniqueIds' /\ BookGrows
    BY <1>0, <2>1, <2>2, PlacedBook
  <2>4. LocalTo(b) /\ rd' = rd /\ steady' = steady /\ pc'[b] \in {"open_save", "release"}
    BY <1>0, <1>1 DEF OpenPlace, LocalTo
  <2>5. QED
    BY <2>3, <2>4, OutsideCleanup
<1>2. CASE \/ OpenLock(b) \/ CloseLock(b) \/ OpenDedupe(b) \/ OpenMark(b) \/ OpenSave(b)
           \/ CloseRead(b) \/ ClosePlace(b) \/ Release(b) \/ Finish(b)
  <2>1. orders' = orders /\ nextId' = nextId
    BY <1>2
       DEF OpenLock, CloseLock, OpenDedupe, OpenMark, OpenSave, CloseRead, ClosePlace,
           PlaceMarketReduce, Release, Finish, exchange
  <2>2. UniqueIds' /\ BookGrows
    BY <1>0, <2>1, SmallerBook
  <2>3. LocalTo(b) /\ rd' = rd
    BY <1>0, <1>2
       DEF OpenLock, CloseLock, AcquireLock, OpenDedupe, OpenMark, OpenSave, CloseRead,
           ClosePlace, Release, Finish, Back, LocalTo
  <2>4. \A c \in Bots : steady'[c] \subseteq steady[c]
    BY <1>0, <1>2
       DEF OpenLock, CloseLock, OpenDedupe, OpenMark, OpenSave, CloseRead, ClosePlace,
           StillOpen, Release, Finish, history
  <2>5. pc'[b] \notin {"clean", "cancel"}
    BY <1>0, <1>2
       DEF OpenLock, CloseLock, AcquireLock, OpenDedupe, OpenMark, OpenSave, CloseRead,
           ClosePlace, Release, Finish, Back
  <2>6. QED
    BY <2>2, <2>3, <2>4, <2>5, OutsideCleanup
<1>3. QED
  BY <1>1, <1>2 DEF EngineStep

(* The steps of a round up to its cleanup keep CleanInv. *)
LEMMA GuardFits ==
  ASSUME TypeOK, TypeOK', CleanInv, NEW b \in Bots,
         \/ GuardStart(b) \/ GuardTake(b) \/ Positioned(b) \/ GuardRead(b)
         \/ GuardOrders(b) \/ GuardStop(b) \/ GuardTarget1(b) \/ GuardTarget2(b)
         \/ GuardRelease(b)
  PROVE  CleanInv'
<1> USE DEF GoTo
<1>0. /\ pc \in [Bots -> PCs] /\ ex \in [Bots -> CallType] /\ rd \in [Bots -> RoundType]
      /\ rd[b] \in RoundType /\ steady \in [Bots -> SUBSET Keys] /\ UniqueIds
      /\ pc[b] \in GuardPlacing => rd[b].key \in Keys /\ rd[b].prot \in RecordType
  BY DEF TypeOK, BotsOK, RestOK, CleanInv, Visiting, GuardSection
<1>1. CASE GuardStart(b)
  <2>1. LocalTo(b) /\ orders' = orders /\ nextId' = nextId /\ pc'[b] \in {"guard_lock", "brpop"}
    BY <1>0, <1>1 DEF GuardStart, LocalTo, exchange
  <2>2. UniqueIds' /\ BookGrows
    BY <1>0, <2>1, SmallerBook
  <2>3. \A k \in steady'[b] : rd'[b].snap[k] > 0
    <3>1. CASE rd' = rd /\ steady' = steady
      BY <3>1 DEF CleanInv, RoundFits
    <3>2. CASE /\ rd' = [rd EXCEPT ![b] = [@ EXCEPT !.snap = pos, !.todo = OpenKeys]]
               /\ steady' = [steady EXCEPT ![b] = OpenKeys]
      <4>1. rd'[b] = [rd[b] EXCEPT !.snap = pos, !.todo = OpenKeys]
        BY <1>0, <3>2
      <4>2. rd'[b].snap = pos
        BY <1>0, <4>1, RoundFields
      <4>3. steady'[b] = OpenKeys
        BY <1>0, <3>2
      <4>4. QED
        BY <4>2, <4>3 DEF OpenKeys
    <3>3. QED
      BY <1>1, <3>1, <3>2 DEF GuardStart
  <2>4. RoundFits(b)'
    BY <2>1, <2>3 DEF RoundFits
  <2>5. \A c \in Bots \ {b} : steady'[c] \subseteq steady[c]
    BY <1>0, <1>1 DEF GuardStart
  <2>6. QED
    BY <2>1, <2>2, <2>4, <2>5, RoundsKept
<1>2. CASE \/ GuardTake(b) \/ Positioned(b) \/ GuardRead(b) \/ GuardOrders(b)
           \/ GuardRelease(b)
  <2>1. /\ LocalTo(b) /\ orders' = orders /\ nextId' = nextId /\ steady' = steady
        /\ pc'[b] \notin {"clean", "cancel"}
    BY <1>0, <1>2
       DEF GuardTake, AcquireLock, Positioned, GuardRead, GuardOrders, GuardRelease,
           LocalTo, exchange, history
  <2>2. UniqueIds' /\ BookGrows
    BY <1>0, <2>1, SmallerBook
  <2>3. rd'[b].snap = rd[b].snap
    <3>1. CASE GuardTake(b)
      <4>1. PICK k \in rd[b].todo : rd'[b] = [rd[b] EXCEPT !.todo = @ \ {k}, !.key = k]
        BY <1>0, <3>1 DEF GuardTake
      <4>2. QED
        BY <1>0, <4>1, RoundFields
    <3>2. CASE Positioned(b)
      BY <3>2 DEF Positioned
    <3>3. CASE GuardRead(b)
      <4>1. \/ rd'[b] = rd[b]
            \/ rd'[b] = [rd[b] EXCEPT !.prot = protection[rd[b].key]]
        BY <1>0, <3>3 DEF GuardRead
      <4>2. [rd[b] EXCEPT !.prot = protection[rd[b].key]].snap = rd[b].snap
        BY <1>0 DEF RoundType
      <4>3. QED
        BY <4>1, <4>2
    <3>4. CASE GuardOrders(b)
      <4>1. \E h : rd'[b] = [rd[b] EXCEPT !.has = h]
        BY <1>0, <3>4 DEF GuardOrders
      <4>2. \A h : [rd[b] EXCEPT !.has = h].snap = rd[b].snap
        BY <1>0 DEF RoundType
      <4>3. QED
        BY <4>1, <4>2
    <3>5. CASE GuardRelease(b)
      <4>1. rd'[b] = [NoRound EXCEPT !.snap = rd[b].snap, !.todo = rd[b].todo]
        BY <1>0, <3>5 DEF GuardRelease
      <4>2. QED
        BY <1>0, <4>1, RoundFields
    <3>6. QED
      BY <1>2, <3>1, <3>2, <3>3, <3>4, <3>5
  <2>4. QED
    BY <2>1, <2>2, <2>3, OutsideCleanup
<1>3. ASSUME NEW name, NEW type \in ProtectiveTypes, NEW qty \in Nat, NEW stop \in Nat,
             NEW then \in PCs \ {"clean", "cancel"}, pc[b] \in GuardPlacing,
             GuardPlace(b, name, type, qty, stop, then)
      PROVE  CleanInv'
  <2>1. LocalTo(b) /\ rd' = rd /\ steady' = steady /\ pc'[b] = then
    BY <1>0, <1>3 DEF GuardPlace, LocalTo, history
  <2>2. UniqueIds' /\ BookGrows
    <3>1. CASE UNCHANGED exchange
      BY <1>0, <3>1, SmallerBook DEF exchange
    <3>2. ASSUME NEW out \in Outcomes,
                 PlaceResting(ProtectiveOrder(rd[b].key, type, qty, stop), out)
          PROVE  UniqueIds' /\ BookGrows
      <4>1. /\ ProtectiveOrder(rd[b].key, type, qty, stop) \in OrderType
            /\ ProtectiveOrder(rd[b].key, type, qty, stop).id = nextId + 1
        BY <1>0, <1>3, TradingConstants
           DEF ProtectiveOrder, OrderType, ProtectiveTypes, BuyOrSell, TypeOK, ExchangeOK
      <4>2. QED
        BY <1>0, <3>2, <4>1, PlacedBook
    <3>3. QED
      BY <1>3, <3>1, <3>2 DEF GuardPlace
  <2>3. QED
    BY <2>1, <2>2, OutsideCleanup
<1>4. CASE GuardStop(b) \/ GuardTarget1(b) \/ GuardTarget2(b)
  <2>1. pc[b] \in GuardPlacing /\ rd[b].prot \in RecordType /\ Size(b) \in Nat
    BY <1>0, <1>4
       DEF GuardStop, GuardTarget1, GuardTarget2, GuardPlacing, Size, RoundType
  <2>2. Amount1(Size(b)) \in Nat /\ Amount2(Size(b)) \in Nat
    BY <2>1, AmountTypes
  <2>3. rd[b].prot.sl \in Nat /\ rd[b].prot.tp1 \in Nat /\ rd[b].prot.tp2 \in Nat
    BY <2>1 DEF RecordType
  <2>4. {"guard_tp1", "guard_tp2", "guard_release"} \subseteq PCs \ {"clean", "cancel"}
    BY DEF PCs, Visiting, GuardSection, GuardPlacing
  <2>5. QED
    BY <1>3, <1>4, <2>1, <2>2, <2>3, <2>4
       DEF GuardStop, GuardTarget1, GuardTarget2, ProtectiveTypes
<1>5. QED
  BY <1>1, <1>2, <1>4

(* The steps of the cleanup keep CleanInv. *)
LEMMA CleanFits ==
  ASSUME TypeOK, TypeOK', CleanInv, NEW b \in Bots,
         CleanScan(b) \/ CleanOrders(b) \/ CleanCancel(b) \/ CleanDel(b) \/ CleanEnd(b)
  PROVE  CleanInv'
<1> USE DEF GoTo
<1>0. /\ pc \in [Bots -> PCs] /\ ex \in [Bots -> CallType] /\ rd \in [Bots -> RoundType]
      /\ rd[b] \in RoundType /\ steady \in [Bots -> SUBSET Keys] /\ UniqueIds
      /\ RoundFits(b)
  BY DEF TypeOK, BotsOK, RestOK, CleanInv
<1>1. /\ LocalTo(b) /\ orders' \subseteq orders /\ nextId' = nextId
      /\ \A c \in Bots : steady'[c] \subseteq steady[c]
  BY <1>0
     DEF CleanScan, CleanOrders, CleanCancel, CleanDel, CleanEnd, EndRound, LocalTo,
         exchange, history
<1>2. UniqueIds' /\ BookGrows
  BY <1>0, <1>1, SmallerBook
<1>3. RoundFits(b)'
  <2>1. CASE CleanScan(b)
    <3>1. CASE pc'[b] = "brpop"
      BY <1>0, <2>1, <3>1 DEF CleanScan, EndRound, RoundFits
    <3>2. CASE pc'[b] # "brpop"
      <4>1. PICK todo \in SUBSET {k \in Keys : rd[b].snap[k] = 0} :
              rd'[b] = [rd[b] EXCEPT !.todo = todo]
        BY <1>0, <2>1, <3>2 DEF CleanScan, EndRound
      <4>2. rd'[b].snap = rd[b].snap /\ rd'[b].todo = todo
        BY <1>0, <4>1, RoundFields
      <4>3. pc'[b] = "clean" /\ steady' = steady
        BY <1>0, <2>1, <3>2 DEF CleanScan, EndRound
      <4>4. QED
        BY <1>0, <4>2, <4>3 DEF RoundFits
    <3>3. QED
      BY <3>1, <3>2
  <2>2. CASE CleanOrders(b)
    <3> DEFINE Residual(key) == {o \in orders : o.key = key /\ o.type \in ProtectiveTypes}
               Visit(key, v) == [rd[b] EXCEPT !.todo = @ \ {key}, !.key = key, !.victims = v]
    <3>1. PICK k \in rd[b].todo :
            \/ rd' = [rd EXCEPT ![b] = Visit(k, {o.id : o \in Residual(k)})]
            \/ rd' = [rd EXCEPT ![b] = Visit(k, {})]
      BY <2>2 DEF CleanOrders
    <3>2. PICK ids : /\ ids = {} \/ ids = {o.id : o \in Residual(k)}
                     /\ rd'[b] = Visit(k, ids)
      BY <1>0, <3>1
    <3>3. \A v \in ids : \E o \in orders : o.id = v /\ o.key = k
      BY <3>2
    <3>4. /\ rd'[b].todo = rd[b].todo \ {k} /\ rd'[b].key = k /\ rd'[b].victims = ids
          /\ rd'[b].snap = rd[b].snap
      BY <1>0, <3>2, RoundFields
    <3>5. steady' = steady /\ orders' = orders /\ pc[b] = "clean"
      BY <2>2 DEF CleanOrders, exchange, history
    <3>6. rd[b].snap[k] = 0
      BY <1>0, <3>1, <3>5 DEF RoundFits
    <3>7. \A v \in ids : v <= nextId /\ \A o \in orders : o.id = v => o.key = k
      BY <1>0, <3>3 DEF UniqueIds
    <3>8. QED
      BY <1>0, <1>1, <3>4, <3>5, <3>6, <3>7 DEF RoundFits
  <2>3. CASE CleanCancel(b)
    BY <1>0, <1>1, <2>3 DEF CleanCancel, RoundFits, RoundType, history
  <2>4. CASE CleanDel(b)
    BY <1>0, <2>4 DEF CleanDel, RoundFits, RoundType, history
  <2>5. CASE CleanEnd(b)
    BY <1>0, <2>5 DEF CleanEnd, EndRound, RoundFits
  <2>6. QED
    BY <2>1, <2>2, <2>3, <2>4, <2>5
<1>4. QED
  BY <1>1, <1>2, <1>3, RoundsKept

(* So do the loop, a crash, a shutdown, a restart and the environment. *)
LEMMA OthersFit ==
  ASSUME TypeOK, TypeOK', CleanInv,
         \/ \E b \in Bots : LoopStep(b) \/ Shutdown(b) \/ Die(b) \/ Restart(b)
         \/ Environment
         \/ UNCHANGED vars
  PROVE  CleanInv'
<1> USE DEF GoTo
<1>0. /\ pc \in [Bots -> PCs] /\ ex \in [Bots -> CallType] /\ rd \in [Bots -> RoundType]
      /\ steady \in [Bots -> SUBSET Keys] /\ UniqueIds
  BY DEF TypeOK, BotsOK, RestOK, CleanInv
<1>1. ASSUME NEW b \in Bots, Pop(b) \/ PopTimeout(b) \/ Die(b) \/ Restart(b)
      PROVE  CleanInv'
  <2>1. /\ LocalTo(b) /\ orders' = orders /\ nextId' = nextId
        /\ \A c \in Bots : steady'[c] \subseteq steady[c]
        /\ pc'[b] \notin {"clean", "cancel"}
    BY <1>0, <1>1
       DEF Pop, PopTimeout, Die, Restart, Dispatch, LocalTo, exchange, history
  <2>2. rd'[b].snap = rd[b].snap \/ steady'[b] = {}
    BY <1>0, <1>1 DEF Pop, PopTimeout, Die, Restart
  <2>3. UniqueIds' /\ BookGrows
    BY <1>0, <2>1, SmallerBook
  <2>4. QED
    BY <2>1, <2>2, <2>3, OutsideCleanup
<1>2. ASSUME UNCHANGED <<pc, rd>>, UniqueIds', BookGrows,
             \A c \in Bots : steady'[c] \subseteq steady[c]
      PROVE  CleanInv'
  BY <1>2, RoundKept DEF CleanInv
<1>3. ASSUME NEW o \in orders, NEW qty \in 1..o.qty, FillEntry(o, qty)
      PROVE  CleanInv'
  <2>1. o \in OrderType
    BY DEF TypeOK, ExchangeOK
  <2>2. PICK rest : /\ rest.id = o.id /\ rest.key = o.key
                    /\ orders' \subseteq (orders \ {o}) \cup {rest}
    <3>1. [o EXCEPT !.qty = @ - qty].id = o.id /\ [o EXCEPT !.qty = @ - qty].key = o.key
      BY <2>1 DEF OrderType
    <3>2. QED
      BY <1>3, <3>1 DEF FillEntry
  <2>3. nextId' = nextId /\ nextId \in Nat
    BY <1>3, TradingConstants DEF FillEntry, TypeOK, ExchangeOK
  <2>4. UniqueIds'
    BY <1>0, <2>2, <2>3 DEF UniqueIds
  <2>5. BookGrows
    BY <2>2, <2>3 DEF BookGrows
  <2>6. QED
    BY <1>2, <1>3, <2>4, <2>5 DEF FillEntry, history
<1>4. CASE \/ \E b \in Bots : Shutdown(b)
           \/ \E o \in orders : Trigger(o)
           \/ \E l \in Locks : OrphanExpires(l)
           \/ \E k \in Keys : ProtectionExpires(k)
           \/ \E s \in Signals : Push(s)
           \/ Tick
           \/ UNCHANGED vars
  <2>1. /\ UNCHANGED <<pc, rd>> /\ orders' \subseteq orders /\ nextId' = nextId
        /\ \A c \in Bots : steady'[c] \subseteq steady[c]
    BY <1>0, <1>4
       DEF Shutdown, Trigger, StillOpen, OrphanExpires, ProtectionExpires, Push, Tick,
           vars, exchange, history
  <2>2. QED
    BY <1>0, <1>2, <2>1, SmallerBook
<1>5. QED
  BY <1>1, <1>3, <1>4 DEF LoopStep, Environment

(* A cancellation of the cleanup is of an order of the key it visits. *)
LEMMA CancelsOwnKey ==
  ASSUME TypeOK, CleanInv, [Next]_vars, NEW b \in Bots, NEW o \in orders,
         pc[b] = "cancel", rd'[b] # rd[b], o \notin orders'
  PROVE  o.key \notin steady[b]
<1>0. pc \in [Bots -> PCs] /\ rd \in [Bots -> RoundType] /\ RoundFits(b)
  BY DEF TypeOK, BotsOK, CleanInv
<1>1. CASE CleanCancel(b)
  <2>1. PICK v \in rd[b].victims : orders' = {p \in orders : p.id # v} \/ orders' = orders
    BY <1>1 DEF CleanCancel
  <2>2. o.id = v
    BY <2>1
  <2>3. QED
    BY <1>0, <2>1, <2>2 DEF RoundFits
<1>2. CASE ~CleanCancel(b)
  <2>1. ASSUME NEW c \in Bots, EngineStep(c)
        PROVE  rd' = rd
    BY <2>1
       DEF EngineStep, OpenLock, OpenDedupe, OpenMark, OpenPlace, OpenSave, CloseRead,
           CloseLock, ClosePlace, Release, Finish
  <2>2. ASSUME NEW c \in Bots, LoopStep(c) \/ Shutdown(c) \/ Die(c) \/ Restart(c)
        PROVE  orders' = orders
    BY <2>2 DEF LoopStep, Pop, PopTimeout, Shutdown, Die, Restart, exchange
  <2>3. ASSUME NEW c \in Bots, GuardStep(c)
        PROVE  rd'[b] = rd[b] \/ orders' = orders
    <3>1. CASE c = b
      BY <1>2, <2>3, <3>1
         DEF GuardStep, GuardStart, GuardTake, Positioned, GuardRead, GuardOrders,
             GuardStop, GuardTarget1, GuardTarget2, GuardPlace, GuardRelease,
             CleanScan, CleanOrders, CleanDel, CleanEnd, exchange
    <3>2. CASE c # b
      BY <1>0, <2>3, <3>2
         DEF GuardStep, GuardStart, GuardTake, Positioned, GuardRead, GuardOrders,
             GuardStop, GuardTarget1, GuardTarget2, GuardPlace, GuardRelease,
             CleanScan, CleanOrders, CleanCancel, CleanDel, CleanEnd, EndRound
    <3>3. QED
      BY <3>1, <3>2
  <2>4. CASE Environment \/ UNCHANGED vars
    BY <2>4
       DEF Environment, FillEntry, Trigger, OrphanExpires, ProtectionExpires, Push, Tick, vars
  <2>5. QED
    BY <2>1, <2>2, <2>3, <2>4 DEF Next, BotStep
<1>3. QED
  BY <1>1, <1>2

(* The cleanup cancels no protective order of a position that has been     *)
(* open since the round read the positions (cleanupProtection).            *)
THEOREM CleanupRespected == Spec => CleanupSparesLive
<1>1. Init => CleanInv
  BY DEF Init, CleanInv, UniqueIds, RoundFits
<1>2. TypeOK /\ TypeOK' /\ CleanInv /\ [Next]_vars => CleanInv'
  BY EngineFits, GuardFits, CleanFits, OthersFit DEF Next, BotStep, GuardStep
<1>3. TypeOK /\ CleanInv /\ [Next]_vars =>
        [\A b \in Bots : \A o \in orders :
           /\ pc[b] = "cancel" /\ rd'[b] # rd[b]
           /\ o \notin orders'
           => o.key \notin steady[b]]_vars
  BY CancelsOwnKey
<1>4. QED
  BY <1>1, <1>2, <1>3, TypeCorrect, PTL DEF Spec, CleanupSparesLive

=============================================================================
