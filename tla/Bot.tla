-------------------------------- MODULE Bot --------------------------------
(***************************************************************************)
(* RunBot of internal/bot/bot.go over the engine and the guard: several    *)
(* bot processes on one Redis and one exchange account, with crashes,      *)
(* shutdowns and restarts (docker-compose: restart: unless-stopped).       *)
(*                                                                         *)
(* The guard interval (10s) is not longer than BRPOP's timeout (10s), so a *)
(* BRPOP that times out is followed by a guard round; after a signal the   *)
(* guard may or may not be due.                                            *)
(***************************************************************************)
EXTENDS Guard

Init ==
  /\ orders = {} /\ nextId = 0
  /\ pos = Held
  /\ lock = [l \in Locks |-> Free]
  /\ marks = {}
  /\ protection = [k \in Keys |-> None]
  /\ queue = <<>>
  /\ pc = [b \in Bots |-> "brpop"]
  /\ ex = [b \in Bots |-> NoCall]
  /\ rd = [b \in Bots |-> NoRound]
  /\ done = [b \in Bots |-> FALSE]
  /\ now = 0 /\ faults = 0 /\ pushed = 0
  /\ attempts = <<>>
  /\ steady = [b \in Bots |-> {}]

Opens(s) == s.action \in {"open_long", "open_short"}

(* Where RunBot goes with a signal; an entry without a price is dropped. *)
Dispatch(s) ==
  IF ~Opens(s) THEN "close_read"
  ELSE IF s.price > 0 THEN "open_lock" ELSE "finish"

(* BRPOP answers.  One that was in flight when the context was cancelled   *)
(* still does.                                                             *)
Pop(b) ==
  /\ pc[b] = "brpop"
  /\ queue # <<>>
  /\ queue' = Tail(queue)
  /\ GoTo(b, Dispatch(Head(queue)))
  /\ ex' = [ex EXCEPT ![b].sig = Head(queue)]
  /\ UNCHANGED <<exchange, lock, marks, protection, rd, done, now, faults, pushed, history>>

(* BRPOP times out or fails: "continue". *)
PopTimeout(b) ==
  /\ pc[b] = "brpop"
  /\ queue = <<>> \/ done[b]
  /\ GoTo(b, IF done[b] THEN "down" ELSE IF GuardDue THEN "due" ELSE "brpop")
  /\ UNCHANGED <<exchange, redis, ex, rd, done, now, faults, pushed, history>>

(* SIGTERM: main cancels the context under the running loop. *)
Shutdown(b) ==
  /\ Fault("shutdown")
  /\ pc[b] # "down" /\ ~done[b]
  /\ done' = [done EXCEPT ![b] = TRUE]
  /\ UNCHANGED <<exchange, redis, pc, ex, rd, now, pushed, history>>

(* The process dies: at any point, or when main has waited long enough     *)
(* after a SIGTERM.  The locks it held stay until their TTL.               *)
Die(b) ==
  /\ pc[b] # "down"
  /\ \/ Fault("crash")
     \/ done[b] /\ UNCHANGED faults
  /\ GoTo(b, "down")
  /\ ex' = [ex EXCEPT ![b] = NoCall]
  /\ rd' = [rd EXCEPT ![b] = NoRound]
  /\ lock' = [l \in Locks |-> IF lock[l] = b THEN Orphan ELSE lock[l]]
  /\ steady' = [steady EXCEPT ![b] = {}]
  /\ UNCHANGED <<exchange, marks, protection, queue, done, now, pushed, attempts>>

Restart(b) ==
  /\ pc[b] = "down"
  /\ GoTo(b, "brpop")
  /\ done' = [done EXCEPT ![b] = FALSE]
  /\ UNCHANGED <<exchange, redis, ex, rd, now, faults, pushed, history>>

LoopStep(b) == Pop(b) \/ PopTimeout(b)

BotStep(b) == LoopStep(b) \/ EngineStep(b) \/ GuardStep(b)

Next ==
  \/ \E b \in Bots : BotStep(b) \/ Shutdown(b) \/ Die(b) \/ Restart(b)
  \/ Environment

Spec == Init /\ [][Next]_vars

(* A running process goes on, a stopped one is restarted, and Redis        *)
(* expires the keys of the dead.  The market owes nothing: prices and      *)
(* fills, like faults, may or may not come.                                *)
FairSpec ==
  /\ Spec
  /\ \A b \in Bots : WF_vars(BotStep(b)) /\ WF_vars(Restart(b))
  /\ \A l \in Locks : WF_vars(OrphanExpires(l))

-----------------------------------------------------------------------------

(* Between a successful acquireLock and its release. *)
ExecutionSection == {"open_dedupe", "open_mark", "open_place", "open_save",
                     "close_place", "release"}
GuardPlacing == {"guard_orders", "guard_sl", "guard_tp1", "guard_tp2"}
GuardSection == {"guard_read", "guard_release"} \cup GuardPlacing

InCall == {"open_lock", "close_read", "close_lock"} \cup ExecutionSection
Visiting == GuardSection \cup {"cancel"}

PCs == {"due", "brpop", "finish", "down", "guard_lock", "scan", "clean"}
       \cup InCall \cup Visiting

ExchangeOK ==
  /\ orders \subseteq OrderType
  /\ nextId \in 0..MaxOrders
  /\ pos \in [Keys -> Nat]

RedisOK ==
  /\ lock \in [Locks -> Bots \cup {Free, Orphan}]
  /\ marks \subseteq (Symbols \X Actions \X Nat) \X Nat
  /\ protection \in [Keys -> RecordType \cup {None}]
  /\ queue \in Seq(Signals)

BotsOK ==
  /\ pc \in [Bots -> PCs]
  /\ ex \in [Bots -> CallType]
  /\ rd \in [Bots -> RoundType]
  /\ \A b \in Bots : /\ pc[b] \in InCall => ex[b].sig \in Signals
                     /\ pc[b] \in Visiting => rd[b].key \in Keys
                     /\ pc[b] \in GuardPlacing => rd[b].prot \in RecordType

RestOK ==
  /\ done \in [Bots -> BOOLEAN]
  /\ now \in Nat /\ faults \in 0..MaxFaults /\ pushed \in 0..MaxSignals
  /\ attempts \in Seq(AttemptType)
  /\ steady \in [Bots -> SUBSET Keys]

TypeOK == ExchangeOK /\ RedisOK /\ BotsOK /\ RestOK

(* No two bots are inside an engine call on one symbol, or place the       *)
(* protective orders of one position, at the same time.                    *)
InExecution(b, s) == pc[b] \in ExecutionSection /\ Sig(b).symbol = s
InGuard(b, k) == pc[b] \in GuardSection /\ rd[b].key = k

SectionsExclusive ==
  \A a, b \in Bots : a # b =>
    /\ \A s \in Symbols : ~(InExecution(a, s) /\ InExecution(b, s))
    /\ \A k \in Keys : ~(InGuard(a, k) /\ InGuard(b, k))

(* Every lock key of the executor keeps the promise of SectionLock, which  *)
(* RedisLock keeps too: this is what the lock without time of Trading and  *)
(* the lock with time of RedisLock have in common.  (SectionOf(l)!Spec for *)
(* every l, in the form that TLC checks.)                                  *)
UnderLock(b, l) ==
  \/ pc[b] \in ExecutionSection /\ l = ExecutionLock(Sig(b))
  \/ pc[b] \in GuardSection /\ l = GuardLock(rd[b].key)

SectionOf(l) == INSTANCE SectionLock
                  WITH Clients <- Bots,
                       taken <- lock[l] # Free,
                       inside <- {b \in Bots : UnderLock(b, l)}

ImplementsSectionLocks ==
  /\ \A l \in Locks : SectionOf(l)!Init
  /\ [][\A l \in Locks : SectionOf(l)!Next \/ UNCHANGED SectionOf(l)!lockVars]_vars

(* The dedupe mark does its work in the window it was set in: once an      *)
(* entry was posted under a mark, no call that could read the marks posts  *)
(* the same entry in that window again, whatever fails or restarts.        *)
OneOrderPerWindow ==
  \A i, j \in DOMAIN attempts :
    /\ i < j
    /\ DedupeKey(attempts[i].sig) = DedupeKey(attempts[j].sig)
    /\ attempts[i].bucket = attempts[j].bucket
    => ~(attempts[i].marked /\ attempts[j].checked)

(* Acknowledged entries of a key that carry a stop or a target. *)
Acked(k) == {i \in DOMAIN attempts :
               /\ attempts[i].out = "ok" /\ KeyOf(attempts[i].sig) = k
               /\ Protects(attempts[i].sig)}

Saving(k) == \E b \in Bots : pc[b] = "open_save" /\ KeyOf(Sig(b)) = k

(* The record the guard works from is the one of the latest acknowledged   *)
(* entry, although order and record are two writes in two systems and bots *)
(* take turns at both: as long as nothing fails in between.                *)
ProtectionOfLatest ==
  faults = 0 => \A k \in Keys :
    \/ protection[k] = None
    \/ Saving(k)
    \/ \E i \in Acked(k) : /\ \A j \in Acked(k) : j <= i
                           /\ protection[k] = Record(attempts[i].sig)

(* Whatever a record says was in an acknowledged entry of that key: a bot  *)
(* never protects a position with the levels of another one.               *)
LevelsFromEntries ==
  /\ \A k \in Keys : protection[k] # None =>
       \E i \in Acked(k) : protection[k] = Record(attempts[i].sig)
  /\ \A o \in orders : o.reduceOnly =>
       \E i \in Acked(o.key) :
         LET s == attempts[i].sig IN
         IF o.type = "STOP_MARKET" THEN o.stop = s.sl ELSE o.stop \in {s.tp1, s.tp2}

(* The cleanup of a round cancels no protective order of a position that   *)
(* has been open since the round read the positions.                       *)
CleanupSparesLive ==
  [][\A b \in Bots : \A o \in orders :
       /\ pc[b] = "cancel" /\ rd'[b] # rd[b]
       /\ o \notin orders'
       => o.key \notin steady[b]]_vars

(* A position with a valid record gets a stop order, unless it is closed   *)
(* or the record goes first: for all positions there are, whichever bots   *)
(* die and whichever locks they leave behind.                              *)
HasStop(k) == \E o \in orders : o.key = k /\ o.type = "STOP_MARKET"

GuardProtects ==
  \A k \in Keys :
    pos[k] > 0 /\ Valid(protection[k]) ~>
      HasStop(k) \/ pos[k] = 0 \/ ~Valid(protection[k]) \/ nextId = MaxOrders

(* Every signal that is popped is done with: no bot stays in a call.       *)
BotsReturn == \A b \in Bots : pc[b] # "brpop" ~> pc[b] = "brpop"

-----------------------------------------------------------------------------
(* What documents and comments say and the code does not do: TLC refutes   *)
(* each of them, on the instances the README lists.                        *)

(* engine.go:138 "the guard places the stop, to avoid placing it twice":   *)
(* a position has at most one stop order.                                  *)
NoDuplicateStop ==
  \A k \in Keys : Cardinality({o \in orders : o.key = k /\ o.type = "STOP_MARKET"}) <= 1

(* bot.go:231 "make sure that positions have stop loss and take profit":   *)
(* a position that was opened by a signal with a stop gets a stop order.   *)
EntriesGetStop ==
  \A k \in Keys :
    /\ pos[k] > 0
    /\ \E i \in DOMAIN attempts : /\ KeyOf(attempts[i].sig) = k
                                  /\ attempts[i].sig.sl > 0
    ~> HasStop(k) \/ pos[k] = 0 \/ nextId = MaxOrders

(* README:26 and dedupe.go:16: the same order is not placed twice within   *)
(* the dedupe window.                                                      *)
NoRepeatWithinWindow ==
  \A i, j \in DOMAIN attempts :
    i < j /\ DedupeKey(attempts[i].sig) = DedupeKey(attempts[j].sig)
      => attempts[j].at - attempts[i].at >= WindowSec

(* README:31 "the protection data of closed positions is cleaned up".      *)
Resting(k) == \E o \in orders : o.key = k /\ o.type = "LIMIT"

FlatIsCleaned ==
  \A k \in Keys :
    protection[k] # None /\ pos[k] = 0 /\ ~Resting(k) ~>
      protection[k] = None \/ pos[k] > 0 \/ Resting(k)

(* guard.go:254 "the position is closed, cancel its reduce-only orders":   *)
(* the cleanup cancels orders of closed positions only.                    *)
CancelsOnlyWhenFlat ==
  [][\A b \in Bots : \A o \in orders :
       /\ pc[b] = "cancel" /\ rd'[b] # rd[b]
       /\ o \notin orders'
       => pos[o.key] = 0]_vars

(* README:185: at most MAX_CONCURRENT_POSITIONS positions (2 here).        *)
ConcurrentPositionsBounded == Cardinality(OpenKeys) <= 2

=============================================================================
