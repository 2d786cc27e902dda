----------------------------- MODULE CandleCache -----------------------------
(***************************************************************************)
(* BinanceExchange.GetOHLCV and the candle cache it looks into before it   *)
(* asks the exchange.  The map is guarded by one sync.RWMutex.  getCache   *)
(* holds it for reading; on an entry whose TTL is over it gives the read   *)
(* lock back, deletes the entry under the write lock and takes the read    *)
(* lock again, for the deferred RUnlock to give back once more.            *)
(*                                                                         *)
(* The callers are the goroutines of one scan, one for each timeframe.     *)
(* The timeframe stands for the key ohlcv:<symbol>:<timeframe>:<limit>:    *)
(* no two calls for one key overlap.  Time is not counted: an entry comes  *)
(* to the end of its TTL at any moment.                                    *)
(***************************************************************************)
EXTENDS Integers, Sequences

CONSTANTS
  Frames,   \* the timeframes
  Answers   \* Answers[f]: the candle series that the exchange may send for f

VARIABLES
  cache,    \* the entry of every key
  readers,  \* goroutines that hold the mutex for reading
  queued,   \* goroutines that a pending writer keeps from reading
  writer,   \* the goroutine that has announced itself as writer, if any
  pc,       \* where every goroutine is in GetOHLCV
  got       \* what its call has returned

mutex == <<readers, queued, writer>>
cacheVars == <<cache, mutex, pc, got>>

NoEntry == [held |-> FALSE, fresh |-> FALSE, candles |-> <<>>]
NoAnswer == [ok |-> FALSE, candles |-> <<>>]
Candles(series) == [ok |-> TRUE, candles |-> series]

CacheInit ==
  /\ cache = [f \in Frames |-> NoEntry]
  /\ readers = {} /\ queued = {} /\ writer = {}
  /\ pc = [f \in Frames |-> "off"]
  /\ got = [f \in Frames |-> NoAnswer]

Goto(f, label) == pc' = [pc EXCEPT ![f] = label]

Return(f, answer) ==
  /\ got' = [got EXCEPT ![f] = answer]
  /\ Goto(f, "done")

-----------------------------------------------------------------------------
(* Faulty variant: a reader that comes in past a writer. *)
RLockAnyway(f) ==
  /\ pc[f] \in {"get", "back"} /\ f \notin readers
  /\ readers' = readers \cup {f}
  /\ UNCHANGED <<cache, queued, writer, pc, got>>

(* RLock: a pending writer keeps new readers waiting. *)
RLock(f) ==
  /\ pc[f] \in {"get", "back"}
  /\ f \notin readers \cup queued
  /\ IF writer = {}
     THEN readers' = readers \cup {f} /\ UNCHANGED queued
     ELSE queued' = queued \cup {f} /\ UNCHANGED readers
  /\ UNCHANGED <<cache, writer, pc, got>>

RUnlock(f) == readers' = readers \ {f} /\ UNCHANGED <<queued, writer>>

(* Lock, first half: one writer at a time announces itself. *)
Announce(f) ==
  /\ pc[f] \in {"upgrade", "set"}
  /\ writer = {}
  /\ writer' = {f}
  /\ UNCHANGED <<cache, readers, queued, pc, got>>

(* Lock, second half: the last of the readers has gone. *)
Lock(f) ==
  /\ pc[f] \in {"upgrade", "set"}
  /\ writer = {f} /\ readers = {}
  /\ Goto(f, IF pc[f] = "upgrade" THEN "deleting" ELSE "storing")
  /\ UNCHANGED <<cache, mutex, got>>

(* Unlock: the readers that waited go in together. *)
Unlock ==
  /\ writer' = {}
  /\ readers' = readers \cup queued
  /\ queued' = {}

-----------------------------------------------------------------------------
(* The map is being read, under the read lock. *)
Reading(f) == pc[f] = "get" /\ f \in readers

(* getCache finds an entry in its TTL: the call returns it. *)
Hit(f) ==
  /\ Reading(f)
  /\ cache[f].held /\ cache[f].fresh
  /\ RUnlock(f)
  /\ Return(f, Candles(cache[f].candles))
  /\ UNCHANGED cache

Miss(f) ==
  /\ Reading(f)
  /\ ~cache[f].held
  /\ RUnlock(f)
  /\ Goto(f, "fetch")
  /\ UNCHANGED <<cache, got>>

(* Faulty variant: the entry is deleted under the read lock. *)
ExpiredInPlace(f) ==
  /\ Reading(f)
  /\ cache[f].held /\ ~cache[f].fresh
  /\ Goto(f, "deleting")
  /\ UNCHANGED <<cache, mutex, got>>

(* An entry past its TTL: the read lock is given back to take the other. *)
Expired(f) ==
  /\ Reading(f)
  /\ cache[f].held /\ ~cache[f].fresh
  /\ RUnlock(f)
  /\ Goto(f, "upgrade")
  /\ UNCHANGED <<cache, got>>

Delete(f) ==
  /\ pc[f] = "deleting"
  /\ cache' = [cache EXCEPT ![f] = NoEntry]
  /\ Unlock
  /\ Goto(f, "back")
  /\ UNCHANGED got

(* The deferred RUnlock, and getCache returns nil. *)
GiveBack(f) ==
  /\ pc[f] = "back" /\ f \in readers
  /\ RUnlock(f)
  /\ Goto(f, "fetch")
  /\ UNCHANGED <<cache, got>>

(* Faulty variant: a failed request starts over. *)
TryAgain(f) ==
  /\ pc[f] = "fetch"
  /\ Goto(f, "get")
  /\ UNCHANGED <<cache, mutex, got>>

(* FetchJSON fails or brings no list: the call returns an error. *)
FetchFails(f) ==
  /\ pc[f] = "fetch"
  /\ Return(f, NoAnswer)
  /\ UNCHANGED <<cache, mutex>>

(* It brings klines; those that cannot be parsed are skipped, perhaps all. *)
Fetched(f) ==
  /\ pc[f] = "fetch"
  /\ \E series \in Answers[f] : got' = [got EXCEPT ![f] = Candles(series)]
  /\ Goto(f, "set")
  /\ UNCHANGED <<cache, mutex>>

(* setCache, an empty series included. *)
Store(f) ==
  /\ pc[f] = "storing"
  /\ cache' = [cache EXCEPT ![f] =
                 [held |-> TRUE, fresh |-> TRUE, candles |-> got[f].candles]]
  /\ Unlock
  /\ Goto(f, "done")
  /\ UNCHANGED got

(* EXCHANGE_CACHE_TTL_SEC passes. *)
TTLPasses(f) ==
  /\ cache[f].fresh
  /\ cache' = [cache EXCEPT ![f].fresh = FALSE]
  /\ UNCHANGED <<mutex, pc, got>>

GetCache(f) ==
  Hit(f) \/ Miss(f) \/ Expired(f) \/ Delete(f) \/ GiveBack(f)

GetOHLCV(f) ==
  \/ RLock(f) \/ Announce(f) \/ Lock(f)
  \/ GetCache(f)
  \/ FetchFails(f) \/ Fetched(f) \/ Store(f)

-----------------------------------------------------------------------------
Labels == {"off", "get", "upgrade", "deleting", "back", "fetch", "set", "storing", "done"}

CacheTypeOK ==
  /\ \A f \in Frames :
       /\ cache[f].held \in BOOLEAN /\ cache[f].fresh \in BOOLEAN
       /\ cache[f].fresh => cache[f].held
       /\ got[f].ok \in BOOLEAN
       /\ cache[f].candles \in Answers[f] \cup {<<>>}
       /\ got[f].candles \in Answers[f] \cup {<<>>}
  /\ readers \subseteq Frames /\ queued \subseteq Frames /\ writer \subseteq Frames
  /\ pc \in [Frames -> Labels]

(* The map is never written while another goroutine reads or writes it,    *)
(* which the Go runtime answers by ending the program: the two changes of  *)
(* the lock in the middle of getCache leave no gap.                        *)
MapAccessExclusive ==
  \A f, g \in Frames :
    f # g /\ pc[f] \in {"deleting", "storing"} =>
      ~Reading(g) /\ pc[g] \notin {"deleting", "storing"}
=============================================================================
