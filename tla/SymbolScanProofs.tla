-------------------------- MODULE SymbolScanProofs --------------------------
(***************************************************************************)
(* Theorems about SymbolScan and its candle cache for any timeframes and   *)
(* answers: the types, and that nobody looks into the map while it is      *)
(* being written.                                                          *)
(***************************************************************************)
EXTENDS SymbolScan, WellFoundedInduction, TLAPS

EntryOf(f) ==
  [held : BOOLEAN, fresh : BOOLEAN, candles : Answers[f] \cup {<<>>}]
AnswerOf(f) == [ok : BOOLEAN, candles : Answers[f] \cup {<<>>}]

CacheType ==
  /\ cache = [f \in Frames |-> cache[f]]
  /\ \A f \in Frames : cache[f] \in EntryOf(f) /\ (cache[f].fresh => cache[f].held)
  /\ got = [f \in Frames |-> got[f]]
  /\ \A f \in Frames : got[f] \in AnswerOf(f)
  /\ readers \subseteq Frames /\ queued \subseteq Frames /\ writer \subseteq Frames
  /\ pc \in [Frames -> Labels]

ScanType ==
  /\ step \in {"idle", "fetch", "oi", "decide"}
  /\ oi \in OIs \cup {0} /\ lastOI \in OIs \cup {0}
  /\ verdict \in Verdicts
  /\ step # "fetch" => \A f \in Frames : pc[f] = "off"

(* Where somebody must be who holds the lock, waits for it or writes; the  *)
(* writer is alone.                                                        *)
WantsToRead == {"get", "back"}
Writes == {"deleting", "storing"}
WantsToWrite == {"upgrade", "set"} \cup Writes

LockInv ==
  /\ readers \cap queued = {}
  /\ \A f \in readers \cup queued : pc[f] \in WantsToRead
  /\ \A f \in writer : pc[f] \in WantsToWrite
  /\ \A f \in Frames : pc[f] \in Writes => writer = {f} /\ readers = {}

Inv == CacheType /\ ScanType /\ LockInv

(* The invariant says no less than the properties. *)
LEMMA InvGives == Inv => TypeOK /\ MapAccessExclusive
<1> SUFFICES ASSUME Inv PROVE TypeOK /\ MapAccessExclusive
  OBVIOUS
<1>1. CacheTypeOK
  BY DEF Inv, CacheType, EntryOf, AnswerOf, CacheTypeOK
<1>2. step # "fetch" => mutex = <<{}, {}, {}>>
  <2> SUFFICES ASSUME step # "fetch"
               PROVE  readers = {} /\ queued = {} /\ writer = {}
    BY DEF mutex
  <2>1. \A f \in Frames : pc[f] \notin WantsToRead \cup WantsToWrite
    BY DEF Inv, ScanType, WantsToRead, WantsToWrite, Writes
  <2>2. QED
    BY <2>1 DEF Inv, CacheType, LockInv
<1>3. MapAccessExclusive
  BY DEF Inv, LockInv, MapAccessExclusive, Reading, Writes
<1>4. QED
  BY <1>1, <1>2, <1>3 DEF Inv, ScanType, TypeOK

(* The first state. *)
LEMMA InvInit == Init => Inv
  BY DEF Init, CacheInit, Inv, CacheType, ScanType, LockInv, EntryOf, AnswerOf, NoEntry,
         NoAnswer, Labels, Verdicts, Writes

(* The steps that take or give the lock. *)
LEMMA LockSteps ==
  ASSUME Inv, NEW f \in Frames, RLock(f) \/ Announce(f) \/ Lock(f), UNCHANGED scanVars,
         step = "fetch"
  PROVE  Inv'
<1> USE DEF Inv
<1>1. UNCHANGED <<cache, got>> /\ UNCHANGED scanVars
  BY DEF RLock, Announce, Lock
<1>2. ScanType'
  BY <1>1 DEF ScanType, scanVars
<1>3. CASE RLock(f)
  BY <1>1, <1>2, <1>3 DEF RLock, CacheType, LockInv, WantsToRead, Writes
<1>4. CASE Announce(f)
  BY <1>1, <1>2, <1>4 DEF Announce, CacheType, LockInv, WantsToWrite, Writes
<1>5. CASE Lock(f)
  <2>1. CacheType'
    BY <1>1, <1>5 DEF Lock, Goto, CacheType, Labels, mutex
  <2>2. LockInv'
    BY <1>5 DEF Lock, Goto, CacheType, LockInv, WantsToRead, WantsToWrite, Writes, mutex
  <2>3. QED
    BY <1>2, <2>1, <2>2
<1>6. QED
  BY <1>3, <1>4, <1>5

(* The steps of a reader: it gives the lock back and goes on. *)
LEMMA ReaderSteps ==
  ASSUME Inv, NEW f \in Frames, Hit(f) \/ Miss(f) \/ Expired(f) \/ GiveBack(f),
         UNCHANGED scanVars, step = "fetch"
  PROVE  Inv'
<1> USE DEF Inv
<1>1. UNCHANGED <<cache, queued, writer>> /\ readers' = readers \ {f} /\ f \in readers
  BY DEF Hit, Miss, Expired, GiveBack, RUnlock, Reading
<1>2. PICK l \in {"done", "fetch", "upgrade"} : pc' = [pc EXCEPT ![f] = l]
  BY DEF Hit, Miss, Expired, GiveBack, Return, Goto
<1>3. got' = got \/ got' = [got EXCEPT ![f] = Candles(cache[f].candles)]
  BY DEF Hit, Miss, Expired, GiveBack, Return
<1>4. CacheType'
  <2>1. Candles(cache[f].candles) \in AnswerOf(f)
    BY DEF Candles, AnswerOf, EntryOf, CacheType
  <2>2. got' = [g \in Frames |-> got'[g]] /\ \A g \in Frames : got'[g] \in AnswerOf(g)
    BY <1>3, <2>1 DEF CacheType
  <2>3. QED
    BY <1>1, <1>2, <2>2 DEF CacheType, Labels
<1>5. LockInv'
  <2>1. f \notin queued
    BY <1>1 DEF LockInv
  <2>2. pc[f] \in WantsToRead /\ f \notin writer
    BY <1>1 DEF LockInv, WantsToRead, WantsToWrite, Writes
  <2>3. QED
    BY <1>1, <1>2, <2>1, <2>2 DEF LockInv, CacheType, WantsToRead, WantsToWrite, Writes
<1>6. ScanType'
  BY DEF ScanType, scanVars
<1>7. QED
  BY <1>4, <1>5, <1>6

(* The steps of the writer, who then opens the lock. *)
LEMMA WriterSteps ==
  ASSUME Inv, NEW f \in Frames, Delete(f) \/ Store(f), UNCHANGED scanVars,
         step = "fetch"
  PROVE  Inv'
<1> USE DEF Inv
<1>1. pc[f] \in Writes /\ writer = {f} /\ readers = {}
  BY DEF Delete, Store, Writes, LockInv
<1>2. writer' = {} /\ readers' = queued /\ queued' = {} /\ UNCHANGED got
  BY <1>1 DEF Delete, Store, Unlock
<1>3. PICK l \in {"back", "done"} : pc' = [pc EXCEPT ![f] = l]
  BY DEF Delete, Store, Goto
<1>4. PICK e \in EntryOf(f) : cache' = [cache EXCEPT ![f] = e] /\ (e.fresh => e.held)
  <2>1. CASE Delete(f)
    <3>1. NoEntry \in EntryOf(f) /\ ~NoEntry.fresh
      BY DEF NoEntry, EntryOf
    <3>2. cache' = [cache EXCEPT ![f] = NoEntry]
      BY <2>1 DEF Delete
    <3>3. QED
      BY <3>1, <3>2
  <2>2. CASE Store(f)
    <3> DEFINE e == [held |-> TRUE, fresh |-> TRUE, candles |-> got[f].candles]
    <3>1. e \in EntryOf(f)
      BY DEF EntryOf, AnswerOf, CacheType
    <3>2. QED
      BY <2>2, <3>1 DEF Store
  <2>3. QED
    BY <2>1, <2>2
<1>5. CacheType'
  BY <1>2, <1>3, <1>4 DEF CacheType, Labels
<1>6. LockInv'
  <2>1. f \notin queued
    BY <1>1 DEF LockInv, WantsToRead, Writes
  <2>2. \A g \in Frames : g # f => pc'[g] = pc[g] /\ pc[g] \notin Writes
    BY <1>1, <1>3 DEF LockInv, CacheType
  <2>3. pc'[f] \notin Writes
    BY <1>3 DEF CacheType, Writes
  <2>4. QED
    BY <1>2, <2>1, <2>2, <2>3 DEF LockInv, CacheType
<1>7. ScanType'
  BY DEF ScanType, scanVars
<1>8. QED
  BY <1>5, <1>6, <1>7

(* The steps that only concern the exchange or the clock. *)
LEMMA OtherSteps ==
  ASSUME Inv, NEW f \in Frames, FetchFails(f) \/ Fetched(f), UNCHANGED scanVars,
         step = "fetch"
  PROVE  Inv'
<1> USE DEF Inv
<1>1. UNCHANGED <<cache, readers, queued, writer>> /\ pc[f] = "fetch"
  BY DEF FetchFails, Fetched, mutex
<1>2. PICK l \in {"done", "set"} : pc' = [pc EXCEPT ![f] = l]
  BY DEF FetchFails, Fetched, Return, Goto
<1>3. PICK a \in AnswerOf(f) : got' = [got EXCEPT ![f] = a]
  <2>1. CASE FetchFails(f)
    BY <2>1 DEF FetchFails, Return, NoAnswer, AnswerOf
  <2>2. CASE Fetched(f)
    BY <2>2 DEF Fetched, Candles, AnswerOf
  <2>3. QED
    BY <2>1, <2>2
<1>4. CacheType'
  BY <1>1, <1>2, <1>3 DEF CacheType, Labels
<1>5. LockInv'
  BY <1>1, <1>2 DEF LockInv, CacheType, WantsToRead, WantsToWrite, Writes
<1>6. ScanType'
  BY DEF ScanType, scanVars
<1>7. QED
  BY <1>4, <1>5, <1>6

(* A goroutine takes a step only while the scan waits for it. *)
LEMMA FetchWhileScanning ==
  ASSUME Inv, NEW f \in Frames, GetOHLCV(f)
  PROVE  step = "fetch"
<1>1. pc[f] # "off"
  BY DEF GetOHLCV, GetCache, RLock, Announce, Lock, Hit, Miss, Expired, Delete, GiveBack,
         Reading, FetchFails, Fetched, Store
<1>2. QED
  BY <1>1 DEF Inv, ScanType

(* Every step keeps the invariant. *)
LEMMA InvStep == Inv /\ [Next]_vars => Inv'
<1> SUFFICES ASSUME Inv, [Next]_vars PROVE Inv'
  OBVIOUS
<1>1. CASE Begin
  <2>1. \A f \in Frames : NoAnswer \in AnswerOf(f)
    BY DEF NoAnswer, AnswerOf
  <2>2. readers = {} /\ queued = {} /\ writer = {}
    BY <1>1, InvGives DEF Begin, TypeOK, mutex
  <2>3. CacheType'
    BY <1>1, <2>1, <2>2 DEF Begin, Inv, CacheType, Labels, mutex
  <2>4. ScanType' /\ LockInv'
    BY <1>1, <2>2 DEF Begin, Inv, ScanType, LockInv, Verdicts, Writes, mutex
  <2>5. QED
    BY <2>3, <2>4 DEF Inv
<1>2. CASE Join
  <2>1. readers = {} /\ queued = {} /\ writer = {}
    BY <1>2 DEF Join, Inv, CacheType, LockInv, WantsToRead, WantsToWrite, Writes
  <2>2. CacheType' /\ LockInv'
    BY <1>2, <2>1 DEF Join, Inv, CacheType, LockInv, Labels, Writes, mutex
  <2>3. ScanType'
    BY <1>2 DEF Join, Inv, ScanType, Verdicts
  <2>4. QED
    BY <2>2, <2>3 DEF Inv
<1>3. CASE OIChange
  <2>1. CacheType' /\ LockInv'
    BY <1>3 DEF OIChange, Inv, CacheType, LockInv, cacheVars, mutex
  <2>2. ScanType'
    BY <1>3 DEF OIChange, Inv, ScanType, cacheVars
  <2>3. QED
    BY <2>1, <2>2 DEF Inv
<1>4. CASE Decide
  <2>1. CacheType' /\ LockInv'
    BY <1>4 DEF Decide, Inv, CacheType, LockInv, cacheVars, mutex
  <2>2. verdict' \in Verdicts
    BY <1>4 DEF Decide, MakeDecision, Verdicts
  <2>3. ScanType'
    BY <1>4, <2>2 DEF Decide, Inv, ScanType, cacheVars
  <2>4. QED
    BY <2>1, <2>3 DEF Inv
<1>5. ASSUME NEW f \in Frames, Fetch(f)
      PROVE  Inv'
  <2>1. step = "fetch" /\ UNCHANGED scanVars /\ GetOHLCV(f)
    BY <1>5, FetchWhileScanning DEF Fetch
  <2>2. QED
    BY <2>1, LockSteps, ReaderSteps, WriterSteps, OtherSteps DEF GetOHLCV, GetCache
<1>6. ASSUME NEW f \in Frames, Age(f)
      PROVE  Inv'
  <2>1. UNCHANGED <<mutex, pc, got, scanVars>> /\ cache' = [cache EXCEPT ![f].fresh = FALSE]
    BY <1>6 DEF Age, TTLPasses
  <2>2. [cache[f] EXCEPT !.fresh = FALSE] \in EntryOf(f)
    BY DEF Inv, CacheType, EntryOf
  <2>3. CacheType'
    <3> DEFINE e == [cache[f] EXCEPT !.fresh = FALSE]
    <3>1. cache' = [cache EXCEPT ![f] = e]
      BY <2>1
    <3>2. ~e.fresh
      BY DEF Inv, CacheType, EntryOf
    <3> HIDE DEF e
    <3>3. \A g \in Frames : cache'[g] \in EntryOf(g) /\ (cache'[g].fresh => cache'[g].held)
      BY <2>2, <3>1, <3>2 DEF Inv, CacheType, e
    <3>4. cache' = [g \in Frames |-> cache'[g]]
      BY <3>1 DEF Inv, CacheType
    <3>5. QED
      BY <2>1, <3>3, <3>4 DEF Inv, CacheType, mutex
  <2>4. ScanType' /\ LockInv'
    BY <2>1 DEF Inv, ScanType, LockInv, scanVars, mutex
  <2>5. QED
    BY <2>3, <2>4 DEF Inv
<1>7. CASE UNCHANGED vars
  BY <1>7 DEF vars, cacheVars, scanVars, mutex, Inv, CacheType, ScanType, LockInv
<1>8. QED
  BY <1>1, <1>2, <1>3, <1>4, <1>5, <1>6, <1>7 DEF Next

(* Cache, lock, goroutines and scan keep to their ranges, and every scan   *)
(* leaves the lock free.                                                   *)
THEOREM TypeCorrect == Spec => []TypeOK
<1>1. Inv => TypeOK
  BY InvGives
<1>2. QED
  BY <1>1, InvInit, InvStep, PTL DEF Spec

(* The candle map is never written while another goroutine looks into it.  *)
THEOREM MapExclusive == Spec => []MapAccessExclusive
<1>1. Inv => MapAccessExclusive
  BY InvGives
<1>2. QED
  BY <1>1, InvInit, InvStep, PTL DEF Spec

-----------------------------------------------------------------------------
Less == {p \in Nat \X Nat : p[1] < p[2]}

LEMMA LessWellFounded == IsWellFoundedOn(Less, Nat)
  BY NatLessThanWellFounded DEF OpToRel, Less

(* Induction over a set instead of a predicate. *)
LEMMA Induction ==
  ASSUME NEW N \in Nat, NEW S, 0 \in S,
         \A n \in 0..(N - 1) : n \in S => n + 1 \in S
  PROVE  \A n \in 0..N : n \in S
<1> SUFFICES ASSUME NEW m \in 0..N, m \notin S PROVE FALSE
  OBVIOUS
<1> DEFINE T == {n \in 0..N : n \notin S}
<1>1. PICK k \in T : \A j \in T : ~ <<j, k>> \in Less
  <2>1. T \subseteq Nat /\ T # {}
    OBVIOUS
  <2> HIDE DEF T
  <2>2. QED
    BY <2>1, LessWellFounded, WFMin
<1>2. k # 0 /\ k - 1 \in 0..(N - 1)
  OBVIOUS
<1>3. k - 1 \notin T
  <2>1. <<k - 1, k>> \in Less
    BY <1>2 DEF Less
  <2>2. QED
    BY <1>1, <2>1
<1>4. QED
  BY <1>2, <1>3

(* The function that begins with v and comes from each value to the next   *)
(* by a step of F.                                                         *)
Iterates(t, N, V, v, F) ==
  t \in [0..N -> V] /\ t[0] = v /\ \A n \in 1..N : t[n] = F[n][t[n - 1]]

LEMMA Recursion ==
  ASSUME NEW N \in Nat, NEW V, NEW v \in V, NEW F \in [1..N -> [V -> V]]
  PROVE  \E t : Iterates(t, N, V, v, F)
<1> DEFINE Runs(t, k) == t[0] = v /\ \A n \in 1..k : t[n] = F[n][t[n - 1]]
           S == {k \in 0..N : \E t \in [0..k -> V] : Runs(t, k)}
<1>1. 0 \in S
  <2> DEFINE z == [n \in 0..0 |-> v]
  <2>1. z \in [0..0 -> V] /\ Runs(z, 0)
    OBVIOUS
  <2>2. \E t \in [0..0 -> V] : Runs(t, 0)
    <3> HIDE DEF z, Runs
    <3>1. QED
      BY <2>1
  <2>3. QED
    BY <2>2
<1>2. ASSUME NEW k \in 0..(N - 1), k \in S
      PROVE  k + 1 \in S
  <2>1. PICK t \in [0..k -> V] : Runs(t, k)
    BY <1>2
  <2> DEFINE u == [n \in 0..(k + 1) |-> IF n = k + 1 THEN F[k + 1][t[k]] ELSE t[n]]
  <2>2. (\A n \in 0..k : u[n] = t[n]) /\ u[k + 1] = F[k + 1][t[k]]
    OBVIOUS
  <2>3. u \in [0..(k + 1) -> V]
    OBVIOUS
  <2> HIDE DEF u
  <2>4. ASSUME NEW n \in 1..(k + 1)
        PROVE  u[n] = F[n][u[n - 1]]
    <3>1. n - 1 \in 0..k /\ u[n - 1] = t[n - 1]
      BY <2>2
    <3>2. CASE n = k + 1
      BY <2>2, <3>1, <3>2
    <3>3. CASE n \in 1..k
      BY <2>1, <2>2, <3>1, <3>3
    <3>4. QED
      BY <3>2, <3>3
  <2>5. Runs(u, k + 1)
    BY <2>1, <2>2, <2>4
  <2>6. QED
    BY <2>3, <2>5
<1>3. N \in S
  <2> HIDE DEF S
  <2>1. \A n \in 0..N : n \in S
    BY <1>1, <1>2, Induction
  <2>2. QED
    BY <2>1
<1>4. QED
  BY <1>3 DEF Iterates

(* The running totals are what the loops compute. *)
LEMMA TotalsRec ==
  ASSUME NEW s \in Seq(Int)
  PROVE  /\ Totals(s) \in [0..Len(s) -> Int]
         /\ Totals(s)[0] = 0
         /\ \A n \in 1..Len(s) : Totals(s)[n] = Totals(s)[n - 1] + s[n]
<1> DEFINE Adds(t) == t = [n \in 0..Len(s) |-> IF n = 0 THEN 0 ELSE t[n - 1] + s[n]]
<1>1. Len(s) \in Nat /\ \A n \in 1..Len(s) : s[n] \in Int
  OBVIOUS
<1>2. PICK t \in [0..Len(s) -> Int] : t[0] = 0 /\ \A n \in 1..Len(s) : t[n] = t[n - 1] + s[n]
  <2> DEFINE F == [n \in 1..Len(s) |-> [x \in Int |-> x + s[n]]]
  <2>1. F \in [1..Len(s) -> [Int -> Int]]
    BY <1>1
  <2>2. \A n \in 1..Len(s), x \in Int : F[n][x] = x + s[n]
    OBVIOUS
  <2> HIDE DEF F
  <2>3. PICK t : Iterates(t, Len(s), Int, 0, F)
    BY <1>1, <2>1, Recursion, 0 \in Int, Zenon
  <2>4. \A n \in 1..Len(s) : t[n - 1] \in Int
    BY <1>1, <2>3 DEF Iterates
  <2>5. QED
    BY <2>2, <2>3, <2>4 DEF Iterates
<1>3. Adds(t)
  BY <1>1, <1>2
<1>4. Adds(Totals(s))
  <2>1. Totals(s) = CHOOSE u : Adds(u)
    BY DEF Totals
  <2>2. QED
    BY <1>3, <2>1
<1>5. ASSUME NEW u, Adds(u)
      PROVE  u[0] = 0 /\ \A n \in 1..Len(s) : u[n] = u[n - 1] + s[n]
  BY <1>1, <1>5
<1>6. \A n \in 0..Len(s) : Totals(s)[n] \in Int
  <2> DEFINE S == {n \in 0..Len(s) : Totals(s)[n] \in Int}
  <2>1. 0 \in S
    BY <1>1, <1>4, <1>5
  <2>2. ASSUME NEW n \in 0..(Len(s) - 1), n \in S
        PROVE  n + 1 \in S
    BY <1>1, <1>4, <1>5, <2>2
  <2>3. \A n \in 0..Len(s) : n \in S
    <3> HIDE DEF S
    <3>1. QED
      BY <1>1, <2>1, <2>2, Induction
  <2>4. QED
    BY <2>3
<1>7. Totals(s) \in [0..Len(s) -> Int]
  BY <1>4, <1>6
<1>8. QED
  BY <1>4, <1>5, <1>7

(* A total lies between the number of its terms times a lower and times an *)
(* upper bound of them.                                                    *)
LEMMA TotalsBounds ==
  ASSUME NEW s \in Seq(Int), NEW lo \in Int, NEW hi \in Int,
         \A i \in 1..Len(s) : lo <= s[i] /\ s[i] <= hi
  PROVE  \A n \in 0..Len(s) : n * lo <= Totals(s)[n] /\ Totals(s)[n] <= n * hi
<1> DEFINE S == {n \in 0..Len(s) : n * lo <= Totals(s)[n] /\ Totals(s)[n] <= n * hi}
<1>1. Len(s) \in Nat /\ \A n \in 1..Len(s) : s[n] \in Int
  OBVIOUS
<1>2. 0 \in S
  BY <1>1, TotalsRec
<1>3. ASSUME NEW n \in 0..(Len(s) - 1), n \in S
      PROVE  n + 1 \in S
  <2>1. n + 1 \in 1..Len(s) /\ n \in 0..Len(s) /\ (n + 1) - 1 = n
    BY <1>1
  <2>2. Totals(s)[n + 1] = Totals(s)[n] + s[n + 1]
    BY <2>1, TotalsRec
  <2>3. Totals(s)[n] \in Int /\ s[n + 1] \in Int
    BY <1>1, <2>1, TotalsRec
  <2>4. (n + 1) * lo = n * lo + lo /\ (n + 1) * hi = n * hi + hi
    OBVIOUS
  <2>5. lo <= s[n + 1] /\ s[n + 1] <= hi
    BY <2>1
  <2>6. n * lo \in Int /\ n * hi \in Int
    OBVIOUS
  <2>7. QED
    BY <1>1, <1>3, <2>1, <2>2, <2>3, <2>4, <2>5, <2>6
<1>4. QED
  <2> HIDE DEF S
  <2>1. \A n \in 0..Len(s) : n \in S
    BY <1>1, <1>2, <1>3, Induction
  <2>2. QED
    BY <2>1 DEF S

(* Multiplying by what is not negative keeps the order. *)
LEMMA Scaled ==
  ASSUME NEW a \in Int, NEW b \in Int, NEW k \in Nat, a <= b
  PROVE  k * a \in Int /\ k * b \in Int /\ k * a <= k * b
<1>1. k * (b - a) >= 0
  <2>1. b - a \in Nat
    OBVIOUS
  <2>2. QED
    BY <2>1
<1>2. k * (b - a) = k * b - k * a
  OBVIOUS
<1>3. k * a \in Int /\ k * b \in Int
  OBVIOUS
<1>4. QED
  BY <1>1, <1>2, <1>3

(* A smoothing step of the average moves it to a mean of itself and a close *)
(* and so leaves it between the bounds.                                     *)
LEMMA Smoothing ==
  ASSUME NEW lo \in Int, NEW hi \in Int, NEW c \in Int, NEW n \in Int, NEW d \in Nat \ {0},
         NEW p \in Nat \ {0}, lo <= c, c <= hi, d * lo <= n, n <= d * hi
  PROVE  /\ (p + 1) * d \in Nat \ {0}
         /\ 2 * c * d + (p - 1) * n \in Int
         /\ ((p + 1) * d) * lo <= 2 * c * d + (p - 1) * n
         /\ 2 * c * d + (p - 1) * n <= ((p + 1) * d) * hi
<1>1. p - 1 \in Nat /\ d * lo \in Int /\ d * hi \in Int /\ d * c \in Int
  OBVIOUS
<1>2. d * lo <= d * c /\ d * c <= d * hi
  BY Scaled
<1>3. (p - 1) * (d * lo) <= (p - 1) * n /\ (p - 1) * n <= (p - 1) * (d * hi)
  BY <1>1, Scaled
<1>4. ((p + 1) * d) * lo = 2 * (d * lo) + (p - 1) * (d * lo)
  OBVIOUS
<1>5. ((p + 1) * d) * hi = 2 * (d * hi) + (p - 1) * (d * hi)
  OBVIOUS
<1>6. 2 * c * d = 2 * (d * c)
  OBVIOUS
<1>7. (p + 1) * d \in Nat \ {0}
  OBVIOUS
<1>8. (p - 1) * n \in Int /\ (p - 1) * (d * lo) \in Int /\ (p - 1) * (d * hi) \in Int
  BY <1>1
<1>9. QED
  BY <1>1, <1>2, <1>3, <1>4, <1>5, <1>6, <1>7, <1>8

(* The average over at least a period of closes lies between their bounds. *)
LEMMA EMABetween ==
  ASSUME NEW closes \in Seq(Int), NEW period \in Nat \ {0}, period <= Len(closes),
         NEW lo \in Int, NEW hi \in Int,
         \A i \in 1..Len(closes) : lo <= closes[i] /\ closes[i] <= hi
  PROVE  LET e == CalculateEMA(closes, period)
         IN  /\ e.num \in Int /\ e.den \in Nat \ {0}
             /\ e.den * lo <= e.num /\ e.num <= e.den * hi
<1> DEFINE V == [num : Int, den : Int]
           Start == Fraction(Totals(closes)[period], period)
           Smooth(i, x) == Fraction(2 * closes[i] * x.den + (period - 1) * x.num,
                                    (period + 1) * x.den)
           Smooths(e) == e = [i \in period..Len(closes) |->
                                IF i = period THEN Start ELSE Smooth(i, e[i - 1])]
           N == Len(closes) - period
<1>1. N \in Nat /\ Len(closes) \in Nat /\ \A i \in 1..Len(closes) : closes[i] \in Int
  OBVIOUS
<1>2. Start \in V
  BY <1>1, TotalsRec DEF Fraction
<1>3. ASSUME NEW i \in 1..Len(closes), NEW x \in V
      PROVE  Smooth(i, x) \in V
  <2>1. \A c, n, d \in Int :
          2 * c * d + (period - 1) * n \in Int /\ (period + 1) * d \in Int
    OBVIOUS
  <2>2. x.num \in Int /\ x.den \in Int /\ closes[i] \in Int
    BY <1>1
  <2> HIDE DEF V
  <2>3. /\ 2 * closes[i] * x.den + (period - 1) * x.num \in Int
        /\ (period + 1) * x.den \in Int
    BY <2>1, <2>2
  <2>4. QED
    BY <2>3 DEF Fraction, V
<1>4. \E e : Smooths(e)
  <2> DEFINE F == [n \in 1..N |-> [x \in V |-> Smooth(period + n, x)]]
  <2>1. F \in [1..N -> [V -> V]]
    <3> HIDE DEF V, Smooth
    <3>1. QED
      BY <1>1, <1>3
  <2>2. \A n \in 1..N, x \in V : F[n][x] = Smooth(period + n, x)
    OBVIOUS
  <2> HIDE DEF F, V, Start, N
  <2>3. PICK t : Iterates(t, N, V, Start, F)
    BY <1>1, <1>2, <2>1, Recursion, Zenon
  <2> DEFINE e == [i \in period..Len(closes) |-> t[i - period]]
  <2>4. ASSUME NEW i \in period..Len(closes)
        PROVE  e[i] = IF i = period THEN Start ELSE Smooth(i, e[i - 1])
    <3>1. CASE i = period
      BY <2>3, <3>1 DEF Iterates
    <3>2. CASE i # period
      <4>1. i - period \in 1..N /\ i - 1 \in period..Len(closes)
        BY <1>1, <3>2 DEF N
      <4>2. t[i - period] = F[i - period][t[(i - period) - 1]]
        BY <2>3, <4>1 DEF Iterates
      <4>3. t[(i - period) - 1] \in V /\ (i - period) - 1 = (i - 1) - period
        BY <1>1, <2>3, <4>1 DEF Iterates
      <4>4. F[i - period][t[(i - period) - 1]] = Smooth(period + (i - period), t[(i - period) - 1])
        BY <2>2, <4>1, <4>3
      <4>5. period + (i - period) = i
        OBVIOUS
      <4> HIDE DEF Smooth
      <4>6. QED
        BY <3>2, <4>1, <4>2, <4>3, <4>4, <4>5
    <3>3. QED
      BY <3>1, <3>2
  <2>5. e = [i \in period..Len(closes) |-> IF i = period THEN Start ELSE Smooth(i, e[i - 1])]
    <3> DEFINE r == [i \in period..Len(closes) |-> IF i = period THEN Start ELSE Smooth(i, e[i - 1])]
    <3> HIDE DEF Smooth
    <3>1. \A i \in period..Len(closes) : e[i] = r[i]
      BY <2>4
    <3>2. QED
      BY <3>1
  <2>6. QED
    BY <2>5
<1> DEFINE ema == CHOOSE e : Smooths(e)
<1>5. Smooths(ema)
  <2> HIDE DEF Smooths
  <2>1. QED
    BY <1>4
<1>6. CalculateEMA(closes, period) = ema[Len(closes)]
  BY <1>1 DEF CalculateEMA
<1>7. /\ ema[period] = Start
      /\ \A i \in (period + 1)..Len(closes) : ema[i] = Smooth(i, ema[i - 1])
  <2> HIDE DEF ema, Start, Smooth
  <2>1. \A i \in period..Len(closes) :
           ema[i] = IF i = period THEN Start ELSE Smooth(i, ema[i - 1])
    BY <1>5
  <2>2. QED
    BY <1>1, <2>1
<1> HIDE DEF ema
<1> DEFINE Between(x) == /\ x.num \in Int /\ x.den \in Nat \ {0}
                         /\ x.den * lo <= x.num /\ x.num <= x.den * hi
           S == {n \in 0..N : Between(ema[period + n])}
<1>8. 0 \in S
  <2>1. Start.num = Totals(closes)[period] /\ Start.den = period
    BY DEF Fraction
  <2>2. period * lo <= Totals(closes)[period] /\ Totals(closes)[period] <= period * hi
    <3>1. period \in 0..Len(closes)
      BY <1>1
    <3>2. \A n \in 0..Len(closes) : n * lo <= Totals(closes)[n] /\ Totals(closes)[n] <= n * hi
      BY TotalsBounds
    <3>3. QED
      BY <3>1, <3>2
  <2>3. Totals(closes)[period] \in Int
    BY <1>1, TotalsRec
  <2>4. Between(Start)
    BY <2>1, <2>2, <2>3
  <2>5. ema[period + 0] = Start
    BY <1>7
  <2>6. QED
    BY <1>1, <2>4, <2>5
<1>9. ASSUME NEW n \in 0..(N - 1), n \in S
      PROVE  n + 1 \in S
  <2> DEFINE i == period + (n + 1)
             x == ema[period + n]
  <2>1. i \in (period + 1)..Len(closes) /\ i - 1 = period + n /\ n + 1 \in 0..N
    BY <1>1
  <2>2. ema[i] = Smooth(i, x)
    BY <1>7, <2>1
  <2>3. Between(x)
    BY <1>9
  <2>4. closes[i] \in Int /\ lo <= closes[i] /\ closes[i] <= hi
    BY <1>1, <2>1
  <2> HIDE DEF i, x
  <2>5. Between(Smooth(i, x))
    <3>1. /\ Smooth(i, x).num = 2 * closes[i] * x.den + (period - 1) * x.num
          /\ Smooth(i, x).den = (period + 1) * x.den
      BY DEF Fraction
    <3> DEFINE num == 2 * closes[i] * x.den + (period - 1) * x.num
               den == (period + 1) * x.den
    <3>2. /\ den \in Nat \ {0} /\ num \in Int
          /\ den * lo <= num /\ num <= den * hi
      BY <2>3, <2>4, Smoothing
    <3> HIDE DEF num, den
    <3>3. Smooth(i, x).num = num /\ Smooth(i, x).den = den
      BY <3>1 DEF num, den
    <3> HIDE DEF Smooth
    <3>4. QED
      BY <3>2, <3>3
  <2>6. QED
    BY <2>1, <2>2, <2>5 DEF i
<1>10. Between(ema[Len(closes)])
  <2> HIDE DEF S, Between
  <2>1. \A n \in 0..N : n \in S
    BY <1>1, <1>8, <1>9, Induction
  <2>2. N \in 0..N /\ period + N = Len(closes)
    BY <1>1
  <2>3. QED
    BY <2>1, <2>2 DEF S
<1>11. QED
  BY <1>6, <1>10

(* Gains less losses are the whole move of the price. *)
LEMMA GainsAndLosses ==
  ASSUME NEW closes \in Seq(Int), NEW n \in 0..(Len(closes) - 1)
  PROVE  /\ Len(Gains(closes)) = Len(closes) - 1 /\ Len(Losses(closes)) = Len(closes) - 1
         /\ Totals(Gains(closes))[n] \in Nat /\ Totals(Losses(closes))[n] \in Nat
         /\ Totals(Gains(closes))[n] - Totals(Losses(closes))[n] = closes[n + 1] - closes[1]
<1> DEFINE N == Len(closes) - 1
           G == Totals(Gains(closes))
           L == Totals(Losses(closes))
<1>1. N \in Nat /\ Len(closes) = N + 1 /\ \A i \in 1..(N + 1) : closes[i] \in Int
  OBVIOUS
<1>2. /\ \A i \in 1..N : Gains(closes)[i] = Plus(closes[i + 1] - closes[i])
      /\ \A i \in 1..N : Losses(closes)[i] = Plus(closes[i] - closes[i + 1])
  BY DEF Gains, Losses
<1>3. \A i \in 1..N : /\ Gains(closes)[i] \in Nat /\ Losses(closes)[i] \in Nat
                      /\ Gains(closes)[i] - Losses(closes)[i] = closes[i + 1] - closes[i]
  <2> SUFFICES ASSUME NEW i \in 1..N
               PROVE  /\ Gains(closes)[i] \in Nat /\ Losses(closes)[i] \in Nat
                      /\ Gains(closes)[i] - Losses(closes)[i] = closes[i + 1] - closes[i]
    OBVIOUS
  <2> DEFINE x == closes[i]  y == closes[i + 1]
  <2>1. x \in Int /\ y \in Int
    BY <1>1
  <2>2. Gains(closes)[i] = Plus(y - x) /\ Losses(closes)[i] = Plus(x - y)
    BY <1>2
  <2> HIDE DEF x, y
  <2>3. Plus(y - x) \in Nat /\ Plus(x - y) \in Nat /\ Plus(y - x) - Plus(x - y) = y - x
    BY <2>1 DEF Plus
  <2>4. QED
    BY <2>2, <2>3 DEF x, y
<1>4. /\ Gains(closes) \in Seq(Int) /\ Len(Gains(closes)) = N
      /\ Losses(closes) \in Seq(Int) /\ Len(Losses(closes)) = N
  <2>1. \A i \in 1..N : closes[i + 1] - closes[i] \in Int /\ closes[i] - closes[i + 1] \in Int
    BY <1>1
  <2>2. QED
    BY <1>1, <2>1 DEF Gains, Losses, Plus
<1> DEFINE S == {k \in 0..N : /\ G[k] \in Nat /\ L[k] \in Nat
                              /\ G[k] - L[k] = closes[k + 1] - closes[1]}
<1>5. 0 \in S
  BY <1>1, <1>4, TotalsRec
<1>6. ASSUME NEW k \in 0..(N - 1), k \in S
      PROVE  k + 1 \in S
  <2>1. k + 1 \in 1..N /\ (k + 1) - 1 = k /\ k + 1 \in 0..N
    BY <1>1
  <2>2. G[k + 1] = G[k] + Gains(closes)[k + 1] /\ L[k + 1] = L[k] + Losses(closes)[k + 1]
    BY <1>4, <2>1, TotalsRec
  <2>3. closes[k + 1] \in Int /\ closes[(k + 1) + 1] \in Int /\ closes[1] \in Int
    BY <1>1, <2>1
  <2>4. /\ Gains(closes)[k + 1] \in Nat /\ Losses(closes)[k + 1] \in Nat
        /\ Gains(closes)[k + 1] - Losses(closes)[k + 1] = closes[(k + 1) + 1] - closes[k + 1]
    BY <1>3, <2>1
  <2>5. G[k] \in Nat /\ L[k] \in Nat /\ G[k] - L[k] = closes[k + 1] - closes[1]
    BY <1>6
  <2> HIDE DEF G, L
  <2>6. /\ G[k + 1] \in Nat /\ L[k + 1] \in Nat
        /\ G[k + 1] - L[k + 1] = closes[(k + 1) + 1] - closes[1]
    <3> DEFINE g == G[k]  l == L[k]
               a == Gains(closes)[k + 1]  b == Losses(closes)[k + 1]
               x == closes[1]  y == closes[k + 1]  z == closes[(k + 1) + 1]
    <3>1. /\ g \in Nat /\ l \in Nat /\ a \in Nat /\ b \in Nat
          /\ x \in Int /\ y \in Int /\ z \in Int
          /\ g - l = y - x /\ a - b = z - y
      BY <2>3, <2>4, <2>5
    <3> HIDE DEF g, l, a, b, x, y, z
    <3>2. g + a \in Nat /\ l + b \in Nat /\ (g + a) - (l + b) = z - x
      BY <3>1
    <3>3. QED
      BY <2>2, <3>2 DEF g, l, a, b, x, y, z
  <2>7. QED
    BY <2>1, <2>6
<1>7. n \in S
  <2>1. \A k \in 0..N : k \in S
    <3> HIDE DEF S
    <3>1. QED
      BY <1>1, <1>5, <1>6, Induction
  <2>2. QED
    BY <2>1
<1>8. QED
  BY <1>4, <1>7

(* An RSI lies in 0..100; below 30 the price fell over its period, above   *)
(* 70 it did not.                                                          *)
LEMMA RSIMeaning ==
  ASSUME NEW closes \in Seq(Int), NEW period \in Nat \ {0}
  PROVE  LET rsi == CalculateRSI(closes, period)
             move == closes[period + 1] - closes[1]
         IN  /\ rsi.num \in Nat /\ rsi.den \in Nat \ {0} /\ rsi.num <= 100 * rsi.den
             /\ rsi.num < 30 * rsi.den => Len(closes) > period /\ move < 0
             /\ 70 * rsi.den < rsi.num => Len(closes) > period /\ move >= 0
<1>1. CASE Len(closes) < period + 1
  BY <1>1 DEF CalculateRSI, Fraction
<1>2. CASE ~(Len(closes) < period + 1)
  <2> DEFINE gain == Totals(Gains(closes))[period]
             loss == Totals(Losses(closes))[period]
             move == closes[period + 1] - closes[1]
  <2>1. gain \in Nat /\ loss \in Nat /\ gain - loss = move
    <3>1. period \in 0..(Len(closes) - 1)
      BY <1>2
    <3>2. QED
      BY <3>1, GainsAndLosses
  <2>2. CalculateRSI(closes, period) =
          IF loss = 0 THEN Fraction(100, 1) ELSE Fraction(100 * gain, gain + loss)
    BY <1>2 DEF CalculateRSI
  <2>3. Len(closes) > period
    BY <1>2
  <2> HIDE DEF gain, loss
  <2>4. CASE loss = 0
    BY <2>1, <2>2, <2>3, <2>4 DEF Fraction
  <2>5. CASE loss # 0
    <3> DEFINE rsi == CalculateRSI(closes, period)
    <3>1. rsi.num = 100 * gain /\ rsi.den = gain + loss
      BY <2>2, <2>5 DEF Fraction
    <3> HIDE DEF rsi, move
    <3>2. /\ rsi.num \in Nat /\ rsi.den \in Nat \ {0} /\ rsi.num <= 100 * rsi.den
          /\ rsi.num < 30 * rsi.den => move < 0
          /\ 70 * rsi.den < rsi.num => move >= 0
      BY <2>1, <2>5, <3>1
    <3>3. QED
      BY <2>3, <3>2 DEF rsi, move
  <2>6. QED
    BY <2>4, <2>5
<1>3. QED
  BY <1>1, <1>2

(* What has flowed is at most what was traded, in either direction, and    *)
(* also when the flow leaves out the first candle.                         *)
LEMMA FlowBounded ==
  ASSUME NEW flow \in Seq(Int), NEW volumes \in Seq(Nat), NEW skip \in {0, 1},
         Len(volumes) = Len(flow) + skip,
         \A i \in 1..Len(flow) : /\ flow[i] <= volumes[i + skip]
                                 /\ -volumes[i + skip] <= flow[i]
  PROVE  Magnitude(Totals(flow)[Len(flow)]) <= Totals(volumes)[Len(volumes)]
<1> DEFINE N == Len(flow)
           F == Totals(flow)
           V == Totals(volumes)
           S == {n \in 0..N : F[n] <= V[n + skip] /\ -V[n + skip] <= F[n]}
<1>1. /\ N \in Nat /\ volumes \in Seq(Int)
      /\ \A i \in 1..N : flow[i] \in Int
      /\ \A i \in 1..(N + skip) : volumes[i] \in Nat
  OBVIOUS
<1>2. /\ F[0] = 0 /\ V[0] = 0
      /\ \A n \in 0..N : F[n] \in Int
      /\ \A n \in 0..(N + skip) : V[n] \in Int
      /\ \A n \in 1..N : F[n] = F[n - 1] + flow[n]
      /\ \A n \in 1..(N + skip) : V[n] = V[n - 1] + volumes[n]
  BY <1>1, TotalsRec
<1> HIDE DEF F, V, N
<1>3. 0 \in S
  <2>1. V[skip] >= 0
    BY <1>1, <1>2
  <2>2. V[skip] \in Int /\ 0 + skip = skip /\ 0 \in 0..N
    BY <1>1, <1>2
  <2>3. QED
    BY <1>2, <2>1, <2>2
<1>4. ASSUME NEW n \in 0..(N - 1), n \in S
      PROVE  n + 1 \in S
  <2>1. n + 1 \in 1..N /\ (n + 1) - 1 = n /\ n + 1 \in 0..N /\ n \in 0..N
    BY <1>1
  <2>2. /\ (n + 1) + skip \in 1..(N + skip) /\ ((n + 1) + skip) - 1 = n + skip
        /\ (n + 1) + skip \in 0..(N + skip) /\ n + skip \in 0..(N + skip)
    BY <1>1
  <2>3. F[n + 1] = F[n] + flow[n + 1] /\ V[(n + 1) + skip] = V[n + skip] + volumes[(n + 1) + skip]
    BY <1>2, <2>1, <2>2
  <2>4. /\ F[n] \in Int /\ V[n + skip] \in Int /\ flow[n + 1] \in Int
        /\ volumes[(n + 1) + skip] \in Int
    BY <1>1, <1>2, <2>1, <2>2
  <2>5. flow[n + 1] <= volumes[(n + 1) + skip] /\ -volumes[(n + 1) + skip] <= flow[n + 1]
    BY <2>1 DEF N
  <2>6. F[n] <= V[n + skip] /\ -V[n + skip] <= F[n]
    BY <1>4
  <2>7. F[n + 1] <= V[(n + 1) + skip] /\ -V[(n + 1) + skip] <= F[n + 1]
    <3>1. \A f, v, a, b \in Int :
            f <= v /\ -v <= f /\ a <= b /\ -b <= a => f + a <= v + b /\ -(v + b) <= f + a
      OBVIOUS
    <3>2. QED
      BY <2>3, <2>4, <2>5, <2>6, <3>1
  <2>8. QED
    BY <2>1, <2>7
<1>5. N \in S
  <2>1. \A n \in 0..N : n \in S
    <3> HIDE DEF S
    <3>1. QED
      BY <1>1, <1>3, <1>4, Induction
  <2>2. QED
    BY <1>1, <2>1
<1>6. F[N] \in Int /\ V[N + skip] \in Int
  BY <1>1, <1>2
<1>7. QED
  BY <1>5, <1>6 DEF Magnitude, Plus, F, V, N

(* Neither CVD nor OBV outgrows the volume of the candles. *)
LEMMA FlowsOfCandles ==
  ASSUME NEW candles \in Seq(OHLCV)
  PROVE  LET traded == Totals([i \in 1..Len(candles) |-> candles[i].volume])[Len(candles)]
         IN  Magnitude(CalculateCVD(candles)) <= traded /\ Magnitude(CalculateOBV(candles)) <= traded
<1> DEFINE n == Len(candles)
           volumes == [i \in 1..n |-> candles[i].volume]
           bought == [i \in 1..n |-> Signed(candles[i].volume, candles[i].close - candles[i].open)]
           moved == [i \in 1..(n - 1) |->
                       Signed(candles[i + 1].volume, candles[i + 1].close - candles[i].close)]
<1>1. /\ n \in Nat
      /\ \A i \in 1..n : /\ candles[i].volume \in Nat /\ candles[i].close \in Int
                         /\ candles[i].open \in Int
  <2>1. n \in Nat /\ \A i \in 1..n : candles[i] \in OHLCV
    OBVIOUS
  <2>2. QED
    BY <2>1 DEF OHLCV
<1>2. ASSUME NEW v \in Nat, NEW m \in Int
      PROVE  Signed(v, m) \in Int /\ Signed(v, m) <= v /\ -v <= Signed(v, m)
  BY DEF Signed
<1>3. volumes \in Seq(Nat) /\ Len(volumes) = n
  <2>1. \A i \in 1..n : volumes[i] \in Nat
    BY <1>1
  <2>2. QED
    BY <1>1, <2>1
<1>4. /\ \A i \in 1..n : /\ bought[i] \in Int
                         /\ bought[i] <= volumes[i] /\ -volumes[i] <= bought[i]
      /\ \A i \in 1..(n - 1) : /\ moved[i] \in Int
                               /\ moved[i] <= volumes[i + 1] /\ -volumes[i + 1] <= moved[i]
  <2>1. ASSUME NEW i \in 1..n
        PROVE  /\ bought[i] \in Int
               /\ bought[i] <= volumes[i] /\ -volumes[i] <= bought[i]
    <3>1. candles[i].close - candles[i].open \in Int /\ candles[i].volume \in Nat
      BY <1>1
    <3>2. /\ bought[i] = Signed(candles[i].volume, candles[i].close - candles[i].open)
          /\ volumes[i] = candles[i].volume
      OBVIOUS
    <3>3. QED
      BY <1>2, <3>1, <3>2
  <2>2. ASSUME NEW i \in 1..(n - 1)
        PROVE  /\ moved[i] \in Int
               /\ moved[i] <= volumes[i + 1] /\ -volumes[i + 1] <= moved[i]
    <3>1. i \in 1..n /\ i + 1 \in 1..n
      BY <1>1
    <3>2. candles[i + 1].close - candles[i].close \in Int /\ candles[i + 1].volume \in Nat
      BY <1>1, <3>1
    <3>3. /\ moved[i] = Signed(candles[i + 1].volume, candles[i + 1].close - candles[i].close)
          /\ volumes[i + 1] = candles[i + 1].volume
      BY <3>1
    <3>4. QED
      BY <1>2, <3>2, <3>3
  <2>3. QED
    BY <2>1, <2>2
<1>5. Magnitude(CalculateCVD(candles)) <= Totals(volumes)[n]
  <2>1. bought \in Seq(Int) /\ Len(bought) = n
    BY <1>1, <1>4
  <2>2. CalculateCVD(candles) = Totals(bought)[n]
    BY DEF CalculateCVD
  <2> HIDE DEF bought, volumes, n
  <2>3. n + 0 = n /\ \A i \in 1..n : i + 0 = i
    BY <1>1
  <2>4. QED
    BY <1>3, <1>4, <2>1, <2>2, <2>3, FlowBounded
<1>6. Magnitude(CalculateOBV(candles)) <= Totals(volumes)[n]
  <2>1. CASE n < 2
    <3>1. CalculateOBV(candles) = 0
      BY <2>1 DEF CalculateOBV
    <3>2. volumes \in Seq(Int) /\ \A i \in 1..n : volumes[i] \in Nat
      BY <1>1
    <3>3. Totals(volumes)[n] >= 0
      BY <1>1, <1>3, <2>1, <3>2, TotalsRec
    <3>4. QED
      BY <3>1, <3>3 DEF Magnitude, Plus
  <2>2. CASE ~(n < 2)
    <3>1. moved \in Seq(Int) /\ Len(moved) = n - 1
      <4>1. moved = [i \in 1..(n - 1) |-> moved[i]]
        OBVIOUS
      <4> HIDE DEF moved, volumes, bought, n
      <4>2. n - 1 \in Nat /\ \A i \in 1..(n - 1) : moved[i] \in Int
        BY <1>1, <1>4, <2>2
      <4>3. QED
        BY <4>1, <4>2
    <3>2. CalculateOBV(candles) = Totals(moved)[n - 1]
      BY <2>2 DEF CalculateOBV
    <3> HIDE DEF moved, volumes, n
    <3>3. (n - 1) + 1 = n
      BY <1>1
    <3>4. QED
      BY <1>3, <1>4, <3>1, <3>2, <3>3, FlowBounded
  <2>3. QED
    BY <2>1, <2>2
<1>7. QED
  BY <1>5, <1>6

(* A series has a lowest and a highest value. *)
LEMMA Extremes ==
  ASSUME NEW s \in Seq(Int), Len(s) > 0
  PROVE  \E i, j \in 1..Len(s) : \A k \in 1..Len(s) : s[i] <= s[k] /\ s[k] <= s[j]
<1> DEFINE Extreme(n) ==
             \E i, j \in 1..(n + 1) : \A k \in 1..(n + 1) : s[i] <= s[k] /\ s[k] <= s[j]
           N == Len(s) - 1
           S == {n \in 0..N : Extreme(n)}
<1>1. N \in Nat /\ Len(s) = N + 1 /\ \A i \in 1..(N + 1) : s[i] \in Int
  OBVIOUS
<1>2. 0 \in S
  BY <1>1
<1>3. ASSUME NEW n \in 0..(N - 1), n \in S
      PROVE  n + 1 \in S
  <2>1. PICK i \in 1..(n + 1), j \in 1..(n + 1) :
               \A k \in 1..(n + 1) : s[i] <= s[k] /\ s[k] <= s[j]
    BY <1>3
  <2> DEFINE m == n + 2
             lo == IF s[m] < s[i] THEN m ELSE i
             hi == IF s[m] > s[j] THEN m ELSE j
  <2>2. /\ m = (n + 1) + 1 /\ m \in 1..(N + 1)
        /\ i \in 1..(N + 1) /\ j \in 1..(N + 1)
        /\ s[m] \in Int /\ s[i] \in Int /\ s[j] \in Int
    BY <1>1
  <2>3. lo \in 1..((n + 1) + 1) /\ hi \in 1..((n + 1) + 1)
    BY <2>2
  <2>4. ASSUME NEW k \in 1..((n + 1) + 1)
        PROVE  s[lo] <= s[k] /\ s[k] <= s[hi]
    <3>1. k \in 1..(N + 1) /\ s[k] \in Int
      BY <1>1
    <3>2. k = m \/ k \in 1..(n + 1)
      BY <2>2
    <3>3. k \in 1..(n + 1) => s[i] <= s[k] /\ s[k] <= s[j]
      BY <2>1
    <3> HIDE DEF m
    <3>4. s[lo] <= s[i] /\ s[lo] <= s[m] /\ s[lo] \in Int
      BY <2>2
    <3>5. s[j] <= s[hi] /\ s[m] <= s[hi] /\ s[hi] \in Int
      BY <2>2
    <3> HIDE DEF lo, hi
    <3>6. CASE k = m
      BY <3>4, <3>5, <3>6
    <3>7. CASE k \in 1..(n + 1)
      <4>1. s[i] <= s[k] /\ s[k] <= s[j]
        BY <3>3, <3>7
      <4>2. s[i] \in Int /\ s[j] \in Int /\ s[k] \in Int
        BY <2>2, <3>1
      <4>3. \A x, y, z \in Int : x <= y /\ y <= z => x <= z
        OBVIOUS
      <4>4. QED
        BY <3>4, <3>5, <4>1, <4>2, <4>3, Zenon
    <3>8. QED
      BY <3>2, <3>6, <3>7
  <2> HIDE DEF m, lo, hi
  <2>5. Extreme(n + 1)
    BY <2>3, <2>4
  <2>6. n + 1 \in 0..N
    BY <1>1
  <2>7. QED
    BY <2>5, <2>6
<1>4. N \in S
  <2> HIDE DEF S
  <2>1. \A n \in 0..N : n \in S
    BY <1>1, <1>2, <1>3, Induction
  <2>2. N \in 0..N
    BY <1>1
  <2>3. QED
    BY <2>1, <2>2
<1>5. QED
  BY <1>1, <1>4

-----------------------------------------------------------------------------
(* The series of a scan are candles that the exchange sent. *)
LEMMA SeriesTyped ==
  ASSUME Inv, NEW f \in Frames
  PROVE  /\ got[f].candles \in Seq(OHLCV) /\ Closes(f) \in Seq(Int)
         /\ Len(Closes(f)) \in Nat /\ DOMAIN Closes(f) = 1..Len(Closes(f))
<1>1. got[f].candles \in Seq(OHLCV)
  <2>1. got[f].candles \in Answers[f] \cup {<<>>}
    BY DEF Inv, CacheType, AnswerOf
  <2>2. Answers[f] \subseteq Seq(OHLCV) /\ <<>> \in Seq(OHLCV)
    BY ScanConstants
  <2>3. QED
    BY <2>1, <2>2
<1> DEFINE candles == got[f].candles
<1>2. Len(candles) \in Nat /\ \A i \in 1..Len(candles) : candles[i] \in OHLCV
  BY <1>1
<1>3. \A i \in 1..Len(candles) : candles[i].close \in Int
  BY <1>2 DEF OHLCV
<1>4. Closes(f) = [i \in 1..Len(candles) |-> candles[i].close]
  BY DEF Closes
<1>5. Closes(f) \in Seq(Int)
  <2> HIDE DEF candles
  <2>1. QED
    BY <1>2, <1>3, <1>4
<1>6. QED
  BY <1>1, <1>5

(* Whatever the candles, their indicators are in range. *)
LEMMA InRange == Inv => IndicatorBounds
<1> SUFFICES ASSUME Inv PROVE IndicatorBounds
  OBVIOUS
<1> Trend \in Frames /\ RSIPeriod \in Nat \ {0} /\ EMAPeriod \in Nat \ {0}
  BY ScanConstants
<1>1. ~Below(RSI, Fraction(0, 1)) /\ ~Below(Fraction(100, 1), RSI)
  <2>1. RSI.num \in Nat /\ RSI.den \in Nat \ {0} /\ RSI.num <= 100 * RSI.den
    BY SeriesTyped, RSIMeaning DEF RSI
  <2>2. QED
    BY <2>1 DEF Below, Fraction
<1>2. ASSUME NEW f \in Frames
      PROVE  IF Len(Closes(f)) < EMAPeriod THEN EMA(f).num = 0
             ELSE \E i, j \in DOMAIN Closes(f) :
                    /\ ~Below(EMA(f), Fraction(Closes(f)[i], 1))
                    /\ ~Below(Fraction(Closes(f)[j], 1), EMA(f))
  <2> DEFINE s == Closes(f)
  <2>1. s \in Seq(Int) /\ Len(s) \in Nat /\ DOMAIN s = 1..Len(s)
    BY SeriesTyped
  <2>2. CASE Len(s) < EMAPeriod
    BY <2>2 DEF EMA, CalculateEMA, Fraction
  <2>3. CASE ~(Len(s) < EMAPeriod)
    <3> HIDE DEF s
    <3>1. Len(s) > 0 /\ EMAPeriod <= Len(s)
      BY <2>1, <2>3
    <3>2. PICK i \in 1..Len(s), j \in 1..Len(s) :
                 \A k \in 1..Len(s) : s[i] <= s[k] /\ s[k] <= s[j]
      BY <2>1, <3>1, Extremes
    <3>3. s[i] \in Int /\ s[j] \in Int
      BY <2>1
    <3>4. /\ EMA(f).num \in Int /\ EMA(f).den \in Nat \ {0}
          /\ EMA(f).den * s[i] <= EMA(f).num /\ EMA(f).num <= EMA(f).den * s[j]
      <4>1. EMA(f) = CalculateEMA(s, EMAPeriod)
        BY DEF EMA, s
      <4>2. QED
        BY <2>1, <3>1, <3>2, <3>3, <4>1, EMABetween
    <3>5. ~Below(EMA(f), Fraction(s[i], 1)) /\ ~Below(Fraction(s[j], 1), EMA(f))
      <4> DEFINE e == EMA(f)
      <4> HIDE DEF e
      <4>1. e.den * s[i] = s[i] * e.den /\ e.den * s[j] = s[j] * e.den
        BY <3>3, <3>4 DEF e
      <4>2. s[i] * e.den \in Int /\ s[j] * e.den \in Int
        BY <3>3, <3>4 DEF e
      <4>3. ~(e.num < s[i] * e.den) /\ ~(s[j] * e.den < e.num)
        BY <3>4, <4>1, <4>2 DEF e
      <4>4. ~Below(e, Fraction(s[i], 1)) /\ ~Below(Fraction(s[j], 1), e)
        BY <3>3, <3>4, <4>3 DEF Below, Fraction, e
      <4>5. QED
        BY <4>4 DEF e
    <3>6. QED
      BY <2>1, <2>3, <3>5 DEF s
  <2>4. QED
    BY <2>2, <2>3
<1>3. Magnitude(CVD) <= Traded /\ Magnitude(OBV) <= Traded
  BY SeriesTyped, FlowsOfCandles DEF CVD, OBV, Traded
<1>4. QED
  BY <1>1, <1>2, <1>3 DEF IndicatorBounds

(* An RSI lies in 0..100, an EMA between two of its closes, and CVD and    *)
(* OBV within the volume that was traded, for series of any length,        *)
(* prices, volumes and periods.                                            *)
THEOREM BoundsKept == Spec => []IndicatorBounds
<1>1. QED
  BY InRange, InvInit, InvStep, PTL DEF Spec

(* Between the beginning of a scan and its decision there is no verdict,   *)
(* and from the join on the core timeframes have candles.                  *)
CauseInv ==
  /\ step # "idle" => verdict = "none"
  /\ step \in {"oi", "decide"} => \A f \in Core : HasCandles(f)
  /\ SignalHasCause

(* The rule trades on nothing but the move that the RSI measured. *)
LEMMA DecisionHasCause ==
  ASSUME Inv
  PROVE  /\ MakeDecision \in {"open_long", "open_short"} => Len(Closes(Trend)) > RSIPeriod
         /\ MakeDecision = "open_long" => Closes(Trend)[RSIPeriod + 1] - Closes(Trend)[1] < 0
         /\ MakeDecision = "open_short" => Closes(Trend)[RSIPeriod + 1] - Closes(Trend)[1] >= 0
<1> DEFINE move == Closes(Trend)[RSIPeriod + 1] - Closes(Trend)[1]
<1>1. /\ RSI.num \in Nat /\ RSI.den \in Nat \ {0}
      /\ RSI.num < 30 * RSI.den => Len(Closes(Trend)) > RSIPeriod /\ move < 0
      /\ 70 * RSI.den < RSI.num => Len(Closes(Trend)) > RSIPeriod /\ move >= 0
  BY ScanConstants, SeriesTyped, RSIMeaning DEF RSI
<1>2. /\ Below(RSI, Fraction(30, 1)) => RSI.num < 30 * RSI.den
      /\ Below(Fraction(70, 1), RSI) => 70 * RSI.den < RSI.num
  BY <1>1 DEF Below, Fraction
<1>3. QED
  BY <1>1, <1>2 DEF MakeDecision

(* Every step keeps it: the candles do not change between the join and the *)
(* next scan.                                                              *)
LEMMA CauseStep ==
  ASSUME Inv, CauseInv, [Next]_vars
  PROVE  CauseInv'
<1>1. CASE Begin
  BY <1>1 DEF Begin, CauseInv, SignalHasCause
<1>2. CASE Join
  <2>1. verdict = "none" /\ UNCHANGED got
    BY <1>2 DEF Join, CauseInv
  <2>2. verdict' \in {"none", "failed"}
    BY <1>2, <2>1 DEF Join
  <2>3. step' = "oi" => verdict' = "none" /\ \A f \in Core : HasCandles(f)'
    BY <1>2, <2>1 DEF Join, HasCandles
  <2>4. step' \in {"oi", "idle"}
    BY <1>2 DEF Join
  <2>5. QED
    BY <2>2, <2>3, <2>4 DEF CauseInv, SignalHasCause
<1>3. CASE OIChange
  <2>1. /\ step = "oi" /\ step' = "decide" /\ UNCHANGED <<got, verdict>>
    BY <1>3 DEF OIChange, cacheVars
  <2>2. verdict' = "none" /\ \A f \in Core : HasCandles(f)'
    BY <2>1 DEF CauseInv, HasCandles
  <2>3. QED
    BY <2>1, <2>2 DEF CauseInv, SignalHasCause
<1>4. CASE Decide
  <2>1. /\ step = "decide" /\ step' = "idle" /\ UNCHANGED got
        /\ verdict' \in {MakeDecision, "skipped"}
    BY <1>4 DEF Decide, cacheVars
  <2>2. \A f \in Core : HasCandles(f)'
    BY <2>1 DEF CauseInv, HasCandles
  <2>3. Closes(Trend)' = Closes(Trend)
    BY <2>1 DEF Closes
  <2>4. SignalHasCause'
    BY <2>1, <2>2, <2>3, DecisionHasCause DEF SignalHasCause
  <2>5. QED
    BY <2>1, <2>4 DEF CauseInv
<1>5. ASSUME NEW f \in Frames, Fetch(f)
      PROVE  CauseInv'
  <2>1. step = "fetch" /\ UNCHANGED scanVars
    BY <1>5, FetchWhileScanning DEF Fetch
  <2>2. step' = "fetch" /\ verdict' = "none"
    BY <2>1 DEF scanVars, CauseInv
  <2>3. QED
    BY <2>2 DEF CauseInv, SignalHasCause
<1>6. CASE UNCHANGED <<got, step, verdict>>
  BY <1>6 DEF CauseInv, SignalHasCause, HasCandles, Closes
<1>7. CASE (\E f \in Frames : Age(f)) \/ UNCHANGED vars
  BY <1>6, <1>7 DEF Age, TTLPasses, scanVars, vars, cacheVars
<1>8. QED
  BY <1>1, <1>2, <1>3, <1>4, <1>5, <1>7 DEF Next

(* A long or a short comes of the candles of its own scan: all core        *)
(* timeframes have some, the trend has enough of them, and the price fell  *)
(* before a long and did not before a short.                               *)
THEOREM SignalsCaused == Spec => []SignalHasCause
<1>1. Init => CauseInv
  BY DEF Init, CauseInv, SignalHasCause
<1>2. Inv /\ CauseInv /\ [Next]_vars => CauseInv'
  BY CauseStep
<1>3. CauseInv => SignalHasCause
  BY DEF CauseInv
<1>4. QED
  BY InvInit, InvStep, <1>1, <1>2, <1>3, PTL DEF Spec
=============================================================================
