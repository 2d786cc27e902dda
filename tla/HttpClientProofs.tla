-------------------------- MODULE HttpClientProofs --------------------------
(***************************************************************************)
(* Theorems about HttpClient for every number of callers, every rate and   *)
(* capacity, every policy of waits and every bound.                        *)
(***************************************************************************)
EXTENDS HttpClient, TLAPS

(* The time that the tokens of the interval's requests were worth. *)
Spent == sent * Period

(* The tokens spent in the interval are a natural number. *)
LEMMA SpentIsNat == sent \in Nat => Spent \in Nat
  BY HttpConstants DEF Spent

(* One more request costs one more Period. *)
LEMMA SpentGrows ==
  sent \in Nat /\ sent' = sent + 1 => Spent' = Spent + Period
  BY HttpConstants DEF Spent

(* An interval without requests has spent nothing. *)
LEMMA SpentNothing == sent = 0 => Spent = 0
  BY HttpConstants DEF Spent

(* A unit of time more on both sides. *)
LEMMA OneUnitMore ==
  ASSUME NEW p \in Nat, NEW c \in Nat, NEW e \in Nat, NEW e2 \in Nat,
         NEW f \in Nat, NEW a \in Nat,
         p + c + e <= f + a, e2 <= e + 1
  PROVE  p + c + e2 <= f + a + 1
  OBVIOUS

(* The capacity of the bucket is a natural number. *)
LEMMA FullIsNat == Full \in Nat
  BY HttpConstants DEF Full

(* The part of the state the token bucket and the observed interval need. *)
BucketType ==
  /\ credit \in 0..Full
  /\ elapsed \in 0..Full
  /\ age \in Nat
  /\ sent \in Nat

(* The inductive strengthening: what has been sent, what is in the bucket  *)
(* and what has come in since lastUpdate together never exceed a full      *)
(* bucket and the age of the interval.  Until the interval's first request *)
(* the time since lastUpdate may reach back before its beginning.          *)
Balance == sent = 0 \/ Spent + credit + elapsed <= Full + age
BucketInv == BucketType /\ Balance

(* A full bucket and an empty interval satisfy BucketInv. *)
LEMMA BucketInvInit == Init => BucketInv
  BY FullIsNat, HttpConstants DEF Init, BucketInv, BucketType, Balance

(* Only Acquire, Tick and Observe touch the bucket or the interval. *)
LEMMA BucketInvStep == BucketInv /\ [Next]_vars => BucketInv'
<1> SUFFICES ASSUME BucketInv, [Next]_vars
             PROVE  BucketInv'
  OBVIOUS
<1>0. Spent \in Nat /\ Period \in Nat
  BY SpentIsNat, HttpConstants DEF BucketInv, BucketType
<1> USE FullIsNat DEF BucketInv, BucketType, Balance
<1>1. ASSUME NEW c \in Callers, Acquire(c)
      PROVE  BucketInv'
  <2>1. Refill \in 0..Full /\ Refill <= credit + elapsed
    BY DEF Refill, Smaller
  <2>2. elapsed' = 0 /\ age' = age
    BY <1>1 DEF Acquire
  <2>3. CASE Refill >= Period /\ credit' = Refill - Period /\ sent' = sent + 1
    <3>1. Spent' = Spent + Period
      BY <2>3, SpentGrows
    <3>2. Spent + Refill <= Full + age
      BY <2>1, <1>0, SpentNothing
    <3>3. QED
      BY <3>1, <3>2, <2>1, <2>2, <2>3, <1>0
  <2>4. CASE Refill < Period /\ credit' = Refill /\ sent' = sent
    <3>1. Spent' = Spent
      BY <2>4 DEF Spent
    <3>2. QED
      BY <3>1, <2>1, <2>2, <2>4, <1>0
  <2>5. QED
    BY <1>1, <2>3, <2>4 DEF Acquire
<1>2. CASE Tick
  <2>1. elapsed' \in 0..Full /\ elapsed' <= elapsed + 1
    BY <1>2 DEF Tick, Smaller
  <2>2. credit' = credit /\ sent' = sent /\ age' = age + 1
    BY <1>2 DEF Tick
  <2>3. Spent' = Spent
    BY <2>2 DEF Spent
  <2>4. BucketType'
    BY <2>1, <2>2
  <2>5. CASE sent = 0
    BY <2>2, <2>4, <2>5
  <2>6. CASE Spent + credit + elapsed <= Full + age
    <3>1. Spent + credit + elapsed' <= Full + age + 1
      <4>1. /\ Spent \in Nat /\ credit \in Nat /\ elapsed \in Nat
            /\ elapsed' \in Nat /\ Full \in Nat /\ age \in Nat
        BY <2>1, <1>0
      <4>2. elapsed' <= elapsed + 1
        BY <2>1
      <4>3. QED
        BY <4>1, <4>2, <2>6, OneUnitMore, Zenon
    <3>2. QED
      BY <3>1, <2>2, <2>3, <2>4
  <2>7. QED
    BY <2>5, <2>6
<1>3. CASE Observe
  BY <1>3 DEF Observe, bucket
<1>4. ASSUME NEW c \in Callers,
             Call(c) \/ WaitBackoff(c) \/ Return(c) \/ SetBackoff(c)
      PROVE  UNCHANGED <<bucket, interval>>
  BY <1>4 DEF Call, WaitBackoff, Return, Succeed, Fail, OnRateLimited, SetBackoff
<1>5. ASSUME UNCHANGED <<bucket, interval>>
      PROVE  BucketInv'
  BY <1>5 DEF bucket, interval, Spent
<1>6. QED
  BY <1>1, <1>2, <1>3, <1>4, <1>5 DEF Next, CallerStep, vars

(* The token bucket keeps its promise under every interleaving of its      *)
(* callers: in no interval do more requests go out than a full bucket and  *)
(* the tokens that come in meanwhile.                                      *)
THEOREM RateLimited == Spec => []RateBound
<1>1. BucketInv => Spent <= Full + age
  BY SpentNothing, SpentIsNat, FullIsNat DEF BucketInv, BucketType, Balance
<1>2. BucketInv => RateBound
  BY <1>1 DEF RateBound, Spent
<1>3. QED
  BY <1>2, BucketInvInit, BucketInvStep, PTL DEF Spec

-----------------------------------------------------------------------------
(* The window.  What keeps it bounded is that every wait is, whatever the  *)
(* header says, and what keeps a demand honoured is that the window covers *)
(* every wait still owed.                                                  *)
Longest == MaxSec + Second
Waits == 0..Longest

WindowInv ==
  /\ backoff \in Waits /\ asked \in Nat /\ asked <= backoff
  /\ level \in 0..MaxLevel
  /\ wait \in [Callers -> Waits]

CallType ==
  /\ pc \in [Callers -> {"idle", "backoff", "limit", "flight", "limited"}]
  /\ calls \in [Callers -> 0..MaxCalls]
  /\ limited \in 0..MaxLimited
  /\ age \in 0..MaxAge

Inv == BucketInv /\ WindowInv /\ CallType

(* Whatever is advised, it is clamped to maxSec. *)
LEMMA ClampedInRange ==
  ASSUME NEW w \in Int
  PROVE  Clamped(w) \in 0..MaxSec
  BY HttpConstants DEF Clamped, Greater, Smaller

(* The jitter adds a second at most. *)
LEMMA JitterInRange ==
  ASSUME NEW w \in 0..MaxSec
  PROVE  WithJitter(w) \in Waits
<1>1. w \div JitterDivisor \in Nat
  BY HttpConstants
<1>2. QED
  BY <1>1, HttpConstants DEF WithJitter, Smaller, Waits, Longest

(* What is advised is a number: the doubling has a value. *)
LEMMA AdvisedIsInt ==
  ASSUME level \in 0..MaxLevel, NEW status \in {418, 429}, NEW header \in RetryAfters
  PROVE  Advised(status, header) \in Int
<1> DEFINE base == IF status = 418 THEN Base418 ELSE Second
           n == Smaller(level, MaxLevel)
<1>1. base \in Nat /\ n \in Nat
  BY HttpConstants DEF Smaller
<1>2. 2 ^ n \in Int
  BY <1>1
<1>3. base * 2 ^ n \in Int
  BY <1>1, <1>2
<1>4. QED
  BY <1>3, HttpConstants DEF Advised, Smaller

(* Every step keeps the window in its range. *)
LEMMA InvStep == Inv /\ [Next]_vars => Inv'
<1> SUFFICES ASSUME Inv, [Next]_vars PROVE Inv'
  OBVIOUS
<1>0. BucketInv'
  BY BucketInvStep DEF Inv
<1>1. ASSUME NEW c \in Callers, Call(c) \/ WaitBackoff(c) \/ Acquire(c) \/ Fail(c)
      PROVE  Inv'
  <2>1. UNCHANGED <<window, wait, limited, age>>
    BY <1>1 DEF Call, WaitBackoff, Acquire, Fail, bucket, interval
  <2>2. CallType'
    BY <1>1, <2>1, HttpConstants DEF Inv, CallType, Call, WaitBackoff, Acquire, Fail, interval
  <2>3. QED
    BY <1>0, <2>1, <2>2 DEF Inv, WindowInv, window
<1>2. ASSUME NEW c \in Callers, Succeed(c)
      PROVE  Inv'
  BY <1>0, <1>2, HttpConstants DEF Inv, WindowInv, CallType, Succeed, Waits, Longest, interval
<1>3. ASSUME NEW c \in Callers, OnRateLimited(c)
      PROVE  Inv'
  <2>1. PICK status \in {418, 429}, header \in RetryAfters :
          /\ pc[c] = "flight" /\ limited > 0
          /\ limited' = limited - 1
          /\ level' = NextLevel
          /\ wait' = [wait EXCEPT ![c] = WithJitter(Clamped(Advised(status, header)))]
          /\ pc' = [pc EXCEPT ![c] = "limited"]
          /\ UNCHANGED <<bucket, backoff, asked, calls, interval>>
    BY <1>3, Zenon DEF OnRateLimited
  <2>2. WithJitter(Clamped(Advised(status, header))) \in Waits
    BY AdvisedIsInt, ClampedInRange, JitterInRange DEF Inv, WindowInv
  <2>3. level' \in 0..MaxLevel
    BY <1>3, HttpConstants DEF OnRateLimited, NextLevel, Smaller, Inv, WindowInv
  <2>4. UNCHANGED <<backoff, asked, calls, age>> /\ limited' \in 0..MaxLimited
    BY <1>3, HttpConstants DEF OnRateLimited, Inv, CallType, interval
  <2>5. CallType'
    BY <1>3, <2>4 DEF OnRateLimited, Inv, CallType
  <2>6. QED
    BY <1>0, <2>1, <2>2, <2>3, <2>4, <2>5 DEF Inv, WindowInv
<1>4. ASSUME NEW c \in Callers, SetBackoff(c)
      PROVE  Inv'
  <2>1. wait[c] \in Waits /\ 0 \in Waits
    BY HttpConstants DEF Inv, WindowInv, Waits, Longest
  <2>2. WindowInv'
    BY <1>4, <2>1, HttpConstants DEF SetBackoff, Extend, Greater, Inv, WindowInv, Waits, Longest
  <2>3. CallType'
    BY <1>4 DEF SetBackoff, Inv, CallType, interval
  <2>4. QED
    BY <1>0, <2>2, <2>3 DEF Inv
<1>5. CASE Tick
  <2>1. WindowInv'
    BY <1>5, HttpConstants DEF Tick, Greater, Inv, WindowInv, Waits, Longest
  <2>2. CallType'
    BY <1>5, HttpConstants DEF Tick, Inv, CallType
  <2>3. QED
    BY <1>0, <2>1, <2>2 DEF Inv
<1>6. CASE Observe
  BY <1>0, <1>6, HttpConstants DEF Observe, Inv, WindowInv, CallType, window
<1>7. CASE UNCHANGED vars
  BY <1>0, <1>7 DEF vars, Inv, WindowInv, CallType, window, interval
<1>8. QED
  BY <1>1, <1>2, <1>3, <1>4, <1>5, <1>6, <1>7 DEF Next, CallerStep, Return

(* The first state. *)
LEMMA InvInit == Init => Inv
<1>1. Init => WindowInv /\ CallType
  BY HttpConstants DEF Init, WindowInv, CallType, Waits, Longest
<1>2. QED
  BY <1>1, BucketInvInit DEF Inv

(* Inv holds throughout. *)
LEMMA Invariance == Spec => []Inv
  BY InvInit, InvStep, PTL DEF Spec

(* The client keeps its types for any callers, rate, waits and bounds:     *)
(* whatever Retry-After says, the window is never longer than maxSec and   *)
(* the jitter of a second.                                                 *)
THEOREM TypeCorrect == Spec => []TypeOK
<1>1. Inv => TypeOK
  <2> SUFFICES ASSUME Inv PROVE TypeOK
    OBVIOUS
  <2>1. Waits \subseteq Nat
    BY HttpConstants DEF Waits, Longest
  <2>2. backoff \in 0..(MaxSec + Second)
    BY DEF Inv, WindowInv, Waits, Longest
  <2>3. QED
    BY <2>1, <2>2 DEF Inv, BucketInv, BucketType, WindowInv, CallType, TypeOK
<1>2. QED
  BY <1>1, Invariance, PTL

(* Nobody leaves WaitBackoff while a wait imposed since the last success   *)
(* is still owed.                                                          *)
THEOREM DemandsHonoured == Spec => DemandHonoured
<1>1. Inv /\ [Next]_vars =>
        [\A c \in Callers :
           pc[c] = "backoff" /\ pc'[c] = "limit" => asked = 0]_vars
  <2> SUFFICES ASSUME Inv, [Next]_vars, NEW c \in Callers, pc[c] = "backoff", pc'[c] = "limit"
               PROVE  asked = 0
    OBVIOUS
  <2>1. PICK d \in Callers : WaitBackoff(d)
    BY DEF Next, CallerStep, Call, Acquire, Return, Succeed, Fail, OnRateLimited, SetBackoff,
           Tick, Observe, vars, Inv, CallType
  <2>2. QED
    BY <2>1, HttpConstants DEF WaitBackoff, Inv, WindowInv, Waits
<1>2. QED
  BY <1>1, Invariance, PTL DEF Spec, DemandHonoured
=============================================================================
