----------------------------- MODULE HttpClient -----------------------------
(***************************************************************************)
(* The market-data client of internal/exchange: HTTPClient.FetchJSON with  *)
(* its token bucket (RateLimiter) and its backoff window (BackoffManager), *)
(* shared by every goroutine that reads market data.                       *)
(*                                                                         *)
(* Time is counted in units; instants are kept as distances from now, so   *)
(* that it never has to stop: `backoff' is what is left of the window,     *)
(* `elapsed' the time since lastUpdate (no more of it than fills the       *)
(* bucket).  Tokens are counted in units too: a token is worth the Period  *)
(* units it takes to come in.                                              *)
(***************************************************************************)
EXTENDS Integers, FiniteSetsExt

CONSTANTS
  Callers,        \* goroutines that call FetchJSON
  Capacity,       \* tokens the bucket holds (20)
  Period,         \* units of time per token (1/10 s)
  Second,         \* units of time in a second
  Base418,        \* first wait after HTTP 418 (60 s); after 429 it is a second
  MaxSec,         \* BackoffManager.maxSec (60 s)
  MaxLevel,       \* BackoffManager.maxLevel (6)
  JitterDivisor,  \* the jitter is this part of the wait (10), a second at most
  RetryAfters,    \* values of the Retry-After header, NoHeader among them
  NoHeader,
  MaxCalls,       \* bound: calls of one caller
  MaxLimited,     \* bound: answers 429 and 418 of the exchange
  MaxAge          \* bound: length of the observed interval

ASSUME HttpConstants ==
  /\ Capacity \in Nat \ {0} /\ Period \in Nat \ {0} /\ Second \in Nat \ {0}
  /\ Base418 \in Nat /\ MaxSec \in Nat /\ Second <= MaxSec
  /\ MaxLevel \in Nat /\ JitterDivisor \in Nat \ {0}
  /\ RetryAfters \subseteq Nat \cup {NoHeader} /\ NoHeader \notin Nat
  /\ MaxCalls \in Nat /\ MaxLimited \in Nat /\ MaxAge \in Nat

VARIABLES
  credit,   \* rl.tokens
  elapsed,  \* time since rl.lastUpdate
  backoff,  \* what is left of backoffUntil["binance"], 0 when none is open
  level,    \* backoffLevel["binance"]
  pc,       \* where each caller is in FetchJSON
  wait,     \* the wait OnRateLimited has worked out for a caller
  calls,    \* calls each caller may still make
  limited,  \* limited answers the exchange may still give
  asked,    \* history: longest wait still owed, no success having come since
  age,      \* history: length of an interval begun at an arbitrary instant
  sent      \* history: requests admitted in that interval

bucket == <<credit, elapsed>>
window == <<backoff, level, asked>>
interval == <<age, sent>>
vars == <<bucket, window, pc, wait, calls, limited, interval>>

Full == Capacity * Period
Smaller(m, n) == IF m < n THEN m ELSE n
Greater(m, n) == IF m > n THEN m ELSE n

Init ==
  /\ credit = Full /\ elapsed = 0
  /\ backoff = 0 /\ level = 0 /\ asked = 0
  /\ pc = [c \in Callers |-> "idle"]
  /\ wait = [c \in Callers |-> 0]
  /\ calls = [c \in Callers |-> MaxCalls]
  /\ limited = MaxLimited
  /\ age = 0 /\ sent = 0

(* FetchJSON is called. *)
Call(c) ==
  /\ pc[c] = "idle" /\ calls[c] > 0
  /\ calls' = [calls EXCEPT ![c] = @ - 1]
  /\ pc' = [pc EXCEPT ![c] = "backoff"]
  /\ UNCHANGED <<bucket, window, wait, limited, interval>>

(* WaitBackoff returns: no window, or one that has passed. *)
WaitBackoff(c) ==
  /\ pc[c] = "backoff"
  /\ backoff = 0
  /\ pc' = [pc EXCEPT ![c] = "limit"]
  /\ UNCHANGED <<bucket, window, wait, calls, limited, interval>>

(* Faulty variants: a bucket that overflows, and one that moves lastUpdate *)
(* without keeping what came in.                                           *)
RefillUncapped == credit + elapsed
RefillNothing == credit

(* The tokens at the time of an Acquire. *)
Refill == Smaller(Full, credit + elapsed)

(* One turn of the loop of Wait(1): Acquire brings the bucket up to date   *)
(* whether or not it grants a token; the request goes out when it does.    *)
Acquire(c) ==
  /\ pc[c] = "limit"
  /\ elapsed' = 0
  /\ \/ /\ Refill >= Period
        /\ credit' = Refill - Period
        /\ sent' = sent + 1
        /\ pc' = [pc EXCEPT ![c] = "flight"]
     \/ /\ Refill < Period
        /\ credit' = Refill
        /\ UNCHANGED <<sent, pc>>
  /\ UNCHANGED <<window, wait, calls, limited, age>>

(* Status 200: ResetBackoff forgets the window and the level. *)
Succeed(c) ==
  /\ pc[c] = "flight"
  /\ backoff' = 0 /\ level' = 0 /\ asked' = 0
  /\ pc' = [pc EXCEPT ![c] = "idle"]
  /\ UNCHANGED <<bucket, wait, calls, limited, interval>>

(* Any other status, a timeout, a cancelled context: an error, no more. *)
Fail(c) ==
  /\ pc[c] = "flight"
  /\ pc' = [pc EXCEPT ![c] = "idle"]
  /\ UNCHANGED <<bucket, window, wait, calls, limited, interval>>

(* What OnRateLimited waits before the jitter: the Retry-After header, or  *)
(* the base doubled once per level, clamped to [1s, maxSec] either way.    *)
Advised(status, header) ==
  IF header # NoHeader THEN header
  ELSE Smaller((IF status = 418 THEN Base418 ELSE Second)
                 * 2 ^ Smaller(level, MaxLevel),
               MaxSec)

Clamped(w) == Greater(Second, Smaller(w, MaxSec))

WithJitter(w) == w + Smaller(Second, w \div JitterDivisor)

(* Faulty variant: the level grows without end. *)
NextLevelUncapped == level + 1

NextLevel == Smaller(MaxLevel, level + 1)

(* Status 429 or 418: the level is raised under the mutex, the wait worked *)
(* out after it has been given back.                                       *)
OnRateLimited(c) ==
  \E status \in {418, 429}, header \in RetryAfters :
    /\ pc[c] = "flight" /\ limited > 0
    /\ limited' = limited - 1
    /\ level' = NextLevel
    /\ wait' = [wait EXCEPT ![c] = WithJitter(Clamped(Advised(status, header)))]
    /\ pc' = [pc EXCEPT ![c] = "limited"]
    /\ UNCHANGED <<bucket, backoff, asked, calls, interval>>

(* Faulty variant: the last wait wins. *)
Overwrite(w) == w

(* backoffUntil after SetBackoff: a window is extended, never cut short. *)
Extend(w) == Greater(backoff, w)

(* SetBackoff, in a section of its own. *)
SetBackoff(c) ==
  /\ pc[c] = "limited"
  /\ backoff' = Extend(wait[c])
  /\ asked' = Greater(asked, wait[c])
  /\ wait' = [wait EXCEPT ![c] = 0]
  /\ pc' = [pc EXCEPT ![c] = "idle"]
  /\ UNCHANGED <<bucket, level, calls, limited, interval>>

(* A unit of time passes. *)
Tick ==
  /\ elapsed' = Smaller(Full, elapsed + 1)
  /\ backoff' = Greater(0, backoff - 1)
  /\ asked' = Greater(0, asked - 1)
  /\ age < MaxAge
  /\ age' = age + 1
  /\ UNCHANGED <<credit, level, pc, wait, calls, limited, sent>>

(* The observation of an interval begins anew, now. *)
Observe ==
  /\ age' = 0 /\ sent' = 0
  /\ UNCHANGED <<bucket, window, pc, wait, calls, limited>>

Return(c) == Succeed(c) \/ Fail(c) \/ OnRateLimited(c)

CallerStep(c) ==
  Call(c) \/ WaitBackoff(c) \/ Acquire(c) \/ Return(c) \/ SetBackoff(c)

Next == Tick \/ Observe \/ \E c \in Callers : CallerStep(c)

Spec == Init /\ [][Next]_vars

(* Time passes and the observation is renewed; a goroutine that can go on  *)
(* is scheduled; a request is answered, or cut off by the client's         *)
(* timeout; whether a new call is made is up to the program.               *)
FairSpec ==
  /\ Spec
  /\ WF_vars(Tick)
  /\ WF_vars(age = MaxAge /\ Observe)
  /\ \A c \in Callers :
       /\ WF_vars(WaitBackoff(c))
       /\ WF_vars(Acquire(c))
       /\ WF_vars(Return(c))
       /\ WF_vars(SetBackoff(c))

-----------------------------------------------------------------------------
(* Every variable keeps to its range: the level to BackoffManager's        *)
(* maxLevel, and the window, whatever Retry-After says and however often   *)
(* the exchange refuses, to maxSec and its jitter.                         *)
TypeOK ==
  /\ credit \in 0..Full /\ elapsed \in 0..Full
  /\ backoff \in 0..(MaxSec + Second) /\ asked \in Nat /\ level \in 0..MaxLevel
  /\ pc \in [Callers -> {"idle", "backoff", "limit", "flight", "limited"}]
  /\ wait \in [Callers -> Nat]
  /\ calls \in [Callers -> 0..MaxCalls]
  /\ limited \in 0..MaxLimited
  /\ age \in 0..MaxAge /\ sent \in Nat

(* In no interval, wherever it begins, do all callers together send more   *)
(* than a full bucket and what comes in meanwhile.                         *)
RateBound == sent * Period <= Full + age

(* No caller leaves WaitBackoff before every wait imposed since the last   *)
(* success has passed: a short wait that one goroutine works out never     *)
(* cuts off a longer one that another has set.                             *)
DemandHonoured ==
  [][\A c \in Callers :
       pc[c] = "backoff" /\ pc'[c] = "limit" => asked = 0]_vars

(* When the exchange stops refusing, each call gets through the window,    *)
(* the bucket and its request, other callers' polling notwithstanding.     *)
EveryCallReturns ==
  \A c \in Callers : pc[c] # "idle" ~> pc[c] = "idle"

(* http_client.go:42 "wait for the backoff window, if there is one": no    *)
(* request goes out while a window is open.                                *)
NoRequestInWindow ==
  [][\A c \in Callers :
       pc[c] = "limit" /\ pc'[c] = "flight" => backoff = 0]_vars
=============================================================================
