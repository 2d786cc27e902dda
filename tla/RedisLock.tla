----------------------------- MODULE RedisLock -----------------------------
(***************************************************************************)
(* The distributed lock of internal/execution/lock.go for one lock key,    *)
(* with time: SETNX with a TTL on one side, a critical section made of     *)
(* exchange calls that are each cut off by a timeout on the other.         *)
(*                                                                         *)
(* The random token of an acquisition is abstracted to the client that     *)
(* drew it: a client is in at most one section of a key at a time, and     *)
(* SETNX never succeeds while the key still holds any token, so two tokens *)
(* of one client are never confused.                                       *)
(***************************************************************************)
EXTENDS Integers

CONSTANTS
  Clients,      \* the processes that run the execution engine
  NoToken,      \* the key is absent
  TTL,          \* the expiration passed to acquireLock
  CallTimeout,  \* the longest an exchange call lasts (10s context timeout)
  MaxCalls,     \* the most exchange calls one critical section makes
  Slack         \* the most time a section spends outside exchange calls

ASSUME LockConstants ==
  /\ NoToken \notin Clients
  /\ TTL \in Nat \ {0}
  /\ CallTimeout \in Nat \ {0}
  /\ MaxCalls \in Nat
  /\ Slack \in Nat

VARIABLES
  token,  \* value of the lock key
  ttl,    \* time left before Redis deletes the key
  pc,     \* "out" of the section, "in" it between two calls, or in a "call"
  calls,  \* exchange calls the client may still make in this section
  due,    \* time left before the current call is cut off
  slack,  \* time the client may still spend between calls
  frozen  \* clients that stand still in their section, for however long

vars == <<token, ttl, pc, calls, due, slack, frozen>>

InSection(c) == pc[c] \in {"in", "call"}
Working(c) == InSection(c) /\ c \notin frozen

Init ==
  /\ token = NoToken
  /\ ttl = 0
  /\ pc = [c \in Clients |-> "out"]
  /\ calls = [c \in Clients |-> 0]
  /\ due = [c \in Clients |-> 0]
  /\ slack = [c \in Clients |-> 0]
  /\ frozen = {}

(* Faulty variants of SETNX: a TTL of half the length, and no TTL at all.  *)
SetHalfTTL(c) == token = NoToken /\ token' = c /\ ttl' = TTL \div 2
SetForever(c) == token = NoToken /\ token' = c /\ ttl' = 0

(* SETNX key token EX ttl: the only write that needs the key to be absent. *)
SetNX(c) ==
  /\ token = NoToken
  /\ token' = c
  /\ ttl' = TTL

(* acquireLock succeeds and the caller enters its section. *)
Acquire(c) ==
  /\ pc[c] = "out"
  /\ SetNX(c)
  /\ pc' = [pc EXCEPT ![c] = "in"]
  /\ calls' = [calls EXCEPT ![c] = MaxCalls]
  /\ slack' = [slack EXCEPT ![c] = Slack]
  /\ UNCHANGED <<due, frozen>>

(* The key is set but the answer is lost: acquireLock returns an error and *)
(* the caller gives up, leaving a token that nobody will release.          *)
AcquireLost(c) ==
  /\ pc[c] = "out"
  /\ SetNX(c)
  /\ UNCHANGED <<pc, calls, due, slack, frozen>>

(* Faulty variant: one call more than the section is reckoned to make. *)
BeginExtraCall(c) ==
  /\ pc[c] = "in"
  /\ pc' = [pc EXCEPT ![c] = "call"]
  /\ calls' = [calls EXCEPT ![c] = @ - 1]
  /\ due' = [due EXCEPT ![c] = CallTimeout]
  /\ UNCHANGED <<token, ttl, slack, frozen>>

BeginCall(c) ==
  /\ pc[c] = "in"
  /\ calls[c] > 0
  /\ pc' = [pc EXCEPT ![c] = "call"]
  /\ calls' = [calls EXCEPT ![c] = @ - 1]
  /\ due' = [due EXCEPT ![c] = CallTimeout]
  /\ UNCHANGED <<token, ttl, slack, frozen>>

EndCall(c) ==
  /\ pc[c] = "call"
  /\ pc' = [pc EXCEPT ![c] = "in"]
  /\ due' = [due EXCEPT ![c] = 0]
  /\ UNCHANGED <<token, ttl, calls, slack, frozen>>

(* Faulty variant: DEL without the comparison. *)
PlainDelete(c) == token' = NoToken /\ ttl' = 0

(* The Lua script of releaseLock: compare with the own token, then DEL. *)
CompareAndDelete(c) ==
  IF token = c THEN token' = NoToken /\ ttl' = 0
               ELSE UNCHANGED <<token, ttl>>

(* The deferred releaseLock, after any number of calls: every early return *)
(* of the callers goes through it.                                         *)
Release(c) ==
  /\ pc[c] = "in"
  /\ pc' = [pc EXCEPT ![c] = "out"]
  /\ CompareAndDelete(c)
  /\ calls' = [calls EXCEPT ![c] = 0]
  /\ slack' = [slack EXCEPT ![c] = 0]
  /\ frozen' = frozen \ {c}
  /\ UNCHANGED due

(* releaseLock fails (Redis error or cancelled context, its error is       *)
(* ignored), or the process dies: the key stays until it expires.          *)
Abandon(c) ==
  /\ InSection(c)
  /\ pc' = [pc EXCEPT ![c] = "out"]
  /\ calls' = [calls EXCEPT ![c] = 0]
  /\ due' = [due EXCEPT ![c] = 0]
  /\ slack' = [slack EXCEPT ![c] = 0]
  /\ frozen' = frozen \ {c}
  /\ UNCHANGED <<token, ttl>>

(* The host, or the runtime, stops the process for a time without bound;   *)
(* the key may expire meanwhile, and the process goes on with its section. *)
Freeze(c) ==
  /\ Working(c)
  /\ frozen' = frozen \cup {c}
  /\ UNCHANGED <<token, ttl, pc, calls, due, slack>>

(* Time passes by one unit: unless its process is frozen, no call outlasts *)
(* its timeout and a section does not spend more than Slack between its    *)
(* calls.  Redis expires the key.                                          *)
Tick ==
  /\ \A c \in Clients \ frozen : /\ pc[c] = "call" => due[c] > 0
                                 /\ pc[c] = "in" => slack[c] > 0
  /\ token # NoToken \/ \E c \in Clients : Working(c)
  /\ due' = [c \in Clients |->
               IF pc[c] = "call" /\ c \notin frozen THEN due[c] - 1 ELSE due[c]]
  /\ slack' = [c \in Clients |->
                 IF pc[c] = "in" /\ c \notin frozen THEN slack[c] - 1 ELSE slack[c]]
  /\ ttl' = IF ttl > 0 THEN ttl - 1 ELSE 0
  /\ token' = IF ttl = 1 THEN NoToken ELSE token
  /\ UNCHANGED <<pc, calls, frozen>>

ClientStep(c) ==
  \/ Acquire(c)
  \/ AcquireLost(c)
  \/ BeginCall(c)
  \/ EndCall(c)
  \/ Release(c)
  \/ Abandon(c)
  \/ Freeze(c)

Next == Tick \/ \E c \in Clients : ClientStep(c)

Spec == Init /\ [][Next]_vars

(* Time never stops, and a caller that entered its section leaves it: the  *)
(* releaseLock is deferred and every call it waits for is cut off.         *)
FairSpec ==
  /\ Spec
  /\ WF_vars(Tick)
  /\ \A c \in Clients : WF_vars(BeginCall(c) \/ EndCall(c) \/ Release(c))

-----------------------------------------------------------------------------

TypeOK ==
  /\ token \in Clients \cup {NoToken}
  /\ ttl \in 0..TTL
  /\ pc \in [Clients -> {"out", "in", "call"}]
  /\ calls \in [Clients -> 0..MaxCalls]
  /\ due \in [Clients -> 0..CallTimeout]
  /\ slack \in [Clients -> 0..Slack]
  /\ frozen \subseteq Clients

(* The budget behind the comment "60s TTL, enough time to complete the     *)
(* operation": the TTL exceeds the longest section.                        *)
SufficientTTL == TTL > MaxCalls * CallTimeout + Slack

(* acquireLock serialises its callers: no two of them are between a        *)
(* successful SETNX and their release at the same time, those left out     *)
(* whose process was stopped.  What a stopped one does when it goes on     *)
(* does not take the lock from under another.                              *)
MutualExclusion ==
  \A c, d \in Clients : Working(c) /\ Working(d) => c = d

(* A caller in its section still owns the key, with more time on it than   *)
(* the rest of the section can take: the lock outlives its holder's work.  *)
LockOutlivesSection ==
  \A c \in Clients : Working(c) =>
    /\ token = c
    /\ ttl > calls[c] * CallTimeout + due[c] + slack[c]

(* The compare-and-delete of releaseLock, also when the lock expired under *)
(* its holder and another client took it: leaving a section never frees a  *)
(* lock that belongs to someone else.                                      *)
NeverFreesAnother ==
  [][\A c \in Clients :
       InSection(c) /\ pc'[c] = "out" /\ token # c => token' = token]_vars

(* What the callers of acquireLock and releaseLock may rely on, time left  *)
(* out: the key is never free while a client that was not stopped works    *)
(* under it, whoever releases late and whatever expires.                   *)
Section == INSTANCE SectionLock
             WITH taken <- token # NoToken,
                  inside <- {c \in Clients : Working(c)}

ImplementsSectionLock == Section!Spec

(* A token nobody will ever release (crash, lost answer, failed release)   *)
(* does not block the key for ever: the TTL frees it.                      *)
LockEventuallyFree == token # NoToken ~> token = NoToken

=============================================================================
