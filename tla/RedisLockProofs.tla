-------------------------- MODULE RedisLockProofs --------------------------
(***************************************************************************)
(* Theorems about RedisLock for every set of clients and every TTL,        *)
(* timeout, number of calls and slack.                                     *)
(***************************************************************************)
EXTENDS RedisLock, TLAPS

(* Taking one call out of the budget of a section frees CallTimeout. *)
LEMMA CallBudget ==
  ASSUME NEW n \in Nat, n > 0
  PROVE  (n - 1) * CallTimeout + CallTimeout = n * CallTimeout
  BY LockConstants

(* What is left of the budget never goes below zero. *)
LEMMA BudgetNonNegative ==
  ASSUME NEW n \in Nat
  PROVE  n * CallTimeout \in Nat
  BY LockConstants

(* Type correctness: the values of the key, its TTL and the budgets of     *)
(* every client stay in range under every step of lock.go and of time.     *)
THEOREM TypeCorrect == Spec => []TypeOK
<1>1. Init => TypeOK
  BY LockConstants DEF Init, TypeOK
<1>2. TypeOK /\ [Next]_vars => TypeOK'
  <2> SUFFICES ASSUME TypeOK, [Next]_vars
               PROVE  TypeOK'
    OBVIOUS
  <2> USE LockConstants DEF TypeOK
  <2>1. CASE Tick
    <3>1. due' \in [Clients -> 0..CallTimeout]
      BY <2>1 DEF Tick
    <3>2. slack' \in [Clients -> 0..Slack]
      BY <2>1 DEF Tick
    <3>3. QED
      BY <2>1, <3>1, <3>2 DEF Tick
  <2>2. ASSUME NEW c \in Clients, Acquire(c)
        PROVE  TypeOK'
    BY <2>2 DEF Acquire, SetNX
  <2>3. ASSUME NEW c \in Clients, AcquireLost(c)
        PROVE  TypeOK'
    BY <2>3 DEF AcquireLost, SetNX
  <2>4. ASSUME NEW c \in Clients, BeginCall(c)
        PROVE  TypeOK'
    BY <2>4 DEF BeginCall
  <2>5. ASSUME NEW c \in Clients, EndCall(c)
        PROVE  TypeOK'
    BY <2>5 DEF EndCall
  <2>6. ASSUME NEW c \in Clients, Release(c)
        PROVE  TypeOK'
    BY <2>6 DEF Release, CompareAndDelete
  <2>7. ASSUME NEW c \in Clients, Abandon(c)
        PROVE  TypeOK'
    BY <2>7 DEF Abandon
  <2>8. ASSUME NEW c \in Clients, Freeze(c)
        PROVE  TypeOK'
    BY <2>8 DEF Freeze, Working
  <2>9. CASE UNCHANGED vars
    BY <2>9 DEF vars
  <2>10. QED
    BY <2>1, <2>2, <2>3, <2>4, <2>5, <2>6, <2>7, <2>8, <2>9 DEF Next, ClientStep
<1>3. QED
  BY <1>1, <1>2, PTL DEF Spec

(* The inductive strengthening: the timer of a call runs only during one. *)
LockIInv ==
  /\ LockOutlivesSection
  /\ \A c \in Clients : pc[c] # "call" => due[c] = 0

(* The budget comparison is inductive when the TTL exceeds the longest     *)
(* section.                                                                *)
LEMMA LockStrengthened ==
  ASSUME SufficientTTL
  PROVE  Spec => []LockIInv
<1>1. Init => LockIInv
  BY DEF Init, LockIInv, LockOutlivesSection, Working, InSection
<1>2. TypeOK /\ LockIInv /\ [Next]_vars => LockIInv'
  <2> SUFFICES ASSUME TypeOK, LockIInv, [Next]_vars, NEW d \in Clients
               PROVE  /\ Working(d)' =>
                           /\ token' = d
                           /\ ttl' > calls'[d] * CallTimeout + due'[d] + slack'[d]
                      /\ pc'[d] # "call" => due'[d] = 0
    BY DEF LockIInv, LockOutlivesSection
  <2> USE LockConstants DEF TypeOK, Working, InSection
  <2>0. calls[d] \in Nat /\ due[d] \in Nat /\ slack[d] \in Nat /\ ttl \in Nat
    OBVIOUS
  <2>a. /\ calls[d] * CallTimeout \in Nat
        /\ calls[d] > 0 =>
             (calls[d] - 1) * CallTimeout + CallTimeout = calls[d] * CallTimeout
        /\ calls[d] > 0 => (calls[d] - 1) * CallTimeout \in Nat
    BY <2>0, BudgetNonNegative, CallBudget
  <2>b. pc[d] # "call" => due[d] = 0
    BY DEF LockIInv
  <2>c. Working(d) =>
          token = d /\ ttl > calls[d] * CallTimeout + due[d] + slack[d]
    BY DEF LockIInv, LockOutlivesSection
  <2>d. token = NoToken => ~Working(d)
    BY <2>c
  <2>1. CASE Tick
    <3>1. /\ calls'[d] = calls[d]
          /\ pc'[d] = pc[d]
          /\ frozen' = frozen
          /\ Working(d) =>
               /\ due'[d] = IF pc[d] = "call" THEN due[d] - 1 ELSE due[d]
               /\ slack'[d] = IF pc[d] = "in" THEN slack[d] - 1 ELSE slack[d]
          /\ pc[d] # "call" => due'[d] = due[d]
          /\ ttl' = IF ttl > 0 THEN ttl - 1 ELSE 0
          /\ token' = IF ttl = 1 THEN NoToken ELSE token
      BY <2>1 DEF Tick
    <3>2. Working(d) => due[d] + slack[d] > 0
      BY <2>1, <2>0 DEF Tick
    <3>3. Working(d) => ttl > 1
      BY <3>2, <2>0, <2>a, <2>c
    <3>4. Working(d) => due'[d] + slack'[d] = due[d] + slack[d] - 1
      BY <3>1, <2>0
    <3>5. Working(d) => due'[d] \in Int /\ slack'[d] \in Int
      BY <3>1, <2>0
    <3>6. Working(d) => ttl' > calls'[d] * CallTimeout + due'[d] + slack'[d]
      BY <3>1, <3>3, <3>4, <3>5, <2>0, <2>a, <2>c
    <3>7. QED
      BY <3>1, <3>3, <3>6, <2>b, <2>c
  <2>2. ASSUME NEW c \in Clients, Acquire(c)
        PROVE  /\ Working(d)' =>
                    /\ token' = d
                    /\ ttl' > calls'[d] * CallTimeout + due'[d] + slack'[d]
               /\ pc'[d] # "call" => due'[d] = 0
    <3>1. CASE d = c
      BY <2>2, <3>1, <2>b DEF Acquire, SetNX, SufficientTTL
    <3>2. CASE d # c
      BY <2>2, <3>2, <2>b, <2>d DEF Acquire, SetNX
    <3>3. QED
      BY <3>1, <3>2
  <2>3. ASSUME NEW c \in Clients, AcquireLost(c)
        PROVE  /\ ~Working(d)'
               /\ pc'[d] # "call" => due'[d] = 0
    BY <2>3, <2>b, <2>d DEF AcquireLost, SetNX
  <2>4. ASSUME NEW c \in Clients, BeginCall(c)
        PROVE  /\ Working(d)' =>
                    /\ token' = d
                    /\ ttl' > calls'[d] * CallTimeout + due'[d] + slack'[d]
               /\ pc'[d] # "call" => due'[d] = 0
    <3>1. CASE d = c
      <4>1. /\ calls'[d] = calls[d] - 1 /\ due'[d] = CallTimeout
            /\ slack'[d] = slack[d] /\ ttl' = ttl /\ token' = token
            /\ pc[d] = "in" /\ pc'[d] = "call" /\ calls[d] > 0
            /\ frozen' = frozen
        BY <2>4, <3>1 DEF BeginCall
      <4>2. QED
        BY <4>1, <2>0, <2>a, <2>b, <2>c
    <3>2. CASE d # c
      BY <2>4, <3>2, <2>b, <2>c DEF BeginCall
    <3>3. QED
      BY <3>1, <3>2
  <2>5. ASSUME NEW c \in Clients, EndCall(c)
        PROVE  /\ Working(d)' =>
                    /\ token' = d
                    /\ ttl' > calls'[d] * CallTimeout + due'[d] + slack'[d]
               /\ pc'[d] # "call" => due'[d] = 0
    <3>1. CASE d = c
      BY <2>5, <3>1, <2>0, <2>a, <2>c DEF EndCall
    <3>2. CASE d # c
      BY <2>5, <3>2, <2>b, <2>c DEF EndCall
    <3>3. QED
      BY <3>1, <3>2
  <2>6. ASSUME NEW c \in Clients, Release(c)
        PROVE  /\ Working(d)' =>
                    /\ token' = d
                    /\ ttl' > calls'[d] * CallTimeout + due'[d] + slack'[d]
               /\ pc'[d] # "call" => due'[d] = 0
    <3>1. CASE d = c
      BY <2>6, <3>1, <2>b DEF Release
    <3>2. CASE d # c
      BY <2>6, <3>2, <2>b, <2>c DEF Release, CompareAndDelete
    <3>3. QED
      BY <3>1, <3>2
  <2>7. ASSUME NEW c \in Clients, Abandon(c)
        PROVE  /\ Working(d)' =>
                    /\ token' = d
                    /\ ttl' > calls'[d] * CallTimeout + due'[d] + slack'[d]
               /\ pc'[d] # "call" => due'[d] = 0
    <3>1. CASE d = c
      BY <2>7, <3>1 DEF Abandon
    <3>2. CASE d # c
      BY <2>7, <3>2, <2>b, <2>c DEF Abandon
    <3>3. QED
      BY <3>1, <3>2
  <2>8. ASSUME NEW c \in Clients, Freeze(c)
        PROVE  /\ Working(d)' =>
                    /\ token' = d
                    /\ ttl' > calls'[d] * CallTimeout + due'[d] + slack'[d]
               /\ pc'[d] # "call" => due'[d] = 0
    BY <2>8, <2>b, <2>c DEF Freeze
  <2>9. CASE UNCHANGED vars
    BY <2>9, <2>b, <2>c DEF vars
  <2>10. QED
    BY <2>1, <2>2, <2>3, <2>4, <2>5, <2>6, <2>7, <2>8, <2>9 DEF Next, ClientStep
<1>3. QED
  BY <1>1, <1>2, TypeCorrect, PTL DEF Spec

(* If the TTL exceeds the longest section, the lock outlives every section *)
(* that runs under it, whatever crashes and lost answers do.               *)
THEOREM LockOutlives ==
  ASSUME SufficientTTL
  PROVE  Spec => []LockOutlivesSection
<1>1. LockIInv => LockOutlivesSection
  BY DEF LockIInv
<1>2. QED
  BY <1>1, LockStrengthened, PTL

(* Under the same budget acquireLock serialises its callers: two clients   *)
(* in the section would both own the key.                                  *)
THEOREM Exclusion ==
  ASSUME SufficientTTL
  PROVE  Spec => []MutualExclusion
<1>1. LockOutlivesSection => MutualExclusion
  BY DEF LockOutlivesSection, MutualExclusion
<1>2. QED
  BY <1>1, LockOutlives, PTL

(* Without any assumption on the budget: leaving a section never frees a   *)
(* lock that another client took after the own one expired.                *)
THEOREM ReleaseIsOwn == Spec => NeverFreesAnother
<1>1. TypeOK /\ [Next]_vars =>
        [\A c \in Clients : InSection(c) /\ pc'[c] = "out" /\ token # c
                              => token' = token]_vars
  <2> SUFFICES ASSUME TypeOK, Next, NEW c \in Clients,
                      InSection(c), pc'[c] = "out", token # c
               PROVE  token' = token
    OBVIOUS
  <2> USE DEF TypeOK, InSection
  <2>1. CASE Tick
    BY <2>1 DEF Tick
  <2>2. ASSUME NEW d \in Clients, ClientStep(d)
        PROVE  token' = token
    <3>1. CASE d = c
      BY <2>2, <3>1 DEF ClientStep, Acquire, AcquireLost, SetNX, BeginCall,
                        EndCall, Release, CompareAndDelete, Abandon, Freeze
    <3>2. CASE d # c
      BY <2>2, <3>2 DEF ClientStep, Acquire, AcquireLost, SetNX, BeginCall,
                        EndCall, Release, CompareAndDelete, Abandon, Freeze
    <3>3. QED
      BY <3>1, <3>2
  <2>3. QED
    BY <2>1, <2>2 DEF Next
<1>2. QED
  BY <1>1, TypeCorrect, PTL DEF Spec, NeverFreesAnother

(* A process stands still only inside a section. *)
FrozenInside == \A c \in frozen : InSection(c)

LEMMA FreezingInside == Spec => []FrozenInside
<1>1. Init => FrozenInside
  BY DEF Init, FrozenInside
<1>2. TypeOK /\ FrozenInside /\ [Next]_vars => FrozenInside'
  <2> SUFFICES ASSUME TypeOK, FrozenInside, [Next]_vars, NEW d \in frozen'
               PROVE  InSection(d)'
    BY DEF FrozenInside
  <2> USE DEF TypeOK, FrozenInside, InSection
  <2>1. CASE Tick
    BY <2>1 DEF Tick
  <2>2. ASSUME NEW c \in Clients, ClientStep(c)
        PROVE  InSection(d)'
    BY <2>2 DEF ClientStep, Acquire, AcquireLost, BeginCall, EndCall, Release,
                Abandon, Freeze, Working
  <2>3. CASE UNCHANGED vars
    BY <2>3 DEF vars
  <2>4. QED
    BY <2>1, <2>2, <2>3 DEF Next
<1>3. QED
  BY <1>1, <1>2, TypeCorrect, PTL DEF Spec

(* A section that time passes in has more than one unit left on its key.   *)
LEMMA TimeLeft ==
  ASSUME TypeOK, LockIInv, Tick, NEW d \in Clients, Working(d)
  PROVE  ttl > 1
<1> USE LockConstants DEF TypeOK, Working, InSection
<1>1. calls[d] \in Nat /\ due[d] \in Nat /\ slack[d] \in Nat /\ ttl \in Nat
  OBVIOUS
<1>2. calls[d] * CallTimeout \in Nat
  BY <1>1, BudgetNonNegative
<1>3. ttl > calls[d] * CallTimeout + due[d] + slack[d]
  BY DEF LockIInv, LockOutlivesSection
<1>4. due[d] + slack[d] > 0
  BY <1>1 DEF Tick
<1>5. QED
  BY <1>1, <1>2, <1>3, <1>4

(* The lock with its tokens and its clock implements SectionLock under the *)
(* same budget.  Only three kinds of steps move the abstract lock: SETNX,  *)
(* the end of a section, and the end of a key that nobody works under.     *)
THEOREM Implementation ==
  ASSUME SufficientTTL
  PROVE  Spec => ImplementsSectionLock
<1> DEFINE Taken == token # NoToken
           Inside == {c \in Clients : Working(c)}
<1>1. Init => Section!Init
  BY DEF Init, Section!Init, Working, InSection
<1>2. TypeOK /\ LockIInv /\ FrozenInside /\ [Next]_vars
        => [Section!Next]_(Section!lockVars)
  <2> SUFFICES ASSUME TypeOK, LockIInv, FrozenInside, [Next]_vars
               PROVE  Section!Next \/ UNCHANGED <<Taken, Inside>>
    BY DEF Section!lockVars
  <2> USE LockConstants
  <2>a. \A c \in Clients : Working(c) => token = c
    BY DEF LockIInv, LockOutlivesSection
  <2>1. CASE Tick
    <3>1. UNCHANGED Inside
      BY <2>1 DEF Tick, Working, InSection
    <3>2. CASE ttl = 1
      <4>1. Inside = {}
        BY <2>1, <3>2, TimeLeft
      <4>2. Taken' = FALSE
        BY <2>1, <3>2 DEF Tick
      <4>3. CASE Taken
        BY <3>1, <4>1, <4>2, <4>3 DEF Section!Next, Section!Expire
      <4>4. CASE ~Taken
        BY <3>1, <4>2, <4>4
      <4>5. QED
        BY <4>3, <4>4
    <3>3. CASE ttl # 1
      BY <2>1, <3>1, <3>3 DEF Tick
    <3>4. QED
      BY <3>2, <3>3
  <2>2. ASSUME NEW c \in Clients, Acquire(c)
        PROVE  Section!Enter(c)
    <3>1. ~Taken /\ Taken'
      BY <2>2 DEF Acquire, SetNX
    <3>2. c \notin frozen
      BY <2>2 DEF Acquire, FrozenInside, InSection
    <3>3. Inside' = Inside \cup {c}
      BY <2>2, <3>2 DEF Acquire, Working, InSection, TypeOK
    <3>4. QED
      BY <3>1, <3>3 DEF Section!Enter
  <2>3. ASSUME NEW c \in Clients, AcquireLost(c)
        PROVE  Section!Strand
    <3>1. ~Taken /\ Taken'
      BY <2>3 DEF AcquireLost, SetNX
    <3>2. UNCHANGED Inside
      BY <2>3 DEF AcquireLost, Working, InSection
    <3>3. QED
      BY <3>1, <3>2 DEF Section!Strand
  <2>4. ASSUME NEW c \in Clients, BeginCall(c) \/ EndCall(c)
        PROVE  UNCHANGED <<Taken, Inside>>
    <3>1. UNCHANGED token
      BY <2>4 DEF BeginCall, EndCall
    <3>2. UNCHANGED Inside
      BY <2>4 DEF BeginCall, EndCall, Working, InSection, TypeOK
    <3>3. QED
      BY <3>1, <3>2
  <2>5. ASSUME NEW c \in Clients, Release(c) \/ Abandon(c) \/ Freeze(c)
        PROVE  Section!Next \/ UNCHANGED <<Taken, Inside>>
    <3>1. Inside' = Inside \ {c}
      BY <2>5 DEF Release, Abandon, Freeze, Working, InSection, TypeOK
    <3>2. CASE c \in Inside
      <4>1. Taken' \in BOOLEAN
        OBVIOUS
      <4>2. Section!Leave(c)
        BY <3>1, <3>2, <4>1 DEF Section!Leave
      <4>3. QED
        BY <4>2 DEF Section!Next
    <3>3. CASE c \notin Inside
      <4>1. UNCHANGED Inside
        BY <3>1, <3>3
      <4>2. CASE UNCHANGED token
        BY <4>1, <4>2
      <4>3. CASE token' # token
        <5>1. token = c /\ token' = NoToken
          BY <2>5, <4>3 DEF Release, CompareAndDelete, Abandon, Freeze
        <5>2. Inside = {}
          BY <2>a, <3>3, <5>1
        <5>3. Taken /\ Taken' = FALSE
          BY <5>1
        <5>4. QED
          BY <4>1, <5>2, <5>3 DEF Section!Next, Section!Expire
      <4>4. QED
        BY <4>2, <4>3
    <3>4. QED
      BY <3>2, <3>3
  <2>6. CASE UNCHANGED vars
    BY <2>6 DEF vars, Working, InSection
  <2>7. QED
    BY <2>1, <2>2, <2>3, <2>4, <2>5, <2>6 DEF Next, ClientStep, Section!Next
<1>3. Spec => []LockIInv
  BY LockStrengthened
<1>4. QED
  BY <1>1, <1>2, <1>3, TypeCorrect, FreezingInside, PTL
     DEF Spec, ImplementsSectionLock, Section!Spec

(* What SectionLock promises is enough for exclusion: every lock that      *)
(* implements it, whatever its tokens and timers, serialises its callers.  *)
THEOREM PromiseExcludes == ImplementsSectionLock => []MutualExclusion
<1> DEFINE Taken == token # NoToken
           Inside == {c \in Clients : Working(c)}
           Alone == (Inside # {} => Taken) /\ \A c, d \in Inside : c = d
<1>1. Section!Init => Alone
  BY DEF Section!Init
<1>2. Alone /\ [Section!Next]_(Section!lockVars) => Alone'
  <2> SUFFICES ASSUME Alone, Section!Next \/ UNCHANGED <<Taken, Inside>>
               PROVE  Alone'
    BY DEF Section!lockVars
  <2> HIDE DEF Inside
  <2>1. ASSUME NEW c \in Clients, Section!Enter(c)
        PROVE  Alone'
    <3>1. Inside = {} /\ Taken' /\ Inside' = {c}
      BY <2>1 DEF Section!Enter, Inside
    <3>2. QED
      BY <3>1
  <2>2. ASSUME NEW c \in Clients, Section!Leave(c)
        PROVE  Alone'
    <3>1. c \in Inside /\ Inside' = Inside \ {c}
      BY <2>2 DEF Section!Leave, Inside
    <3>2. Inside' = {}
      BY <3>1
    <3>3. QED
      BY <3>2
  <2>3. CASE Section!Strand
    BY <2>3 DEF Section!Strand, Inside
  <2>4. CASE Section!Expire
    BY <2>4 DEF Section!Expire, Inside
  <2>5. CASE UNCHANGED <<Taken, Inside>>
    BY <2>5
  <2>6. QED
    BY <2>1, <2>2, <2>3, <2>4, <2>5 DEF Section!Next
<1>3. Alone => MutualExclusion
  BY DEF MutualExclusion
<1>4. QED
  BY <1>1, <1>2, <1>3, PTL DEF ImplementsSectionLock, Section!Spec

=============================================================================
