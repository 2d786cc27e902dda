-------------------------- MODULE TradeQueueProofs --------------------------
(***************************************************************************)
(* Theorems about TradeQueue for any number of workers, symbols and bots,  *)
(* any queue size and any number of retries.                               *)
(***************************************************************************)
EXTENDS TradeQueue, SequenceTheorems, FiniteSetTheorems, TLAPS

(* What LTRIM leaves: the newest elements, in their order. *)
LEMMA NewestProperties ==
  ASSUME NEW S, NEW s \in Seq(S), NEW n \in Nat
  PROVE  /\ Newest(s, n) \in Seq(S)
         /\ Len(Newest(s, n)) = IF Len(s) > n THEN n ELSE Len(s)
         /\ \A i \in 1..Len(Newest(s, n)) :
              /\ i + Len(s) - Len(Newest(s, n)) \in 1..Len(s)
              /\ Newest(s, n)[i] = s[i + Len(s) - Len(Newest(s, n))]
<1>0. Len(s) \in Nat /\ \A i \in 1..Len(s) : s[i] \in S
  BY LenProperties
<1>1. CASE Len(s) > n
  <2> DEFINE m == Len(s) - n + 1
  <2>1. m \in Int /\ m >= 1 /\ \A i \in m..Len(s) : s[i] \in S
    BY <1>0, <1>1
  <2>2. /\ SubSeq(s, m, Len(s)) \in Seq(S)
        /\ Len(SubSeq(s, m, Len(s))) = IF m <= Len(s) THEN Len(s) - m + 1 ELSE 0
        /\ \A i \in 1..Len(s) - m + 1 : SubSeq(s, m, Len(s))[i] = s[m + i - 1]
    BY <1>0, <2>1, SubSeqProperties
  <2>3. Newest(s, n) = SubSeq(s, m, Len(s))
    BY <1>1 DEF Newest
  <2> HIDE DEF m
  <2>4. m = Len(s) - n + 1
    BY DEF m
  <2>5. Len(Newest(s, n)) = n
    BY <1>0, <1>1, <2>2, <2>3, <2>4
  <2>6. ASSUME NEW i \in 1..n
        PROVE  /\ i + Len(s) - n \in 1..Len(s)
               /\ Newest(s, n)[i] = s[i + Len(s) - n]
    BY <1>0, <1>1, <2>2, <2>3, <2>4
  <2>7. QED
    BY <1>1, <2>2, <2>3, <2>5, <2>6
<1>2. CASE ~(Len(s) > n)
  BY <1>0, <1>2 DEF Newest
<1>3. QED
  BY <1>1, <1>2

(* A worker has a signal in hand from its decision until its LPUSH on      *)
(* trade_queue is over.                                                    *)
Hands ==
  \A w \in Workers :
    job[w] # None <=> wpc[w] \in {"push_history", "trim_history", "push_queue"}

(* Type correctness of the lists, the round and every worker and bot. *)
THEOREM TypeCorrect == Spec => [](TypeOK /\ Hands)
<1>1. Init => TypeOK /\ Hands
  BY QueueConstants DEF Init, TypeOK, Hands
<1>2. TypeOK /\ Hands /\ [Next]_vars => TypeOK' /\ Hands'
  <2> SUFFICES ASSUME TypeOK, Hands, [Next]_vars
               PROVE  TypeOK' /\ Hands'
    OBVIOUS
  <2> USE QueueConstants DEF Fault, Answered, Unanswered
  <2>1. CASE NextRound
    BY <2>1 DEF NextRound, TypeOK, Hands
  <2>2. ASSUME NEW w \in Workers, Decide(w)
        PROVE  TypeOK' /\ Hands'
    <3>1. PICK s \in todo :
            /\ made[s] < Limit
            /\ todo' = todo \ {s}
            /\ made' = [made EXCEPT ![s] = @ + 1]
            /\ job' = [job EXCEPT ![w] = [symbol |-> s, n |-> made[s] + 1, try |-> 0]]
      BY <2>2 DEF Decide
    <3>2. s \in Symbols /\ made[s] \in 0..Limit /\ made[s] + 1 \in 1..Limit
      BY <3>1 DEF TypeOK
    <3>3. [symbol |-> s, n |-> made[s] + 1, try |-> 0] \in Message
      BY <3>2 DEF Message
    <3>4. TypeOK'
      BY <2>2, <3>1, <3>2, <3>3 DEF Decide, TypeOK
    <3>5. [symbol |-> s, n |-> made[s] + 1, try |-> 0] # None
      BY <3>3
    <3>6. Hands'
      BY <2>2, <3>1, <3>5 DEF Decide, TypeOK, Hands
    <3>7. QED
      BY <3>4, <3>6
  <2>3. ASSUME NEW w \in Workers, PushHistory(w) \/ TrimHistory(w)
        PROVE  TypeOK' /\ Hands'
    BY <2>3 DEF PushHistory, TrimHistory, Trimmed, TypeOK, Hands
  <2>4. ASSUME NEW w \in Workers, PushQueue(w)
        PROVE  TypeOK' /\ Hands'
    <3>1. wpc[w] = "push_queue" /\ job[w] \in Message /\ job[w] # None
      BY <2>4 DEF PushQueue, TypeOK, Hands
    <3>2. queue' \in Seq(Message)
      <4>1. Append(queue, job[w]) \in Seq(Message)
        BY <3>1, AppendProperties DEF TypeOK
      <4>2. QED
        BY <2>4, <4>1 DEF PushQueue, TypeOK
    <3>3. faults' \in 0..MaxFaults
      BY <2>4 DEF PushQueue, TypeOK
    <3>4. CASE LetGo(w)
      BY <2>4, <3>1, <3>2, <3>3, <3>4 DEF PushQueue, LetGo, TypeOK, Hands
    <3>5. CASE Resend(w)
      <4> DEFINE next == [job[w] EXCEPT !.try = @ + 1]
      <4>1. next \in Message
        BY <3>1, <3>5 DEF Resend, Message
      <4>2. next # None
        BY <4>1
      <4>3. job' = [job EXCEPT ![w] = next] /\ wpc' = wpc
        BY <3>5 DEF Resend
      <4> HIDE DEF next
      <4>4. QED
        BY <2>4, <3>1, <3>2, <3>3, <4>1, <4>2, <4>3 DEF PushQueue, TypeOK, Hands
    <3>6. QED
      BY <2>4, <3>4, <3>5 DEF PushQueue
  <2>5. ASSUME NEW w \in Workers, TrimQueue(w)
        PROVE  TypeOK' /\ Hands'
    <3>1. queue' \in Seq(Message)
      BY <2>5, NewestProperties DEF TrimQueue, TypeOK
    <3>2. faults' \in 0..MaxFaults
      BY <2>5 DEF TrimQueue, TypeOK
    <3>3. /\ wpc' \in [Workers -> {"decide", "push_history", "trim_history",
                                  "push_queue", "trim_queue"}]
          /\ Hands'
      BY <2>5 DEF TrimQueue, TypeOK, Hands
    <3>4. UNCHANGED <<todo, made, job, history, bpc, received>>
      BY <2>5 DEF TrimQueue
    <3>5. QED
      BY <3>1, <3>2, <3>3, <3>4 DEF TypeOK
  <2>6. ASSUME NEW b \in Bots, Pop(b) \/ PopLost(b)
        PROVE  TypeOK' /\ Hands'
    <3>1. /\ Tail(queue) \in Seq(Message)
          /\ Append(received, Head(queue)) \in Seq(Message)
      BY <2>6, HeadTailProperties, AppendProperties DEF Pop, PopLost, TypeOK
    <3>2. CASE Pop(b)
      BY <3>1, <3>2 DEF Pop, TypeOK, Hands
    <3>3. CASE PopLost(b)
      <4>1. faults' \in 0..MaxFaults
        BY <3>3 DEF PopLost, TypeOK
      <4>2. queue' \in Seq(Message) /\ UNCHANGED <<todo, made, job, history, wpc, bpc, received>>
        BY <3>1, <3>3 DEF PopLost
      <4>3. QED
        BY <4>1, <4>2 DEF TypeOK, Hands
    <3>4. QED
      BY <2>6, <3>2, <3>3
  <2>7. ASSUME NEW b \in Bots, Finish(b)
        PROVE  TypeOK' /\ Hands'
    BY <2>7 DEF Finish, TypeOK, Hands
  <2>8. ASSUME NEW w \in Workers, WorkerDies(w)
        PROVE  TypeOK' /\ Hands'
    BY <2>8 DEF WorkerDies, TypeOK, Hands
  <2>9. CASE UNCHANGED vars
    BY <2>9 DEF vars, TypeOK, Hands
  <2>10. QED
    BY <2>1, <2>2, <2>3, <2>4, <2>5, <2>6, <2>7, <2>8, <2>9
       DEF Next, WorkerStep, BotStep
<1>3. QED
  BY <1>1, <1>2, PTL DEF Spec

(* A list that a later signal is appended to stays in order. *)
LEMMA AppendOrdered ==
  ASSUME NEW s \in Seq(Message), NEW m \in Message, Ordered(s),
         \A x \in Range(s) : Earlier(x, m)
  PROVE  Ordered(Append(s, m)) /\ Range(Append(s, m)) = Range(s) \cup {m}
<1>1. /\ Len(s) \in Nat /\ DOMAIN s = 1..Len(s)
      /\ DOMAIN Append(s, m) = 1..(Len(s) + 1)
      /\ \A i \in 1..Len(s) : Append(s, m)[i] = s[i]
      /\ Append(s, m)[Len(s) + 1] = m
  BY AppendProperties, LenProperties
<1>2. Range(Append(s, m)) = Range(s) \cup {m}
  BY <1>1 DEF Range
<1>3. ASSUME NEW i \in DOMAIN Append(s, m), NEW j \in DOMAIN Append(s, m), i < j
      PROVE  Earlier(Append(s, m)[i], Append(s, m)[j])
  <2>1. i \in DOMAIN s /\ Append(s, m)[i] = s[i]
    BY <1>1, <1>3
  <2>2. CASE j \in DOMAIN s
    BY <1>1, <1>3, <2>1, <2>2 DEF Ordered
  <2>3. CASE j = Len(s) + 1
    BY <1>1, <2>1, <2>3 DEF Range
  <2>4. QED
    BY <1>1, <2>2, <2>3
<1>4. QED
  BY <1>2, <1>3 DEF Ordered

(* LTRIM keeps the order and adds nothing. *)
LEMMA NewestOrdered ==
  ASSUME NEW s \in Seq(Message), NEW n \in Nat, Ordered(s)
  PROVE  Ordered(Newest(s, n)) /\ Range(Newest(s, n)) \subseteq Range(s)
<1> DEFINE t == Newest(s, n)
           k == Len(s) - Len(t)
<1>1. /\ t \in Seq(Message)
      /\ \A i \in 1..Len(t) : i + Len(s) - Len(t) \in 1..Len(s) /\ t[i] = s[i + Len(s) - Len(t)]
  BY NewestProperties
<1>2. /\ Len(s) \in Nat /\ Len(t) \in Nat
      /\ DOMAIN s = 1..Len(s) /\ DOMAIN t = 1..Len(t)
  BY <1>1, LenProperties
<1> HIDE DEF t
<1>3. k \in Int /\ \A i \in DOMAIN t : i + k \in DOMAIN s /\ t[i] = s[i + k]
  <2>1. \A i \in DOMAIN t : i + Len(s) - Len(t) = i + k
    BY <1>2
  <2>2. QED
    BY <1>1, <1>2, <2>1
<1> HIDE DEF k
<1>4. ASSUME NEW i \in DOMAIN t, NEW j \in DOMAIN t, i < j
      PROVE  Earlier(t[i], t[j])
  <2>1. i + k < j + k
    BY <1>2, <1>3, <1>4
  <2>2. QED
    BY <1>3, <2>1 DEF Ordered
<1>5. Range(t) \subseteq Range(s)
  BY <1>3 DEF Range
<1>6. QED
  BY <1>4, <1>5 DEF Ordered, t

(* BRPOP takes the earliest signal and leaves the others in order. *)
LEMMA TailOrdered ==
  ASSUME NEW s \in Seq(Message), s # <<>>, Ordered(s)
  PROVE  /\ Head(s) \in Range(s) /\ Head(s) \in Message
         /\ Ordered(Tail(s)) /\ Range(Tail(s)) \subseteq Range(s)
         /\ \A x \in Range(Tail(s)) : Earlier(Head(s), x)
<1>1. /\ Len(s) \in Nat \ {0} /\ DOMAIN s = 1..Len(s)
      /\ Tail(s) \in Seq(Message)
      /\ DOMAIN Tail(s) = 1..(Len(s) - 1)
      /\ \A i \in 1..(Len(s) - 1) : Tail(s)[i] = s[i + 1]
      /\ Head(s) = s[1] /\ Head(s) \in Message
  BY EmptySeq, LenProperties, HeadTailProperties
<1>2. \A i \in DOMAIN Tail(s) : i + 1 \in DOMAIN s /\ 1 < i + 1 /\ Tail(s)[i] = s[i + 1]
  BY <1>1
<1>3. 1 \in DOMAIN s
  BY <1>1
<1>4. ASSUME NEW i \in DOMAIN Tail(s), NEW j \in DOMAIN Tail(s), i < j
      PROVE  Earlier(Tail(s)[i], Tail(s)[j])
  <2>1. i + 1 < j + 1
    BY <1>1, <1>4
  <2>2. QED
    BY <1>2, <2>1 DEF Ordered
<1>5. QED
  BY <1>1, <1>2, <1>3, <1>4 DEF Ordered, Range

(* The signals in hand: each is the latest of its symbol, whose turn in    *)
(* the round is over, and no two workers have the same symbol.             *)
HandsApart ==
  /\ \A w \in Workers : job[w] # None =>
       /\ job[w].symbol \notin todo
       /\ job[w].n = made[job[w].symbol]
       /\ job[w].try <= faults
  /\ \A v, w \in Workers :
       v # w /\ job[v] # None /\ job[w] # None => job[v].symbol # job[w].symbol

(* A signal that was pushed is no later than the latest of its symbol and  *)
(* earlier than whatever a worker has yet to push.                         *)
Pushed(x) ==
  /\ x.n <= made[x.symbol]
  /\ x.try <= faults
  /\ \A w \in Workers : job[w] # None => Earlier(x, job[w])

OrderInv ==
  /\ HandsApart
  /\ \A x \in Range(received) \cup Range(queue) : Pushed(x)
  /\ InOrder

(* Only a decision takes a symbol in hand, and no worker has it then. *)
LEMMA DecideKeeps ==
  ASSUME TypeOK, Hands, OrderInv, NEW w \in Workers, Decide(w)
  PROVE  OrderInv'
<1>1. PICK s \in todo :
        /\ made[s] < Limit
        /\ todo' = todo \ {s}
        /\ made' = [made EXCEPT ![s] = @ + 1]
        /\ job' = [job EXCEPT ![w] = [symbol |-> s, n |-> made[s] + 1, try |-> 0]]
  BY DEF Decide
<1> DEFINE m == [symbol |-> s, n |-> made[s] + 1, try |-> 0]
<1>2. /\ s \in Symbols /\ made[s] \in Nat /\ faults \in Nat
      /\ \A t \in Symbols : made[t] \in Nat /\ made'[t] \in Nat /\ made[t] <= made'[t]
      /\ made'[s] = made[s] + 1
      /\ \A t \in Symbols \ {s} : made'[t] = made[t]
  BY <1>1, QueueConstants DEF TypeOK
<1>3. /\ m.symbol = s /\ m.n = made[s] + 1 /\ m.try = 0
      /\ job'[w] = m /\ \A v \in Workers \ {w} : job'[v] = job[v]
      /\ UNCHANGED <<queue, received, faults>>
  BY <1>1 DEF Decide, TypeOK
<1> HIDE DEF m
<1>4. \A v \in Workers : job[v] # None => job[v] \in Message /\ job[v].symbol # s
  BY <1>1 DEF OrderInv, HandsApart, TypeOK
<1>5. \A v \in Workers : job[v] # None => job[v].symbol \in Symbols
  BY <1>4 DEF Message
<1>6. HandsApart'
  <2>1. ASSUME NEW v \in Workers, job'[v] # None
        PROVE  /\ job'[v].symbol \notin todo'
               /\ job'[v].n = made'[job'[v].symbol]
               /\ job'[v].try <= faults'
    <3>1. CASE v = w
      BY <1>1, <1>2, <1>3, <3>1
    <3>2. CASE v # w
      BY <1>1, <1>2, <1>3, <1>4, <1>5, <2>1, <3>2 DEF OrderInv, HandsApart
    <3>3. QED
      BY <3>1, <3>2
  <2>2. ASSUME NEW u \in Workers, NEW v \in Workers, u # v, job'[u] # None, job'[v] # None
        PROVE  job'[u].symbol # job'[v].symbol
    BY <1>3, <1>4, <2>2 DEF OrderInv, HandsApart
  <2>3. QED
    BY <2>1, <2>2 DEF HandsApart
<1>7. ASSUME NEW x \in Message, Pushed(x)
      PROVE  Pushed(x)'
  <2>1. x.symbol \in Symbols /\ x.n \in Nat /\ x.try \in Nat
    BY QueueConstants DEF Message
  <2>2. x.n <= made'[x.symbol]
    BY <1>2, <1>7, <2>1 DEF Pushed
  <2>3. Earlier(x, m)
    BY <1>2, <1>3, <1>7, <2>1 DEF Pushed, Earlier
  <2>4. ASSUME NEW v \in Workers, job'[v] # None
        PROVE  Earlier(x, job'[v])
    BY <1>3, <1>7, <2>3, <2>4 DEF Pushed
  <2>5. QED
    BY <1>3, <1>7, <2>2, <2>4 DEF Pushed, Earlier
<1>8. Range(received) \cup Range(queue) \subseteq Message
  BY LenProperties DEF Range, TypeOK
<1>9. \A x \in Range(received') \cup Range(queue') : Pushed(x)'
  BY <1>3, <1>7, <1>8 DEF OrderInv
<1>10. InOrder'
  BY <1>3 DEF OrderInv, InOrder
<1>11. QED
  BY <1>6, <1>9, <1>10 DEF OrderInv

(* Whatever becomes of an LPUSH, it pushes what is later than everything   *)
(* pushed before, and what is then in hand is later still.                 *)
LEMMA PushKeeps ==
  ASSUME TypeOK, Hands, OrderInv, NEW w \in Workers, PushQueue(w)
  PROVE  OrderInv'
<1>0. job[w] \in Message
  BY DEF PushQueue, TypeOK, Hands
<1>1. PICK m \in Message : m = job[w] /\ m # None
  BY <1>0, QueueConstants
<1>2. m.symbol \in Symbols /\ m.n \in Nat /\ m.try \in Nat /\ faults \in Nat
  BY <1>1, QueueConstants DEF Message, TypeOK
<1>3. /\ UNCHANGED <<todo, made, received>>
      /\ queue' = Append(queue, m) \/ queue' = queue
      /\ faults' \in Nat /\ faults <= faults'
      /\ \A v \in Workers \ {w} : job'[v] = job[v]
      /\ \/ job'[w] = None
         \/ /\ job'[w] = [m EXCEPT !.try = @ + 1]
            /\ faults' = faults + 1
  BY <1>1, <1>2 DEF PushQueue, LetGo, Resend, Fault, TypeOK
<1>4. ASSUME job'[w] # None
      PROVE  /\ job'[w].symbol = m.symbol /\ job'[w].n = m.n
             /\ job'[w].try = m.try + 1 /\ faults' = faults + 1
  BY <1>1, <1>3, <1>4 DEF Message
<1>5. /\ m.symbol \notin todo /\ m.n = made[m.symbol] /\ m.try <= faults
      /\ \A v \in Workers \ {w} : job[v] # None => job[v].symbol # m.symbol
  BY <1>1 DEF OrderInv, HandsApart
<1>6. \A v \in Workers : job[v] # None => job[v].try \in Nat
  BY QueueConstants DEF TypeOK, Message
<1>7. HandsApart'
  <2>1. ASSUME NEW v \in Workers, job'[v] # None
        PROVE  /\ job'[v].symbol \notin todo'
               /\ job'[v].n = made'[job'[v].symbol]
               /\ job'[v].try <= faults'
    <3>1. CASE v = w
      BY <1>2, <1>3, <1>4, <1>5, <2>1, <3>1
    <3>2. CASE v # w
      BY <1>2, <1>3, <1>6, <2>1, <3>2 DEF OrderInv, HandsApart
    <3>3. QED
      BY <3>1, <3>2
  <2>2. ASSUME NEW u \in Workers, NEW v \in Workers, u # v, job'[u] # None, job'[v] # None
        PROVE  job'[u].symbol # job'[v].symbol
    BY <1>3, <1>4, <1>5, <2>2 DEF OrderInv, HandsApart
  <2>3. QED
    BY <2>1, <2>2 DEF HandsApart
<1>8. ASSUME NEW x \in Message, Pushed(x)
      PROVE  Pushed(x)' /\ Earlier(x, m)
  <2>1. x.symbol \in Symbols /\ x.n \in Nat /\ x.try \in Nat
    BY QueueConstants DEF Message
  <2>2. Earlier(x, m)
    BY <1>1, <1>8 DEF Pushed
  <2>3. ASSUME NEW v \in Workers, job'[v] # None
        PROVE  Earlier(x, job'[v])
    <3>1. CASE v = w
      BY <1>2, <1>4, <2>1, <2>2, <2>3, <3>1 DEF Earlier
    <3>2. CASE v # w
      BY <1>3, <1>8, <2>3, <3>2 DEF Pushed
    <3>3. QED
      BY <3>1, <3>2
  <2>4. x.n <= made'[x.symbol] /\ x.try <= faults'
    BY <1>2, <1>3, <1>8, <2>1 DEF Pushed
  <2>5. QED
    BY <2>2, <2>3, <2>4 DEF Pushed, Earlier
<1>9. Pushed(m)'
  <2>1. ASSUME NEW v \in Workers, job'[v] # None
        PROVE  Earlier(m, job'[v])
    BY <1>2, <1>3, <1>4, <1>5, <2>1 DEF Earlier
  <2>2. m.n <= made'[m.symbol] /\ m.try <= faults'
    BY <1>2, <1>3, <1>5
  <2>3. m.n <= (made')[m.symbol] /\ \A v \in Workers : job'[v] # None => Earlier(m, job'[v])
    BY <2>1, <2>2
  <2>4. QED
    BY <2>2, <2>3 DEF Pushed, Earlier
<1>10. Range(received) \cup Range(queue) \subseteq Message
  BY LenProperties DEF Range, TypeOK
<1>11. \A x \in Range(received) \cup Range(queue) : Pushed(x)' /\ Earlier(x, m)
  BY <1>8, <1>10 DEF OrderInv
<1>12. CASE queue' = queue
  BY <1>3, <1>7, <1>11, <1>12 DEF OrderInv, InOrder
<1>13. CASE queue' = Append(queue, m)
  <2>1. Ordered(queue') /\ Range(queue') = Range(queue) \cup {m}
    BY <1>1, <1>11, <1>13, AppendOrdered DEF OrderInv, InOrder, TypeOK
  <2>2. InOrder'
    BY <1>3, <1>11, <2>1 DEF OrderInv, InOrder
  <2>3. \A x \in Range(received') \cup Range(queue') : Pushed(x)'
    BY <1>3, <1>9, <1>11, <2>1
  <2>4. QED
    BY <1>7, <2>2, <2>3 DEF OrderInv
<1>14. QED
  BY <1>3, <1>12, <1>13

(* A step that pushes nothing and decides nothing, and keeps what it       *)
(* leaves of the lists in order, keeps the rest.                           *)
LEMMA QuietKeeps ==
  ASSUME TypeOK, OrderInv, UNCHANGED made,
         faults' \in {faults, faults + 1},
         \A w \in Workers : job'[w] \in {job[w], None},
         \/ todo' = todo
         \/ \A w \in Workers : job'[w] = None,
         Range(received') \cup Range(queue') \subseteq Range(received) \cup Range(queue),
         InOrder'
  PROVE  OrderInv'
<1>1. faults \in Nat /\ faults' \in Nat /\ faults <= faults'
  BY QueueConstants DEF TypeOK
<1>2. Range(received) \cup Range(queue) \subseteq Message
  BY LenProperties DEF Range, TypeOK
<1>3. HandsApart'
  <2>1. ASSUME NEW w \in Workers, job'[w] # None
        PROVE  job[w] # None /\ job'[w] = job[w] /\ job[w].try \in Nat /\ todo' = todo
    BY <2>1, QueueConstants DEF TypeOK, Message
  <2>2. QED
    BY <1>1, <2>1 DEF OrderInv, HandsApart
<1>4. ASSUME NEW x \in Message, Pushed(x)
      PROVE  Pushed(x)'
  <2>1. x.try \in Nat
    BY QueueConstants DEF Message
  <2>2. QED
    BY <1>1, <1>4, <2>1 DEF Pushed, Earlier
<1>5. \A x \in Range(received') \cup Range(queue') : Pushed(x)'
  BY <1>2, <1>4 DEF OrderInv
<1>6. QED
  BY <1>3, <1>5 DEF OrderInv

(* However rounds, workers, lost answers and bots interleave, the signals  *)
(* of a symbol are popped in the order they were decided, and a copy of    *)
(* one only after an answer was lost.                                      *)
THEOREM DecidedOrder == Spec => []PoppedInDecidedOrder
<1>1. Init => OrderInv
  BY EmptySeq DEF Init, OrderInv, HandsApart, InOrder, Ordered, Range
<1>2. TypeOK /\ Hands /\ OrderInv /\ [Next]_vars => OrderInv'
  <2> SUFFICES ASSUME TypeOK, Hands, OrderInv, [Next]_vars
               PROVE  OrderInv'
    OBVIOUS
  <2> USE DEF Fault, Answered, Unanswered
  <2>1. CASE NextRound
    <3>1. \A w \in Workers : job'[w] = None
      BY <2>1 DEF NextRound, Hands
    <3>2. InOrder'
      BY <2>1 DEF NextRound, OrderInv, InOrder
    <3>3. QED
      BY <2>1, <3>1, <3>2, QuietKeeps DEF NextRound
  <2>2. ASSUME NEW w \in Workers, Decide(w)
        PROVE  OrderInv'
    BY <2>2, DecideKeeps
  <2>3. ASSUME NEW w \in Workers, PushHistory(w) \/ TrimHistory(w)
        PROVE  OrderInv'
    <3>1. InOrder'
      BY <2>3 DEF PushHistory, TrimHistory, OrderInv, InOrder
    <3>2. QED
      BY <2>3, <3>1, QuietKeeps DEF PushHistory, TrimHistory
  <2>4. ASSUME NEW w \in Workers, PushQueue(w)
        PROVE  OrderInv'
    BY <2>4, PushKeeps
  <2>5. ASSUME NEW w \in Workers, TrimQueue(w)
        PROVE  OrderInv'
    <3>1. Ordered(queue') /\ Range(queue') \subseteq Range(queue)
      BY <2>5, NewestOrdered, QueueConstants
         DEF TrimQueue, TypeOK, OrderInv, InOrder
    <3>2. InOrder'
      BY <2>5, <3>1 DEF TrimQueue, OrderInv, InOrder
    <3>3. QED
      BY <2>5, <3>1, <3>2, QuietKeeps DEF TrimQueue
  <2>6. ASSUME NEW b \in Bots, Pop(b)
        PROVE  OrderInv'
    <3>1. /\ Head(queue) \in Range(queue) /\ Head(queue) \in Message
          /\ Ordered(queue') /\ Range(queue') \subseteq Range(queue)
          /\ \A x \in Range(queue') : Earlier(Head(queue), x)
      BY <2>6, TailOrdered DEF Pop, TypeOK, OrderInv, InOrder
    <3>2. \A x \in Range(received) : Earlier(x, Head(queue))
      BY <3>1 DEF OrderInv, InOrder
    <3>3. /\ Ordered(received')
          /\ Range(received') = Range(received) \cup {Head(queue)}
      BY <2>6, <3>1, <3>2, AppendOrdered DEF Pop, TypeOK, OrderInv, InOrder
    <3>4. InOrder'
      BY <3>1, <3>3 DEF OrderInv, InOrder
    <3>5. QED
      BY <2>6, <3>1, <3>3, <3>4, QuietKeeps DEF Pop
  <2>7. ASSUME NEW b \in Bots, PopLost(b)
        PROVE  OrderInv'
    <3>1. Ordered(queue') /\ Range(queue') \subseteq Range(queue)
      BY <2>7, TailOrdered DEF PopLost, TypeOK, OrderInv, InOrder
    <3>2. InOrder'
      BY <2>7, <3>1 DEF PopLost, OrderInv, InOrder
    <3>3. QED
      BY <2>7, <3>1, <3>2, QuietKeeps DEF PopLost
  <2>8. ASSUME NEW w \in Workers, WorkerDies(w)
        PROVE  OrderInv'
    <3>1. InOrder'
      BY <2>8 DEF WorkerDies, OrderInv, InOrder
    <3>2. \A v \in Workers : job'[v] \in {job[v], None}
      BY <2>8 DEF WorkerDies, TypeOK
    <3>3. QED
      BY <2>8, <3>1, <3>2, QuietKeeps DEF WorkerDies
  <2>9. CASE UNCHANGED <<todo, made, job, queue, received, faults>>
    <3>1. InOrder'
      BY <2>9 DEF OrderInv, InOrder
    <3>2. QED
      BY <2>9, <3>1, QuietKeeps
  <2>10. QED
    BY <2>1, <2>2, <2>3, <2>4, <2>5, <2>6, <2>7, <2>8, <2>9
       DEF Next, WorkerStep, BotStep, Finish, vars
<1>3. OrderInv => PoppedInDecidedOrder
  BY DEF OrderInv, Pushed, PoppedInDecidedOrder, CopiesCounted
<1>4. QED
  BY <1>1, <1>2, <1>3, TypeCorrect, PTL DEF Spec

(* The Redis list with its two-command push implements the channel: every  *)
(* step is a send, an overflow that sheds the oldest, a receive, a loss    *)
(* that goes with a failure, or no step of the channel.                    *)
THEOREM Refinement == Spec => ImplementsChannel
<1>1. Init => Channel!Init
  BY DEF Init, Channel!Init
<1>2. TypeOK /\ Hands /\ [Next]_vars => [Channel!Next]_Channel!chanVars
  <2> SUFFICES ASSUME TypeOK, Hands, [Next]_vars
               PROVE  [Channel!Next]_Channel!chanVars
    OBVIOUS
  <2> USE DEF Channel!Next, Channel!chanVars, Channel!Fail, Channel!FailElsewhere,
              Fault, Answered, Unanswered
  <2>1. ASSUME NEW w \in Workers, PushQueue(w)
        PROVE  [Channel!Next]_Channel!chanVars
    <3>1. job[w] \in Message
      BY <2>1 DEF PushQueue, TypeOK, Hands
    <3>2. CASE queue' = Append(queue, job[w])
      BY <2>1, <3>1, <3>2 DEF PushQueue, Channel!Send
    <3>3. CASE queue' = queue
      BY <2>1, <3>3 DEF PushQueue
    <3>4. QED
      BY <2>1, <3>2, <3>3 DEF PushQueue
  <2>2. ASSUME NEW w \in Workers, TrimQueue(w)
        PROVE  [Channel!Next]_Channel!chanVars
    BY <2>2 DEF TrimQueue, Newest, Channel!Shed
  <2>3. ASSUME NEW b \in Bots, Pop(b)
        PROVE  Channel!Receive
    BY <2>3 DEF Pop, Channel!Receive
  <2>4. ASSUME NEW b \in Bots, PopLost(b)
        PROVE  Channel!Lose
    BY <2>4 DEF PopLost, Channel!Lose
  <2>5. ASSUME NEW w \in Workers, PushHistory(w) \/ TrimHistory(w) \/ WorkerDies(w)
        PROVE  [Channel!Next]_Channel!chanVars
    BY <2>5 DEF PushHistory, TrimHistory, WorkerDies
  <2>6. CASE UNCHANGED <<queue, received, faults>>
    BY <2>6
  <2>7. QED
    BY <2>1, <2>2, <2>3, <2>4, <2>5, <2>6
       DEF Next, NextRound, WorkerStep, BotStep, Decide, Finish, vars
<1>3. QED
  BY <1>1, <1>2, TypeCorrect, PTL DEF Spec, ImplementsChannel, Channel!Spec

(* The queue exceeds MAX_TRADE_QUEUE_SIZE at most by the workers that have *)
(* pushed and not trimmed yet and by the commands that went wrong.         *)
LEMMA QueueStaysBounded ==
  ASSUME IsFiniteSet(Workers)
  PROVE  Spec => []QueueBounded
<1> DEFINE U == Untrimmed("trim_queue")
<1>0. IsFiniteSet(U) /\ Cardinality(U) \in Nat
  <2>1. U \in SUBSET Workers
    BY DEF Untrimmed
  <2>2. QED
    BY <2>1, FS_Subset, FS_CardinalityType
<1>1. Init => QueueBounded
  BY <1>0, QueueConstants DEF Init, QueueBounded
<1>2. TypeOK /\ Hands /\ TypeOK' /\ QueueBounded /\ [Next]_vars => QueueBounded'
  <2> SUFFICES ASSUME TypeOK, Hands, TypeOK', QueueBounded, [Next]_vars
               PROVE  QueueBounded'
    OBVIOUS
  <2> USE DEF Fault, Answered, Unanswered
  <2>0. /\ IsFiniteSet(U') /\ Cardinality(U') \in Nat
        /\ Len(queue) \in Nat /\ Len(queue') \in Nat
        /\ faults \in Nat /\ faults' \in Nat /\ MaxQueue \in Nat
    <3>1. U' \in SUBSET Workers
      BY DEF Untrimmed
    <3>2. Len(queue) \in Nat /\ Len(queue') \in Nat
      BY LenProperties DEF TypeOK
    <3>3. faults \in Nat /\ faults' \in Nat /\ MaxQueue \in Nat
      BY QueueConstants DEF TypeOK
    <3>4. QED
      BY <3>1, <3>2, <3>3, FS_Subset, FS_CardinalityType
  <2>1. ASSUME NEW w \in Workers, PushQueue(w)
        PROVE  QueueBounded'
    <3>1. Len(queue') \in {Len(queue), Len(queue) + 1}
      <4>1. job[w] \in Message
        BY <2>1 DEF PushQueue, TypeOK, Hands
      <4>2. Len(Append(queue, job[w])) = Len(queue) + 1
        BY <4>1, AppendProperties DEF TypeOK
      <4>3. queue' = Append(queue, job[w]) \/ queue' = queue
        BY <2>1 DEF PushQueue
      <4>4. QED
        BY <4>2, <4>3
    <3>2. CASE LetGo(w)
      <4>1. U' = U \cup {w} /\ w \notin U
        BY <2>1, <3>2 DEF PushQueue, LetGo, Untrimmed, TypeOK
      <4>2. Cardinality(U') = Cardinality(U) + 1
        BY <1>0, <4>1, FS_AddElement
      <4>3. faults' >= faults
        BY <2>0, <2>1 DEF PushQueue
      <4>4. QED
        BY <1>0, <2>0, <3>1, <4>2, <4>3 DEF QueueBounded
    <3>3. CASE Resend(w) /\ faults' = faults + 1
      <4>1. U' = U
        BY <3>3 DEF Resend, Untrimmed
      <4>2. QED
        BY <1>0, <2>0, <3>1, <3>3, <4>1 DEF QueueBounded
    <3>4. QED
      BY <2>1, <3>2, <3>3 DEF PushQueue
  <2>2. ASSUME NEW w \in Workers, TrimQueue(w)
        PROVE  QueueBounded'
    <3>1. /\ Len(Newest(queue, MaxQueue)) <= MaxQueue
          /\ Len(Newest(queue, MaxQueue)) <= Len(queue)
      <4>1. Len(Newest(queue, MaxQueue)) = IF Len(queue) > MaxQueue THEN MaxQueue ELSE Len(queue)
        BY <2>0, NewestProperties DEF TypeOK
      <4>2. QED
        BY <2>0, <4>1
    <3>2. CASE queue' = Newest(queue, MaxQueue) /\ faults' = faults
      BY <2>0, <3>1, <3>2 DEF QueueBounded
    <3>3. CASE faults' = faults + 1 /\ Len(queue') <= Len(queue)
      <4>1. U' = U \/ (U' = U \ {w} /\ w \in U)
        BY <2>2 DEF TrimQueue, Untrimmed, TypeOK
      <4>2. Cardinality(U') >= Cardinality(U) - 1
        <5>1. CASE U' = U
          <6>1. Cardinality(U') = Cardinality(U)
            BY <5>1
          <6>2. QED
            BY <1>0, <6>1
        <5>2. CASE U' = U \ {w} /\ w \in U
          <6>1. Cardinality(U \ {w}) = Cardinality(U) - 1
            BY <1>0, <5>2, FS_RemoveElement
          <6>2. Cardinality(U') = Cardinality(U \ {w})
            BY <5>2
          <6>3. Cardinality(U') = Cardinality(U) - 1
            BY <6>1, <6>2
          <6>4. QED
            BY <1>0, <6>3
        <5>3. QED
          BY <4>1, <5>1, <5>2
      <4>3. QED
        BY <1>0, <2>0, <3>3, <4>2 DEF QueueBounded
    <3>4. QED
      BY <2>0, <2>2, <3>1, <3>2, <3>3 DEF TrimQueue
  <2>3. ASSUME NEW w \in Workers, WorkerDies(w)
        PROVE  QueueBounded'
    <3>1. U' = U \ {w} /\ Len(queue') = Len(queue) /\ faults' = faults + 1
      <4>1. wpc' = [wpc EXCEPT ![w] = "decide"] /\ queue' = queue /\ faults' = faults + 1
        BY <2>3 DEF WorkerDies
      <4>2. U' = U \ {w}
        BY <4>1 DEF Untrimmed, TypeOK
      <4>3. QED
        BY <4>1, <4>2
    <3>2. Cardinality(U') >= Cardinality(U) - 1
      <4>1. CASE w \in U
        BY <1>0, <2>0, <3>1, <4>1, FS_RemoveElement
      <4>2. CASE w \notin U
        <5>1. U' = U
          BY <3>1, <4>2
        <5>2. QED
          BY <1>0, <5>1
      <4>3. QED
        BY <4>1, <4>2
    <3>3. QED
      BY <1>0, <2>0, <3>1, <3>2 DEF QueueBounded
  <2>4. ASSUME NEW w \in Workers,
               Decide(w) \/ PushHistory(w) \/ TrimHistory(w)
        PROVE  QueueBounded'
    <3>1. U' = U
      BY <2>4 DEF Decide, PushHistory, TrimHistory, Untrimmed, TypeOK
    <3>2. queue' = queue /\ faults' >= faults
      BY <2>0, <2>4 DEF Decide, PushHistory, TrimHistory
    <3>3. QED
      BY <1>0, <2>0, <3>1, <3>2 DEF QueueBounded, Decide, PushHistory, TrimHistory
  <2>5. ASSUME NEW b \in Bots, Pop(b) \/ PopLost(b)
        PROVE  QueueBounded'
    <3>1. U' = U /\ faults' >= faults
      BY <2>0, <2>5 DEF Pop, PopLost, Untrimmed
    <3>2. Len(queue') <= Len(queue)
      BY <2>0, <2>5, HeadTailProperties DEF Pop, PopLost, TypeOK
    <3>3. QED
      BY <1>0, <2>0, <3>1, <3>2 DEF QueueBounded
  <2>6. CASE UNCHANGED <<queue, wpc, faults>>
    BY <2>6 DEF QueueBounded, Untrimmed
  <2>7. QED
    BY <2>1, <2>2, <2>3, <2>4, <2>5, <2>6
       DEF Next, NextRound, WorkerStep, BotStep, Finish, vars
<1>3. QED
  BY <1>1, <1>2, TypeCorrect, PTL DEF Spec

(* The same for signal_history and MAX_SIGNAL_HISTORY. *)
LEMMA HistoryStaysBounded ==
  ASSUME IsFiniteSet(Workers)
  PROVE  Spec => []HistoryBounded
<1> DEFINE U == Untrimmed("trim_history")
<1>0. IsFiniteSet(U) /\ Cardinality(U) \in Nat
  <2>1. U \in SUBSET Workers
    BY DEF Untrimmed
  <2>2. QED
    BY <2>1, FS_Subset, FS_CardinalityType
<1>1. Init => HistoryBounded
  BY <1>0, QueueConstants DEF Init, HistoryBounded
<1>2. TypeOK /\ TypeOK' /\ HistoryBounded /\ [Next]_vars => HistoryBounded'
  <2> SUFFICES ASSUME TypeOK, TypeOK', HistoryBounded, [Next]_vars
               PROVE  HistoryBounded'
    OBVIOUS
  <2> USE DEF Fault, Answered, Unanswered
  <2>0. /\ IsFiniteSet(U') /\ Cardinality(U') \in Nat
        /\ history \in Nat /\ history' \in Nat
        /\ faults \in Nat /\ faults' \in Nat /\ MaxHistory \in Nat
    <3>1. U' \in SUBSET Workers
      BY DEF Untrimmed
    <3>2. QED
      BY <1>0, <3>1, FS_Subset, FS_CardinalityType, QueueConstants DEF TypeOK
  <2>1. ASSUME NEW w \in Workers, PushHistory(w)
        PROVE  HistoryBounded'
    <3>1. history' <= history + 1
      BY <2>0, <2>1 DEF PushHistory
    <3>2. CASE wpc' = [wpc EXCEPT ![w] = "trim_history"] /\ faults' >= faults
      <4>1. U' = U \cup {w} /\ w \notin U
        BY <2>1, <3>2 DEF PushHistory, Untrimmed, TypeOK
      <4>2. Cardinality(U') = Cardinality(U) + 1
        BY <1>0, <4>1, FS_AddElement
      <4>3. QED
        BY <1>0, <2>0, <3>1, <3>2, <4>2 DEF HistoryBounded
    <3>3. CASE wpc' = wpc /\ faults' = faults + 1
      <4>1. U' = U
        BY <3>3 DEF Untrimmed
      <4>2. QED
        BY <1>0, <2>0, <3>1, <3>3, <4>1 DEF HistoryBounded
    <3>4. QED
      BY <2>0, <2>1, <3>2, <3>3 DEF PushHistory
  <2>2. ASSUME NEW w \in Workers, TrimHistory(w)
        PROVE  HistoryBounded'
    <3>1. Trimmed <= MaxHistory /\ Trimmed <= history
      BY <2>0 DEF Trimmed
    <3>2. CASE history' = Trimmed /\ faults' = faults
      BY <2>0, <3>1, <3>2 DEF HistoryBounded
    <3>3. CASE faults' = faults + 1 /\ history' <= history
      <4>1. U' = U \/ (U' = U \ {w} /\ w \in U)
        BY <2>2 DEF TrimHistory, Untrimmed, TypeOK
      <4>2. Cardinality(U') >= Cardinality(U) - 1
        <5>1. CASE U' = U
          <6>1. Cardinality(U') = Cardinality(U)
            BY <5>1
          <6>2. QED
            BY <1>0, <6>1
        <5>2. CASE U' = U \ {w} /\ w \in U
          <6>1. Cardinality(U \ {w}) = Cardinality(U) - 1
            BY <1>0, <5>2, FS_RemoveElement
          <6>2. Cardinality(U') = Cardinality(U \ {w})
            BY <5>2
          <6>3. Cardinality(U') = Cardinality(U) - 1
            BY <6>1, <6>2
          <6>4. QED
            BY <1>0, <6>3
        <5>3. QED
          BY <4>1, <5>1, <5>2
      <4>3. QED
        BY <1>0, <2>0, <3>3, <4>2 DEF HistoryBounded
    <3>4. QED
      BY <2>0, <2>2, <3>1, <3>2, <3>3 DEF TrimHistory
  <2>3. ASSUME NEW w \in Workers, WorkerDies(w)
        PROVE  HistoryBounded'
    <3>1. U' = U \ {w} /\ history' = history /\ faults' = faults + 1
      BY <2>3 DEF WorkerDies, Untrimmed, TypeOK
    <3>2. Cardinality(U') >= Cardinality(U) - 1
      <4>1. CASE w \in U
        BY <1>0, <2>0, <3>1, <4>1, FS_RemoveElement
      <4>2. CASE w \notin U
        <5>1. U' = U
          BY <3>1, <4>2
        <5>2. QED
          BY <1>0, <5>1
      <4>3. QED
        BY <4>1, <4>2
    <3>3. QED
      BY <1>0, <2>0, <3>1, <3>2 DEF HistoryBounded
  <2>4. ASSUME NEW w \in Workers, Decide(w) \/ PushQueue(w) \/ TrimQueue(w)
        PROVE  HistoryBounded'
    <3>1. U' = U
      BY <2>4 DEF Decide, PushQueue, LetGo, Resend, TrimQueue, Untrimmed, TypeOK
    <3>2. history' = history /\ faults' >= faults
      BY <2>0, <2>4 DEF Decide, PushQueue, TrimQueue
    <3>3. QED
      BY <1>0, <2>0, <3>1, <3>2 DEF HistoryBounded
  <2>5. CASE UNCHANGED <<history, wpc>> /\ faults' \in {faults, faults + 1}
    <3>1. U' = U
      BY <2>5 DEF Untrimmed
    <3>2. QED
      BY <1>0, <2>0, <2>5, <3>1 DEF HistoryBounded
  <2>6. QED
    BY <2>1, <2>2, <2>3, <2>4, <2>5
       DEF Next, NextRound, WorkerStep, BotStep, Pop, PopLost, Finish, vars
<1>3. QED
  BY <1>1, <1>2, TypeCorrect, PTL DEF Spec

(* Neither list outgrows its limit by more than the workers at work on it  *)
(* and the failed commands.                                                *)
THEOREM Bounded ==
  ASSUME IsFiniteSet(Workers)
  PROVE  Spec => []ListsBounded
<1>1. Spec => []QueueBounded
  BY QueueStaysBounded
<1>2. Spec => []HistoryBounded
  BY HistoryStaysBounded
<1>3. QueueBounded /\ HistoryBounded => ListsBounded
  BY DEF ListsBounded
<1>4. QED
  BY <1>1, <1>2, <1>3, PTL
=============================================================================
