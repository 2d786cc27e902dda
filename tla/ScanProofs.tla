----------------------------- MODULE ScanProofs -----------------------------
(***************************************************************************)
(* Theorems about Scan for every set of symbols and all sizes of the two   *)
(* semaphores and of the buffer.                                           *)
(***************************************************************************)
EXTENDS Scan, FiniteSetTheorems, TLAPS

(* The symbols a round has still on their way to the loop. *)
UnderWay == todo \cup Active \cup buffer

(* The parts of the types that the invariant needs. *)
TaskType == task \in [Symbols -> States]
ScanType == TaskType /\ todo \subseteq Symbols

(* The three phases of an uncancelled round: tasks are running and the     *)
(* channel is open; the channel is closed and its senders are gone; there  *)
(* is nothing left of the round.                                           *)
InRound == main \in {"range", "hold"}
Open == InRound /\ disp = "loop" /\ ~closed
Closed == InRound /\ disp = "off" /\ closed /\ todo = {} /\ Active = {}
Over == ~InRound /\ disp = "off" /\ UnderWay = {}

(* A symbol of the pool is counted, failed, or under way, and at one place *)
(* only.                                                                   *)
Accounted ==
  main \in {"range", "hold", "join", "sleep"} =>
    /\ pool = counted \cup failed \cup UnderWay
    /\ counted \cap failed = {}
    /\ (todo \cup Active) \cap (counted \cup failed) = {}
    /\ buffer \cap (todo \cup Active \cup failed) = {}
    /\ todo \cap Active = {}

(* The inductive invariant.  A cancel voids all of it but the first and    *)
(* the last conjunct.                                                      *)
RoundInv ==
  /\ ScanType
  /\ ~cancelled => (Open \/ Closed \/ Over) /\ Accounted /\ ~crashed
  /\ main \in {"top", "pool", "retry", "sleep", "stopped"} => workers = {}

(* What a change of one task does to the set of active tasks. *)
LEMMA ActiveNone ==
  ASSUME TaskType, NEW s \in Symbols, task' = [task EXCEPT ![s] = "none"]
  PROVE  TaskType' /\ Active' = Active \ {s}
  BY DEF TaskType, Active, In, States

(* A symbol whose task has started is among the active ones. *)
LEMMA ActiveSome ==
  ASSUME TaskType, NEW s \in Symbols, NEW state \in States \ {"none"},
         task' = [task EXCEPT ![s] = state]
  PROVE  TaskType' /\ Active' = Active \cup {s}
  BY DEF TaskType, Active, In, States

(* Active depends on the tasks only. *)
LEMMA ActiveSame == task' = task => Active' = Active
  BY DEF Active, In

(* Before the first round RoundInv holds. *)
LEMMA RoundInvInit == Init => RoundInv
<1> SUFFICES ASSUME Init
             PROVE  RoundInv
  OBVIOUS
<1>1. ScanType /\ Active = {}
  BY DEF Init, ScanType, TaskType, Active, In, States
<1>2. QED
  BY <1>1 DEF Init, RoundInv, Over, InRound, UnderWay, Accounted

(* The steps of runScanner keep RoundInv. *)
LEMMA RoundInvMain == RoundInv /\ ~crashed /\ Main => RoundInv'
<1> SUFFICES ASSUME RoundInv, ~crashed, Main
             PROVE  RoundInv'
  OBVIOUS
<1> USE DEF RoundInv, Open, Closed, Over, InRound, UnderWay, Accounted, ScanType,
        TaskType
<1>1. CASE Top
  BY <1>1, ActiveSame DEF Top, stream, round
<1>2. CASE Start
  BY <1>2, ActiveSame DEF Start, Pools
<1>3. CASE StartFails \/ Retry
  BY <1>3, ActiveSame DEF StartFails, Retry, stream, round
<1>4. CASE Receive
  <2>1. PICK s \in buffer :
          /\ \/ /\ In({"parked"}) = {}
                /\ buffer' = buffer \ {s}
                /\ UNCHANGED task
             \/ \E p \in In({"parked"}) :
                  /\ buffer' = (buffer \ {s}) \cup {p}
                  /\ task' = [task EXCEPT ![p] = "none"]
          /\ counted' = counted \cup {s}
          /\ \/ UNCHANGED <<main, held>>
             \/ main' = "hold" /\ held' = {s}
    BY <1>4 DEF Receive, ShouldAnalyze
  <2>2. /\ main = "range" /\ main' \in {"range", "hold"}
        /\ UNCHANGED <<todo, disp, closed, workers, cancelled, crashed, pool, failed>>
    BY <1>4 DEF Receive, ShouldAnalyze
  <2>3. CASE buffer' = buffer \ {s} /\ UNCHANGED task
    BY <2>1, <2>2, <2>3, ActiveSame
  <2>4. CASE \E p \in In({"parked"}) :
               /\ buffer' = (buffer \ {s}) \cup {p}
               /\ task' = [task EXCEPT ![p] = "none"]
    <3>1. PICK p \in In({"parked"}) :
                 /\ buffer' = (buffer \ {s}) \cup {p}
                 /\ task' = [task EXCEPT ![p] = "none"]
      BY <2>4
    <3>2. p \in Symbols /\ p \in Active
      BY <3>1 DEF In, Active, States
    <3>3. TaskType' /\ Active' = Active \ {p}
      BY <3>1, <3>2, ActiveNone
    <3>4. QED
      BY <2>1, <2>2, <3>1, <3>2, <3>3
  <2>5. QED
    BY <2>1, <2>3, <2>4
<1>5. CASE HandOver \/ EndOfStream
  BY <1>5, ActiveSame DEF HandOver, EndOfStream, stream, round
<1>6. CASE Join
  BY <1>6, ActiveSame DEF Join, stream, round
<1>7. CASE Sleep
  BY <1>7, ActiveSame DEF Sleep, stream, round
<1>8. QED
  BY <1>1, <1>2, <1>3, <1>4, <1>5, <1>6, <1>7 DEF Main

(* The steps of the dispatcher keep RoundInv. *)
LEMMA RoundInvDispatcher == RoundInv /\ ~crashed /\ Dispatcher => RoundInv'
<1> SUFFICES ASSUME RoundInv, ~crashed, Dispatcher
             PROVE  RoundInv'
  OBVIOUS
<1> USE DEF RoundInv, Open, Closed, Over, InRound, UnderWay, Accounted, ScanType,
        TaskType
<1>1. CASE Dispatch
  <2>1. PICK s \in todo :
          todo' = todo \ {s} /\ task' = [task EXCEPT ![s] = "queued"]
    BY <1>1 DEF Dispatch
  <2>2. TaskType' /\ Active' = Active \cup {s}
    BY <2>1, ActiveSome DEF States
  <2>3. QED
    BY <1>1, <2>1, <2>2 DEF Dispatch, round
<1>2. CASE Desert
  BY <1>2, ActiveSame DEF Desert, round
<1>3. CASE Close
  BY <1>3, ActiveSame DEF Close, round
<1>4. QED
  BY <1>1, <1>2, <1>3 DEF Dispatcher

(* The steps of the tasks keep RoundInv. *)
LEMMA RoundInvTask ==
  ASSUME RoundInv, ~crashed, NEW s \in Symbols, Task(s)
  PROVE  RoundInv'
<1> USE DEF RoundInv, Open, Closed, Over, InRound, UnderWay, Accounted, ScanType,
        TaskType
<1>1. s \in Active
  BY DEF Task, Scan, Found, ScanFails, Send, SendPanics, Discard, Park,
         Active, In, States
<1>2. CASE Scan(s) \/ Found(s) \/ Park(s)
  <2>1. PICK state \in States \ {"none"} : task' = [task EXCEPT ![s] = state]
    BY <1>2 DEF Scan, Found, Park, States
  <2>2. TaskType' /\ Active' = Active
    <3>1. TaskType' /\ Active' = Active \cup {s}
      BY <2>1, ActiveSome
    <3>2. Active \cup {s} = Active
      BY <1>1
    <3>3. QED
      BY <3>1, <3>2
  <2>3. QED
    BY <1>2, <2>2 DEF Scan, Found, Park, round
<1>3. CASE ScanFails(s) \/ Send(s) \/ Discard(s)
  <2>1. TaskType' /\ Active' = Active \ {s}
    BY <1>3, ActiveNone DEF ScanFails, Send, Discard, Leave
  <2>2. QED
    BY <1>1, <1>3, <2>1 DEF ScanFails, Send, Discard, round
<1>4. CASE SendPanics(s)
  BY <1>1, <1>4, ActiveSame DEF SendPanics, stream, round
<1>5. QED
  BY <1>2, <1>3, <1>4 DEF Task

(* Every step keeps RoundInv. *)
LEMMA RoundInvStep == RoundInv /\ [Next]_vars => RoundInv'
<1> SUFFICES ASSUME RoundInv, [Next]_vars
             PROVE  RoundInv'
  OBVIOUS
<1>1. ASSUME NEW s \in Symbols, Worker(s)
      PROVE  RoundInv'
  BY <1>1, ActiveSame
  DEF RoundInv, Open, Closed, Over, InRound, UnderWay, Accounted, ScanType,
      TaskType, Worker, WorkerReturns, WorkerPanics, stream, round
<1>2. CASE Cancel
  <2>1. ScanType'
    BY <1>2 DEF Cancel, RoundInv, ScanType, TaskType, States
  <2>2. QED
    BY <1>2, <2>1 DEF Cancel, RoundInv
<1>3. CASE UNCHANGED vars
  BY <1>3, ActiveSame
  DEF vars, RoundInv, Open, Closed, Over, InRound, UnderWay, Accounted,
      ScanType, TaskType, stream, round
<1>4. QED
  BY <1>1, <1>2, <1>3, RoundInvMain, RoundInvDispatcher, RoundInvTask DEF Next

(* RoundInv is an invariant of the scanner. *)
LEMMA RoundInvariant == Spec => []RoundInv
  BY RoundInvInit, RoundInvStep, PTL DEF Spec

(* A round that runs to its end uncancelled has counted every symbol that  *)
(* was scanned, whatever the sizes of the semaphores and the buffer.       *)
THEOREM AllCounted == Spec => []NothingLost
<1>1. RoundInv => NothingLost
  BY DEF RoundInv, NothingLost, Open, Closed, Over, InRound, UnderWay, Accounted
<1>2. QED
  BY <1>1, RoundInvariant, PTL

(* Nothing of a round is left when the next begins. *)
THEOREM NoOverlap == Spec => []RoundsDisjoint
<1>1. RoundInv => RoundsDisjoint
  BY DEF RoundInv, RoundsDisjoint, Open, Closed, Over, InRound, UnderWay
<1>2. QED
  BY <1>1, RoundInvariant, PTL

(* Until the context is cancelled no task sends to a closed channel. *)
THEOREM NoEarlyCrash == Spec => []CrashOnlyAfterCancel
<1>1. RoundInv => CrashOnlyAfterCancel
  BY DEF RoundInv, CrashOnlyAfterCancel
<1>2. QED
  BY <1>1, RoundInvariant, PTL

-----------------------------------------------------------------------------
(* Types, and the sizes of semaphores and buffer, for a finite pool.  The  *)
(* sizes need to know that the loop holds one datum at most.               *)
Ranges ==
  /\ main \in {"top", "pool", "retry", "range", "hold", "join", "sleep", "stopped"}
  /\ held \subseteq Symbols /\ todo \subseteq Symbols
  /\ disp \in {"off", "loop"}
  /\ task \in [Symbols -> States]
  /\ buffer \subseteq Symbols /\ closed \in BOOLEAN
  /\ workers \subseteq Symbols
  /\ cancelled \in BOOLEAN /\ crashed \in BOOLEAN
  /\ pool \subseteq Symbols /\ counted \subseteq Symbols /\ failed \subseteq Symbols
  /\ held = {} \/ \E s \in Symbols : held = {s}

Sizes ==
  /\ Cardinality(Holding) <= ScanConc
  /\ Cardinality(workers) <= BatchSize
  /\ Cardinality(buffer) <= 2 * ScanConc

(* The ranges do not depend on how many symbols there are. *)
LEMMA RangesStep == Ranges /\ [Next]_vars => Ranges'
<1> SUFFICES ASSUME Ranges, [Next]_vars
             PROVE  Ranges'
  OBVIOUS
<1> USE DEF Ranges, States
<1>1. CASE Top \/ StartFails \/ Retry \/ HandOver \/ EndOfStream \/ Join \/ Sleep
  BY <1>1 DEF Top, StartFails, Retry, HandOver, EndOfStream, Join, Sleep, stream, round
<1>2. CASE Start
  BY <1>2 DEF Start, Pools
<1>3. CASE Receive
  <2>1. buffer' \subseteq Symbols /\ task' \in [Symbols -> States] /\ counted' \subseteq Symbols
    <3>1. PICK s \in buffer :
            /\ \/ buffer' = buffer \ {s} /\ UNCHANGED task
               \/ \E p \in In({"parked"}) :
                    /\ buffer' = (buffer \ {s}) \cup {p}
                    /\ task' = [task EXCEPT ![p] = "none"]
            /\ counted' = counted \cup {s}
      BY <1>3 DEF Receive
    <3>2. QED
      BY <3>1 DEF In
  <2>2. /\ main' \in {"range", "hold"} /\ held' \subseteq Symbols
        /\ held' = {} \/ \E s \in Symbols : held' = {s}
    BY <1>3 DEF Receive, ShouldAnalyze
  <2>3. QED
    BY <1>3, <2>1, <2>2 DEF Receive
<1>4. CASE Dispatcher
  BY <1>4 DEF Dispatcher, Dispatch, Desert, Close, round
<1>5. ASSUME NEW s \in Symbols, Task(s)
      PROVE  Ranges'
  BY <1>5 DEF Task, Scan, Found, ScanFails, Leave, Send, SendPanics, Discard, Park, stream, round
<1>6. ASSUME NEW s \in Symbols, Worker(s)
      PROVE  Ranges'
  BY <1>6 DEF Worker, WorkerReturns, WorkerPanics, stream, round
<1>7. CASE Cancel
  BY <1>7 DEF Cancel, round
<1>8. CASE UNCHANGED vars
  BY <1>8 DEF vars, stream, round
<1>9. QED
  BY <1>1, <1>2, <1>3, <1>4, <1>5, <1>6, <1>7, <1>8 DEF Next, Main

(* The three sets that a size is kept of are finite with the symbols. *)
LEMMA FiniteSizes ==
  ASSUME IsFiniteSet(Symbols), NEW S \in SUBSET Symbols
  PROVE  /\ IsFiniteSet(S) /\ Cardinality(S) \in Nat
         /\ \A T \in SUBSET S : Cardinality(T) \in Nat /\ Cardinality(T) <= Cardinality(S)
         /\ \A s : Cardinality(S \cup {s}) \in Nat /\ Cardinality(S \cup {s}) <= Cardinality(S) + 1
         /\ \A s \in S : Cardinality(S \ {s}) = Cardinality(S) - 1
<1>1. IsFiniteSet(S) /\ Cardinality(S) \in Nat
  BY FS_Subset, FS_CardinalityType
<1>2. ASSUME NEW T \in SUBSET S
      PROVE  Cardinality(T) \in Nat /\ Cardinality(T) <= Cardinality(S)
  BY <1>1, FS_Subset, FS_CardinalityType
<1>3. ASSUME NEW s
      PROVE  /\ Cardinality(S \cup {s}) \in Nat
             /\ Cardinality(S \cup {s}) <= Cardinality(S) + 1
  BY <1>1, FS_AddElement
<1>4. ASSUME NEW s \in S
      PROVE  Cardinality(S \ {s}) = Cardinality(S) - 1
  BY <1>1, FS_RemoveElement
<1>5. QED
  BY <1>1, <1>2, <1>3, <1>4

(* What only takes away keeps the sizes. *)
LEMMA SizesShrink ==
  ASSUME IsFiniteSet(Symbols), Ranges, Sizes,
         Holding' \subseteq Holding, workers' \subseteq workers, buffer' \subseteq buffer
  PROVE  Sizes'
<1>1. Holding \subseteq Symbols
  BY DEF Holding, In
<1>2. /\ Cardinality(Holding') <= Cardinality(Holding)
      /\ Cardinality(workers') <= Cardinality(workers)
      /\ Cardinality(buffer') <= Cardinality(buffer)
      /\ Cardinality(Holding) \in Nat /\ Cardinality(workers) \in Nat
      /\ Cardinality(buffer) \in Nat
      /\ Cardinality(Holding') \in Nat /\ Cardinality(workers') \in Nat
      /\ Cardinality(buffer') \in Nat
  BY <1>1, FiniteSizes DEF Ranges
<1>3. QED
  BY <1>2, ScanConstants DEF Sizes

(* Only three steps add: a scan that begins, a send, a worker that starts; *)
(* each looks at the size first.  The loop makes room as it takes.         *)
LEMMA SizesStep ==
  ASSUME IsFiniteSet(Symbols), Ranges, Ranges', Sizes, [Next]_vars
  PROVE  Sizes'
<1>0. /\ Holding \in SUBSET Symbols /\ buffer \in SUBSET Symbols /\ workers \in SUBSET Symbols
      /\ Cardinality(Holding) \in Nat /\ Cardinality(buffer) \in Nat
      /\ Cardinality(workers) \in Nat
  <2>1. /\ Holding \in SUBSET Symbols /\ buffer \in SUBSET Symbols
        /\ workers \in SUBSET Symbols
    BY DEF Holding, In, Ranges
  <2>2. QED
    BY <2>1, FiniteSizes
<1>1. ASSUME NEW s \in Symbols, Scan(s)
      PROVE  Sizes'
  <2>1. Holding' = Holding \cup {s}
    BY <1>1 DEF Scan, Holding, In, Ranges
  <2>2. Cardinality(Holding') \in Nat /\ Cardinality(Holding') <= Cardinality(Holding) + 1
    BY <1>0, <2>1, FiniteSizes
  <2>3. Cardinality(Holding) < ScanConc /\ buffer' = buffer /\ workers' = workers
    BY <1>1 DEF Scan
  <2>4. QED
    BY <1>0, <2>2, <2>3, ScanConstants DEF Sizes
<1>2. ASSUME NEW s \in Symbols, Send(s)
      PROVE  Sizes'
  <2>1. Holding' \in SUBSET Holding
    BY <1>2 DEF Send, Leave, Holding, In, Ranges
  <2>2. buffer' = buffer \cup {s} /\ workers' = workers /\ Cardinality(buffer) < 2 * ScanConc
    BY <1>0, <1>2, ScanConstants DEF Send, Full
  <2>3. /\ Cardinality(buffer') \in Nat /\ Cardinality(buffer') <= Cardinality(buffer) + 1
        /\ Cardinality(Holding') \in Nat /\ Cardinality(Holding') <= Cardinality(Holding)
    BY <1>0, <2>1, <2>2, FiniteSizes
  <2>4. QED
    BY <1>0, <2>2, <2>3, ScanConstants DEF Sizes
<1>3. CASE HandOver
  <2>1. /\ workers' = workers \cup held /\ Cardinality(workers) < BatchSize
        /\ UNCHANGED <<task, buffer>>
    BY <1>3 DEF HandOver, stream
  <2>2. Holding' = Holding
    BY <2>1 DEF Holding, In
  <2>3. Cardinality(workers') \in Nat /\ Cardinality(workers') <= Cardinality(workers) + 1
    <3>1. CASE held = {}
      BY <1>0, <2>1, <3>1
    <3>2. CASE \E s \in Symbols : held = {s}
      BY <1>0, <2>1, <3>2, FiniteSizes
    <3>3. QED
      BY <3>1, <3>2 DEF Ranges
  <2>4. QED
    BY <1>0, <2>1, <2>2, <2>3, ScanConstants DEF Sizes
<1>4. CASE Receive
  <2>1. PICK s \in buffer :
          \/ buffer' = buffer \ {s} /\ UNCHANGED task
          \/ \E p \in In({"parked"}) :
               /\ buffer' = (buffer \ {s}) \cup {p}
               /\ task' = [task EXCEPT ![p] = "none"]
    BY <1>4 DEF Receive
  <2>2. Holding' \in SUBSET Holding
    BY <2>1 DEF Holding, In, Ranges
  <2>3. buffer \ {s} \in SUBSET Symbols /\ Cardinality(buffer \ {s}) = Cardinality(buffer) - 1
    BY <1>0, FiniteSizes
  <2>4. Cardinality(buffer') \in Nat /\ Cardinality(buffer') <= Cardinality(buffer)
    <3>1. CASE buffer' = buffer \ {s}
      BY <1>0, <3>1, FiniteSizes, <2>3
    <3>2. ASSUME NEW p, buffer' = (buffer \ {s}) \cup {p}
          PROVE  Cardinality(buffer') \in Nat /\ Cardinality(buffer') <= Cardinality(buffer)
      <4>1. /\ Cardinality(buffer') \in Nat
            /\ Cardinality(buffer') <= Cardinality(buffer \ {s}) + 1
        BY <2>3, <3>2, FiniteSizes
      <4>2. QED
        BY <1>0, <2>3, <4>1
    <3>3. QED
      BY <2>1, <3>1, <3>2
  <2>5. Cardinality(Holding') \in Nat /\ Cardinality(Holding') <= Cardinality(Holding)
    BY <1>0, <2>2, FiniteSizes
  <2>6. workers' = workers
    BY <1>4 DEF Receive
  <2>7. QED
    BY <1>0, <2>4, <2>5, <2>6, ScanConstants DEF Sizes
<1>5. CASE Start
  <2>1. buffer' = {} /\ workers' = workers /\ task' = task
    BY <1>5 DEF Start
  <2>2. QED
    BY <2>1, SizesShrink DEF Holding, In
<1>6. CASE Top \/ StartFails \/ Retry \/ EndOfStream \/ Join \/ Sleep \/ Dispatcher
  <2>1. buffer' = buffer /\ workers' = workers
    BY <1>6 DEF Top, StartFails, Retry, EndOfStream, Join, Sleep, Dispatcher,
                Dispatch, Desert, Close, stream
  <2>2. Holding' \subseteq Holding
    BY <1>6 DEF Top, StartFails, Retry, EndOfStream, Join, Sleep, Dispatcher,
                Dispatch, Desert, Close, stream, Holding, In, Ranges
  <2>3. QED
    BY <2>1, <2>2, SizesShrink
<1>7. ASSUME NEW s \in Symbols, Found(s) \/ ScanFails(s) \/ SendPanics(s) \/ Discard(s) \/ Park(s)
      PROVE  Sizes'
  <2>1. buffer' = buffer /\ workers' = workers
    BY <1>7 DEF Found, ScanFails, SendPanics, Discard, Park, stream
  <2>2. Holding' \subseteq Holding
    BY <1>7 DEF Found, ScanFails, SendPanics, Discard, Park, Leave, stream, Holding, In, Ranges
  <2>3. QED
    BY <2>1, <2>2, SizesShrink
<1>8. ASSUME NEW s \in Symbols, Worker(s)
      PROVE  Sizes'
  BY <1>8, SizesShrink DEF Worker, WorkerReturns, WorkerPanics, stream, Holding, In
<1>9. CASE Cancel
  BY <1>9, SizesShrink DEF Cancel, Holding, In
<1>10. CASE UNCHANGED vars
  BY <1>10, SizesShrink DEF vars, stream, Holding, In
<1>11. QED
  BY <1>1, <1>2, <1>3, <1>4, <1>5, <1>6, <1>7, <1>8, <1>9, <1>10 DEF Next, Main, Task

(* The scanner keeps its types, and never more tasks scan, more data wait  *)
(* or more workers run than the configuration allows.                      *)
THEOREM TypeCorrect ==
  ASSUME IsFiniteSet(Symbols)
  PROVE  Spec => []TypeOK
<1>1. Init => Ranges /\ Sizes
  <2> SUFFICES ASSUME Init PROVE Ranges /\ Sizes
    OBVIOUS
  <2>1. Ranges
    BY DEF Init, Ranges, States
  <2>2. Holding = {} /\ workers = {} /\ buffer = {}
    BY DEF Init, Holding, In
  <2>3. QED
    BY <2>1, <2>2, FS_EmptySet, ScanConstants DEF Sizes
<1>2. Ranges /\ Sizes /\ [Next]_vars => Ranges' /\ Sizes'
  BY RangesStep, SizesStep
<1>3. Ranges /\ Sizes => TypeOK
  BY DEF Ranges, Sizes, TypeOK
<1>4. QED
  BY <1>1, <1>2, <1>3, PTL DEF Spec

=============================================================================
