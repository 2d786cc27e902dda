-------------------------------- MODULE Scan --------------------------------
(***************************************************************************)
(* The market scanner: the rounds of runScanner in cmd/main.go and the     *)
(* stream they read, Scanner.ScanMarketStream.  In a round a dispatcher    *)
(* starts a task per symbol; the tasks scan under a semaphore and send     *)
(* what they find over a buffered channel; the round's loop hands each     *)
(* market datum to a worker, under a semaphore of its own.  The context    *)
(* may be cancelled at any time.                                           *)
(*                                                                         *)
(* A market datum is abstracted to its symbol, so the channel is the set   *)
(* of symbols it buffers.  What a scan computes is left out.               *)
(***************************************************************************)
EXTENDS Integers, FiniteSets

CONSTANTS
  Symbols,   \* the symbols the pool may hold
  ScanConc,  \* cfg.ScanConcurrency
  BatchSize  \* cfg.AIBatchSize

ASSUME ScanConstants == ScanConc \in Nat \ {0} /\ BatchSize \in Nat \ {0}

VARIABLES
  main,      \* where runScanner is
  held,      \* the symbol it waits to hand to a worker, while main = "hold"
  todo,      \* symbols the dispatcher has still to start a task for
  disp,      \* the dispatcher: "off", in its "loop", or in wg.Wait
  task,      \* the state of each symbol's task
  buffer,    \* resultChan
  closed,    \* whether resultChan is closed
  workers,   \* symbols being processed by a worker
  cancelled, \* whether the context is
  crashed,   \* an unrecovered panic has ended the program
  pool,      \* history: the symbols of this round
  counted,   \* history: those that scannedOK counts
  failed     \* history: those whose scan failed

stream == <<todo, disp, task, buffer, closed>>
round == <<pool, counted, failed>>
vars == <<main, held, stream, workers, cancelled, crashed, round>>

States == {"none", "queued", "scanning", "sending", "parked"}

In(states) == {s \in Symbols : task[s] \in states}
Active == In(States \ {"none"})
Holding == In({"scanning", "sending", "parked"})  \* they hold the semaphore

Init ==
  /\ main = "top" /\ held = {}
  /\ todo = {} /\ disp = "off" /\ task = [s \in Symbols |-> "none"]
  /\ buffer = {} /\ closed = FALSE
  /\ workers = {} /\ cancelled = FALSE /\ crashed = FALSE
  /\ pool = {} /\ counted = {} /\ failed = {}

-----------------------------------------------------------------------------
(* Faulty variant: the context is not looked at between rounds. *)
TopBlind ==
  /\ main = "top"
  /\ main' = "pool"
  /\ UNCHANGED <<held, stream, workers, cancelled, crashed, round>>

(* The loop of runScanner looks at the context once, at its top. *)
Top ==
  /\ main = "top"
  /\ main' = IF cancelled THEN "stopped" ELSE "pool"
  /\ UNCHANGED <<held, stream, workers, cancelled, crashed, round>>

(* What GetSymbolPool may return: the volatility pool of Redis, or the     *)
(* symbols of the exchange that have been listed long enough.              *)
Pools == SUBSET Symbols

(* It finds symbols and ScanMarketStream starts a dispatcher. *)
Start ==
  /\ main = "pool"
  /\ \E found \in Pools \ {{}} :
       /\ pool' = found
       /\ todo' = found
  /\ disp' = "loop" /\ closed' = FALSE /\ buffer' = {}
  /\ counted' = {} /\ failed' = {}
  /\ main' = "range"
  /\ UNCHANGED <<held, task, workers, cancelled, crashed>>

(* It fails or finds none: a minute's sleep that no cancel interrupts. *)
StartFails ==
  /\ main = "pool"
  /\ main' = "retry"
  /\ UNCHANGED <<held, stream, workers, cancelled, crashed, round>>

Retry ==
  /\ main = "retry"
  /\ main' = "top"
  /\ UNCHANGED <<held, stream, workers, cancelled, crashed, round>>

(* shouldAnalyze drops the datum or lets it through. *)
ShouldAnalyze(s) ==
  \/ UNCHANGED <<main, held>>
  \/ main' = "hold" /\ held' = {s}

(* A datum is received; the sender that waited longest for room, if any,   *)
(* is woken with its datum in the buffer.  The break of main.go:225 leaves *)
(* only the select, so a cancelled context changes nothing here.           *)
Receive ==
  /\ main = "range"
  /\ \E s \in buffer :
       /\ \/ /\ In({"parked"}) = {}
             /\ buffer' = buffer \ {s}
             /\ UNCHANGED task
          \/ \E p \in In({"parked"}) :
               /\ buffer' = (buffer \ {s}) \cup {p}
               /\ task' = [task EXCEPT ![p] = "none"]
       /\ counted' = counted \cup {s}
       /\ ShouldAnalyze(s)
  /\ UNCHANGED <<todo, disp, closed, workers, cancelled, crashed, pool, failed>>

(* Faulty variant: one place too many. *)
HandOverExtra ==
  /\ main = "hold"
  /\ Cardinality(workers) <= BatchSize
  /\ workers' = workers \cup held
  /\ held' = {}
  /\ main' = "range"
  /\ UNCHANGED <<stream, cancelled, crashed, round>>

(* A place in the semaphore is free: a worker is started. *)
HandOver ==
  /\ main = "hold"
  /\ Cardinality(workers) < BatchSize
  /\ workers' = workers \cup held
  /\ held' = {}
  /\ main' = "range"
  /\ UNCHANGED <<stream, cancelled, crashed, round>>

(* The channel is closed and empty: the loop ends. *)
EndOfStream ==
  /\ main = "range"
  /\ closed /\ buffer = {}
  /\ main' = "join"
  /\ UNCHANGED <<held, stream, workers, cancelled, crashed, round>>

(* Faulty variant: the round does not wait for its workers. *)
JoinNobody ==
  /\ main = "join"
  /\ main' = "sleep"
  /\ UNCHANGED <<held, stream, workers, cancelled, crashed, round>>

(* wg.Wait returns and the result of the round is saved. *)
Join ==
  /\ main = "join"
  /\ workers = {}
  /\ main' = "sleep"
  /\ UNCHANGED <<held, stream, workers, cancelled, crashed, round>>

(* The select at the end of a round: its timer or the cancel, whichever is *)
(* taken if both are ready.                                                *)
Sleep ==
  /\ main = "sleep"
  /\ \/ main' = "top"
     \/ cancelled /\ main' = "stopped"
  /\ UNCHANGED <<held, stream, workers, cancelled, crashed, round>>

-----------------------------------------------------------------------------
(* The dispatcher starts the next task, having looked at the context. *)
Dispatch ==
  /\ disp = "loop" /\ ~cancelled
  /\ \E s \in todo :
       /\ todo' = todo \ {s}
       /\ task' = [task EXCEPT ![s] = "queued"]
  /\ UNCHANGED <<main, held, disp, buffer, closed, workers, cancelled, crashed, round>>

(* It finds the context cancelled and returns, closing the channel without *)
(* waiting for the tasks it has started.                                   *)
Desert ==
  /\ disp = "loop" /\ cancelled /\ todo # {}
  /\ disp' = "off" /\ closed' = TRUE /\ todo' = {}
  /\ UNCHANGED <<main, held, task, buffer, workers, cancelled, crashed, round>>

(* Faulty variant: the channel is closed when the last task is started. *)
CloseEarly ==
  /\ disp = "loop" /\ todo = {}
  /\ disp' = "off" /\ closed' = TRUE
  /\ UNCHANGED <<main, held, todo, task, buffer, workers, cancelled, crashed, round>>

(* All tasks are started and wg.Wait returns: the channel is closed. *)
Close ==
  /\ disp = "loop" /\ todo = {} /\ Active = {}
  /\ disp' = "off" /\ closed' = TRUE
  /\ UNCHANGED <<main, held, todo, task, buffer, workers, cancelled, crashed, round>>

-----------------------------------------------------------------------------
(* A task gets into the semaphore and scans. *)
Scan(s) ==
  /\ task[s] = "queued"
  /\ Cardinality(Holding) < ScanConc
  /\ task' = [task EXCEPT ![s] = "scanning"]
  /\ UNCHANGED <<main, held, todo, disp, buffer, closed, workers, cancelled, crashed, round>>

Found(s) ==
  /\ task[s] = "scanning"
  /\ task' = [task EXCEPT ![s] = "sending"]
  /\ UNCHANGED <<main, held, todo, disp, buffer, closed, workers, cancelled, crashed, round>>

(* Faulty variant: a failed scan keeps its place in the semaphore. *)
KeepPlace(s) == [task EXCEPT ![s] = "scanning"]

Leave(s) == [task EXCEPT ![s] = "none"]

ScanFails(s) ==
  /\ task[s] = "scanning"
  /\ task' = Leave(s)
  /\ failed' = failed \cup {s}
  /\ UNCHANGED <<main, held, todo, disp, buffer, closed, workers, cancelled, crashed, pool, counted>>

Full == Cardinality(buffer) >= 2 * ScanConc

(* The select of a task that has a datum.  Among the cases that are ready  *)
(* it takes any; a send to a closed channel counts as ready, and panics in *)
(* a goroutine that has no recover.                                        *)
Send(s) ==
  /\ task[s] = "sending"
  /\ ~closed /\ ~Full
  /\ buffer' = buffer \cup {s}
  /\ task' = Leave(s)
  /\ UNCHANGED <<main, held, todo, disp, closed, workers, cancelled, crashed, round>>

SendPanics(s) ==
  /\ task[s] = "sending"
  /\ closed
  /\ crashed' = TRUE
  /\ UNCHANGED <<main, held, stream, workers, cancelled, round>>

Discard(s) ==
  /\ task[s] = "sending"
  /\ cancelled
  /\ task' = Leave(s)
  /\ UNCHANGED <<main, held, todo, disp, buffer, closed, workers, cancelled, crashed, round>>

(* Faulty variant: a datum that finds the channel full is dropped. *)
DropWhenFull(s) ==
  /\ task[s] = "sending"
  /\ ~closed /\ Full /\ ~cancelled
  /\ task' = Leave(s)
  /\ UNCHANGED <<main, held, todo, disp, buffer, closed, workers, cancelled, crashed, round>>

(* No case is ready: the task sleeps in the select. *)
Park(s) ==
  /\ task[s] = "sending"
  /\ ~closed /\ Full /\ ~cancelled
  /\ task' = [task EXCEPT ![s] = "parked"]
  /\ UNCHANGED <<main, held, todo, disp, buffer, closed, workers, cancelled, crashed, round>>

-----------------------------------------------------------------------------
(* A worker's ProcessSignal returns. *)
WorkerReturns(s) ==
  /\ s \in workers
  /\ workers' = workers \ {s}
  /\ UNCHANGED <<main, held, stream, cancelled, crashed, round>>

(* ProcessSignal panics: the deferred function releases the semaphore and  *)
(* the wait group before it recovers, so the round does not notice.        *)
WorkerPanics(s) ==
  /\ s \in workers
  /\ workers' = workers \ {s}
  /\ UNCHANGED <<main, held, stream, cancelled, crashed, round>>

(* SIGTERM: main cancels the context; tasks asleep in their select wake up *)
(* and leave.                                                              *)
Cancel ==
  /\ ~cancelled
  /\ cancelled' = TRUE
  /\ task' = [s \in Symbols |-> IF task[s] = "parked" THEN "none" ELSE task[s]]
  /\ UNCHANGED <<main, held, todo, disp, buffer, closed, workers, crashed, round>>

Main == Top \/ Start \/ StartFails \/ Retry \/ Receive \/ HandOver
          \/ EndOfStream \/ Join \/ Sleep

Dispatcher == Dispatch \/ Desert \/ Close

Task(s) == Scan(s) \/ Found(s) \/ ScanFails(s) \/ Send(s) \/ SendPanics(s)
             \/ Discard(s) \/ Park(s)

Worker(s) == WorkerReturns(s) \/ WorkerPanics(s)

Next ==
  /\ ~crashed
  /\ \/ Main
     \/ Dispatcher
     \/ \E s \in Symbols : Task(s) \/ Worker(s)
     \/ Cancel

Spec == Init /\ [][Next]_vars

(* Every goroutine that can go on does; scans and ProcessSignal come to an *)
(* end (their requests have timeouts).                                     *)
FairSpec ==
  /\ Spec
  /\ WF_vars(~crashed /\ Main)
  /\ WF_vars(~crashed /\ Dispatcher)
  /\ \A s \in Symbols :
       /\ WF_vars(~crashed /\ Task(s))
       /\ WF_vars(~crashed /\ Worker(s))

-----------------------------------------------------------------------------
(* The variables keep to their ranges, the two semaphores and the buffer   *)
(* to their sizes.                                                         *)
TypeOK ==
  /\ main \in {"top", "pool", "retry", "range", "hold", "join", "sleep", "stopped"}
  /\ Cardinality(Holding) <= ScanConc /\ Cardinality(workers) <= BatchSize
  /\ Cardinality(buffer) <= 2 * ScanConc
  /\ held \subseteq Symbols /\ todo \subseteq Symbols
  /\ disp \in {"off", "loop"}
  /\ task \in [Symbols -> States]
  /\ buffer \subseteq Symbols /\ closed \in BOOLEAN
  /\ workers \subseteq Symbols
  /\ cancelled \in BOOLEAN /\ crashed \in BOOLEAN
  /\ pool \subseteq Symbols /\ counted \subseteq Symbols /\ failed \subseteq Symbols

(* A round that runs to its end uncancelled has counted every symbol of    *)
(* its pool whose scan did not fail: nothing found is dropped between the  *)
(* tasks, the channel and the loop.                                        *)
NothingLost ==
  main \in {"join", "sleep"} /\ ~cancelled => counted = pool \ failed

(* Rounds do not overlap: when one is over no task of it scans on, unless  *)
(* the dispatcher deserted, and no worker, cancelled or not.               *)
RoundsDisjoint ==
  main \in {"top", "pool", "retry", "sleep", "stopped"} =>
    /\ workers = {}
    /\ ~cancelled => Active = {} /\ buffer = {}

(* The panic of a send to the closed channel needs a cancelled context:    *)
(* in normal running the channel outlives its senders.                     *)
CrashOnlyAfterCancel == crashed => cancelled

(* Every round comes to its end, failing scans and panicking workers       *)
(* included, however small the semaphores and the buffer.                  *)
RoundEnds == main = "range" ~> main = "sleep" \/ crashed

(* A cancelled scanner returns, so that main's wait group is released.     *)
ScannerStops == cancelled ~> main = "stopped" \/ crashed

(* main.go:155 "give the services some time to shut down gracefully":      *)
(* shutting down does not crash the program.                               *)
GracefulShutdown == ~crashed

(* main.go:152 "cancel the context, telling all goroutines to stop": no    *)
(* signal is handed to a worker after the cancel.                          *)
NoSignalAfterCancel == [][cancelled => workers' \subseteq workers]_vars
=============================================================================
