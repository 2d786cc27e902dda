---------------------------- MODULE TradeQueue ----------------------------
(***************************************************************************)
(* The hand-over of trading signals: in each round of runScanner (main.go) *)
(* goroutines run ProcessSignal (bot.go) for different symbols at the same *)
(* time and write Redis one command at a time; RunBot loops pop            *)
(* trade_queue and execute.                                                *)
(*                                                                         *)
(* A Redis list is kept oldest first: LPUSH appends, BRPOP takes the head, *)
(* LTRIM 0 n-1 keeps the n newest.  go-redis sends a command again when no *)
(* answer comes (redis.go:22 keeps its default retries), so an LPUSH may   *)
(* take effect more than once: an element of the queue is the n-th signal  *)
(* decided for its symbol and the try that pushed it.  The number of the   *)
(* try is not in Redis; it tells the copies of one signal apart.  The      *)
(* signal:<symbol> key and the signal_history list hold copies nobody      *)
(* executes; the history is kept as a length.                              *)
(***************************************************************************)
EXTENDS Naturals, Sequences, FiniteSets, Functions

CONSTANTS
  Workers,      \* places of the semaphore for ProcessSignal (AIBatchSize)
  Symbols,      \* the pool; a round has each of them at most once
  Bots,         \* RunBot loops
  MaxQueue,     \* MaxTradeQueueSize
  MaxHistory,   \* SignalHistoryMaxLen
  MaxRetries,   \* how often go-redis sends a command again
  None,         \* no signal in hand
  Limit,        \* bound of the model: signals decided for one symbol
  MaxFaults     \* bound of the model: answers that do not come, and deaths

(* Signal n of a symbol as its try-th LPUSH left it. *)
Message == [symbol : Symbols, n : 1..Limit, try : 0..MaxRetries]

ASSUME QueueConstants ==
  /\ MaxQueue \in Nat \ {0}
  /\ MaxHistory \in Nat \ {0}
  /\ MaxRetries \in Nat
  /\ Limit \in Nat
  /\ MaxFaults \in Nat
  /\ None \notin Message

VARIABLES
  todo,      \* symbols of the round that no worker has had yet
  made,      \* number of signals decided for each symbol
  job,       \* the signal a worker has yet to push, with its next try
  queue,     \* trade_queue
  history,   \* length of signal_history
  wpc,       \* next Redis command of each worker
  bpc,       \* "pop" (in BRPOP) or "execute" for each bot
  received,  \* signals popped, in order
  faults     \* answers lost, commands failed and deaths so far

vars == <<todo, made, job, queue, history, wpc, bpc, received, faults>>

Init ==
  /\ todo = Symbols
  /\ made = [s \in Symbols |-> 0]
  /\ job = [w \in Workers |-> None]
  /\ queue = <<>>
  /\ history = 0
  /\ wpc = [w \in Workers |-> "decide"]
  /\ bpc = [b \in Bots |-> "pop"]
  /\ received = <<>>
  /\ faults = 0

Fault ==
  /\ faults < MaxFaults
  /\ faults' = faults + 1

(* A command is answered, and the worker goes on to its next one. *)
Answered(w, next) ==
  /\ wpc' = [wpc EXCEPT ![w] = next]
  /\ UNCHANGED faults

(* No answer, or an error: go-redis sends the command again, or gives up   *)
(* and the worker goes on, as the error is not looked at.                  *)
Unanswered(w, next) ==
  /\ Fault
  /\ wpc' = [wpc EXCEPT ![w] = next] \/ UNCHANGED wpc

(* Faulty variant: the round not joined. *)
NextRoundUnjoined ==
  /\ todo' = Symbols
  /\ UNCHANGED <<made, job, queue, history, wpc, bpc, received, faults>>

(* The workers are joined, the scanner sleeps and scans the pool again.    *)
NextRound ==
  /\ \A w \in Workers : wpc[w] = "decide"
  /\ todo' = Symbols
  /\ UNCHANGED <<made, job, queue, history, wpc, bpc, received, faults>>

(* The decision is a trading action with a signal, and signal:<symbol> is  *)
(* set.  A symbol that gets none (ProcessSignal returns at once) stays in  *)
(* todo for the rest of the round.                                         *)
Decide(w) ==
  /\ wpc[w] = "decide"
  /\ \E s \in todo :
       /\ made[s] < Limit
       /\ todo' = todo \ {s}
       /\ made' = [made EXCEPT ![s] = @ + 1]
       /\ job' = [job EXCEPT ![w] = [symbol |-> s, n |-> made[s] + 1, try |-> 0]]
  /\ wpc' = [wpc EXCEPT ![w] = "push_history"]
  /\ UNCHANGED <<queue, history, bpc, received, faults>>

(* LPUSH signal_history; its tries are not counted, only its length is     *)
(* kept.                                                                   *)
PushHistory(w) ==
  /\ wpc[w] = "push_history"
  /\ \/ history' = history + 1 /\ Answered(w, "trim_history")
     \/ history' \in {history, history + 1} /\ Unanswered(w, "trim_history")
  /\ UNCHANGED <<todo, made, job, queue, bpc, received>>

(* Faulty variant: LTRIM n -1, which drops the n latest. *)
DropHistory(w) ==
  /\ wpc[w] = "trim_history"
  /\ history' = history - MaxHistory
  /\ Answered(w, "push_queue")
  /\ UNCHANGED <<todo, made, job, queue, bpc, received>>

(* The length LTRIM 0 MaxHistory-1 leaves. *)
Trimmed == IF history > MaxHistory THEN MaxHistory ELSE history

TrimHistory(w) ==
  /\ wpc[w] = "trim_history"
  /\ \/ history' = Trimmed /\ Answered(w, "push_queue")
     \/ history' \in {history, Trimmed} /\ Unanswered(w, "push_queue")
  /\ UNCHANGED <<todo, made, job, queue, bpc, received>>

(* LPUSH trade_queue is over for the worker, whatever became of it. *)
LetGo(w) ==
  /\ wpc' = [wpc EXCEPT ![w] = "trim_queue"]
  /\ job' = [job EXCEPT ![w] = None]

(* It is sent once more. *)
Resend(w) ==
  /\ job[w].try < MaxRetries
  /\ job' = [job EXCEPT ![w].try = @ + 1]
  /\ UNCHANGED wpc

(* LPUSH trade_queue: without an answer it may have taken effect or not,   *)
(* and is sent again or given up (retries used up, an error that is not    *)
(* retried, a cancelled context).                                          *)
PushQueue(w) ==
  /\ wpc[w] = "push_queue"
  /\ \/ /\ queue' = Append(queue, job[w])
        /\ LetGo(w)
        /\ UNCHANGED faults
     \/ /\ queue' = Append(queue, job[w]) \/ UNCHANGED queue
        /\ Resend(w) \/ LetGo(w)
        /\ Fault
  /\ UNCHANGED <<todo, made, history, bpc, received>>

(* Faulty variant: the oldest signals are kept. *)
Oldest(s, n) == IF Len(s) > n THEN SubSeq(s, 1, n) ELSE s

(* What LTRIM 0 n-1 leaves. *)
Newest(s, n) == IF Len(s) > n THEN SubSeq(s, Len(s) - n + 1, Len(s)) ELSE s

(* Faulty variant: the trim forgotten. *)
SkipTrimQueue(w) ==
  /\ wpc[w] = "trim_queue"
  /\ Answered(w, "decide")
  /\ UNCHANGED <<todo, made, job, queue, history, bpc, received>>

(* LTRIM trade_queue 0 MaxQueue-1, the end of ProcessSignal. *)
TrimQueue(w) ==
  /\ wpc[w] = "trim_queue"
  /\ \/ queue' = Newest(queue, MaxQueue) /\ Answered(w, "decide")
     \/ queue' \in {queue, Newest(queue, MaxQueue)} /\ Unanswered(w, "decide")
  /\ UNCHANGED <<todo, made, job, history, bpc, received>>

(* BRPOP returns the oldest signal; it is gone from Redis from here on. *)
Pop(b) ==
  /\ bpc[b] = "pop"
  /\ queue # <<>>
  /\ received' = Append(received, Head(queue))
  /\ queue' = Tail(queue)
  /\ bpc' = [bpc EXCEPT ![b] = "execute"]
  /\ UNCHANGED <<todo, made, job, history, wpc, faults>>

(* BRPOP takes the signal and its answer is lost: the next BRPOP follows,  *)
(* sent again or from the next turn of the loop.                           *)
PopLost(b) ==
  /\ bpc[b] = "pop"
  /\ queue # <<>>
  /\ queue' = Tail(queue)
  /\ Fault
  /\ UNCHANGED <<todo, made, job, history, wpc, bpc, received>>

(* Faulty variant: the loop ends with a signal that fails. *)
FinishForGood(b) == bpc[b] = "execute" /\ UNCHANGED vars

(* The signal is executed, or it fails (busy lock, dedupe, exchange error) *)
(* or the process dies: in every case the next BRPOP follows, no retry.    *)
Finish(b) ==
  /\ bpc[b] = "execute"
  /\ bpc' = [bpc EXCEPT ![b] = "pop"]
  /\ UNCHANGED <<todo, made, job, queue, history, wpc, received, faults>>

(* A worker dies between two commands: its process ends, and with it the   *)
(* other workers, one after the other, before there is a next round.       *)
WorkerDies(w) ==
  /\ wpc[w] # "decide"
  /\ wpc' = [wpc EXCEPT ![w] = "decide"]
  /\ job' = [job EXCEPT ![w] = None]
  /\ Fault
  /\ UNCHANGED <<todo, made, queue, history, bpc, received>>

WorkerStep(w) ==
  \/ Decide(w)
  \/ PushHistory(w)
  \/ TrimHistory(w)
  \/ PushQueue(w)
  \/ TrimQueue(w)

BotStep(b) == Pop(b) \/ Finish(b)

Next ==
  \/ NextRound
  \/ \E w \in Workers : WorkerStep(w) \/ WorkerDies(w)
  \/ \E b \in Bots : BotStep(b) \/ PopLost(b)

Spec == Init /\ [][Next]_vars

(* RunBot never stops popping while its process is up. *)
FairSpec == Spec /\ \A b \in Bots : WF_vars(BotStep(b))

-----------------------------------------------------------------------------

TypeOK ==
  /\ todo \in SUBSET Symbols
  /\ made \in [Symbols -> 0..Limit]
  /\ job \in [Workers -> Message \cup {None}]
  /\ queue \in Seq(Message)
  /\ history \in Nat
  /\ wpc \in [Workers -> {"decide", "push_history", "trim_history",
                          "push_queue", "trim_queue"}]
  /\ bpc \in [Bots -> {"pop", "execute"}]
  /\ received \in Seq(Message)
  /\ faults \in 0..MaxFaults

(* Workers that pushed and have not trimmed yet. *)
Untrimmed(pc) == {w \in Workers : wpc[w] = pc}

(* MAX_TRADE_QUEUE_SIZE really bounds trade_queue although LPUSH and LTRIM *)
(* are two commands: it is exceeded only by the workers between the two,   *)
(* by pushes sent again and by trims that failed.                          *)
QueueBounded ==
  Len(queue) <= MaxQueue + Cardinality(Untrimmed("trim_queue")) + faults

(* The same for signal_history. *)
HistoryBounded ==
  history <= MaxHistory + Cardinality(Untrimmed("trim_history")) + faults

(* Both lists keep to their limits, but for the workers that are between   *)
(* their push and their trim and for the commands that went wrong.         *)
ListsBounded == QueueBounded /\ HistoryBounded

(* Of one symbol, x was decided before y, or is an earlier try to push it. *)
Earlier(x, y) ==
  x.symbol = y.symbol => x.n < y.n \/ (x.n = y.n /\ x.try < y.try)

Ordered(s) == \A i, j \in DOMAIN s : i < j => Earlier(s[i], s[j])

(* The signals of one symbol are popped in the order they were decided:    *)
(* what was popped is earlier than what waits, and both are in order.      *)
InOrder ==
  /\ Ordered(received)
  /\ Ordered(queue)
  /\ \A x \in Range(received), y \in Range(queue) : Earlier(x, y)

(* A copy of a signal exists only because an answer was lost. *)
CopiesCounted == \A x \in Range(received) \cup Range(queue) : x.try <= faults

(* However the workers of the rounds of one scanner interleave and their   *)
(* pushes are repeated, the executor is never handed an older decision for *)
(* a symbol after a newer one, and one decision twice only after an answer *)
(* was lost.  It is the join of runScanner that sees to it.  Two bots may  *)
(* still carry out what they popped in any order.                          *)
PoppedInDecidedOrder == InOrder /\ CopiesCounted

(* The queue implements the channel: nothing but an overflow or a lost     *)
(* answer of BRPOP loses a waiting signal, and then the oldest ones go.    *)
Channel == INSTANCE SignalChannel
             WITH Capacity <- MaxQueue, Messages <- Message, waiting <- queue
ImplementsChannel == Channel!Spec

(* With a live RunBot loop a queue that holds signals keeps moving: no     *)
(* signal waits for ever.                                                  *)
SignalsLeaveQueue ==
  \A m \in Message : (m \in Range(queue)) ~> (m \notin Range(queue))

=============================================================================
