----------------------------- MODULE WebSession -----------------------------
(***************************************************************************)
(* One dashboard connection: handleWebSocket in internal/web/websocket.go. *)
(* The handler's context is made for the check of the token, with the      *)
(* default timeout, and stays in the select of the push loop; a second     *)
(* goroutine reads from the connection to notice that the peer is gone.    *)
(* Time is in seconds.  What is pushed, and the token, are left out.       *)
(***************************************************************************)
EXTENDS Integers

CONSTANTS
  DefaultTimeout,  \* of the handler's context (utils.WithDefaultTimeout, 5s)
  PushEvery,       \* ticker (5s)
  PingEvery,       \* pingTicker (30s)
  ReadDeadline     \* set once, when the connection is made (60s)

ASSUME SessionConstants ==
  /\ DefaultTimeout \in Nat \ {0} /\ PushEvery \in Nat \ {0}
  /\ PingEvery \in Nat \ {0} /\ ReadDeadline \in Nat \ {0}

VARIABLES
  handler,  \* "idle", "upgrading", in the "loop", or "closed"
  reader,   \* the reading goroutine: "off", "reading", or it "has" an error
  errChan,  \* whether errChan, which has room for one, holds an error
  peer,     \* whether the other side is still there
  ctx,      \* time left before ctx.Done
  push,     \* time left before the next tick of ticker
  ping,     \* and of pingTicker
  due,      \* the tickers whose channel holds a tick: "push", "ping"
  reading,  \* time left before the read deadline
  pushed    \* history: whether a message has been sent in this session

timers == <<ctx, push, ping, due, reading>>
vars == <<handler, reader, errChan, peer, timers, pushed>>

Init ==
  /\ handler = "idle" /\ reader = "off" /\ errChan = FALSE /\ peer = FALSE
  /\ ctx = 0 /\ push = 0 /\ ping = 0 /\ due = {} /\ reading = 0
  /\ pushed = FALSE

(* A request comes in and its token is good. *)
Connect ==
  /\ handler = "idle"
  /\ handler' = "upgrading"
  /\ ctx' = DefaultTimeout
  /\ peer' = TRUE
  /\ UNCHANGED <<reader, errChan, push, ping, due, reading, pushed>>

(* Upgrade succeeds: deadline and tickers are set, the reader started. *)
Upgrade ==
  /\ handler = "upgrading"
  /\ handler' = "loop"
  /\ reading' = ReadDeadline
  /\ push' = PushEvery /\ ping' = PingEvery /\ due' = {}
  /\ reader' = "reading" /\ errChan' = FALSE
  /\ pushed' = FALSE
  /\ UNCHANGED <<peer, ctx>>

UpgradeFails ==
  /\ handler = "upgrading"
  /\ handler' = "idle"
  /\ UNCHANGED <<reader, errChan, peer, timers, pushed>>

(* Leaving the loop: the deferred calls stop the tickers and close the     *)
(* connection.                                                             *)
Close ==
  /\ handler' = "closed"
  /\ due' = {} /\ push' = 0 /\ ping' = 0
  /\ UNCHANGED <<reader, peer, ctx, reading, pushed>>

CtxDone ==
  /\ handler = "loop" /\ ctx = 0
  /\ Close
  /\ UNCHANGED errChan

ErrReceived ==
  /\ handler = "loop" /\ errChan
  /\ errChan' = FALSE
  /\ Close

(* A tick of either ticker: what is due is written to the connection. *)
Write ==
  /\ handler = "loop"
  /\ \E what \in due :
       /\ due' = due \ {what}
       /\ pushed' = (pushed \/ what = "push")
  /\ UNCHANGED <<handler, reader, errChan, peer, ctx, push, ping, reading>>

(* The write fails, as it may when the peer is gone. *)
WriteFails ==
  /\ handler = "loop" /\ due # {} /\ ~peer
  /\ Close
  /\ UNCHANGED errChan

(* The peer goes away. *)
PeerLeaves ==
  /\ peer /\ handler \in {"loop", "closed"}
  /\ peer' = FALSE
  /\ UNCHANGED <<handler, reader, errChan, timers, pushed>>

(* ReadMessage fails: the peer is gone, the deadline has passed, or the    *)
(* connection has been closed.                                             *)
ReadFails ==
  /\ reader = "reading"
  /\ ~peer \/ reading = 0 \/ handler = "closed"
  /\ reader' = "has"
  /\ UNCHANGED <<handler, errChan, peer, timers, pushed>>

(* Faulty variant: errChan without a buffer, where only the loop receives. *)
ReportUnbuffered ==
  /\ reader = "has" /\ handler = "loop"
  /\ errChan' = TRUE
  /\ reader' = "off"
  /\ UNCHANGED <<handler, peer, timers, pushed>>

(* The error is sent to errChan, where there is room, and the reader ends. *)
Report ==
  /\ reader = "has" /\ ~errChan
  /\ errChan' = TRUE
  /\ reader' = "off"
  /\ UNCHANGED <<handler, peer, timers, pushed>>

(* Another connection, once nothing of this one is left. *)
Again ==
  /\ handler = "closed" /\ reader = "off"
  /\ handler' = "idle" /\ errChan' = FALSE /\ peer' = FALSE
  /\ ctx' = 0 /\ reading' = 0
  /\ UNCHANGED <<reader, push, ping, due, pushed>>

Less(t) == IF t > 0 THEN t - 1 ELSE 0

(* A second passes.  A ticker that comes to its end drops a tick into its  *)
(* channel, unless one is there, and begins again.                         *)
Second ==
  /\ handler # "idle"
  /\ ctx' = Less(ctx) /\ reading' = Less(reading)
  /\ IF handler = "loop"
     THEN /\ push' = IF push = 1 THEN PushEvery ELSE Less(push)
          /\ ping' = IF ping = 1 THEN PingEvery ELSE Less(ping)
          /\ due' = due \cup (IF push = 1 THEN {"push"} ELSE {})
                        \cup (IF ping = 1 THEN {"ping"} ELSE {})
     ELSE UNCHANGED <<push, ping, due>>
  /\ UNCHANGED <<handler, reader, errChan, peer, pushed>>

Handler == Upgrade \/ UpgradeFails \/ CtxDone \/ ErrReceived \/ Write \/ WriteFails

Reader == ReadFails \/ Report

Next == Connect \/ Handler \/ Reader \/ PeerLeaves \/ Again \/ Second

Spec == Init /\ [][Next]_vars

(* Time passes and both goroutines are scheduled.  Of several ready cases  *)
(* a select takes any; one that is ready time and again is taken some time.*)
FairSpec ==
  /\ Spec
  /\ WF_vars(Second) /\ WF_vars(Handler) /\ WF_vars(Reader)
  /\ SF_vars(CtxDone) /\ SF_vars(ErrReceived) /\ SF_vars(Write)

-----------------------------------------------------------------------------
(* The variables keep to their ranges. *)
TypeOK ==
  /\ handler \in {"idle", "upgrading", "loop", "closed"}
  /\ reader \in {"off", "reading", "has"}
  /\ errChan \in BOOLEAN /\ peer \in BOOLEAN /\ pushed \in BOOLEAN
  /\ ctx \in 0..DefaultTimeout /\ reading \in 0..ReadDeadline
  /\ push \in 0..PushEvery /\ ping \in 0..PingEvery
  /\ due \subseteq {"push", "ping"}

(* No connection leaves its reading goroutine behind, whichever side ends  *)
(* it and in whatever order the two goroutines notice.                     *)
ReaderEnds == reader # "off" ~> reader = "off"

(* README.md:35 "WebSocket: market data pushed in real time; status,       *)
(* positions, balance and market data": a connection whose peer stays gets *)
(* a message.                                                              *)
MessagesArrive == handler = "loop" ~> pushed \/ ~peer
=============================================================================
