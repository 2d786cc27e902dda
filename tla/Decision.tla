------------------------------ MODULE Decision ------------------------------
(***************************************************************************)
(* How a worker turns a market datum into a signal: Bot.ProcessSignal with *)
(* the AI trader (three attempts, decision history, statistics) or the     *)
(* rule strategy (response history, statistics), chosen by the ai_mode key *)
(* that the operator may change at any time.  What is pushed then is the   *)
(* subject of TradeQueue.                                                  *)
(*                                                                         *)
(* Prices and texts are left out; of an error message its length is kept,  *)
(* of a Redis key what kind of value it holds.                             *)
(***************************************************************************)
EXTENDS Integers

CONSTANTS
  Workers,       \* goroutines that run ProcessSignal
  HasTrader,     \* whether GetAITrader found a provider
  MaxAttempts,   \* maxRetries (3)
  ErrorLengths   \* lengths of the exchange client's error messages

ASSUME DecisionConstants ==
  HasTrader \in BOOLEAN /\ MaxAttempts \in Nat \ {0} /\ ErrorLengths \subseteq Nat

Modes == {"ai", "rule"}

VARIABLES
  override,  \* the ai_mode key: a mode, or "unset"
  stats,     \* what ai_api_stats holds: nothing, a "text" or a "hash"
  shown,     \* whose decision heads deepseek_analysis_response_history
  latest,    \* whose decision heads ai_decision_history
  pc,        \* where each worker is in ProcessSignal
  job        \* the local variables of its call

keys == <<override, stats, shown, latest>>
vars == <<keys, pc, job>>

(* The mode without an override, and the one that a worker then works in. *)
Default == IF HasTrader THEN "ai" ELSE "rule"
Effective(mode) == IF HasTrader /\ mode \in Modes THEN mode ELSE Default

(* The locals: the mode that was read, the calls made to the provider,     *)
(* whether the last one returned an error, whether there is a signal; and  *)
(* histories: who made the decision, the calls that RecordAIRequest has    *)
(* counted, the modes in force since the datum came, whether ai_mode could *)
(* not be read.                                                            *)
NoJob == [source |-> Default, attempt |-> 0, erred |-> FALSE, trade |-> FALSE,
          by |-> "nobody", counted |-> 0, seen |-> {}, misread |-> FALSE]

Goto(w, label) == pc' = [pc EXCEPT ![w] = label]
Return(w) == pc' = [pc EXCEPT ![w] = "idle"] /\ job' = [job EXCEPT ![w] = NoJob]

Init ==
  /\ override = "unset" /\ stats = "none" /\ shown = "nobody" /\ latest = "nobody"
  /\ pc = [w \in Workers |-> "idle"]
  /\ job = [w \in Workers |-> NoJob]

(* The operator: handleSetAIMode. *)
SetMode ==
  \E mode \in Modes :
    /\ override' = mode
    /\ job' = [w \in Workers |->
                 IF pc[w] = "idle" THEN job[w]
                 ELSE [job[w] EXCEPT !.seen = @ \cup {Effective(mode)}]]
    /\ UNCHANGED <<stats, shown, latest, pc>>

(* The TTL of the statistics runs out. *)
StatsExpire ==
  /\ stats' = "none"
  /\ UNCHANGED <<override, shown, latest, pc, job>>

(* A datum comes. *)
Begin(w) ==
  /\ pc[w] = "idle"
  /\ job' = [job EXCEPT ![w].seen = {Effective(override)}]
  /\ Goto(w, "mode")
  /\ UNCHANGED keys

(* getAIMode; when the GET fails the default takes the override's place. *)
ReadMode(w) ==
  /\ pc[w] = "mode"
  /\ \/ job' = [job EXCEPT ![w].source = Effective(override)]
     \/ job' = [job EXCEPT ![w].source = Default, ![w].misread = TRUE]
  /\ Goto(w, "account")
  /\ UNCHANGED keys

(* getAccountSnapshot: the account is read, or the first 200 bytes of the  *)
(* error are kept and the decision made without it.                        *)
Account(w) ==
  /\ pc[w] = "account"
  /\ Goto(w, IF job[w].source = "ai" THEN "ask" ELSE "rule")
  /\ UNCHANGED <<keys, job>>

(* Slicing a shorter message panics. *)
AccountPanics(w) ==
  /\ pc[w] = "account"
  /\ \E n \in ErrorLengths : n < 200
  /\ Goto(w, "panicked")
  /\ UNCHANGED <<keys, job>>

(* Faulty variant: a panic that nobody recovers. *)
RecoverNot(w) == pc[w] = "panicked" /\ UNCHANGED vars

(* A panic unwinds ProcessSignal, which recovers nothing; the deferred     *)
(* function of the worker in runScanner does, and the datum is over.       *)
Recover(w) ==
  /\ pc[w] = "panicked"
  /\ Return(w)
  /\ UNCHANGED keys

(* What ChatCompletion returns: content, a choice without content, or an   *)
(* error (of the connection, a status other than 200, a body that is not   *)
(* understood).                                                            *)
Replies == {"content", "empty", "error"}

(* It answers. *)
Answered(w) ==
  /\ pc[w] = "ask"
  /\ job' = [job EXCEPT ![w].attempt = @ + 1, ![w].counted = @ + 1]
  /\ Goto(w, "parse")
  /\ UNCHANGED keys

(* Faulty variant: a fourth attempt. *)
AskOnceMore(w) ==
  /\ pc[w] = "ask"
  /\ \E error \in BOOLEAN :
       job' = [job EXCEPT ![w].attempt = @ + 1, ![w].counted = @ + 1,
                           ![w].erred = error]
  /\ Goto(w, IF job[w].attempt < MaxAttempts THEN "sleep" ELSE "exhausted")
  /\ UNCHANGED keys

(* It brings no content; unless this was the last attempt the worker       *)
(* sleeps before the next.                                                 *)
Unanswered(w) ==
  /\ pc[w] = "ask"
  /\ \E reply \in Replies \ {"content"} :
       job' = [job EXCEPT ![w].attempt = @ + 1, ![w].counted = @ + 1,
                           ![w].erred = (reply = "error")]
  /\ Goto(w, IF job[w].attempt + 1 < MaxAttempts THEN "sleep" ELSE "exhausted")
  /\ UNCHANGED keys

AskAgain(w) ==
  /\ pc[w] = "sleep"
  /\ Goto(w, "ask")
  /\ UNCHANGED <<keys, job>>

(* No attempt has brought an answer: the failure is counted once more. *)
CountFailure(w) ==
  /\ pc[w] = "exhausted"
  /\ job' = [job EXCEPT ![w].counted = @ + 1]
  /\ Goto(w, "failed")
  /\ UNCHANGED keys

(* writeAIStats: a SET, whatever the key held. *)
WriteAIStats == stats' = "text"

(* Then it is recorded, with the text of the last error. *)
Failed(w) ==
  /\ pc[w] = "failed"
  /\ job[w].erred
  /\ WriteAIStats
  /\ Return(w)
  /\ UNCHANGED <<override, shown, latest>>

(* If the last answer was merely empty, that error is nil: its Error()     *)
(* panics before anything is recorded.                                     *)
FailedPanics(w) ==
  /\ pc[w] = "failed"
  /\ ~job[w].erred
  /\ Goto(w, "panicked")
  /\ UNCHANGED <<keys, job>>

(* Faulty variant: a failed AI decision leaves the datum to the rule. *)
FallBack(w) ==
  /\ pc[w] = "parse"
  /\ WriteAIStats
  /\ Goto(w, "rule")
  /\ UNCHANGED <<override, shown, latest, job>>

(* parseAIResponse fails: the failure is recorded. *)
Unparsable(w) ==
  /\ pc[w] = "parse"
  /\ WriteAIStats
  /\ Return(w)
  /\ UNCHANGED <<override, shown, latest>>

(* LPUSH on ai_decision_history. *)
SaveDecisionHistory == latest' = "ai"

(* It succeeds, with a signal or to wait. *)
Parsed(w) ==
  /\ pc[w] = "parse"
  /\ SaveDecisionHistory
  /\ \E signal \in BOOLEAN : job' = [job EXCEPT ![w].trade = signal, ![w].by = "ai"]
  /\ Goto(w, "aiStats")
  /\ UNCHANGED <<override, stats, shown>>

(* The end of a decision: the signal is pushed, if there is one. *)
Decided(w) ==
  \/ job[w].trade /\ Goto(w, "push") /\ UNCHANGED job
  \/ ~job[w].trade /\ Return(w)

(* The success is recorded. *)
AIStats(w) ==
  /\ pc[w] = "aiStats"
  /\ WriteAIStats
  /\ Decided(w)
  /\ UNCHANGED <<override, shown, latest>>

(* The rule strategy decides; saveRuleDecisionHistory pushes its decision. *)
Rule(w) ==
  /\ pc[w] = "rule"
  /\ shown' = "rule"
  /\ \E signal \in BOOLEAN : job' = [job EXCEPT ![w].trade = signal, ![w].by = "rule"]
  /\ Goto(w, "ruleStats")
  /\ UNCHANGED <<override, stats, latest>>

(* Its HSET, which fails on a key that holds a text; the error is ignored. *)
RuleStats(w) ==
  /\ pc[w] = "ruleStats"
  /\ stats' = IF stats = "text" THEN stats ELSE "hash"
  /\ Decided(w)
  /\ UNCHANGED <<override, shown, latest>>

(* The signal is stored and queued. *)
Push(w) ==
  /\ pc[w] = "push"
  /\ Return(w)
  /\ UNCHANGED keys

Ask(w) == Answered(w) \/ Unanswered(w)

GoOn(w) ==
  ReadMode(w) \/ Account(w) \/ AccountPanics(w) \/ Ask(w) \/ AskAgain(w)
    \/ CountFailure(w) \/ Failed(w) \/ FailedPanics(w) \/ Unparsable(w) \/ Parsed(w)
    \/ AIStats(w) \/ Rule(w) \/ RuleStats(w) \/ Push(w) \/ Recover(w)

Next == SetMode \/ StatsExpire \/ \E w \in Workers : Begin(w) \/ GoOn(w)

Spec == Init /\ [][Next]_vars

(* A worker that has a datum is scheduled; every request has a timeout. *)
FairSpec == Spec /\ \A w \in Workers : WF_vars(GoOn(w))

-----------------------------------------------------------------------------
Labels == {"idle", "mode", "account", "ask", "sleep", "exhausted", "failed", "parse",
           "aiStats", "rule", "ruleStats", "push", "panicked"}

(* The variables keep to their ranges; a datum costs at most MaxAttempts   *)
(* calls to the provider.                                                  *)
TypeOK ==
  /\ override \in Modes \cup {"unset"}
  /\ stats \in {"none", "text", "hash"}
  /\ shown \in {"nobody", "rule"} /\ latest \in {"nobody", "ai"}
  /\ pc \in [Workers -> Labels]
  /\ job \in [Workers -> [source : Modes, attempt : 0..MaxAttempts,
                           erred : BOOLEAN, trade : BOOLEAN,
                           by : Modes \cup {"nobody"},
                           counted : 0..(MaxAttempts + 1),
                           seen : SUBSET Modes, misread : BOOLEAN]]

(* A signal comes from a mode that was in force while its datum was worked *)
(* on, though the operator may switch at any moment and the AI may fail: a *)
(* mode that was switched off before trades only if reading the key failed.*)
ModeRespected ==
  \A w \in Workers : pc[w] = "push" => job[w].by \in job[w].seen \/ job[w].misread

(* A datum comes to an end whatever the provider answers and whatever      *)
(* panics on the way: the worker recovers and takes others.                *)
DecisionEnds == \A w \in Workers : pc[w] # "idle" ~> pc[w] = "idle"

(* bot.go:420 "update the AI statistics (marked as rule mode)": when the   *)
(* statistics of a rule decision are written, the key holds them.          *)
RuleStatsRecorded ==
  [][\A w \in Workers : pc[w] = "ruleStats" /\ pc'[w] # "ruleStats" => stats' = "hash"]_vars

(* bot.go:79 "reading the account failed, going on with the market data":  *)
(* the datum's decision is made either way.                                *)
AccountErrorHarmless ==
  [][\A w \in Workers : pc[w] = "account" => pc'[w] # "panicked"]_vars

(* README.md:222 "business metrics: signals, orders, AI requests, success  *)
(* rate": an AI request is counted once.                                   *)
RequestsCounted == \A w \in Workers : job[w].counted <= job[w].attempt

(* handlers.go:476 "get the latest AI decision": once the AI has decided,  *)
(* the decision that the page shows is the AI's.                           *)
LatestDecisionShown == latest = "ai" => shown = "ai"
=============================================================================
