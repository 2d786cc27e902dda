--------------------------- MODULE DecisionProofs ---------------------------
(***************************************************************************)
(* Theorems about Decision for every set of workers, any number of         *)
(* attempts, with and without an AI provider.                              *)
(***************************************************************************)
EXTENDS Decision, TLAPS

(* The mode that an override leaves in force is a mode. *)
LEMMA EffectiveIsMode ==
  Default \in Modes /\ \A mode : Effective(mode) \in Modes
BY DecisionConstants DEF Effective, Default, Modes

(***************************************************************************)
(* MaxAttempts bounds the calls because of where the worker is: before the *)
(* first it has made none, while it may still ask fewer than the maximum;  *)
(* and RecordAIRequest counts each of them once until the decision fails.  *)
(***************************************************************************)
AttemptsOf(w) ==
  /\ pc[w] \in {"idle", "mode", "account"} => job[w].attempt = 0
  /\ pc[w] \in {"ask", "sleep"} => job[w].attempt < MaxAttempts
  /\ pc[w] \notin {"failed", "panicked"} => job[w].counted = job[w].attempt

(* A worker has seen the mode that is in force now, and, unless it could   *)
(* not read the key, the one it works in.                                  *)
SourceOf(w) ==
  /\ pc[w] # "idle" => Effective(override) \in job[w].seen
  /\ pc[w] \notin {"idle", "mode"} => job[w].source \in job[w].seen \/ job[w].misread

(* The decision is made by the mode that was read: a worker is on the path *)
(* of that mode, and the one who decided is of that mode.                  *)
PathOf(w) ==
  /\ pc[w] \in {"ask", "sleep", "exhausted", "failed", "parse"} => job[w].source = "ai"
  /\ pc[w] = "rule" => job[w].source = "rule"
  /\ pc[w] \in {"aiStats", "ruleStats", "push"} => job[w].by = job[w].source

WorkerInv(w) == AttemptsOf(w) /\ SourceOf(w) /\ PathOf(w)
Inv == TypeOK /\ \A w \in Workers : WorkerInv(w)

Job == [source : Modes, attempt : 0..MaxAttempts, erred : BOOLEAN, trade : BOOLEAN,
        by : Modes \cup {"nobody"}, counted : 0..(MaxAttempts + 1),
        seen : SUBSET Modes, misread : BOOLEAN]

(* The locals of a worker without a datum are well typed. *)
LEMMA NoJobType == NoJob \in Job
BY EffectiveIsMode, DecisionConstants DEF NoJob, Job

(* A step of one worker that leaves the override keeps the invariant if    *)
(* its own part of it is kept.                                             *)
LEMMA OneWorker ==
  ASSUME Inv, NEW w \in Workers, NEW label \in Labels, NEW j \in Job,
         pc' = [pc EXCEPT ![w] = label], job' = [job EXCEPT ![w] = j],
         override' = override,
         stats' \in {"none", "text", "hash"},
         shown' \in {"nobody", "rule"}, latest' \in {"nobody", "ai"},
         WorkerInv(w)'
  PROVE  Inv'
<1>1. TypeOK'
  BY DEF Inv, TypeOK, Job
<1>2. ASSUME NEW v \in Workers PROVE WorkerInv(v)'
  <2>1. CASE v = w
    BY <2>1
  <2>2. CASE v # w
    <3>1. pc'[v] = pc[v] /\ job'[v] = job[v] /\ WorkerInv(v)
      BY <2>2 DEF Inv, TypeOK
    <3>2. QED
      BY <3>1 DEF WorkerInv, AttemptsOf, SourceOf, PathOf, Effective
  <2>3. QED
    BY <2>1, <2>2
<1>3. QED
  BY <1>1, <1>2 DEF Inv

(* A datum that is given up leaves nothing behind. *)
LEMMA ReturnKeeps ==
  ASSUME Inv, NEW w \in Workers, Return(w), override' = override,
         stats' \in {"none", "text", "hash"},
         shown' \in {"nobody", "rule"}, latest' \in {"nobody", "ai"}
  PROVE  Inv'
<1>1. pc'[w] = "idle" /\ job'[w] = NoJob
  BY DEF Return, Inv, TypeOK
<1>2. WorkerInv(w)'
  BY <1>1 DEF WorkerInv, AttemptsOf, SourceOf, PathOf, NoJob
<1>3. QED
  BY <1>2, OneWorker, NoJobType DEF Return, Labels

(* A worker that goes on in the mode it has read. *)
LEMMA GoesOn ==
  ASSUME Inv, NEW w \in Workers, NEW label \in Labels, Goto(w, label),
         NEW j \in Job, job' = [job EXCEPT ![w] = j],
         UNCHANGED override,
         stats' \in {"none", "text", "hash"},
         shown' \in {"nobody", "rule"}, latest' \in {"nobody", "ai"},
         pc[w] \notin {"idle", "mode"}, j.seen = job[w].seen,
         j.source = job[w].source, j.misread = job[w].misread,
         label \notin {"idle", "mode", "account"},
         label \in {"ask", "sleep"} => j.attempt < MaxAttempts,
         label \notin {"failed", "panicked"} => j.counted = j.attempt,
         label \in {"ask", "sleep", "exhausted", "failed", "parse"} => j.source = "ai",
         label = "rule" => j.source = "rule",
         label \in {"aiStats", "ruleStats", "push"} => j.by = j.source
  PROVE  Inv'
<1>1. pc'[w] = label /\ job'[w] = j
  BY DEF Goto, Inv, TypeOK
<1>2. WorkerInv(w)'
  <2>1. AttemptsOf(w)'
    BY <1>1 DEF AttemptsOf
  <2>2. SourceOf(w)'
    BY <1>1 DEF SourceOf, Effective, Inv, WorkerInv
  <2>3. PathOf(w)'
    BY <1>1 DEF PathOf
  <2>4. QED
    BY <2>1, <2>2, <2>3 DEF WorkerInv
<1>3. QED
  BY <1>2, OneWorker DEF Goto

(* The locals of a worker, and what is known of them. *)
LEMMA JobFacts ==
  ASSUME Inv, NEW w \in Workers
  PROVE  /\ job[w] \in Job /\ pc[w] \in Labels /\ WorkerInv(w)
         /\ job = [job EXCEPT ![w] = job[w]]
BY DEF Inv, TypeOK, Job

(* A worker that may ask has room for the call in both of its counts. *)
LEMMA OneMoreCall ==
  ASSUME NEW w \in Workers, job[w] \in Job, WorkerInv(w), pc[w] = "ask"
  PROVE  LET j == [job[w] EXCEPT !.attempt = @ + 1, !.counted = @ + 1]
         IN  /\ j \in Job /\ j.seen = job[w].seen /\ j.counted = j.attempt
             /\ j.attempt = job[w].attempt + 1
             /\ j.source = job[w].source /\ j.misread = job[w].misread
<1>1. job[w].attempt + 1 \in 0..MaxAttempts /\ job[w].counted + 1 \in 0..(MaxAttempts + 1)
  BY DecisionConstants DEF WorkerInv, AttemptsOf, Job
<1>2. job[w].counted = job[w].attempt
  BY DEF WorkerInv, AttemptsOf
<1>3. QED
  BY <1>1, <1>2 DEF Job

-----------------------------------------------------------------------------
(* No step that does not ask the provider can disturb the invariant. *)
LEMMA QuietSteps ==
  ASSUME Inv, NEW w \in Workers,
         Account(w) \/ AccountPanics(w) \/ AskAgain(w) \/ Failed(w) \/ FailedPanics(w)
           \/ Unparsable(w) \/ AIStats(w) \/ RuleStats(w) \/ Push(w) \/ Recover(w)
  PROVE  Inv'
<1> USE DEF keys, WriteAIStats, Labels
<1>0. /\ job[w] \in Job /\ WorkerInv(w) /\ job = [job EXCEPT ![w] = job[w]]
      /\ stats \in {"none", "text", "hash"}
      /\ shown \in {"nobody", "rule"} /\ latest \in {"nobody", "ai"}
  BY JobFacts DEF Inv, TypeOK
<1>1. CASE Account(w)
  <2>1. job[w].attempt < MaxAttempts
    BY <1>0, <1>1, DecisionConstants DEF Account, WorkerInv, AttemptsOf
  <2>2. QED
    <3>1. CASE job[w].source = "ai"
      BY <1>0, <1>1, <2>1, <3>1, GoesOn DEF Account, WorkerInv, AttemptsOf
    <3>2. CASE job[w].source = "rule"
      BY <1>0, <1>1, <3>2, GoesOn DEF Account, WorkerInv, AttemptsOf
    <3>3. QED
      BY <1>0, <3>1, <3>2 DEF Job, Modes
<1>2. CASE Recover(w) \/ Failed(w) \/ Unparsable(w) \/ Push(w)
  BY <1>0, <1>2, ReturnKeeps DEF Recover, Failed, Unparsable, Push
<1>3. CASE AskAgain(w)
  BY <1>0, <1>3, GoesOn DEF AskAgain, WorkerInv, AttemptsOf, PathOf
<1>4. CASE AccountPanics(w) \/ FailedPanics(w)
  <2>1. CASE AccountPanics(w)
    BY <1>0, <2>1, GoesOn DEF AccountPanics, WorkerInv, AttemptsOf
  <2>2. CASE FailedPanics(w)
    BY <1>0, <2>2, GoesOn DEF FailedPanics, WorkerInv
  <2>3. QED
    BY <1>4, <2>1, <2>2
<1>5. CASE AIStats(w) \/ RuleStats(w)
  <2>1. CASE Return(w)
    BY <1>0, <1>5, <2>1, ReturnKeeps DEF AIStats, RuleStats
  <2>2. CASE Goto(w, "push") /\ UNCHANGED job
    BY <1>0, <1>5, <2>2, GoesOn DEF AIStats, RuleStats, WorkerInv, AttemptsOf, PathOf
  <2>3. QED
    BY <1>5, <2>1, <2>2 DEF AIStats, RuleStats, Decided
<1>6. QED
  BY <1>1, <1>2, <1>3, <1>4, <1>5

(* The calls to the provider and the decisions. *)
LEMMA DecidingSteps ==
  ASSUME Inv, NEW w \in Workers,
         ReadMode(w) \/ Answered(w) \/ Unanswered(w) \/ CountFailure(w) \/ Parsed(w) \/ Rule(w)
  PROVE  Inv'
<1> USE DEF keys, Labels
<1>0. /\ job[w] \in Job /\ WorkerInv(w)
      /\ stats \in {"none", "text", "hash"}
      /\ shown \in {"nobody", "rule"} /\ latest \in {"nobody", "ai"}
  BY JobFacts DEF Inv, TypeOK
<1>1. CASE ReadMode(w)
  <2> DEFINE found == [job[w] EXCEPT !.source = Effective(override)]
             missed == [job[w] EXCEPT !.source = Default, !.misread = TRUE]
  <2>1. job[w].attempt = 0 /\ job[w].counted = 0 /\ Effective(override) \in job[w].seen
    BY <1>0, <1>1 DEF ReadMode, WorkerInv, AttemptsOf, SourceOf
  <2>2. /\ found \in Job /\ found.seen = job[w].seen /\ found.source \in job[w].seen
        /\ found.attempt = 0 /\ found.counted = 0
    BY <1>0, <2>1, EffectiveIsMode DEF Job
  <2>3. /\ missed \in Job /\ missed.seen = job[w].seen /\ missed.misread
        /\ missed.attempt = 0 /\ missed.counted = 0
    BY <1>0, <2>1, EffectiveIsMode DEF Job
  <2>4. job' = [job EXCEPT ![w] = found] \/ job' = [job EXCEPT ![w] = missed]
    BY <1>1 DEF ReadMode
  <2>5. Goto(w, "account") /\ pc[w] = "mode" /\ UNCHANGED <<override, stats, shown, latest>>
    BY <1>1 DEF ReadMode
  <2> HIDE DEF found, missed
  <2>6. PICK j \in Job : /\ job' = [job EXCEPT ![w] = j]
                         /\ j.seen = job[w].seen /\ (j.source \in job[w].seen \/ j.misread)
                         /\ j.attempt = 0 /\ j.counted = j.attempt
    BY <2>2, <2>3, <2>4
  <2>7. pc'[w] = "account" /\ job'[w] = j
    BY <2>5, <2>6 DEF Goto, Inv, TypeOK
  <2>8. WorkerInv(w)'
    BY <2>1, <2>5, <2>6, <2>7 DEF WorkerInv, AttemptsOf, SourceOf, PathOf, Effective
  <2>9. QED
    BY <1>0, <2>5, <2>6, <2>8, OneWorker DEF Goto
<1>2. CASE Answered(w)
  <2> DEFINE j == [job[w] EXCEPT !.attempt = @ + 1, !.counted = @ + 1]
  <2>1. job' = [job EXCEPT ![w] = j]
    BY <1>2 DEF Answered
  <2>2. /\ j \in Job /\ j.seen = job[w].seen /\ j.counted = j.attempt
        /\ j.source = job[w].source /\ j.misread = job[w].misread
    BY <1>0, <1>2, OneMoreCall DEF Answered
  <2>3. Goto(w, "parse") /\ pc[w] = "ask" /\ UNCHANGED <<override, stats, shown, latest>>
    BY <1>2 DEF Answered
  <2> HIDE DEF j
  <2>4. QED
    BY <1>0, <2>1, <2>2, <2>3, GoesOn DEF WorkerInv, PathOf
<1>3. CASE Unanswered(w)
  <2>1. PICK error \in BOOLEAN :
          job' = [job EXCEPT ![w] = [job[w] EXCEPT !.attempt = @ + 1, !.counted = @ + 1,
                                                   !.erred = error]]
    BY <1>3 DEF Unanswered
  <2> DEFINE once == [job[w] EXCEPT !.attempt = @ + 1, !.counted = @ + 1]
             j == [job[w] EXCEPT !.attempt = @ + 1, !.counted = @ + 1, !.erred = error]
             label == IF job[w].attempt + 1 < MaxAttempts THEN "sleep" ELSE "exhausted"
  <2>2. /\ j \in Job /\ j.seen = job[w].seen /\ j.counted = j.attempt
        /\ j.source = job[w].source /\ j.misread = job[w].misread
        /\ label = "sleep" => j.attempt < MaxAttempts
    <3>1. once \in Job /\ once.counted = once.attempt /\ once.attempt = job[w].attempt + 1
      BY <1>0, <1>3, OneMoreCall DEF Unanswered
    <3>2. j = [once EXCEPT !.erred = error]
      BY <1>0, <3>1 DEF Job
    <3>3. QED
      BY <1>0, <2>1, <3>1, <3>2 DEF Job
  <2>3. /\ Goto(w, label) /\ label \in {"sleep", "exhausted"} /\ pc[w] = "ask"
        /\ UNCHANGED <<override, stats, shown, latest>>
    BY <1>3 DEF Unanswered
  <2>4. job' = [job EXCEPT ![w] = j]
    BY <2>1
  <2> HIDE DEF j, label
  <2>5. QED
    BY <1>0, <2>2, <2>3, <2>4, GoesOn DEF WorkerInv, PathOf
<1>4. CASE CountFailure(w)
  <2> DEFINE j == [job[w] EXCEPT !.counted = @ + 1]
  <2>1. job' = [job EXCEPT ![w] = j]
    BY <1>4 DEF CountFailure
  <2>2. /\ j \in Job /\ j.seen = job[w].seen
        /\ j.source = job[w].source /\ j.misread = job[w].misread
    BY <1>0, <1>4, DecisionConstants DEF CountFailure, Job, WorkerInv, AttemptsOf
  <2>3. /\ job[w].source = "ai" /\ pc[w] = "exhausted" /\ Goto(w, "failed")
        /\ UNCHANGED <<override, stats, shown, latest>>
    BY <1>0, <1>4 DEF CountFailure, WorkerInv, PathOf
  <2> HIDE DEF j
  <2>4. QED
    BY <1>0, <2>1, <2>2, <2>3, GoesOn
<1>5. CASE Parsed(w) \/ Rule(w)
  <2>1. PICK signal \in BOOLEAN, mode \in Modes :
          /\ job' = [job EXCEPT ![w] = [job[w] EXCEPT !.trade = signal, !.by = mode]]
          /\ (mode = "ai" /\ Parsed(w)) \/ (mode = "rule" /\ Rule(w))
    BY <1>5 DEF Parsed, Rule, Modes
  <2> DEFINE j == [job[w] EXCEPT !.trade = signal, !.by = mode]
  <2>2. /\ j \in Job /\ j.seen = job[w].seen /\ j.counted = j.attempt
        /\ j.source = job[w].source /\ j.misread = job[w].misread /\ j.by = mode
    BY <1>0, <1>5 DEF Parsed, Rule, Job, WorkerInv, AttemptsOf
  <2>3. job[w].source = mode
    BY <1>0, <2>1 DEF Parsed, Rule, WorkerInv, PathOf
  <2>4. job' = [job EXCEPT ![w] = j]
    BY <2>1
  <2> HIDE DEF j
  <2>5. QED
    BY <1>0, <1>5, <2>2, <2>3, <2>4, GoesOn DEF Parsed, Rule, SaveDecisionHistory
<1>6. QED
  BY <1>1, <1>2, <1>3, <1>4, <1>5

(* A new datum has seen the mode of its first moment. *)
LEMMA BeginKeeps ==
  ASSUME Inv, NEW w \in Workers, Begin(w)
  PROVE  Inv'
<1> DEFINE j == [job[w] EXCEPT !.seen = {Effective(override)}]
<1>1. job' = [job EXCEPT ![w] = j] /\ j \in Job
  BY JobFacts, EffectiveIsMode DEF Begin, Job
<1>2. pc'[w] = "mode" /\ job'[w] = j
  BY <1>1 DEF Begin, Goto, Inv, TypeOK
<1>3. WorkerInv(w)'
  BY <1>2, JobFacts DEF WorkerInv, AttemptsOf, SourceOf, PathOf, Begin, keys, Effective, Job
<1>4. QED
  BY <1>1, <1>3, OneWorker DEF Begin, Goto, keys, Labels, Inv, TypeOK

(* A switch is seen by everybody. *)
LEMMA SetModeKeeps ==
  ASSUME Inv, SetMode
  PROVE  Inv'
<1>1. PICK mode \in Modes :
        /\ override' = mode
        /\ job' = [w \in Workers |->
                     IF pc[w] = "idle" THEN job[w]
                     ELSE [job[w] EXCEPT !.seen = @ \cup {Effective(mode)}]]
        /\ UNCHANGED <<stats, shown, latest, pc>>
  BY DEF SetMode
<1>2. ASSUME NEW w \in Workers PROVE job'[w] \in Job /\ WorkerInv(w)'
  <2>1. job[w] \in Job /\ WorkerInv(w) /\ Effective(mode) \in Modes
    BY JobFacts, EffectiveIsMode
  <2>2. CASE pc[w] = "idle"
    BY <1>1, <2>1, <2>2 DEF WorkerInv, AttemptsOf, SourceOf, PathOf
  <2>3. CASE pc[w] # "idle"
    <3>1. job'[w] = [job[w] EXCEPT !.seen = @ \cup {Effective(mode)}] /\ pc'[w] = pc[w]
      BY <1>1, <2>3
    <3>2. job'[w] \in Job
      BY <2>1, <3>1 DEF Job
    <3>3. AttemptsOf(w)' /\ SourceOf(w)' /\ PathOf(w)'
      BY <1>1, <2>1, <3>1 DEF WorkerInv, AttemptsOf, SourceOf, PathOf, Job, Effective
    <3>4. QED
      BY <3>2, <3>3 DEF WorkerInv
  <2>4. QED
    BY <2>2, <2>3
<1>3. TypeOK'
  BY <1>1, <1>2 DEF Inv, TypeOK, Job
<1>4. QED
  BY <1>2, <1>3 DEF Inv

(* Inv holds throughout. *)
LEMMA Invariance == Spec => []Inv
<1>1. Init => Inv
  <2> SUFFICES ASSUME Init PROVE Inv
    OBVIOUS
  <2>1. TypeOK
    BY NoJobType DEF Init, TypeOK, Job, Labels
  <2>2. \A w \in Workers : WorkerInv(w)
    BY DEF Init, WorkerInv, AttemptsOf, SourceOf, PathOf, NoJob
  <2>3. QED
    BY <2>1, <2>2 DEF Inv
<1>2. Inv /\ [Next]_vars => Inv'
  <2> SUFFICES ASSUME Inv, [Next]_vars PROVE Inv'
    OBVIOUS
  <2>1. CASE StatsExpire
    BY <2>1 DEF StatsExpire, Inv, TypeOK, WorkerInv, AttemptsOf, SourceOf, PathOf, Effective
  <2>2. CASE UNCHANGED vars
    BY <2>2 DEF vars, keys, Inv, TypeOK, WorkerInv, AttemptsOf, SourceOf, PathOf, Effective
  <2>3. ASSUME NEW w \in Workers, GoOn(w) PROVE Inv'
    BY <2>3, QuietSteps, DecidingSteps DEF GoOn, Ask
  <2>4. QED
    BY <2>1, <2>2, <2>3, SetModeKeeps, BeginKeeps DEF Next
<1>3. QED
  BY <1>1, <1>2, PTL DEF Spec

(* The decision path keeps its types; in particular no datum costs more    *)
(* than maxRetries calls to the provider.                                  *)
THEOREM TypeCorrect == Spec => []TypeOK
<1>1. Inv => TypeOK
  BY DEF Inv
<1>2. QED
  BY <1>1, Invariance, PTL

(* However the operator switches, a signal comes from a mode that was in   *)
(* force while its datum was worked on, unless the key could not be read.  *)
THEOREM ModeIsRespected == Spec => []ModeRespected
<1>1. Inv => ModeRespected
  BY DEF Inv, WorkerInv, SourceOf, PathOf, ModeRespected
<1>2. QED
  BY <1>1, Invariance, PTL
=============================================================================
