----------------------------- MODULE SymbolScan -----------------------------
(***************************************************************************)
(* One symbol from the scan to the decision of the rule strategy, again    *)
(* and again: Scanner.ScanSymbol fetches the candles of every timeframe in *)
(* a goroutine of its own (CandleCache), waits for all of them, computes   *)
(* the indicators (Indicators) and the change of the open interest;        *)
(* shouldAnalyze filters, and DefaultRuleStrategy.MakeDecision decides by  *)
(* the RSI.                                                                *)
(*                                                                         *)
(* The ticker price and the funding rate only label the datum, and nothing *)
(* reads the snapshot that is stored: both are left out.                   *)
(***************************************************************************)
EXTENDS CandleCache, Indicators

CONSTANTS
  Core,              \* the timeframes that a scan cannot do without
  Trend,             \* the timeframe of RSI, bands, CVD and OBV ("1h")
  OIs,               \* the open interest that the exchange may report
  RSIPeriod, BBPeriod, EMAPeriod,
  StdDev, Bandwidth, \* of the Bollinger bands
  PrefilterEnabled,  \* AI_PREFILTER_ENABLED
  MinOIChange        \* AI_PREFILTER_MIN_ABS_OI_CHANGE, in percent

OHLCV == [open : Nat, close : Nat, volume : Nat]

(* ValidateConfig lets no program start with a period below 1. *)
ASSUME ScanConstants ==
  /\ Core \subseteq Frames /\ Trend \in Frames
  /\ \A f \in Frames : Answers[f] \subseteq Seq(OHLCV)
  /\ RSIPeriod \in Nat \ {0} /\ EMAPeriod \in Nat \ {0}

VARIABLES
  step,      \* where the scan is
  oi,        \* the open interest of this scan, 0 if its fetch failed
  oiChange,  \* OpenInterestChange of the datum, in percent
  lastOI,    \* the key oi:last, 0 when it is missing
  verdict    \* what came of the scan

scanVars == <<step, oi, oiChange, lastOI, verdict>>
vars == <<cacheVars, scanVars>>

NoChange == Fraction(0, 1)
Verdicts == {"none", "failed", "skipped", "wait", "open_long", "open_short"}

Init ==
  /\ CacheInit
  /\ step = "idle" /\ oi = 0 /\ oiChange = NoChange /\ lastOI = 0
  /\ verdict = "none"

(* ScanSymbol starts one goroutine for each timeframe. *)
Begin ==
  /\ step = "idle"
  /\ step' = "fetch" /\ verdict' = "none"
  /\ pc' = [f \in Frames |-> "get"]
  /\ got' = [f \in Frames |-> NoAnswer]
  /\ oi' = 0 /\ oiChange' = NoChange
  /\ UNCHANGED <<cache, mutex, lastOI>>

Fetch(f) == GetOHLCV(f) /\ UNCHANGED scanVars
Age(f) == TTLPasses(f) /\ UNCHANGED scanVars

HasCandles(f) == got[f].ok /\ got[f].candles # <<>>

(* Faulty variant: the candles of a core timeframe may be missing. *)
JoinAnyway ==
  /\ step = "fetch"
  /\ \A f \in Frames : pc[f] = "done"
  /\ oi' \in OIs \cup {0}
  /\ step' = "oi"
  /\ pc' = [f \in Frames |-> "off"]
  /\ UNCHANGED <<cache, mutex, got, oiChange, lastOI, verdict>>

(* Faulty variant: only the core timeframes are waited for. *)
JoinEarly ==
  /\ step = "fetch"
  /\ \A f \in Core : pc[f] = "done"
  /\ oi' \in OIs \cup {0}
  /\ IF \A f \in Core : HasCandles(f)
     THEN step' = "oi" /\ UNCHANGED verdict
     ELSE step' = "idle" /\ verdict' = "failed"
  /\ pc' = [f \in Frames |-> IF pc[f] = "done" THEN "off" ELSE pc[f]]
  /\ UNCHANGED <<cache, mutex, got, oiChange, lastOI>>

(* wg.Wait; the scan fails unless every core timeframe has candles. *)
Join ==
  /\ step = "fetch"
  /\ \A f \in Frames : pc[f] = "done"
  /\ oi' \in OIs \cup {0}
  /\ IF \A f \in Core : HasCandles(f)
     THEN step' = "oi" /\ UNCHANGED verdict
     ELSE step' = "idle" /\ verdict' = "failed"
  /\ pc' = [f \in Frames |-> "off"]
  /\ UNCHANGED <<cache, mutex, got, oiChange, lastOI>>

(* What is computed of the candles; of a timeframe whose fetch failed the  *)
(* series is empty.                                                        *)
Closes(f) == [i \in 1..Len(got[f].candles) |-> got[f].candles[i].close]
EMA(f) == CalculateEMA(Closes(f), EMAPeriod)
RSI == CalculateRSI(Closes(Trend), RSIPeriod)
Squeeze ==
  IsBollingerSqueeze(CalculateBollingerBands(Closes(Trend), BBPeriod), StdDev, Bandwidth)
CVD == CalculateCVD(got[Trend].candles)
OBV == CalculateOBV(got[Trend].candles)

(* calculateOIChange: without the key, or when it cannot be read, there is *)
(* no change and nothing is stored either; the SET, of an open interest    *)
(* that was fetched, may fail.                                             *)
OIChange ==
  /\ step = "oi"
  /\ step' = "decide"
  /\ \/ IF lastOI = 0
        THEN UNCHANGED <<oiChange, lastOI>>
        ELSE /\ oiChange' = Fraction(100 * (oi - lastOI), lastOI)
             /\ lastOI' \in IF oi > 0 THEN {oi, lastOI} ELSE {lastOI}
     \/ UNCHANGED <<oiChange, lastOI>>
  /\ UNCHANGED <<cacheVars, oi, verdict>>

(* Of the other fields that shouldAnalyze looks at (change of the price in *)
(* 24 hours, peak of the volume, count of candles) ScanSymbol sets none.   *)
ShouldAnalyze ==
  \/ ~PrefilterEnabled
  \/ Magnitude(oiChange.num) >= MinOIChange * oiChange.den
  \/ Squeeze

(* Faulty variant: overbought is bought. *)
MakeDecisionSwapped ==
  IF Below(RSI, Fraction(30, 1)) THEN "open_short"
  ELSE IF Below(Fraction(70, 1), RSI) THEN "open_long" ELSE "wait"

(* An RSI of 0, nothing but losses, counts as none. *)
MakeDecision ==
  IF RSI.num > 0 /\ Below(RSI, Fraction(30, 1)) THEN "open_long"
  ELSE IF Below(Fraction(70, 1), RSI) THEN "open_short" ELSE "wait"

Decide ==
  /\ step = "decide"
  /\ step' = "idle"
  /\ verdict' = IF ShouldAnalyze THEN MakeDecision ELSE "skipped"
  /\ UNCHANGED <<cacheVars, oi, oiChange, lastOI>>

Next ==
  \/ Begin \/ Join \/ OIChange \/ Decide
  \/ \E f \in Frames : Fetch(f) \/ Age(f)

Spec == Init /\ [][Next]_vars

(* Goroutines run, requests have a timeout of 10s, sync.RWMutex admits its *)
(* waiters; nothing is assumed of the clock or of the next scan.           *)
FairSpec ==
  /\ Spec
  /\ WF_vars(Join \/ OIChange \/ Decide)
  /\ \A f \in Frames : WF_vars(Fetch(f))

-----------------------------------------------------------------------------
(* Cache, goroutines and scan keep to their ranges; outside of the fetch   *)
(* no goroutine of a scan runs or holds the lock.                          *)
TypeOK ==
  /\ CacheTypeOK
  /\ step \in {"idle", "fetch", "oi", "decide"}
  /\ oi \in OIs \cup {0} /\ lastOI \in OIs \cup {0}
  /\ verdict \in Verdicts
  /\ step # "fetch" => mutex = <<{}, {}, {}>> /\ \A f \in Frames : pc[f] = "off"

(* A signal has a cause in the candles that this very scan received: every *)
(* core timeframe has some, the trend has enough for an RSI (the default   *)
(* of 50 for a short series never trades), and over the closes the RSI     *)
(* looks at the price fell before a long and did not fall before a short.  *)
SignalHasCause ==
  verdict \in {"open_long", "open_short"} =>
    /\ \A f \in Core : HasCandles(f)
    /\ Len(Closes(Trend)) > RSIPeriod
    /\ LET move == Closes(Trend)[RSIPeriod + 1] - Closes(Trend)[1]
       IN  IF verdict = "open_long" THEN move < 0 ELSE move >= 0

Traded ==
  LET candles == got[Trend].candles
  IN  Totals([i \in 1..Len(candles) |-> candles[i].volume])[Len(candles)]

(* The averages are averages of the prices: an RSI lies in 0..100, an EMA  *)
(* between the lowest and the highest close it was given, and neither CVD  *)
(* nor OBV outgrows the volume that was traded.                            *)
IndicatorBounds ==
  step = "decide" =>
    /\ ~Below(RSI, Fraction(0, 1)) /\ ~Below(Fraction(100, 1), RSI)
    /\ \A f \in Frames :
         IF Len(Closes(f)) < EMAPeriod THEN EMA(f).num = 0
         ELSE \E i, j \in DOMAIN Closes(f) :
                /\ ~Below(EMA(f), Fraction(Closes(f)[i], 1))
                /\ ~Below(Fraction(Closes(f)[j], 1), EMA(f))
    /\ Magnitude(CVD) <= Traded /\ Magnitude(OBV) <= Traded

(* Whatever the cache held and whoever waited for the lock, a scan ends.   *)
ScanEnds == step = "fetch" ~> step = "idle"

(* indicators.go:33 "the RSI": a market that has not moved is neither      *)
(* overbought nor oversold (rule_strategy.go:33 "overbought, short").      *)
FlatMarketWaits ==
  verdict = "open_short" =>
    \E i \in DOMAIN Closes(Trend) : Closes(Trend)[i] # Closes(Trend)[1]

(* rule_strategy.go:17 "RSI < 30: long; RSI > 70: short", when the datum   *)
(* was analysed at all.                                                    *)
OversoldIsBought ==
  verdict = "wait" => ~Below(RSI, Fraction(30, 1)) \/ Len(Closes(Trend)) = 0

(* The overbought market of README.md:25 and rule_strategy.go:44 is the    *)
(* market of now: the latest close is not below all those before it.       *)
OverboughtIsRecent ==
  verdict = "open_short" =>
    LET n == Len(Closes(Trend))
    IN  \E i \in 1..(n - 1) : Closes(Trend)[i] <= Closes(Trend)[n]

(* scanner.go:318 "the change of the open interest in percent": once it    *)
(* has been scanned, the next scan has something to compare with.          *)
OIRemembered == step = "decide" /\ oi > 0 => lastOI > 0
=============================================================================
