----------------------------- MODULE Indicators -----------------------------
(***************************************************************************)
(* What internal/indicators computes of a series of candles, for the scan  *)
(* of a symbol.  Prices and volumes are integers and the floating-point    *)
(* results are exact fractions, compared by cross-multiplication; the      *)
(* standard deviation is compared by its square.                           *)
(***************************************************************************)
EXTENDS Integers, Sequences

Fraction(n, d) == [num |-> n, den |-> d]
Below(a, b) == a.num * b.den < b.num * a.den

Plus(n) == IF n > 0 THEN n ELSE 0
Magnitude(n) == Plus(n) + Plus(-n)

(* What the loops have added up after every number of values. *)
Totals(s) ==
  LET total[n \in 0..Len(s)] == IF n = 0 THEN 0 ELSE total[n - 1] + s[n]
  IN  total

(* Faulty variant: a smoothing by 2/(period - 1). *)
EMAOvershoots(closes, period) ==
  LET ema[i \in period..Len(closes)] ==
        IF i = period
        THEN Fraction(Totals(closes)[period], period)
        ELSE Fraction(2 * closes[i] * ema[i - 1].den - ema[i - 1].num,
                      ema[i - 1].den)
  IN  IF Len(closes) < period THEN Fraction(0, 1) ELSE ema[Len(closes)]

(* The average of the first closes, then a smoothing for each further one; *)
(* 0 when there are fewer closes than the period.                          *)
CalculateEMA(closes, period) ==
  LET ema[i \in period..Len(closes)] ==
        IF i = period
        THEN Fraction(Totals(closes)[period], period)
        ELSE Fraction(2 * closes[i] * ema[i - 1].den + (period - 1) * ema[i - 1].num,
                      (period + 1) * ema[i - 1].den)
  IN  IF Len(closes) < period THEN Fraction(0, 1) ELSE ema[Len(closes)]

(* The changes from close to close, falls counting as 0, and the other way *)
(* round.                                                                  *)
Gains(closes) == [i \in 1..(Len(closes) - 1) |-> Plus(closes[i + 1] - closes[i])]
Losses(closes) == [i \in 1..(Len(closes) - 1) |-> Plus(closes[i] - closes[i + 1])]

(* Faulty variant: gains and losses exchanged. *)
RSIUpsideDown(closes, period) ==
  IF Len(closes) < period + 1 THEN Fraction(50, 1)
  ELSE LET gain == Totals(Gains(closes))[period]
           loss == Totals(Losses(closes))[period]
       IN  IF loss = 0 THEN Fraction(100, 1)
           ELSE Fraction(100 * loss, gain + loss)

(* Of the gains and losses it is the first of the series that count, not   *)
(* the latest; 50 when there are too few, 100 when there are no losses,    *)
(* the prices of a market that stands still included.                      *)
CalculateRSI(closes, period) ==
  IF Len(closes) < period + 1 THEN Fraction(50, 1)
  ELSE LET gain == Totals(Gains(closes))[period]
           loss == Totals(Losses(closes))[period]
       IN  IF loss = 0 THEN Fraction(100, 1)
           ELSE Fraction(100 * gain, gain + loss)

(* The bands by their middle and the variance between, over the last       *)
(* closes; a series that is too short has both bands at its last close.    *)
CalculateBollingerBands(closes, period) ==
  LET n == Len(closes)
      last == SubSeq(closes, n - period + 1, n)
      sum == Totals(last)[period]
      squares == Totals([i \in 1..period |-> last[i] * last[i]])[period]
  IN  CASE n = 0 -> [middle |-> Fraction(0, 1), variance |-> Fraction(0, 1)]
        [] n > 0 /\ n < period ->
             [middle |-> Fraction(closes[n], 1), variance |-> Fraction(0, 1)]
        [] OTHER ->
             [middle |-> Fraction(sum, period),
              variance |-> Fraction(period * squares - sum * sum, period * period)]

(* (upper - lower) / middle below the bandwidth, with the bands `stdDev'   *)
(* deviations from their middle: both sides squared.                       *)
IsBollingerSqueeze(bb, stdDev, bandwidth) ==
  /\ bb.middle.num # 0
  /\ Below(Fraction(4 * stdDev * stdDev * bb.variance.num * bandwidth.den * bandwidth.den,
                    bb.variance.den),
           Fraction(bb.middle.num * bb.middle.num * bandwidth.num * bandwidth.num,
                    bb.middle.den * bb.middle.den))

(* The volume with the sign of a move. *)
Signed(volume, move) == IF move > 0 THEN volume ELSE IF move < 0 THEN -volume ELSE 0

(* Volume bought less volume sold, by the colour of the candles. *)
CalculateCVD(candles) ==
  LET n == Len(candles)
      flow == [i \in 1..n |->
                 Signed(candles[i].volume, candles[i].close - candles[i].open)]
  IN  Totals(flow)[n]

(* The same by the move from close to close. *)
CalculateOBV(candles) ==
  LET n == Len(candles)
      flow == [i \in 1..(n - 1) |->
                 Signed(candles[i + 1].volume, candles[i + 1].close - candles[i].close)]
  IN  IF n < 2 THEN 0 ELSE Totals(flow)[n - 1]
=============================================================================
