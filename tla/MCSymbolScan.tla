---------------------------- MODULE MCSymbolScan ----------------------------
(***************************************************************************)
(* The instance of SymbolScan that TLC checks: three timeframes, two of    *)
(* them core, short periods, and a trend that fails, is empty or short,    *)
(* stands still, rises, falls, falls with a small recovery, or turns.      *)
(***************************************************************************)
EXTENDS SymbolScan

MCFrames == {"3m", "15m", "1h"}
MCCore == {"3m", "15m"}

Candle(open, close) == [open |-> open, close |-> close, volume |-> 5]

(* The candles of a series of closes, each opened at the one before. *)
SeriesOf(closes) ==
  [i \in 1..Len(closes) |-> Candle(closes[IF i = 1 THEN 1 ELSE i - 1], closes[i])]

Trends == {SeriesOf(c) : c \in {
  <<>>, <<100>>, <<100, 100, 100, 100>>,
  <<100, 102, 103, 101, 99>>, <<100, 98, 97, 97>>,
  <<100, 95, 96, 97>>, <<100, 130, 90, 100>>}}

MCAnswers == [f \in MCFrames |->
  IF f = "1h" THEN Trends ELSE {<<>>, SeriesOf(<<100, 101>>)}]

MCOIs == {100, 103}
MCBandwidth == Fraction(1, 10)
=============================================================================
