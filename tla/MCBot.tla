------------------------------- MODULE MCBot -------------------------------
(***************************************************************************)
(* Instances of Bot for TLC: the signals of each run.  One symbol is       *)
(* enough for the entry path, whose keys are independent of other symbols. *)
(***************************************************************************)
EXTENDS Bot, TLC

Open(symbol, price, sl, tp1, tp2) ==
  [symbol |-> symbol, price |-> price, sl |-> sl, tp1 |-> tp1, tp2 |-> tp2,
   action |-> "open_long"]

Close(symbol) ==
  [symbol |-> symbol, price |-> 0, sl |-> 0, tp1 |-> 0, tp2 |-> 0,
   action |-> "close_long"]

CONSTANTS btc, eth

(* The entry path: two entries at different prices, one without levels,    *)
(* one without a price, and a close.                                       *)
RecordSignals == {Open(btc, 10, 9, 12, 13), Open(btc, 11, 10, 13, 0),
                  Open(btc, 12, 0, 0, 0), Open(btc, 0, 9, 12, 0), Close(btc)}

(* The guard: one entry. *)
OneEntry == {Open(btc, 10, 9, 12, 13)}
StopOnly == {Open(btc, 10, 9, 0, 0)}
TwoSymbols == {Open(btc, 10, 9, 12, 13), Open(eth, 10, 9, 12, 13)}

(* The positions at the start: none, or a short one, which keeps the       *)
(* rounds of the guard going while the long one is flat.                   *)
NoneHeld == [k \in Keys |-> 0]
ShortHeld == [k \in Keys |-> IF k = <<btc, "SHORT">> THEN 1 ELSE 0]

BotSymmetry == Permutations(Bots)

=============================================================================
