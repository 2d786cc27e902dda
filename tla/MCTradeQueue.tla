---------------------------- MODULE MCTradeQueue ----------------------------
(***************************************************************************)
(* The instance of TradeQueue that TLC checks: two workers and two bots on *)
(* short queues, with more signals than they hold.                         *)
(***************************************************************************)
EXTENDS TradeQueue
=============================================================================
