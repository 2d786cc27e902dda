----------------------------- MODULE MCDecision -----------------------------
(***************************************************************************)
(* The instance of Decision that TLC checks: two workers (cfg.AIBatchSize) *)
(* and three attempts.                                                     *)
(***************************************************************************)
EXTENDS Decision
=============================================================================
