---------------------------- MODULE MCDashboard ----------------------------
(***************************************************************************)
(* The instance of Dashboard that TLC checks: two requests at a time, two  *)
(* overrides, a TTL of two units and probes of up to one.                  *)
(***************************************************************************)
EXTENDS Dashboard, TLC

(* Messages of GetBalance: with a body (HTTP 429) and without. *)
MCErrorLengths == {60, 140}

(* Requests are alike, and so are keys; only safety is checked. *)
Alike == Permutations(Handlers) \cup Permutations(Keys)
=============================================================================
