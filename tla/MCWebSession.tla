---------------------------- MODULE MCWebSession ----------------------------
(***************************************************************************)
(* The instance of WebSession that TLC checks has the code's own timeouts. *)
(***************************************************************************)
EXTENDS WebSession
=============================================================================
