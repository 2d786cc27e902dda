------------------------------- MODULE MCScan -------------------------------
(***************************************************************************)
(* The instance of Scan that TLC checks.  Four symbols, scanned one at a   *)
(* time, fill the channel's buffer of two and leave a sender asleep.       *)
(***************************************************************************)
EXTENDS Scan
=============================================================================
