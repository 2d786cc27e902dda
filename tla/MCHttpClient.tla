---------------------------- MODULE MCHttpClient ----------------------------
(***************************************************************************)
(* Instances of HttpClient for TLC: the header is absent, or asks for      *)
(* less than a second, for something in range, or for more than maxSec.    *)
(***************************************************************************)
EXTENDS HttpClient

SomeHeaders == {NoHeader, 0, 3, 9}
=============================================================================
