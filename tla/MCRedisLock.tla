---------------------------- MODULE MCRedisLock ----------------------------
(***************************************************************************)
(* The instance of RedisLock that TLC checks.  In the code a section makes *)
(* at most four exchange calls of at most 10s each under a TTL of 60s.     *)
(* With a unit of 5s and half the calls, the TTL of the instance leaves    *)
(* one unit to spare, and three clients let two take the key from a third. *)
(***************************************************************************)
EXTENDS RedisLock
=============================================================================
