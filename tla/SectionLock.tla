---------------------------- MODULE SectionLock ----------------------------
(***************************************************************************)
(* What a lock key of internal/execution/lock.go promises to the sections  *)
(* under it, without tokens and without time: the key is set to enter, it  *)
(* may also be set by a client that never enters, and it becomes free of   *)
(* its own accord only when nobody is inside.                              *)
(***************************************************************************)
CONSTANT Clients  \* the processes that run the execution engine

VARIABLES
  taken,  \* the key exists
  inside  \* clients between acquireLock and the end of their section

lockVars == <<taken, inside>>

Init ==
  /\ taken = FALSE
  /\ inside = {}

(* acquireLock returns true. *)
Enter(c) ==
  /\ ~taken
  /\ taken' = TRUE
  /\ inside' = inside \cup {c}

(* The key is set and its client never enters: the answer was lost. *)
Strand ==
  /\ ~taken
  /\ taken' = TRUE
  /\ UNCHANGED inside

(* A section ends.  Its key is released, or stays until it expires. *)
Leave(c) ==
  /\ c \in inside
  /\ inside' = inside \ {c}
  /\ taken' \in BOOLEAN

(* The key of a section that ended without releasing it becomes free. *)
Expire ==
  /\ taken
  /\ inside = {}
  /\ taken' = FALSE
  /\ UNCHANGED inside

Next ==
  \/ Strand
  \/ Expire
  \/ \E c \in Clients : Enter(c) \/ Leave(c)

Spec == Init /\ [][Next]_lockVars

=============================================================================
