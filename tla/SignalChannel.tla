--------------------------- MODULE SignalChannel ---------------------------
(***************************************************************************)
(* What the trade queue promises to the rest of the system: a channel that *)
(* hands messages over in the order they were sent, every sending at most  *)
(* once.  It sheds only its oldest messages, and only when more than       *)
(* Capacity are waiting; any other loss is the oldest message, and goes    *)
(* with a failure.  A sender that repeats itself sends twice.              *)
(***************************************************************************)
EXTENDS Naturals, Sequences

CONSTANTS
  Capacity,  \* waiting messages the channel never sheds
  Messages   \* what can be sent

VARIABLES
  waiting,   \* messages sent and not yet handed over, oldest first
  received,  \* messages handed over, in that order
  faults     \* failures so far

chanVars == <<waiting, received, faults>>

Init ==
  /\ waiting = <<>>
  /\ received = <<>>
  /\ faults = 0

Fail == faults' = faults + 1

Send ==
  /\ \E m \in Messages : waiting' = Append(waiting, m)
  /\ UNCHANGED received
  /\ UNCHANGED faults \/ Fail

(* Overflow sheds the oldest messages down to the capacity. *)
Shed ==
  /\ Len(waiting) > Capacity
  /\ waiting' = SubSeq(waiting, Len(waiting) - Capacity + 1, Len(waiting))
  /\ UNCHANGED received
  /\ UNCHANGED faults \/ Fail

Receive ==
  /\ waiting # <<>>
  /\ received' = Append(received, Head(waiting))
  /\ waiting' = Tail(waiting)
  /\ UNCHANGED faults

(* A failed hand-over loses the oldest message. *)
Lose ==
  /\ waiting # <<>>
  /\ waiting' = Tail(waiting)
  /\ UNCHANGED received
  /\ Fail

FailElsewhere == UNCHANGED <<waiting, received>> /\ Fail

Next == Send \/ Shed \/ Receive \/ Lose \/ FailElsewhere

Spec == Init /\ [][Next]_chanVars

=============================================================================
