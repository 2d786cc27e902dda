------------------------------- MODULE Engine -------------------------------
(***************************************************************************)
(* internal/execution/engine.go with lock.go and dedupe.go: the two calls  *)
(* RunBot makes for a popped signal, one action per Redis command or       *)
(* exchange call.  Back(b) is the return to the loop of RunBot, which the  *)
(* caller goes on from (module Bot).                                       *)
(*                                                                         *)
(* saveAudit and pushTradeHistory write logs that nothing reads back; the  *)
(* confirmation goroutine only polls and logs.  They are left out.         *)
(***************************************************************************)
EXTENDS Trading

KeyOf(s) ==
  <<s.symbol, IF s.action \in {"open_long", "close_long"} THEN "LONG" ELSE "SHORT">>

ExecutionLock(s) == <<"execution", s.symbol>>

(* The fields of the dedupe key besides the time bucket. *)
DedupeKey(s) == <<s.symbol, s.action, s.price>>
Bucket == now \div WindowSec

(* The locals of a call: the signal, its time window, whether its mark was *)
(* looked for and set, and the position size a close works with.           *)
CallType == [sig : Signals \cup {None}, bucket : Nat, checked : BOOLEAN,
             marked : BOOLEAN, size : Nat]

NoCall == [sig |-> None, bucket |-> 0, checked |-> FALSE, marked |-> FALSE, size |-> 0]

(* The head of RunBot's loop: it ends on a cancelled context, otherwise    *)
(* the guard runs if its interval is over, and the next BRPOP starts.      *)
Back(b) ==
  /\ \/ done[b] /\ GoTo(b, "down")
     \/ ~done[b] /\ GoTo(b, "brpop")
     \/ ~done[b] /\ GuardDue /\ GoTo(b, "due")
  /\ ex' = [ex EXCEPT ![b] = NoCall]

(***************************************************************************)
(* PlaceOrderFromSignal                                                    *)
(***************************************************************************)

Sig(b) == ex[b].sig

(* A signal whose lock is not obtained is dropped. *)
OpenLock(b) ==
  /\ pc[b] = "open_lock"
  /\ AcquireLock(b, ExecutionLock(Sig(b)), "open_dedupe", "finish")
  /\ UNCHANGED <<exchange, marks, protection, queue, ex, rd, done, now, pushed, history>>

(* Faulty variant: the answer of EXISTS is not looked at. *)
OpenDedupeBlind(b) ==
  /\ pc[b] = "open_dedupe"
  /\ Answers(b)
  /\ GoTo(b, "open_mark")
  /\ ex' = [ex EXCEPT ![b] = [@ EXCEPT !.bucket = Bucket, !.checked = TRUE]]
  /\ UNCHANGED <<exchange, redis, rd, done, now, pushed, history>>

(* EXISTS on the key of the current bucket; an error lets the order pass   *)
(* without a mark.                                                         *)
OpenDedupe(b) ==
  /\ pc[b] = "open_dedupe"
  /\ \/ /\ Answers(b)
        /\ IF <<DedupeKey(Sig(b)), Bucket>> \in marks
             THEN GoTo(b, "release") /\ UNCHANGED ex
             ELSE /\ GoTo(b, "open_mark")
                  /\ ex' = [ex EXCEPT ![b] = [@ EXCEPT !.bucket = Bucket,
                                                         !.checked = TRUE]]
     \/ /\ Fails(b)
        /\ GoTo(b, "open_place")
        /\ ex' = [ex EXCEPT ![b] = [@ EXCEPT !.bucket = Bucket]]
  /\ UNCHANGED <<exchange, redis, rd, done, now, pushed, history>>

(* SET of the mark, whose error is ignored. *)
OpenMark(b) ==
  /\ pc[b] = "open_mark"
  /\ \/ /\ Answers(b)
        /\ marks' = marks \cup {<<DedupeKey(Sig(b)), ex[b].bucket>>}
        /\ ex' = [ex EXCEPT ![b] = [@ EXCEPT !.marked = TRUE]]
     \/ /\ Fails(b)
        /\ UNCHANGED <<marks, ex>>
  /\ GoTo(b, "open_place")
  /\ UNCHANGED <<exchange, lock, protection, queue, rd, done, now, pushed, history>>

(* PlaceOrder of the LIMIT entry; an error ends the call without a         *)
(* protection record, also when the exchange did accept the order.         *)
OpenPlace(b) ==
  /\ pc[b] = "open_place"
  /\ \E out \in Outcomes :
       /\ PlaceResting(EntryOrder(KeyOf(Sig(b)), Sig(b).price), out)
       /\ GoTo(b, IF out = "ok" THEN "open_save" ELSE "release")
       /\ attempts' = Append(attempts,
            [sig |-> Sig(b), at |-> now, bucket |-> ex[b].bucket, out |-> out,
             marked |-> ex[b].marked, checked |-> ex[b].checked])
  /\ UNCHANGED <<redis, ex, rd, done, now, pushed, steady>>

Record(s) == [sl |-> s.sl, tp1 |-> s.tp1, tp2 |-> s.tp2]
Protects(s) == s.sl > 0 \/ s.tp1 > 0

(* Faulty variant: SETNX, which leaves an older record in place. *)
OpenSaveOnce(b) ==
  /\ pc[b] = "open_save"
  /\ IF Protects(Sig(b)) /\ protection[KeyOf(Sig(b))] = None
       THEN protection' = [protection EXCEPT ![KeyOf(Sig(b))] = Record(Sig(b))]
       ELSE UNCHANGED protection
  /\ GoTo(b, "release")
  /\ UNCHANGED <<exchange, lock, marks, queue, ex, rd, done, now, faults, pushed, history>>

(* SaveProtection, whose error is ignored. *)
OpenSave(b) ==
  /\ pc[b] = "open_save"
  /\ IF Protects(Sig(b))
       THEN \/ /\ Answers(b)
               /\ protection' = [protection EXCEPT ![KeyOf(Sig(b))] = Record(Sig(b))]
            \/ Fails(b) /\ UNCHANGED protection
       ELSE UNCHANGED <<protection, faults>>
  /\ GoTo(b, "release")
  /\ UNCHANGED <<exchange, lock, marks, queue, ex, rd, done, now, pushed, history>>

(***************************************************************************)
(* ClosePositionFromAction                                                 *)
(***************************************************************************)

(* What GetPosition may return: whichever position of the symbol is first  *)
(* in the exchange's list.                                                 *)
Listed(symbol) == {k \in OpenKeys : k[1] = symbol}

(* It is read before the lock is taken; a position of the other side makes *)
(* the close fail.                                                         *)
CloseRead(b) ==
  /\ pc[b] = "close_read"
  /\ \/ /\ ExchangeAnswers
        /\ \E k \in Listed(Sig(b).symbol) :
             IF k = KeyOf(Sig(b))
               THEN /\ GoTo(b, "close_lock")
                    /\ ex' = [ex EXCEPT ![b] = [@ EXCEPT !.size = pos[k]]]
               ELSE GoTo(b, "finish") /\ UNCHANGED ex
     \/ /\ ExchangeAnswers
        /\ Listed(Sig(b).symbol) = {}
        /\ GoTo(b, "finish")
        /\ UNCHANGED ex
     \/ /\ ExchangeFails
        /\ GoTo(b, "finish")
        /\ UNCHANGED ex
  /\ UNCHANGED <<exchange, redis, rd, done, now, pushed, history>>

CloseLock(b) ==
  /\ pc[b] = "close_lock"
  /\ AcquireLock(b, ExecutionLock(Sig(b)), "close_place", "finish")
  /\ UNCHANGED <<exchange, marks, protection, queue, ex, rd, done, now, pushed, history>>

(* The market order for the size read before the lock was taken. *)
ClosePlace(b) ==
  /\ pc[b] = "close_place"
  /\ \E out \in Outcomes : PlaceMarketReduce(KeyOf(Sig(b)), ex[b].size, out)
  /\ steady' = StillOpen(pos')
  /\ GoTo(b, "release")
  /\ UNCHANGED <<redis, ex, rd, done, now, pushed, attempts>>

-----------------------------------------------------------------------------

(* The deferred releaseLock of both calls. *)
Release(b) ==
  /\ pc[b] = "release"
  /\ ReleaseLock(b, ExecutionLock(Sig(b)))
  /\ GoTo(b, "finish")
  /\ UNCHANGED <<exchange, marks, protection, queue, ex, rd, done, now, pushed, history>>

(* The entry orders posted. *)
AttemptType == [sig : Signals, at : Nat, bucket : Nat, out : Outcomes,
                marked : BOOLEAN, checked : BOOLEAN]

(* RunBot logs the result and loops: a failed signal is not retried. *)
Finish(b) ==
  /\ pc[b] = "finish"
  /\ Back(b)
  /\ UNCHANGED <<exchange, redis, rd, done, now, faults, pushed, history>>

EngineStep(b) ==
  \/ OpenLock(b)
  \/ OpenDedupe(b)
  \/ OpenMark(b)
  \/ OpenPlace(b)
  \/ OpenSave(b)
  \/ CloseRead(b)
  \/ CloseLock(b)
  \/ ClosePlace(b)
  \/ Release(b)
  \/ Finish(b)

=============================================================================
