---------------------------- MODULE RequestProofs ----------------------------
(***************************************************************************)
(* Proofs about Request, for any set of waiting threads.                   *)
(*                                                                         *)
(* ReturnsWhenReady and CallbackOnce speak of the flag, the result and the *)
(* callback; why they hold is the order in which notify does its steps.    *)
(* NotifyProgress ties those variables to the notifier's next step, and    *)
(* RequestInv joins it with the types and ReturnsWhenReady.                *)
(***************************************************************************)
EXTENDS Request, TLAPS

(* How far notify has come: the result is stored before the flag is set,   *)
(* and the callback is neither queued nor called before notify has woken   *)
(* the waiters.  callback_executor runs for a callback that was queued     *)
(* and not called.                                                         *)
NotifyProgress ==
  /\ stored <=> notifier # "store result"
  /\ flag <=> notifier \notin {"store result", "flag"}
  /\ notifier # "done" => ~work /\ callbacks = 0
  /\ work => callback = "queued" /\ callbacks = 0
  /\ callbacks <= 1

RequestInv == RequestTypeOK /\ NotifyProgress /\ ReturnsWhenReady

-----------------------------------------------------------------------------
(* The constructor establishes the invariant. *)
LEMMA RequestInitInv == RequestInit => RequestInv
<1> SUFFICES ASSUME RequestInit PROVE RequestInv
  OBVIOUS
<1>1. RequestTypeOK
  BY RequestAssumption DEF RequestInit, RequestTypeOK
<1>2. NotifyProgress
  <2>1. callbacks = 0
    BY Zenon DEF RequestInit
  <2>2. callbacks <= 1
    BY <2>1
  <2> QED
    BY <2>1, <2>2, Zenon DEF RequestInit, NotifyProgress
<1>3. ReturnsWhenReady
  BY DEF RequestInit, ReturnsWhenReady
<1> QED
  BY <1>1, <1>2, <1>3 DEF RequestInv

(* One call of the callback at most, if it was called from 0. *)
LEMMA AtMostOneCall ==
  ASSUME NEW calls \in {0, 0 + 1}
  PROVE  calls \in Nat /\ calls <= 1
OBVIOUS

(* A step of the notifying thread, or of the work queue. *)
LEMMA NotifyInv ==
  ASSUME RequestInv, Notify \/ callback_executor
  PROVE  RequestInv'
<1> USE DEF RequestInv, RequestTypeOK, NotifyProgress, ReturnsWhenReady, waitVars
<1>1. CASE store_result
  BY <1>1 DEF store_result
<1>2. CASE notify_flag
  BY <1>2 DEF notify_flag
<1>3. CASE notify_all
  BY <1>3 DEF notify_all
<1>4. CASE notify_callback
  <2>1. callbacks' \in {0, 0 + 1}
    BY <1>4, Zenon DEF notify_callback
  <2>2. callbacks' \in Nat /\ callbacks' <= 1
    BY <2>1, AtMostOneCall, Zenon
  <2>3. work' => callbacks' = 0
    BY <1>4, Zenon DEF notify_callback
  <2> QED
    BY <1>4, <2>2, <2>3, Zenon DEF notify_callback
<1>5. CASE callback_executor
  <2>1. callbacks' \in {0, 0 + 1}
    BY <1>5, Zenon DEF callback_executor
  <2>2. callbacks' \in Nat /\ callbacks' <= 1
    BY <2>1, AtMostOneCall, Zenon
  <2> QED
    BY <1>5, <2>2, Zenon DEF callback_executor
<1> QED
  BY <1>1, <1>2, <1>3, <1>4, <1>5 DEF Notify

(* A waiting thread changes neither the flag nor what notify changes. *)
LEMMA WaiterInv ==
  ASSUME RequestInv,
         NEW w \in Waiters,
         wait(w) \/ wait_for(w) \/ WaitStep(w) \/ wake_spuriously(w)
  PROVE  RequestInv'
<1> USE RequestAssumption
    DEF RequestInv, RequestTypeOK, NotifyProgress, ReturnsWhenReady, notifyVars,
        Return, Goto, ready
<1>1. CASE wait(w)
  BY <1>1 DEF wait
<1>2. CASE wait_for(w)
  BY <1>2 DEF wait_for
<1>3. CASE lock(w)
  BY <1>3 DEF lock
<1>4. CASE test(w)
  <2>1. CASE flag
    BY <1>4, <2>1 DEF test
  <2>2. CASE ~flag
    <3>1. /\ pc[w] = "test"
          /\ pc' = [pc EXCEPT ![w] = "block"]
          /\ UNCHANGED <<flag, mutex, timed, returned, notifyVars>>
      BY <1>4, <2>2, Zenon DEF test
    <3> QED
      BY <3>1
  <2> QED
    BY <2>1, <2>2
<1>5. CASE block(w)
  BY <1>5 DEF block
<1>6. CASE timeout(w)
  BY <1>6 DEF timeout
<1>7. CASE lock_late(w)
  BY <1>7 DEF lock_late
<1>8. CASE test_late(w)
  BY <1>8 DEF test_late
<1>9. CASE wake_spuriously(w)
  BY <1>9 DEF wake_spuriously
<1> QED
  BY <1>1, <1>2, <1>3, <1>4, <1>5, <1>6, <1>7, <1>8, <1>9 DEF WaitStep

(* Every step preserves the invariant. *)
LEMMA RequestNextInv ==
  ASSUME RequestInv, [RequestNext]_requestVars
  PROVE  RequestInv'
<1>1. CASE Notify \/ callback_executor
  BY <1>1, NotifyInv
<1>2. CASE \E w \in Waiters :
             wait(w) \/ wait_for(w) \/ WaitStep(w) \/ wake_spuriously(w)
  BY <1>2, WaiterInv
<1>3. CASE UNCHANGED requestVars
  BY <1>3 DEF requestVars, RequestInv, RequestTypeOK, NotifyProgress,
              ReturnsWhenReady
<1> QED
  BY <1>1, <1>2, <1>3 DEF RequestNext

(* The inductive invariant holds in every behaviour. *)
THEOREM RequestInvariant == RequestSpec => []RequestInv
<1>1. RequestInit => RequestInv
  BY RequestInitInv
<1>2. RequestInv /\ [RequestNext]_requestVars => RequestInv'
  BY RequestNextInv
<1> QED
  BY <1>1, <1>2, PTL DEF RequestSpec

-----------------------------------------------------------------------------
(* Types, and the mutex is held exactly by the thread that is between      *)
(* taking it and returning or blocking (wait, wait_for).                   *)
THEOREM RequestTypeCorrect == RequestSpec => []RequestTypeOK
<1>1. RequestInv => RequestTypeOK
  BY DEF RequestInv
<1> QED
  BY <1>1, RequestInvariant, PTL

(* A thread that wait, or wait_for with true, has let go finds the flag    *)
(* set and the result stored, however many threads wait and whatever woke  *)
(* it up.                                                                  *)
THEOREM ReturnsOnlyWhenReady == RequestSpec => []ReturnsWhenReady
<1>1. RequestInv => ReturnsWhenReady
  BY DEF RequestInv
<1> QED
  BY <1>1, RequestInvariant, PTL

(* The user's callback is called at most once, by notify or by the work    *)
(* queue but not by both, and finds the result.                            *)
THEOREM CallbackAtMostOnce == RequestSpec => []CallbackOnce
<1>1. RequestInv => CallbackOnce
  <2> SUFFICES ASSUME RequestInv PROVE CallbackOnce
    OBVIOUS
  <2>1. callbacks = 1 => callbacks # 0
    OBVIOUS
  <2> QED
    BY <2>1, Zenon DEF RequestInv, NotifyProgress, CallbackOnce
<1> QED
  BY <1>1, RequestInvariant, PTL
=============================================================================
