------------------------------- MODULE Request -------------------------------
(***************************************************************************)
(* A request that threads wait for (include/cql_request.hpp): the thread   *)
(* of the event loop stores the result and calls notify, other threads     *)
(* call wait and wait_for, and the user's callback runs on the loop or on  *)
(* a thread of libuv's work queue.                                         *)
(*                                                                         *)
(* One step is one access to the flag, the mutex or the condition          *)
(* variable.  std::condition_variable is modelled by what C++ says of it:  *)
(* a wait with a predicate tests it, gives up the mutex and blocks in one  *)
(* step, is woken by notify_all, by a timeout or by nothing at all, takes  *)
(* the mutex again and repeats.                                            *)
(***************************************************************************)
EXTENDS Integers, FiniteSets

CONSTANTS
  Waiters,   \* threads that wait for the request
  NoThread   \* the mutex is free

ASSUME RequestAssumption == NoThread \notin Waiters

VARIABLES
  flag,
  mutex,      \* the thread that holds it, or NoThread
  stored,     \* result or error has been assigned
  callback,   \* "none"; "local": use_local_loop; "queued": by the work queue
  work,       \* callback_executor is queued
  callbacks,  \* calls of callback so far
  notifier,   \* next step of the thread that calls notify
  pc,         \* next step of a waiter
  timed,      \* the waiter has called wait_for
  returned    \* what wait_for returned; TRUE when wait has returned

requestVars == <<flag, mutex, stored, callback, work, callbacks, notifier, pc,
                 timed, returned>>

notifyVars == <<stored, callback, work, callbacks, notifier>>
waitVars   == <<mutex, pc, timed, returned>>

(* The constructor, and what the caller then assigns to callback and       *)
(* use_local_loop.  (That the constructor of a CallerRequest may throw is  *)
(* in ClientConnection.)                                                   *)
RequestInit ==
  /\ flag = FALSE
  /\ mutex = NoThread
  /\ stored = FALSE
  /\ callback \in {"none", "local", "queued"}
  /\ work = FALSE
  /\ callbacks = 0
  /\ notifier = "store result"
  /\ pc = [w \in Waiters |-> "start"]
  /\ timed = [w \in Waiters |-> FALSE]
  /\ returned = [w \in Waiters |-> FALSE]

ready == flag

-----------------------------------------------------------------------------
(* The thread of the event loop *)

(* ClientConnection: request->result = response, request->error = err *)
store_result ==
  /\ notifier = "store result"
  /\ stored' = TRUE
  /\ notifier' = "flag"
  /\ UNCHANGED <<flag, callback, work, callbacks, waitVars>>

notify_flag ==
  /\ notifier = "flag"
  /\ flag' = TRUE
  /\ notifier' = "notify_all"
  /\ UNCHANGED <<stored, callback, work, callbacks, waitVars>>

(* Mutant of notify_all: only one of the waiters is woken. *)
notify_one ==
  /\ notifier = "notify_all"
  /\ \/ \E w \in Waiters : pc[w] = "blocked" /\ pc' = [pc EXCEPT ![w] = "relock"]
     \/ (\A w \in Waiters : pc[w] # "blocked") /\ UNCHANGED pc
  /\ notifier' = "callback"
  /\ UNCHANGED <<flag, mutex, stored, callback, work, callbacks, timed, returned>>

(* condition.notify_all(), without the mutex. *)
notify_all ==
  /\ notifier = "notify_all"
  /\ pc' = [w \in Waiters |-> IF pc[w] = "blocked" THEN "relock" ELSE pc[w]]
  /\ notifier' = "callback"
  /\ UNCHANGED <<flag, mutex, stored, callback, work, callbacks, timed, returned>>

(* Mutant of notify_callback: the callback is called and queued. *)
notify_callback_twice ==
  /\ notifier = "callback"
  /\ notifier' = "done"
  /\ callbacks' = IF callback # "none" THEN callbacks + 1 ELSE callbacks
  /\ work' = (callback = "queued")
  /\ UNCHANGED <<flag, stored, callback, waitVars>>

(* Mutant of notify_callback: the work is not queued. *)
notify_callback_lost ==
  /\ notifier = "callback"
  /\ notifier' = "done"
  /\ callbacks' = IF callback = "local" THEN callbacks + 1 ELSE callbacks
  /\ UNCHANGED <<flag, stored, callback, work, waitVars>>

notify_callback ==
  /\ notifier = "callback"
  /\ notifier' = "done"
  /\ callbacks' = IF callback = "local" THEN callbacks + 1 ELSE callbacks
  /\ work' = (callback = "queued")
  /\ UNCHANGED <<flag, stored, callback, waitVars>>

(* On a thread of libuv's work queue. *)
callback_executor ==
  /\ work
  /\ work' = FALSE
  /\ callbacks' = IF callback # "none" THEN callbacks + 1 ELSE callbacks
  /\ UNCHANGED <<flag, stored, callback, notifier, waitVars>>

-----------------------------------------------------------------------------
(* A waiting thread *)

Return(w, value) ==
  /\ pc' = [pc EXCEPT ![w] = "returned"]
  /\ returned' = [returned EXCEPT ![w] = value]

Goto(w, label) == pc' = [pc EXCEPT ![w] = label] /\ UNCHANGED returned

(* wait() up to its first load of the flag *)
wait(w) ==
  /\ pc[w] = "start"
  /\ timed' = [timed EXCEPT ![w] = FALSE]
  /\ IF flag THEN Return(w, TRUE) ELSE Goto(w, "lock")
  /\ UNCHANGED <<flag, mutex, notifyVars>>

(* wait_for() likewise: it has no return statement for the case that the   *)
(* flag is set already, so any value may be returned.                      *)
wait_for(w) ==
  /\ pc[w] = "start"
  /\ timed' = [timed EXCEPT ![w] = TRUE]
  /\ IF flag THEN \E value \in BOOLEAN : Return(w, value) ELSE Goto(w, "lock")
  /\ UNCHANGED <<flag, mutex, notifyVars>>

(* Mutant of lock: a thread that was woken returns without another test. *)
lock_no_test(w) ==
  /\ mutex = NoThread
  /\ \/ pc[w] = "lock" /\ mutex' = w /\ Goto(w, "test")
     \/ pc[w] = "relock" /\ Return(w, TRUE) /\ UNCHANGED mutex
  /\ UNCHANGED <<flag, timed, notifyVars>>

(* Take the mutex, at first or after being woken. *)
lock(w) ==
  /\ pc[w] \in {"lock", "relock"}
  /\ mutex = NoThread
  /\ mutex' = w
  /\ Goto(w, "test")
  /\ UNCHANGED <<flag, timed, notifyVars>>

(* The predicate, ready(), with the mutex held. *)
test(w) ==
  /\ pc[w] = "test"
  /\ IF ready
       THEN Return(w, TRUE) /\ mutex' = NoThread
       ELSE Goto(w, "block") /\ UNCHANGED mutex
  /\ UNCHANGED <<flag, timed, notifyVars>>

(* Give up the mutex and block, atomically. *)
block(w) ==
  /\ pc[w] = "block"
  /\ mutex' = NoThread
  /\ Goto(w, "blocked")
  /\ UNCHANGED <<flag, timed, notifyVars>>

wake_spuriously(w) ==
  /\ pc[w] = "blocked"
  /\ Goto(w, "relock")
  /\ UNCHANGED <<flag, mutex, timed, notifyVars>>

(* The time of wait_for has elapsed. *)
timeout(w) ==
  /\ pc[w] = "blocked"
  /\ timed[w]
  /\ Goto(w, "late")
  /\ UNCHANGED <<flag, mutex, timed, notifyVars>>

(* After a timeout: take the mutex again ... *)
lock_late(w) ==
  /\ pc[w] = "late"
  /\ mutex = NoThread
  /\ mutex' = w
  /\ Goto(w, "test late")
  /\ UNCHANGED <<flag, timed, notifyVars>>

(* ... and return the predicate. *)
test_late(w) ==
  /\ pc[w] = "test late"
  /\ mutex' = NoThread
  /\ Return(w, ready)
  /\ UNCHANGED <<flag, timed, notifyVars>>

-----------------------------------------------------------------------------
Notify == store_result \/ notify_flag \/ notify_all \/ notify_callback

WaitStep(w) ==
  lock(w) \/ test(w) \/ block(w) \/ timeout(w) \/ lock_late(w) \/ test_late(w)

RequestNext ==
  \/ Notify
  \/ callback_executor
  \/ \E w \in Waiters :
       wait(w) \/ wait_for(w) \/ WaitStep(w) \/ wake_spuriously(w)

RequestSpec == RequestInit /\ [][RequestNext]_requestVars

(* Every thread inside a call is scheduled and a free mutex is given to    *)
(* each of those that ask for it again and again; the reply arrives; the   *)
(* work queue runs.  Spurious wake-ups happen or not.                      *)
RequestFairness ==
  /\ WF_requestVars(Notify)
  /\ WF_requestVars(callback_executor)
  /\ \A w \in Waiters : /\ WF_requestVars(WaitStep(w))
                        /\ SF_requestVars(lock(w) \/ lock_late(w))

FairRequestSpec == RequestSpec /\ RequestFairness

-----------------------------------------------------------------------------
(* Types, and who holds the mutex: no path of wait or wait_for leaves it   *)
(* locked.                                                                 *)
RequestTypeOK ==
  /\ flag \in BOOLEAN
  /\ mutex \in Waiters \cup {NoThread}
  /\ stored \in BOOLEAN
  /\ callback \in {"none", "local", "queued"}
  /\ work \in BOOLEAN
  /\ callbacks \in Nat
  /\ notifier \in {"store result", "flag", "notify_all", "callback", "done"}
  /\ pc \in [Waiters -> {"start", "lock", "relock", "test", "block", "blocked",
                         "late", "test late", "returned"}]
  /\ timed \in [Waiters -> BOOLEAN]
  /\ returned \in [Waiters -> BOOLEAN]
  /\ \A w \in Waiters : mutex = w <=> pc[w] \in {"test", "block", "test late"}

(* A thread that wait, or wait_for with true, has let go finds the flag    *)
(* set and the result stored, whatever woke it up.                         *)
ReturnsWhenReady ==
  \A w \in Waiters : pc[w] = "returned" /\ returned[w] => flag /\ stored

(* The user's callback is called at most once, and finds the result.       *)
CallbackOnce ==
  /\ callbacks <= 1
  /\ callbacks = 1 => flag /\ stored /\ ~work

(* A user who gave a callback gets it called. *)
CallbackCalled == (callback # "none") ~> (callbacks = 1)

(* A thread that is blocked when notify_all is called returns. *)
BlockedAreWoken ==
  \A w \in Waiters :
    pc[w] = "blocked" /\ notifier = "notify_all" ~> pc[w] = "returned"

(* "threads blocking on wait or wait_for will be woken up and resumed"     *)
(* (cql_request.hpp:57).                                                   *)
WaitersResumed ==
  \A w \in Waiters : pc[w] # "start" ~> pc[w] = "returned"
=============================================================================
