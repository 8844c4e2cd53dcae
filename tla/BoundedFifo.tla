----------------------------- MODULE BoundedFifo -----------------------------
(***************************************************************************)
(* What the queue between the callers and the I/O thread promises: a FIFO  *)
(* of at most Size values on which an operation takes effect in two steps. *)
(*                                                                         *)
(* An enqueue first gets its place in the queue (Reserve) and later its    *)
(* value becomes available (Publish); a dequeue first takes the oldest     *)
(* value (Take) and later gives the room back (Release).  An operation     *)
(* never waits for another: while others are between their two steps it    *)
(* may fail although the queue is not full, or not empty.                  *)
(***************************************************************************)
EXTENDS Integers, Sequences, FiniteSets

CONSTANTS
  Size,     \* room for this many values
  Threads,
  Values,
  None      \* neither a thread nor a value

VARIABLES
  items,    \* the queue: [value, owner], owner # None until published
  taking,   \* the value a thread has taken but whose room it still uses
  result    \* what the last operation of a thread returned

fifoVars == <<items, taking, result>>

ResultType == {"none", "busy", "true", "false"}

Takers == {t \in Threads : taking[t] # None}
Owners == {items[i].owner : i \in DOMAIN items} \ {None}

FifoInit ==
  /\ items = << >>
  /\ taking = [t \in Threads |-> None]
  /\ result = [t \in Threads |-> "none"]

Begin(t) ==
  /\ result[t] # "busy"
  /\ result' = [result EXCEPT ![t] = "busy"]
  /\ UNCHANGED <<items, taking>>

Between(t) == t \in Takers \cup Owners

Reserve(t, v) ==
  /\ result[t] = "busy"
  /\ ~Between(t)
  /\ Len(items) + Cardinality(Takers) < Size
  /\ items' = Append(items, [value |-> v, owner |-> t])
  /\ UNCHANGED <<taking, result>>

Publish(t) ==
  /\ \E i \in DOMAIN items :
       /\ items[i].owner = t
       /\ items' = [items EXCEPT ![i].owner = None]
  /\ result' = [result EXCEPT ![t] = "true"]
  /\ UNCHANGED taking

(* Nothing but enqueues and dequeues between their steps can make an       *)
(* enqueue fail on a queue that has room.                                  *)
EnqueueFails(t) ==
  /\ result[t] = "busy"
  /\ ~Between(t)
  /\ Len(items) = Size \/ Takers # {}
  /\ result' = [result EXCEPT ![t] = "false"]
  /\ UNCHANGED <<items, taking>>

Take(t) ==
  /\ result[t] = "busy"
  /\ ~Between(t)
  /\ items # << >>
  /\ Head(items).owner = None
  /\ taking' = [taking EXCEPT ![t] = Head(items).value]
  /\ items' = Tail(items)
  /\ UNCHANGED result

Release(t) ==
  /\ t \in Takers
  /\ taking' = [taking EXCEPT ![t] = None]
  /\ result' = [result EXCEPT ![t] = "true"]
  /\ UNCHANGED items

DequeueFails(t) ==
  /\ result[t] = "busy"
  /\ ~Between(t)
  /\ items = << >> \/ Head(items).owner # None
  /\ result' = [result EXCEPT ![t] = "false"]
  /\ UNCHANGED <<items, taking>>

FifoNext ==
  \E t \in Threads :
    \/ Begin(t)
    \/ \E v \in Values : Reserve(t, v)
    \/ Publish(t)
    \/ EnqueueFails(t)
    \/ Take(t)
    \/ Release(t)
    \/ DequeueFails(t)

FifoSpec == FifoInit /\ [][FifoNext]_fifoVars
=============================================================================
