------------------------------ MODULE MpmcQueue ------------------------------
(***************************************************************************)
(* The bounded multi-producer multi-consumer queue between the threads     *)
(* that issue requests and the I/O thread (include/cql_mpmc_queue.hpp).    *)
(*                                                                         *)
(* Each thread runs enqueue or dequeue, one atomic access to shared memory *)
(* per step; pc says which access is next.  Sequence numbers are natural   *)
(* numbers: no thread sleeps while 2^63 operations pass, so the signed     *)
(* difference of two size_t is the difference of the numbers.  A relaxed   *)
(* load that returns an old value of head_seq_ or tail_seq_ is the same as *)
(* a load done earlier, and a thread may stop for any time after a load.   *)
(***************************************************************************)
EXTENDS Integers, Sequences, FiniteSets

CONSTANTS
  Size,     \* size_: number of nodes
  Threads,
  Values,   \* what is put in the queue
  None,     \* content of a node never written
  MaxSeq    \* bound: no enqueue starts once head_seq_ has this value

ASSUME MpmcAssumption ==
  /\ Size \in Nat \ {0}
  /\ \E e \in 0..Size : Size = 2^e
  /\ MaxSeq \in Nat
  /\ None \notin Values \cup Threads

VARIABLES
  head_seq_,
  tail_seq_,
  seq,      \* buffer_[i].seq
  data,     \* buffer_[i].data
  pc,       \* the next access of a thread
  ticket,   \* local head_seq of enqueue, tail_seq of dequeue
  local,    \* parameter data of enqueue and dequeue
  result    \* what the last call of a thread returned

queueVars == <<head_seq_, tail_seq_, seq, data, pc, ticket, local, result>>

Slots == 0..Size-1

(* sequence & mask_ *)
Slot(sequence) == sequence % Size

(* The constructor; that the size is a power of 2, which it asserts, is    *)
(* part of MpmcAssumption.                                                 *)
QueueInit ==
  /\ head_seq_ = 0
  /\ tail_seq_ = 0
  /\ seq = [i \in Slots |-> i]
  /\ data = [i \in Slots |-> None]
  /\ pc = [t \in Threads |-> "idle"]
  /\ ticket = [t \in Threads |-> 0]
  /\ local = [t \in Threads |-> None]
  /\ result = [t \in Threads |-> "none"]

(* The parameters and the local variables end with the call. *)
Return(t, value) ==
  /\ pc' = [pc EXCEPT ![t] = "idle"]
  /\ result' = [result EXCEPT ![t] = value]
  /\ ticket' = [ticket EXCEPT ![t] = 0]
  /\ local' = [local EXCEPT ![t] = None]

Goto(t, label) ==
  /\ pc' = [pc EXCEPT ![t] = label]
  /\ UNCHANGED result

-----------------------------------------------------------------------------
(* enqueue *)

enqueue(t, value) ==
  /\ pc[t] = "idle"
  /\ head_seq_ < MaxSeq
  /\ pc' = [pc EXCEPT ![t] = "E load"]
  /\ local' = [local EXCEPT ![t] = value]
  /\ result' = [result EXCEPT ![t] = "busy"]
  /\ UNCHANGED <<head_seq_, tail_seq_, seq, data, ticket>>

(* head_seq = head_seq_.load(), before the loop and in its last branch. *)
E_load(t) ==
  /\ pc[t] = "E load"
  /\ ticket' = [ticket EXCEPT ![t] = head_seq_]
  /\ Goto(t, "E seq")
  /\ UNCHANGED <<head_seq_, tail_seq_, seq, data, local>>

(* Mutant of E_seq: the last branch does not load head_seq again. *)
E_seq_no_reload(t) ==
  /\ pc[t] = "E seq"
  /\ LET dif == seq[Slot(ticket[t])] - ticket[t]
     IN  \/ dif = 0 /\ Goto(t, "E cas") /\ UNCHANGED <<ticket, local>>
         \/ dif < 0 /\ Return(t, "false")
         \/ dif > 0 /\ Goto(t, "E seq") /\ UNCHANGED <<ticket, local>>
  /\ UNCHANGED <<head_seq_, tail_seq_, seq, data>>

(* node_seq = node->seq.load() and the three branches on dif. *)
E_seq(t) ==
  /\ pc[t] = "E seq"
  /\ LET dif == seq[Slot(ticket[t])] - ticket[t]
     IN  \/ dif = 0 /\ Goto(t, "E cas") /\ UNCHANGED <<ticket, local>>
         \/ dif < 0 /\ Return(t, "false")
         \/ dif > 0 /\ Goto(t, "E load") /\ UNCHANGED <<ticket, local>>
  /\ UNCHANGED <<head_seq_, tail_seq_, seq, data>>

(* compare_exchange_weak that succeeds. *)
E_cas(t) ==
  /\ pc[t] = "E cas"
  /\ head_seq_ = ticket[t]
  /\ head_seq_' = head_seq_ + 1
  /\ Goto(t, "E data")
  /\ UNCHANGED <<tail_seq_, seq, data, ticket, local>>

(* compare_exchange_weak that fails, because head_seq_ moved or for no     *)
(* reason: head_seq is loaded with the value found.                        *)
E_cas_fails(t) ==
  /\ pc[t] = "E cas"
  /\ ticket' = [ticket EXCEPT ![t] = head_seq_]
  /\ Goto(t, "E seq")
  /\ UNCHANGED <<head_seq_, tail_seq_, seq, data, local>>

E_data(t) ==
  /\ pc[t] = "E data"
  /\ data' = [data EXCEPT ![Slot(ticket[t])] = local[t]]
  /\ Goto(t, "E store")
  /\ UNCHANGED <<head_seq_, tail_seq_, seq, ticket, local>>

E_store(t) ==
  /\ pc[t] = "E store"
  /\ seq' = [seq EXCEPT ![Slot(ticket[t])] = ticket[t] + 1]
  /\ Return(t, "true")
  /\ UNCHANGED <<head_seq_, tail_seq_, data>>

-----------------------------------------------------------------------------
(* dequeue *)

dequeue(t) ==
  /\ pc[t] = "idle"
  /\ pc' = [pc EXCEPT ![t] = "D load"]
  /\ local' = [local EXCEPT ![t] = None]
  /\ result' = [result EXCEPT ![t] = "busy"]
  /\ UNCHANGED <<head_seq_, tail_seq_, seq, data, ticket>>

D_load(t) ==
  /\ pc[t] = "D load"
  /\ ticket' = [ticket EXCEPT ![t] = tail_seq_]
  /\ Goto(t, "D seq")
  /\ UNCHANGED <<head_seq_, tail_seq_, seq, data, local>>

D_seq(t) ==
  /\ pc[t] = "D seq"
  /\ LET dif == seq[Slot(ticket[t])] - (ticket[t] + 1)
     IN  \/ dif = 0 /\ Goto(t, "D cas") /\ UNCHANGED <<ticket, local>>
         \/ dif < 0 /\ Return(t, "false")
         \/ dif > 0 /\ Goto(t, "D load") /\ UNCHANGED <<ticket, local>>
  /\ UNCHANGED <<head_seq_, tail_seq_, seq, data>>

D_cas(t) ==
  /\ pc[t] = "D cas"
  /\ tail_seq_ = ticket[t]
  /\ tail_seq_' = tail_seq_ + 1
  /\ Goto(t, "D data")
  /\ UNCHANGED <<head_seq_, seq, data, ticket, local>>

D_cas_fails(t) ==
  /\ pc[t] = "D cas"
  /\ ticket' = [ticket EXCEPT ![t] = tail_seq_]
  /\ Goto(t, "D seq")
  /\ UNCHANGED <<head_seq_, tail_seq_, seq, data, local>>

(* Mutant of D_data: the slot is given back before its value is copied. *)
D_data_after_store(t) ==
  /\ pc[t] = "D data"
  /\ seq' = [seq EXCEPT ![Slot(ticket[t])] = ticket[t] + Size]
  /\ Goto(t, "D store")
  /\ UNCHANGED <<head_seq_, tail_seq_, data, ticket, local>>

D_data(t) ==
  /\ pc[t] = "D data"
  /\ local' = [local EXCEPT ![t] = data[Slot(ticket[t])]]
  /\ Goto(t, "D store")
  /\ UNCHANGED <<head_seq_, tail_seq_, seq, data, ticket>>

(* Mutant of D_store: the sequence number of one enqueue later. *)
D_store_too_far(t) ==
  /\ pc[t] = "D store"
  /\ seq' = [seq EXCEPT ![Slot(ticket[t])] = ticket[t] + Size + 1]
  /\ Return(t, "true")
  /\ UNCHANGED <<head_seq_, tail_seq_, data>>

(* node->seq.store(tail_seq + mask_ + 1) *)
D_store(t) ==
  /\ pc[t] = "D store"
  /\ seq' = [seq EXCEPT ![Slot(ticket[t])] = ticket[t] + Size]
  /\ Return(t, "true")
  /\ UNCHANGED <<head_seq_, tail_seq_, data>>

-----------------------------------------------------------------------------
(* A step inside a call. *)
Step(t) ==
  \/ E_load(t)
  \/ E_seq(t)
  \/ E_cas(t)
  \/ E_cas_fails(t)
  \/ E_data(t)
  \/ E_store(t)
  \/ D_load(t)
  \/ D_seq(t)
  \/ D_cas(t)
  \/ D_cas_fails(t)
  \/ D_data(t)
  \/ D_store(t)

QueueNext ==
  \E t \in Threads :
    \/ \E value \in Values : enqueue(t, value)
    \/ dequeue(t)
    \/ Step(t)

QueueSpec == QueueInit /\ [][QueueNext]_queueVars

(* A thread in a call is not suspended for ever, and compare_exchange_weak *)
(* does not fail for no reason every time it is tried.                     *)
Scheduled(t) ==
  /\ WF_queueVars(Step(t))
  /\ SF_queueVars(E_cas(t))
  /\ SF_queueVars(D_cas(t))

-----------------------------------------------------------------------------
Enqueuing(t) == pc[t] \in {"E data", "E store"}
Dequeuing(t) == pc[t] \in {"D data", "D store"}

(* A thread that accesses the data of a node has the node for itself: the  *)
(* accesses are not atomic (78, 118), nothing but the sequence numbers     *)
(* keeps them apart.                                                       *)
NodeExclusive ==
  \A t, u \in Threads :
    /\ t # u
    /\ Enqueuing(t) \/ Dequeuing(t)
    /\ Enqueuing(u) \/ Dequeuing(u)
    => Slot(ticket[t]) # Slot(ticket[u])

(* A thread whose node is ahead of its ticket, so that it repeats the loop *)
(* with a new one ("under normal circumstances this branch should never    *)
(* be taken", 88), has been beaten: another thread took the ticket after   *)
(* it was loaded.  The other way to repeat the loop is a failure of        *)
(* compare_exchange_weak, which may have no reason.                        *)
BeatenOnRetry ==
  \A t \in Threads :
    /\ pc[t] = "E seq" /\ seq[Slot(ticket[t])] > ticket[t] => head_seq_ > ticket[t]
    /\ pc[t] = "D seq" /\ seq[Slot(ticket[t])] > ticket[t] + 1 => tail_seq_ > ticket[t]

(* A call of a thread that is scheduled returns, even if every other       *)
(* thread is suspended for ever, wherever in a call that may be: once the  *)
(* others no longer take the tickets of this one, an outdated ticket is    *)
(* loaded again, and a node that another thread has claimed and not        *)
(* released makes the call fail at once.                                   *)
CallsReturn ==
  \A t \in Threads : Scheduled(t) => (pc[t] # "idle" ~> pc[t] = "idle")

(* The queue as BoundedFifo sees it.  Ticket k is in the queue while       *)
(* tail_seq_ <= k < head_seq_, its value is still with the enqueuing       *)
(* thread until the sequence number of the node is stored.                 *)
Holders(k) == {t \in Threads : Enqueuing(t) /\ ticket[t] = k}

AbstractItem(k) ==
  IF Holders(k) = {}
    THEN [value |-> data[Slot(k)], owner |-> None]
    ELSE LET t == CHOOSE t \in Holders(k) : TRUE
         IN  [value |-> local[t], owner |-> t]

AbstractItems ==
  [i \in 1..(head_seq_ - tail_seq_) |-> AbstractItem(tail_seq_ + i - 1)]

AbstractTaking ==
  [t \in Threads |-> CASE pc[t] = "D data"  -> data[Slot(ticket[t])]
                       [] pc[t] = "D store" -> local[t]
                       [] OTHER             -> None]

Fifo == INSTANCE BoundedFifo WITH items <- AbstractItems, taking <- AbstractTaking

(* The queue implements the bounded FIFO: values leave in the order of     *)
(* their claims, each exactly once and unaltered, and an operation fails   *)
(* only for the reasons BoundedFifo gives.                                 *)
RefinesFifo == Fifo!FifoSpec
=============================================================================
