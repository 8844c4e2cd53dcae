--------------------------- MODULE MpmcQueueProofs ---------------------------
(***************************************************************************)
(* Proofs about MpmcQueue for every size of the ring above one, any number *)
(* of threads and any number of operations.                                *)
(*                                                                         *)
(* The window of tickets tail_seq_ .. tail_seq_ + Size - 1 has one ticket  *)
(* for every node.  The invariant says what the sequence number of the     *)
(* node of each of these tickets is, and which thread has the node when    *)
(* the number alone does not tell; a thread's own ticket says the rest.    *)
(***************************************************************************)
EXTENDS MpmcQueue, FiniteSetTheorems, TLAPS

(* The labels of enqueue and of dequeue.                                   *)
E_labels == {"E load", "E seq", "E cas", "E data", "E store"}
D_labels == {"D load", "D seq", "D cas", "D data", "D store"}

(* The types of the variables. A sequence number is an integer here; that  *)
(* it is never negative follows from the other parts.                      *)
QueueTypeOK ==
  /\ head_seq_ \in Nat
  /\ tail_seq_ \in Nat
  /\ seq \in [Slots -> Int]
  /\ data \in [Slots -> Values \cup {None}]
  /\ pc \in [Threads -> {"idle"} \cup E_labels \cup D_labels]
  /\ ticket \in [Threads -> Nat]
  /\ local \in [Threads -> Values \cup {None}]
  /\ result \in [Threads -> {"none", "busy", "true", "false"}]

(* The queue never holds more than Size values: head_seq_ runs ahead of    *)
(* tail_seq_ by at most the number of nodes.                               *)
NotOverfull == tail_seq_ <= head_seq_ /\ head_seq_ <= tail_seq_ + Size

(* The node of a ticket k in the queue: its enqueue is between its two     *)
(* steps, or its value is there to be taken.                               *)
OccupiedAt(k) ==
  \/ seq[Slot(k)] = k /\ \E t \in Threads : Enqueuing(t) /\ ticket[t] = k
  \/ /\ seq[Slot(k)] = k + 1
     /\ data[Slot(k)] \in Values
     /\ \A t \in Threads : ~(Enqueuing(t) /\ ticket[t] = k)

Occupied == \A k \in Nat : tail_seq_ <= k /\ k < head_seq_ => OccupiedAt(k)

(* The node of a ticket k that can be claimed next: free, or still with    *)
(* the dequeue of the round before.                                        *)
VacantAt(k) ==
  \/ seq[Slot(k)] = k
  \/ /\ seq[Slot(k)] = k - Size + 1
     /\ \E t \in Threads : Dequeuing(t) /\ ticket[t] = k - Size

Vacant == \A k \in Nat : head_seq_ <= k /\ k < tail_seq_ + Size => VacantAt(k)

(* The node of a ticket that was dequeued is ahead of it for ever.         *)
Passed == \A k \in Nat : k < tail_seq_ => seq[Slot(k)] > k

(* A thread that claimed a place: its ticket is in the queue and the node  *)
(* still has the number that made the claim possible.                      *)
Enqueuer(t) ==
  /\ tail_seq_ <= ticket[t] /\ ticket[t] < head_seq_
  /\ seq[Slot(ticket[t])] = ticket[t]

Enqueuers == \A t \in Threads : Enqueuing(t) => Enqueuer(t)

(* A thread that took a value: its ticket has left the queue, no enqueue   *)
(* has claimed the node again, and the node still has the number that says *)
(* there is a value in it.                                                 *)
Dequeuer(t) ==
  /\ ticket[t] < tail_seq_ /\ head_seq_ <= ticket[t] + Size
  /\ seq[Slot(ticket[t])] = ticket[t] + 1

Dequeuers == \A t \in Threads : Dequeuing(t) => Dequeuer(t)

(* What the data of a node is while a thread is between its two steps.     *)
Written(t) ==
  /\ pc[t] = "E store" => data[Slot(ticket[t])] = local[t]
  /\ pc[t] = "D data" => data[Slot(ticket[t])] \in Values

Writings == \A t \in Threads : Written(t)

(* compare_exchange gives a ticket to one thread.                          *)
TicketsUnique ==
  \A t, u \in Threads :
    /\ t # u
    /\ (Enqueuing(t) /\ Enqueuing(u)) \/ (Dequeuing(t) /\ Dequeuing(u))
    => ticket[t] # ticket[u]

(* The ticket a thread is trying to get is not ahead of the counter, and   *)
(* when it is still the current one what the thread found in the node      *)
(* still holds: nobody can change that node before somebody gets the       *)
(* ticket.                                                                 *)
Claim(t) ==
  /\ pc[t] \in {"E seq", "E cas"} => ticket[t] <= head_seq_
  /\ pc[t] \in {"D seq", "D cas"} => ticket[t] <= tail_seq_
  /\ pc[t] = "E cas" /\ ticket[t] = head_seq_ => seq[Slot(ticket[t])] = ticket[t]
  /\ pc[t] = "D cas" /\ ticket[t] = tail_seq_ => seq[Slot(ticket[t])] = ticket[t] + 1

Claims == \A t \in Threads : Claim(t)

(* A call is under way exactly while its thread is not idle; an enqueue    *)
(* has a value from its first step on, a dequeue from the copy on.         *)
Call(t) ==
  /\ IF pc[t] = "idle" THEN result[t] # "busy" ELSE result[t] = "busy"
  /\ pc[t] \in E_labels \cup {"D store"} => local[t] \in Values

Calls == \A t \in Threads : Call(t)

(* The inductive invariant.                                                *)
QueueInv ==
  /\ QueueTypeOK
  /\ NotOverfull
  /\ Occupied
  /\ Vacant
  /\ Passed
  /\ Enqueuers
  /\ Dequeuers
  /\ Writings
  /\ TicketsUnique
  /\ Claims
  /\ Calls

(* A ticket selects a node of the ring (sequence & mask_).                 *)
LEMMA SlotType ==
  ASSUME NEW k \in Nat PROVE Slot(k) \in Slots
BY MpmcAssumption DEF Slot, Slots

(* Multiplication distributes over subtraction.                            *)
LEMMA Distributes ==
  ASSUME NEW a \in Int, NEW b \in Int, NEW c \in Int
  PROVE  a * (b - c) = a * b - a * c
OBVIOUS

(* A ticket is a number of whole rounds and the node it selects.           *)
LEMMA Rounds ==
  ASSUME NEW k \in Nat
  PROVE  \E q \in Nat : k = Size * q + Slot(k)
<1>0. Size \in Nat /\ Size > 0
  BY MpmcAssumption
<1> DEFINE q == k \div Size
<1>1. q \in Nat
  BY <1>0
<1>2. k = Size * q + (k % Size)
  BY <1>0, <1>1
<1> QED
  BY <1>1, <1>2 DEF Slot

(* Two tickets of the same node are at least one round apart.              *)
LEMMA SlotApart ==
  ASSUME NEW j \in Nat, NEW k \in Nat, Slot(j) = Slot(k), j < k
  PROVE  j + Size <= k
<1>0. Size \in Nat /\ Size > 0 /\ Slot(j) \in Nat /\ Slot(k) \in Nat
  BY MpmcAssumption, SlotType DEF Slots
<1>1. PICK p \in Nat : j = Size * p + Slot(j)
  BY Rounds
<1>2. PICK q \in Nat : k = Size * q + Slot(k)
  BY Rounds
<1>3. k - j = Size * (q - p)
  <2>1. k - j = Size * q - Size * p
    BY <1>0, <1>1, <1>2
  <2> QED
    BY <2>1, <1>0, Distributes
<1>4. q - p >= 1
  BY <1>3, <1>0
<1>5. Size * (q - p) >= Size
  BY <1>4, <1>0
<1> QED
  BY <1>3, <1>5, <1>0

(* A ticket and that of the next round select the same node.               *)
LEMMA SlotNext ==
  ASSUME NEW k \in Nat PROVE Slot(k + Size) = Slot(k)
<1> DEFINE m == k + Size
<1>0. Size \in Nat /\ Size > 0 /\ Slot(k) \in Nat /\ Slot(k) < Size 
      /\ Slot(m) \in Nat /\ Slot(m) < Size /\ m \in Nat
  BY MpmcAssumption, SlotType DEF Slots
<1>1. PICK p \in Nat : k = Size * p + Slot(k)
  BY Rounds
<1>2. PICK q \in Nat : m = Size * q + Slot(m)
  BY <1>0, Rounds
<1> DEFINE d == q - (p + 1)
<1>3. Slot(k) - Slot(m) = Size * d
  <2>1. Size * d = Size * q - Size * (p + 1)
    BY <1>0, Distributes
  <2>2. Size * (p + 1) = Size * p + Size
    BY <1>0
  <2> QED
    BY <2>1, <2>2, <1>0, <1>1, <1>2
<1>4. d = 0
  <2> HIDE DEF d, m
  <2>0. d \in Int
    BY DEF d
  <2>1. CASE d >= 1
    <3>1. Size * d >= Size
      BY <2>0, <2>1, <1>0
    <3> QED
      BY <3>1, <1>3, <1>0
  <2>2. CASE d <= -1
    <3>1. Size * d <= -Size
      BY <2>0, <2>2, <1>0
    <3> QED
      BY <3>1, <1>3, <1>0
  <2> QED
    BY <2>0, <2>1, <2>2
<1> QED
  BY <1>0, <1>3, <1>4

(* SlotApart without the order of the two tickets.                         *)
LEMMA SlotDistinct ==
  ASSUME NEW j \in Nat, NEW k \in Nat, Slot(j) = Slot(k)
  PROVE  j = k \/ j + Size <= k \/ k + Size <= j
BY SlotApart

-----------------------------------------------------------------------------
(* In the first round a ticket selects the node of its own number, so the  *)
(* constructor's sequence numbers are right.                               *)
LEMMA SlotSmall ==
  ASSUME NEW k \in Slots PROVE Slot(k) = k
<1>0. Size \in Nat /\ k \in Nat /\ k < Size /\ Slot(k) \in Nat
  BY MpmcAssumption, SlotType DEF Slots
<1>1. PICK q \in Nat : k = Size * q + Slot(k)
  BY <1>0, Rounds
<1>2. q = 0
  <2>1. CASE q >= 1
    <3>1. Size * q >= Size
      BY <1>0, <2>1
    <3> QED
      BY <3>1, <1>0, <1>1
  <2> QED
    BY <2>1
<1> QED
  BY <1>0, <1>1, <1>2

(* The constructor establishes the invariant.                              *)
LEMMA QueueInitial == QueueInit => QueueInv
<1> SUFFICES ASSUME QueueInit PROVE QueueInv
  OBVIOUS
<1>0. Size \in Nat /\ Size > 0
  BY MpmcAssumption
<1>1. QueueTypeOK
  BY <1>0 DEF QueueInit, QueueTypeOK, Slots
<1>2. Vacant
  BY <1>0, SlotSmall DEF QueueInit, Vacant, VacantAt, Slots
<1>3. NotOverfull /\ Occupied /\ Passed
  BY <1>0 DEF QueueInit, NotOverfull, Occupied, Passed
<1>4. Enqueuers /\ Dequeuers /\ Writings /\ TicketsUnique
  BY DEF QueueInit, Writings, Written, Enqueuers, Dequeuers, TicketsUnique, Enqueuing, Dequeuing
<1>5. Claims /\ Calls
  BY DEF QueueInit, Claims, Calls, Claim, Call, E_labels
<1> QED
  BY <1>1, <1>2, <1>3, <1>4, <1>5 DEF QueueInv

(* A step that changes no node and no counter, and nothing of the threads  *)
(* between their two steps, keeps the parts of the invariant about them.   *)
LEMMA Quiet ==
  ASSUME QueueInv, QueueTypeOK', Claims', Calls',
         UNCHANGED <<head_seq_, tail_seq_, seq, data>>,
         \A t \in Threads : Enqueuing(t)' <=> Enqueuing(t),
         \A t \in Threads : Dequeuing(t)' <=> Dequeuing(t),
         \A t \in Threads : Enqueuing(t) \/ Dequeuing(t) =>
           pc'[t] = pc[t] /\ ticket'[t] = ticket[t] /\ local'[t] = local[t]
  PROVE  QueueInv'
<1> USE DEF QueueInv
<1>1. NotOverfull' /\ Passed'
  BY DEF NotOverfull, Passed
<1>2. Occupied'
  BY DEF Occupied, OccupiedAt
<1>3. Vacant'
  BY DEF Vacant, VacantAt
<1>4. Enqueuers' /\ Dequeuers'
  BY DEF Enqueuers, Dequeuers, Enqueuer, Dequeuer
<1>5. Writings'
  BY DEF Writings, Written, Enqueuing, Dequeuing
<1>6. TicketsUnique'
  BY DEF TicketsUnique
<1> QED
  BY <1>1, <1>2, <1>3, <1>4, <1>5, <1>6

(* The steps of a thread that does not have a node.                        *)
QuietStep(t) ==
  \/ \E value \in Values : enqueue(t, value)
  \/ dequeue(t)
  \/ E_load(t)
  \/ E_seq(t)
  \/ E_cas_fails(t)
  \/ D_load(t)
  \/ D_seq(t)
  \/ D_cas_fails(t)

(* A step of a thread changes nothing of another.                          *)
LEMMA Others ==
  ASSUME QueueTypeOK, NEW t \in Threads, NEW u \in Threads, u # t,
         QuietStep(t) \/ Step(t)
  PROVE  /\ pc'[u] = pc[u]
         /\ ticket'[u] = ticket[u]
         /\ local'[u] = local[u]
         /\ result'[u] = result[u]
BY DEF QueueTypeOK, QuietStep, Step, enqueue, dequeue, E_load, E_seq, E_cas, E_cas_fails,
       E_data, E_store, D_load, D_seq, D_cas, D_cas_fails, D_data, D_store, Goto, Return

(* The three branches of enqueue on the node's sequence number.            *)
LEMMA E_seqBranches ==
  ASSUME QueueTypeOK, NEW t \in Threads, E_seq(t)
  PROVE  \/ /\ seq[Slot(ticket[t])] = ticket[t]
            /\ Goto(t, "E cas") /\ UNCHANGED <<ticket, local>>
         \/ seq[Slot(ticket[t])] < ticket[t] /\ Return(t, "false")
         \/ /\ seq[Slot(ticket[t])] > ticket[t]
            /\ Goto(t, "E load") /\ UNCHANGED <<ticket, local>>
<1>1. ticket[t] \in Nat /\ seq[Slot(ticket[t])] \in Int
  BY SlotType DEF QueueTypeOK
<1>2. LET a == seq[Slot(ticket[t])]
          b == ticket[t]
      IN  (a - b = 0 => a = b) /\ (a - b < 0 => a < b) /\ (a - b > 0 => a > b)
  BY <1>1
<1> QED
  BY <1>2, Zenon DEF E_seq

(* The three branches of dequeue on the node's sequence number.            *)
LEMMA D_seqBranches ==
  ASSUME QueueTypeOK, NEW t \in Threads, D_seq(t)
  PROVE  \/ /\ seq[Slot(ticket[t])] = ticket[t] + 1
            /\ Goto(t, "D cas") /\ UNCHANGED <<ticket, local>>
         \/ seq[Slot(ticket[t])] < ticket[t] + 1 /\ Return(t, "false")
         \/ /\ seq[Slot(ticket[t])] > ticket[t] + 1
            /\ Goto(t, "D load") /\ UNCHANGED <<ticket, local>>
<1>1. ticket[t] \in Nat /\ seq[Slot(ticket[t])] \in Int
  BY SlotType DEF QueueTypeOK
<1>2. LET a == seq[Slot(ticket[t])]
          b == ticket[t] + 1
      IN  (a - b = 0 => a = b) /\ (a - b < 0 => a < b) /\ (a - b > 0 => a > b)
  BY <1>1
<1> QED
  BY <1>2, Zenon DEF D_seq

(* The steps before a claim, and those that fail, keep the invariant.      *)
LEMMA QuietSteps ==
  ASSUME QueueInv, NEW t \in Threads, QuietStep(t)
  PROVE  QueueInv'
<1> USE DEF QueueInv, Goto, Return
<1>1. QueueTypeOK'
  <2>1. CASE \E value \in Values : enqueue(t, value)
    BY <2>1 DEF QueueTypeOK, E_labels, D_labels, enqueue
  <2>2. CASE dequeue(t)
    BY <2>2 DEF QueueTypeOK, E_labels, D_labels, dequeue
  <2>3. CASE E_load(t)
    BY <2>3 DEF QueueTypeOK, E_labels, D_labels, E_load
  <2>4. CASE E_seq(t)
    <3>2. UNCHANGED <<head_seq_, tail_seq_, seq, data>>
      BY <2>4 DEF E_seq
    <3>3. CASE Goto(t, "E cas") /\ UNCHANGED <<ticket, local>>
      BY <3>2, <3>3 DEF QueueTypeOK, E_labels, D_labels
    <3>4. CASE Return(t, "false")
      BY <3>2, <3>4 DEF QueueTypeOK, E_labels, D_labels
    <3>5. CASE Goto(t, "E load") /\ UNCHANGED <<ticket, local>>
      BY <3>2, <3>5 DEF QueueTypeOK, E_labels, D_labels
    <3> QED
      BY <2>4, <3>3, <3>4, <3>5, E_seqBranches
  <2>5. CASE E_cas_fails(t)
    BY <2>5 DEF QueueTypeOK, E_labels, D_labels, E_cas_fails
  <2>6. CASE D_load(t)
    BY <2>6 DEF QueueTypeOK, E_labels, D_labels, D_load
  <2>7. CASE D_seq(t)
    <3>2. UNCHANGED <<head_seq_, tail_seq_, seq, data>>
      BY <2>7 DEF D_seq
    <3>3. CASE Goto(t, "D cas") /\ UNCHANGED <<ticket, local>>
      BY <3>2, <3>3 DEF QueueTypeOK, E_labels, D_labels
    <3>4. CASE Return(t, "false")
      BY <3>2, <3>4 DEF QueueTypeOK, E_labels, D_labels
    <3>5. CASE Goto(t, "D load") /\ UNCHANGED <<ticket, local>>
      BY <3>2, <3>5 DEF QueueTypeOK, E_labels, D_labels
    <3> QED
      BY <2>7, <3>3, <3>4, <3>5, D_seqBranches
  <2>8. CASE D_cas_fails(t)
    BY <2>8 DEF QueueTypeOK, E_labels, D_labels, D_cas_fails
  <2> QED
    BY <2>1, <2>2, <2>3, <2>4, <2>5, <2>6, <2>7, <2>8 DEF QuietStep
<1>2. UNCHANGED <<head_seq_, tail_seq_, seq, data>>
  BY DEF QuietStep, enqueue, dequeue, E_load, E_seq, E_cas_fails, D_load, D_seq,
         D_cas_fails
<1>3. ASSUME NEW u \in Threads
      PROVE  Claim(u)'
  <2>0. Claim(u)
    BY DEF Claims
  <2>a. CASE u # t
    <3>1. pc'[u] = pc[u] /\ ticket'[u] = ticket[u]
      BY <2>a, Others
    <3> QED
      BY <2>0, <3>1, <1>2 DEF Claim
  <2>1. CASE u = t /\ \E value \in Values : enqueue(t, value)
    BY <2>1 DEF Claim, QueueTypeOK, enqueue
  <2>2. CASE u = t /\ dequeue(t)
    BY <2>2 DEF Claim, QueueTypeOK, dequeue
  <2>3. CASE u = t /\ E_load(t)
    <3>1. pc'[t] = "E seq" /\ ticket'[t] <= head_seq_'
      <4>1. pc'[t] = "E seq"
        BY <2>3 DEF QueueTypeOK, E_load
      <4>2. ticket'[t] <= head_seq_'
        <5>1. ticket'[t] = head_seq_'
          BY <2>3 DEF QueueTypeOK, E_load
        <5>2. head_seq_' \in Nat
          BY <1>1 DEF QueueTypeOK
        <5> QED
          BY <5>1, <5>2
      <4> QED
        BY <4>1, <4>2
    <3> QED
      BY <2>0, <2>3, <3>1, <1>2 DEF Claim, QueueTypeOK
  <2>4. CASE u = t /\ E_seq(t)
    <3>1. \/ /\ pc[t] = "E seq" /\ pc'[t] = "E cas"
             /\ ticket'[t] = ticket[t] /\ seq[Slot(ticket[t])] = ticket[t]
          \/ pc'[t] \in {"idle", "E load"}
      <4>1. pc[t] = "E seq"
        BY <2>4 DEF E_seq
      <4> QED
        BY <2>4, <4>1, E_seqBranches DEF QueueTypeOK
    <3> QED
      BY <2>0, <2>4, <3>1, <1>2 DEF Claim
  <2>5. CASE u = t /\ E_cas_fails(t)
    <3>1. pc'[t] = "E seq" /\ ticket'[t] <= head_seq_'
      <4>1. pc'[t] = "E seq"
        BY <2>5 DEF QueueTypeOK, E_cas_fails
      <4>2. ticket'[t] <= head_seq_'
        <5>1. ticket'[t] = head_seq_'
          BY <2>5 DEF QueueTypeOK, E_cas_fails
        <5>2. head_seq_' \in Nat
          BY <1>1 DEF QueueTypeOK
        <5> QED
          BY <5>1, <5>2
      <4> QED
        BY <4>1, <4>2
    <3> QED
      BY <2>0, <2>5, <3>1, <1>2 DEF Claim, QueueTypeOK
  <2>6. CASE u = t /\ D_load(t)
    <3>1. pc'[t] = "D seq" /\ ticket'[t] <= tail_seq_'
      <4>1. pc'[t] = "D seq"
        BY <2>6 DEF QueueTypeOK, D_load
      <4>2. ticket'[t] <= tail_seq_'
        <5>1. ticket'[t] = tail_seq_'
          BY <2>6 DEF QueueTypeOK, D_load
        <5>2. tail_seq_' \in Nat
          BY <1>1 DEF QueueTypeOK
        <5> QED
          BY <5>1, <5>2
      <4> QED
        BY <4>1, <4>2
    <3> QED
      BY <2>0, <2>6, <3>1, <1>2 DEF Claim, QueueTypeOK
  <2>7. CASE u = t /\ D_seq(t)
    <3>1. \/ /\ pc[t] = "D seq" /\ pc'[t] = "D cas"
             /\ ticket'[t] = ticket[t] /\ seq[Slot(ticket[t])] = ticket[t] + 1
          \/ pc'[t] \in {"idle", "D load"}
      <4>1. pc[t] = "D seq"
        BY <2>7 DEF D_seq
      <4> QED
        BY <2>7, <4>1, D_seqBranches DEF QueueTypeOK
    <3> QED
      BY <2>0, <2>7, <3>1, <1>2 DEF Claim
  <2>8. CASE u = t /\ D_cas_fails(t)
    <3>1. pc'[t] = "D seq" /\ ticket'[t] <= tail_seq_'
      <4>1. pc'[t] = "D seq"
        BY <2>8 DEF QueueTypeOK, D_cas_fails
      <4>2. ticket'[t] <= tail_seq_'
        <5>1. ticket'[t] = tail_seq_'
          BY <2>8 DEF QueueTypeOK, D_cas_fails
        <5>2. tail_seq_' \in Nat
          BY <1>1 DEF QueueTypeOK
        <5> QED
          BY <5>1, <5>2
      <4> QED
        BY <4>1, <4>2
    <3> QED
      BY <2>0, <2>8, <3>1, <1>2 DEF Claim, QueueTypeOK
  <2> QED
    BY <2>a, <2>1, <2>2, <2>3, <2>4, <2>5, <2>6, <2>7, <2>8 DEF QuietStep
<1>4. ASSUME NEW u \in Threads
      PROVE  Call(u)'
  <2>0. Call(u)
    BY DEF Calls
  <2>a. CASE u # t
    <3>1. pc'[u] = pc[u] /\ local'[u] = local[u] /\ result'[u] = result[u]
      BY <2>a, Others
    <3> QED
      BY <2>0, <3>1 DEF Call
  <2>1. CASE u = t /\ \E value \in Values : enqueue(t, value)
    BY <2>0, <2>1 DEF Call, QueueTypeOK, E_labels, enqueue
  <2>2. CASE u = t /\ dequeue(t)
    BY <2>0, <2>2 DEF Call, QueueTypeOK, E_labels, dequeue
  <2>3. CASE u = t /\ E_load(t)
    BY <2>0, <2>3 DEF Call, QueueTypeOK, E_labels, E_load
  <2>4. CASE u = t /\ E_seq(t)
    BY <2>0, <2>4, SlotType DEF Call, QueueTypeOK, E_labels, E_seq
  <2>5. CASE u = t /\ E_cas_fails(t)
    BY <2>0, <2>5 DEF Call, QueueTypeOK, E_labels, E_cas_fails
  <2>6. CASE u = t /\ D_load(t)
    BY <2>0, <2>6 DEF Call, QueueTypeOK, E_labels, D_load
  <2>7. CASE u = t /\ D_seq(t)
    BY <2>0, <2>7, SlotType DEF Call, QueueTypeOK, E_labels, D_seq
  <2>8. CASE u = t /\ D_cas_fails(t)
    BY <2>0, <2>8 DEF Call, QueueTypeOK, E_labels, D_cas_fails
  <2> QED
    BY <2>a, <2>1, <2>2, <2>3, <2>4, <2>5, <2>6, <2>7, <2>8 DEF QuietStep
<1>5. /\ \A u \in Threads : Enqueuing(u)' <=> Enqueuing(u)
      /\ \A u \in Threads : Dequeuing(u)' <=> Dequeuing(u)
      /\ \A u \in Threads : Enqueuing(u) \/ Dequeuing(u) =>
                                pc'[u] = pc[u] /\ ticket'[u] = ticket[u] /\ local'[u] = local[u]
  BY DEF Enqueuing, Dequeuing, QueueTypeOK, QuietStep, enqueue, dequeue, E_load, E_seq,
         E_cas_fails, D_load, D_seq, D_cas_fails
<1> QED
  BY <1>1, <1>2, <1>3, <1>4, <1>5, Quiet DEF Claims, Calls

(* Two threads between their two steps have different nodes. Two           *)
(* enqueuers, or two dequeuers, have different tickets less than a round   *)
(* apart; an enqueuer and a dequeuer of the same node would have to see    *)
(* the same sequence number, k for the one and j + 1 for the other, with k *)
(* at least a round after j: that is where a ring of one node fails.       *)
LEMMA Apart ==
  ASSUME QueueInv, NEW t \in Threads, NEW u \in Threads, t # u,
         Enqueuing(t) \/ Dequeuing(t), Enqueuing(u) \/ Dequeuing(u), Size > 1
  PROVE  Slot(ticket[t]) # Slot(ticket[u])
<1> SUFFICES ASSUME Slot(ticket[t]) = Slot(ticket[u])
             PROVE  FALSE
  OBVIOUS
<1> USE DEF QueueInv
<1>0. Size \in Nat /\ head_seq_ \in Nat /\ tail_seq_ \in Nat
  BY MpmcAssumption DEF QueueTypeOK
<1>1. ticket[t] \in Nat /\ ticket[u] \in Nat
  BY DEF QueueTypeOK
<1>2. \/ ticket[t] = ticket[u]
      \/ ticket[t] + Size <= ticket[u]
      \/ ticket[u] + Size <= ticket[t]
  BY <1>1, SlotDistinct
<1>3. CASE Enqueuing(t) /\ Enqueuing(u)
  <2>1. Enqueuer(t) /\ Enqueuer(u) /\ ticket[t] # ticket[u]
    BY <1>3 DEF Enqueuers, TicketsUnique
  <2> QED
    BY <1>0, <1>1, <1>2, <2>1 DEF Enqueuer, NotOverfull
<1>4. CASE Dequeuing(t) /\ Dequeuing(u)
  <2>1. Dequeuer(t) /\ Dequeuer(u) /\ ticket[t] # ticket[u]
    BY <1>4 DEF Dequeuers, TicketsUnique
  <2> QED
    BY <1>0, <1>1, <1>2, <2>1 DEF Dequeuer, NotOverfull
<1>5. CASE Enqueuing(t) /\ Dequeuing(u)
  <2>1. Enqueuer(t) /\ Dequeuer(u)
    BY <1>5 DEF Enqueuers, Dequeuers
  <2> QED
    BY <1>0, <1>1, <1>2, <2>1 DEF Enqueuer, Dequeuer
<1>6. CASE Dequeuing(t) /\ Enqueuing(u)
  <2>1. Dequeuer(t) /\ Enqueuer(u)
    BY <1>6 DEF Enqueuers, Dequeuers
  <2> QED
    BY <1>0, <1>1, <1>2, <2>1 DEF Enqueuer, Dequeuer
<1> QED
  BY <1>3, <1>4, <1>5, <1>6

(* A claim of enqueue keeps the invariant: the number of the node shows    *)
(* that the queue is not full, and that the dequeue of the round before    *)
(* has left the node.                                                      *)
LEMMA E_casStep ==
  ASSUME QueueInv, Size > 1, NEW t \in Threads, E_cas(t)
  PROVE  QueueInv'
<1> USE DEF QueueInv
<1>0. Size \in Nat /\ head_seq_ \in Nat /\ tail_seq_ \in Nat /\ ticket[t] = head_seq_
  BY MpmcAssumption DEF QueueTypeOK, E_cas
<1>1. /\ head_seq_' = head_seq_ + 1
      /\ UNCHANGED <<tail_seq_, seq, data, ticket, local, result>>
  BY DEF E_cas, Goto
<1>2. QueueTypeOK'
  <2>1. pc' \in [Threads -> {"idle"} \cup E_labels \cup D_labels]
    BY DEF QueueTypeOK, E_cas, Goto, E_labels
  <2>2. head_seq_' \in Nat
    BY <1>0, <1>1
  <2> QED
    BY <1>1, <2>1, <2>2 DEF QueueTypeOK
<1>3. /\ ~Enqueuing(t)
      /\ \A u \in Threads : Enqueuing(u)' <=> Enqueuing(u) \/ u = t
      /\ \A u \in Threads : Dequeuing(u)' <=> Dequeuing(u)
  BY DEF QueueTypeOK, E_cas, Goto, Enqueuing, Dequeuing
<1>4. seq[Slot(head_seq_)] = head_seq_
  BY <1>0 DEF Claims, Claim, E_cas
<1>5. head_seq_ < tail_seq_ + Size
  <2> SUFFICES ASSUME head_seq_ = tail_seq_ + Size PROVE FALSE
    BY <1>0 DEF NotOverfull
  <2>1. Slot(head_seq_) = Slot(tail_seq_)
    BY <1>0, SlotNext
  <2>2. OccupiedAt(tail_seq_)
    BY <1>0 DEF Occupied
  <2> QED
    BY <1>0, <1>4, <2>1, <2>2 DEF OccupiedAt
<1>6. NotOverfull'
  BY <1>0, <1>1, <1>5 DEF NotOverfull
<1>7. ASSUME NEW k \in Nat, tail_seq_ <= k, k < head_seq_'
      PROVE  OccupiedAt(k)'
  <2>1. CASE k = head_seq_
    BY <1>0, <1>1, <1>3, <1>4, <2>1 DEF OccupiedAt
  <2>2. CASE k < head_seq_
    <3>1. OccupiedAt(k)
      BY <1>7, <2>2 DEF Occupied
    <3>2. k # ticket[t]
      BY <1>0, <2>2
    <3> QED
      BY <1>1, <1>3, <3>1, <3>2 DEF OccupiedAt
  <2> QED
    BY <1>0, <1>1, <1>7, <2>1, <2>2
<1>8. Vacant'
  <2> SUFFICES ASSUME NEW k \in Nat, head_seq_' <= k, k < tail_seq_' + Size
               PROVE  VacantAt(k)'
    BY DEF Vacant
  <2>1. VacantAt(k)
    BY <1>0, <1>1 DEF Vacant
  <2> QED
    BY <1>1, <1>3, <2>1 DEF VacantAt
<1>9. Passed'
  BY <1>1 DEF Passed
<1>10. Enqueuers'
  <2> SUFFICES ASSUME NEW u \in Threads, Enqueuing(u)' PROVE Enqueuer(u)'
    BY DEF Enqueuers
  <2>1. CASE u = t
    BY <1>0, <1>1, <1>4, <2>1 DEF Enqueuer, NotOverfull
  <2>2. CASE Enqueuing(u)
    <3>1. Enqueuer(u) /\ ticket[u] \in Nat
      BY <2>2 DEF Enqueuers, QueueTypeOK
    <3> QED
      BY <1>0, <1>1, <3>1 DEF Enqueuer
  <2> QED
    BY <1>3, <2>1, <2>2
<1>11. Dequeuers'
  <2> SUFFICES ASSUME NEW u \in Threads, Dequeuing(u) PROVE Dequeuer(u)'
    BY <1>3 DEF Dequeuers
  <2>1. Dequeuer(u) /\ ticket[u] \in Nat
    BY DEF Dequeuers, QueueTypeOK
  <2>2. ticket[u] + Size # head_seq_
    <3>1. Slot(ticket[u] + Size) = Slot(ticket[u])
      BY <2>1, SlotNext
    <3> QED
      BY <1>0, <1>4, <2>1, <3>1 DEF Dequeuer
  <2> QED
    BY <1>0, <1>1, <2>1, <2>2 DEF Dequeuer
<1>12. TicketsUnique'
  <2>1. ASSUME NEW u \in Threads, Enqueuing(u) PROVE ticket[u] # ticket[t]
    BY <1>0, <2>1 DEF Enqueuers, Enqueuer
  <2> QED
    BY <1>1, <1>3, <2>1 DEF TicketsUnique
<1>13. ASSUME NEW u \in Threads
       PROVE  Claim(u)' /\ Call(u)' /\ Written(u)'
  <2>0. Claim(u) /\ Call(u) /\ Written(u) /\ ticket[u] \in Nat
    BY DEF Claims, Calls, Writings, QueueTypeOK
  <2>1. CASE u = t
    <3>1. pc[t] = "E cas" /\ pc'[t] = "E data"
      BY DEF E_cas, Goto, QueueTypeOK
    <3> QED
      BY <2>0, <2>1, <3>1, <1>1 DEF Claim, Call, Written, E_labels
  <2>2. CASE u # t
    <3>1. pc'[u] = pc[u]
      BY <2>2, Others DEF Step
    <3>2. Call(u)' /\ Written(u)'
      BY <2>0, <3>1, <1>1 DEF Call, Written
    <3>3. ticket[u] <= head_seq_ => ticket[u] <= head_seq_' /\ ticket[u] # head_seq_'
      BY <1>0, <1>1, <2>0
    <3>4. Claim(u)'
      BY <2>0, <3>1, <3>3, <1>1 DEF Claim
    <3> QED
      BY <3>2, <3>4
  <2> QED
    BY <2>1, <2>2
<1>14. Occupied'
  BY <1>1, <1>7 DEF Occupied
<1> QED
  BY <1>2, <1>6, <1>14, <1>8, <1>9, <1>10, <1>11, <1>12, <1>13 DEF Claims, Calls, Writings

(* A claim of dequeue keeps the invariant: the number of the node shows    *)
(* that the queue is not empty and that the value has been stored.         *)
LEMMA D_casStep ==
  ASSUME QueueInv, Size > 1, NEW t \in Threads, D_cas(t)
  PROVE  QueueInv'
<1> USE DEF QueueInv
<1>0. Size \in Nat /\ head_seq_ \in Nat /\ tail_seq_ \in Nat /\ ticket[t] = tail_seq_
  BY MpmcAssumption DEF QueueTypeOK, D_cas
<1>1. /\ tail_seq_' = tail_seq_ + 1
      /\ UNCHANGED <<head_seq_, seq, data, ticket, local, result>>
  BY DEF D_cas, Goto
<1>2. QueueTypeOK'
  <2>1. pc' \in [Threads -> {"idle"} \cup E_labels \cup D_labels]
    BY DEF QueueTypeOK, D_cas, Goto, D_labels
  <2>2. tail_seq_' \in Nat
    BY <1>0, <1>1
  <2> QED
    BY <1>1, <2>1, <2>2 DEF QueueTypeOK
<1>3. /\ \A u \in Threads : Dequeuing(u)' <=> Dequeuing(u) \/ u = t
      /\ \A u \in Threads : Enqueuing(u)' <=> Enqueuing(u)
  BY DEF QueueTypeOK, D_cas, Goto, Enqueuing, Dequeuing
<1>4. seq[Slot(tail_seq_)] = tail_seq_ + 1
  BY <1>0 DEF Claims, Claim, D_cas
<1>5. tail_seq_ < head_seq_
  <2> SUFFICES ASSUME head_seq_ = tail_seq_ PROVE FALSE
    BY <1>0 DEF NotOverfull
  <2>1. VacantAt(tail_seq_)
    BY <1>0 DEF Vacant
  <2> QED
    BY <1>0, <1>4, <2>1 DEF VacantAt
<1>6. /\ data[Slot(tail_seq_)] \in Values
      /\ \A u \in Threads : ~(Enqueuing(u) /\ ticket[u] = tail_seq_)
  <2>1. OccupiedAt(tail_seq_)
    BY <1>0, <1>5 DEF Occupied
  <2> QED
    BY <1>0, <1>4, <2>1 DEF OccupiedAt
<1>7. NotOverfull'
  BY <1>0, <1>1, <1>5 DEF NotOverfull
<1>8. Occupied'
  <2> SUFFICES ASSUME NEW k \in Nat, tail_seq_' <= k, k < head_seq_'
               PROVE  OccupiedAt(k)'
    BY DEF Occupied
  <2>1. OccupiedAt(k)
    BY <1>0, <1>1 DEF Occupied
  <2> QED
    BY <1>1, <1>3, <2>1 DEF OccupiedAt
<1>9. Vacant'
  <2> SUFFICES ASSUME NEW k \in Nat, head_seq_' <= k, k < tail_seq_' + Size
               PROVE  VacantAt(k)'
    BY DEF Vacant
  <2>1. CASE k = tail_seq_ + Size
    <3>1. seq[Slot(k)] = k - Size + 1
      BY <1>0, <1>4, <2>1, SlotNext
    <3>2. ticket[t] = k - Size
      BY <1>0, <2>1
    <3> QED
      BY <1>1, <1>3, <3>1, <3>2 DEF VacantAt
  <2>2. CASE k < tail_seq_ + Size
    <3>1. VacantAt(k)
      BY <1>1, <2>2 DEF Vacant
    <3> QED
      BY <1>1, <1>3, <3>1 DEF VacantAt
  <2> QED
    BY <1>0, <1>1, <2>1, <2>2
<1>10. Passed'
  <2> SUFFICES ASSUME NEW k \in Nat, k < tail_seq_' PROVE seq[Slot(k)] > k
    BY <1>1 DEF Passed
  <2>1. CASE k = tail_seq_
    BY <1>0, <1>4, <2>1
  <2>2. CASE k < tail_seq_
    BY <2>2 DEF Passed
  <2> QED
    BY <1>0, <1>1, <2>1, <2>2
<1>11. Enqueuers'
  <2> SUFFICES ASSUME NEW u \in Threads, Enqueuing(u) PROVE Enqueuer(u)'
    BY <1>3 DEF Enqueuers
  <2>1. Enqueuer(u) /\ ticket[u] \in Nat /\ ticket[u] # tail_seq_
    BY <1>6 DEF Enqueuers, QueueTypeOK
  <2> QED
    BY <1>0, <1>1, <2>1 DEF Enqueuer
<1>12. Dequeuers'
  <2> SUFFICES ASSUME NEW u \in Threads, Dequeuing(u)' PROVE Dequeuer(u)'
    BY DEF Dequeuers
  <2>1. CASE u = t
    BY <1>0, <1>1, <1>4, <2>1 DEF Dequeuer, NotOverfull
  <2>2. CASE Dequeuing(u)
    <3>1. Dequeuer(u) /\ ticket[u] \in Nat
      BY <2>2 DEF Dequeuers, QueueTypeOK
    <3> QED
      BY <1>0, <1>1, <3>1 DEF Dequeuer
  <2> QED
    BY <1>3, <2>1, <2>2
<1>13. TicketsUnique'
  <2>1. ASSUME NEW u \in Threads, Dequeuing(u) PROVE ticket[u] # ticket[t]
    BY <1>0, <2>1 DEF Dequeuers, Dequeuer
  <2> QED
    BY <1>1, <1>3, <2>1 DEF TicketsUnique
<1>14. ASSUME NEW u \in Threads
       PROVE  Claim(u)' /\ Call(u)' /\ Written(u)'
  <2>0. Claim(u) /\ Call(u) /\ Written(u) /\ ticket[u] \in Nat
    BY DEF Claims, Calls, Writings, QueueTypeOK
  <2>1. CASE u = t
    <3>1. pc[t] = "D cas" /\ pc'[t] = "D data"
      BY DEF D_cas, Goto, QueueTypeOK
    <3>2. data[Slot(ticket[t])] \in Values
      BY <1>0, <1>6
    <3> QED
      BY <2>0, <2>1, <3>1, <3>2, <1>1 DEF Claim, Call, Written, E_labels
  <2>2. CASE u # t
    <3>1. pc'[u] = pc[u]
      BY <2>2, Others DEF Step
    <3>2. Call(u)' /\ Written(u)'
      BY <2>0, <3>1, <1>1 DEF Call, Written
    <3>3. ticket[u] <= tail_seq_ => ticket[u] <= tail_seq_' /\ ticket[u] # tail_seq_'
      BY <1>0, <1>1, <2>0
    <3>4. Claim(u)'
      BY <2>0, <3>1, <3>3, <1>1 DEF Claim
    <3> QED
      BY <3>2, <3>4
  <2> QED
    BY <2>1, <2>2
<1> QED
  BY <1>2, <1>7, <1>8, <1>9, <1>10, <1>11, <1>12, <1>13, <1>14
     DEF Claims, Calls, Writings

(* Writing the data of a node keeps the invariant: no other thread has the *)
(* node.                                                                   *)
LEMMA E_dataStep ==
  ASSUME QueueInv, Size > 1, NEW t \in Threads, E_data(t)
  PROVE  QueueInv'
<1> USE DEF QueueInv
<1>1. /\ data' = [data EXCEPT ![Slot(ticket[t])] = local[t]]
      /\ UNCHANGED <<head_seq_, tail_seq_, seq, ticket, local, result>>
      /\ pc[t] = "E data" /\ pc'[t] = "E store"
  BY DEF E_data, Goto, QueueTypeOK
<1>2. local[t] \in Values /\ ticket[t] \in Nat
  BY <1>1 DEF Calls, Call, E_labels, QueueTypeOK
<1>3. QueueTypeOK'
  <2>1. pc' \in [Threads -> {"idle"} \cup E_labels \cup D_labels]
    BY DEF QueueTypeOK, E_data, Goto, E_labels
  <2>2. data' \in [Slots -> Values \cup {None}]
    BY <1>1, <1>2 DEF QueueTypeOK
  <2> QED
    BY <1>1, <2>1, <2>2 DEF QueueTypeOK
<1>4. /\ Enqueuing(t)
      /\ \A u \in Threads : Enqueuing(u)' <=> Enqueuing(u)
      /\ \A u \in Threads : Dequeuing(u)' <=> Dequeuing(u)
  BY DEF QueueTypeOK, E_data, Goto, Enqueuing, Dequeuing
<1>5. Enqueuer(t)
  BY <1>4 DEF Enqueuers
<1>6. Occupied'
  <2> SUFFICES ASSUME NEW k \in Nat, tail_seq_ <= k, k < head_seq_
               PROVE  OccupiedAt(k)'
    BY <1>1 DEF Occupied
  <2>1. OccupiedAt(k)
    BY DEF Occupied
  <2>2. CASE k = ticket[t]
    BY <1>1, <1>4, <2>1, <2>2 DEF OccupiedAt
  <2>3. CASE k # ticket[t]
    <3>1. Slot(k) # Slot(ticket[t])
      <4>1. Size \in Nat /\ head_seq_ \in Nat /\ tail_seq_ \in Nat
        BY MpmcAssumption DEF QueueTypeOK
      <4> QED
        BY <1>2, <1>5, <2>3, <4>1, SlotDistinct DEF Enqueuer, NotOverfull
    <3>2. data'[Slot(k)] = data[Slot(k)]
      BY <1>1, <1>2, <3>1, SlotType DEF QueueTypeOK
    <3> QED
      BY <1>1, <1>4, <2>1, <3>2 DEF OccupiedAt
  <2> QED
    BY <2>2, <2>3
<1>7. NotOverfull' /\ Passed' /\ Vacant'
  BY <1>1, <1>4 DEF NotOverfull, Passed, Vacant, VacantAt
<1>8. Enqueuers' /\ Dequeuers' /\ TicketsUnique'
  BY <1>1, <1>4 DEF Enqueuers, Dequeuers, Enqueuer, Dequeuer, TicketsUnique
<1>9. ASSUME NEW u \in Threads
      PROVE  Claim(u)' /\ Call(u)' /\ Written(u)'
  <2>0. Claim(u) /\ Call(u) /\ Written(u)
    BY DEF Claims, Calls, Writings
  <2>1. CASE u = t
    <3>1. data'[Slot(ticket[t])] = local[t]
      BY <1>1, <1>2, SlotType DEF QueueTypeOK
    <3> QED
      BY <2>0, <2>1, <3>1, <1>1 DEF Claim, Call, Written, E_labels
  <2>2. CASE u # t
    <3>1. pc'[u] = pc[u]
      BY <2>2, Others DEF Step
    <3>2. Claim(u)' /\ Call(u)'
      BY <2>0, <3>1, <1>1 DEF Claim, Call
    <3>3. Written(u)'
      <4>1. CASE Enqueuing(u) \/ Dequeuing(u)
        <5>1. Slot(ticket[u]) # Slot(ticket[t])
          BY <1>4, <2>2, <4>1, Apart
        <5>2. data'[Slot(ticket[u])] = data[Slot(ticket[u])]
          BY <1>1, <1>2, <5>1, SlotType DEF QueueTypeOK
        <5> QED
          BY <1>1, <2>0, <3>1, <5>2 DEF Written
      <4>2. CASE ~(Enqueuing(u) \/ Dequeuing(u))
        BY <3>1, <4>2 DEF Written, Enqueuing, Dequeuing
      <4> QED
        BY <4>1, <4>2
    <3> QED
      BY <3>2, <3>3
  <2> QED
    BY <2>1, <2>2
<1> QED
  BY <1>3, <1>6, <1>7, <1>8, <1>9 DEF Claims, Calls, Writings

(* Reading the data of a node keeps the invariant.                         *)
LEMMA D_dataStep ==
  ASSUME QueueInv, Size > 1, NEW t \in Threads, D_data(t)
  PROVE  QueueInv'
<1> USE DEF QueueInv
<1>1. /\ local' = [local EXCEPT ![t] = data[Slot(ticket[t])]]
      /\ UNCHANGED <<head_seq_, tail_seq_, seq, data, ticket, result>>
      /\ pc[t] = "D data" /\ pc'[t] = "D store"
  BY DEF D_data, Goto, QueueTypeOK
<1>2. data[Slot(ticket[t])] \in Values
  BY <1>1 DEF Writings, Written
<1>3. QueueTypeOK'
  <2>1. pc' \in [Threads -> {"idle"} \cup E_labels \cup D_labels]
    BY DEF QueueTypeOK, D_data, Goto, D_labels
  <2>2. local' \in [Threads -> Values \cup {None}]
    BY <1>1, <1>2 DEF QueueTypeOK
  <2> QED
    BY <1>1, <2>1, <2>2 DEF QueueTypeOK
<1>4. /\ \A u \in Threads : Enqueuing(u)' <=> Enqueuing(u)
      /\ \A u \in Threads : Dequeuing(u)' <=> Dequeuing(u)
  BY DEF QueueTypeOK, D_data, Goto, Enqueuing, Dequeuing
<1>5. Occupied' /\ Vacant' /\ NotOverfull' /\ Passed'
  BY <1>1, <1>4 DEF Occupied, OccupiedAt, Vacant, VacantAt, NotOverfull, Passed
<1>6. Enqueuers' /\ Dequeuers' /\ TicketsUnique'
  BY <1>1, <1>4 DEF Enqueuers, Dequeuers, Enqueuer, Dequeuer, TicketsUnique
<1>7. ASSUME NEW u \in Threads
      PROVE  Claim(u)' /\ Call(u)' /\ Written(u)'
  <2>0. Claim(u) /\ Call(u) /\ Written(u)
    BY DEF Claims, Calls, Writings
  <2>1. CASE u = t
    <3>1. local'[t] \in Values
      BY <1>1, <1>2 DEF QueueTypeOK
    <3> QED
      BY <2>0, <2>1, <3>1, <1>1 DEF Claim, Call, Written, E_labels
  <2>2. CASE u # t
    <3>1. pc'[u] = pc[u] /\ local'[u] = local[u]
      BY <2>2, Others DEF Step
    <3> QED
      BY <2>0, <3>1, <1>1 DEF Claim, Call, Written
  <2> QED
    BY <2>1, <2>2
<1> QED
  BY <1>3, <1>5, <1>6, <1>7 DEF Claims, Calls, Writings

(* Publishing a value keeps the invariant: the node of no other ticket of  *)
(* the window changes its number.                                          *)
LEMMA E_storeStep ==
  ASSUME QueueInv, Size > 1, NEW t \in Threads, E_store(t)
  PROVE  QueueInv'
<1> USE DEF QueueInv
<1> DEFINE c == ticket[t]
<1>0. /\ Size \in Nat /\ head_seq_ \in Nat /\ tail_seq_ \in Nat /\ c \in Nat
      /\ tail_seq_ <= head_seq_ /\ head_seq_ <= tail_seq_ + Size
  BY MpmcAssumption DEF QueueTypeOK, NotOverfull
<1>1. /\ seq' = [seq EXCEPT ![Slot(c)] = c + 1]
      /\ UNCHANGED <<head_seq_, tail_seq_, data>>
      /\ pc[t] = "E store" /\ pc'[t] = "idle"
      /\ result'[t] = "true" /\ ticket'[t] = 0 /\ local'[t] = None
  BY DEF E_store, Return, QueueTypeOK
<1>2. QueueTypeOK'
  <2>1. /\ pc' \in [Threads -> {"idle"} \cup E_labels \cup D_labels]
        /\ result' \in [Threads -> {"none", "busy", "true", "false"}]
    BY DEF QueueTypeOK, E_store, Return
  <2>2. ticket' \in [Threads -> Nat] /\ local' \in [Threads -> Values \cup {None}]
    BY DEF QueueTypeOK, E_store, Return
  <2>3. seq' \in [Slots -> Int]
    <3>1. c + 1 \in Int
      BY <1>0
    <3> QED
      BY <1>1, <3>1 DEF QueueTypeOK
  <2> QED
    BY <1>1, <2>1, <2>2, <2>3 DEF QueueTypeOK
<1>3. /\ Enqueuing(t) /\ ~Enqueuing(t)' /\ ~Dequeuing(t) /\ ~Dequeuing(t)'
      /\ Enqueuer(t)
  BY <1>1 DEF Enqueuing, Dequeuing, Enqueuers
<1>4. ASSUME NEW u \in Threads, u # t
      PROVE  /\ pc'[u] = pc[u] /\ ticket'[u] = ticket[u] /\ ticket[u] \in Nat
             /\ local'[u] = local[u] /\ result'[u] = result[u]
             /\ Enqueuing(u)' <=> Enqueuing(u)
             /\ Dequeuing(u)' <=> Dequeuing(u)
  BY <1>4, Others DEF Step, Enqueuing, Dequeuing, QueueTypeOK
<1>5. tail_seq_ <= c /\ c < head_seq_ /\ seq[Slot(c)] = c
  BY <1>3 DEF Enqueuer
<1>6. ASSUME NEW k \in Nat, Slot(k) # Slot(c)
      PROVE  seq'[Slot(k)] = seq[Slot(k)]
  BY <1>0, <1>1, <1>6, SlotType DEF QueueTypeOK
<1>7. seq'[Slot(c)] = c + 1
  BY <1>0, <1>1, SlotType DEF QueueTypeOK
<1>8. data[Slot(c)] \in Values
  BY <1>1 DEF Writings, Written, Calls, Call, E_labels
<1> HIDE DEF c
<1>9. Occupied'
  <2> SUFFICES ASSUME NEW k \in Nat, tail_seq_ <= k, k < head_seq_
               PROVE  OccupiedAt(k)'
    BY <1>1 DEF Occupied
  <2>1. CASE k = c
    <3>1. ASSUME NEW u \in Threads PROVE ~(Enqueuing(u)' /\ ticket'[u] = c)
      BY <1>3, <1>4 DEF TicketsUnique, c
    <3> QED
      BY <1>1, <1>7, <1>8, <2>1, <3>1 DEF OccupiedAt
  <2>2. CASE k # c
    <3>1. Slot(k) # Slot(c)
      BY <1>0, <1>5, <2>2, SlotDistinct
    <3>2. OccupiedAt(k) /\ seq'[Slot(k)] = seq[Slot(k)]
      BY <1>6, <3>1 DEF Occupied
    <3>3. \A u \in Threads : Enqueuing(u)' /\ ticket'[u] = k <=> Enqueuing(u) /\ ticket[u] = k
      BY <1>3, <1>4, <2>2 DEF c
    <3> QED
      BY <1>1, <3>2, <3>3 DEF OccupiedAt
  <2> QED
    BY <2>1, <2>2
<1>10. Vacant'
  <2> SUFFICES ASSUME NEW k \in Nat, head_seq_ <= k, k < tail_seq_ + Size
               PROVE  VacantAt(k)'
    BY <1>1 DEF Vacant
  <2>1. Slot(k) # Slot(c)
    BY <1>0, <1>5, SlotDistinct
  <2>2. VacantAt(k) /\ seq'[Slot(k)] = seq[Slot(k)]
    BY <1>6, <2>1 DEF Vacant
  <2>3. \A u \in Threads : Dequeuing(u) => Dequeuing(u)' /\ ticket'[u] = ticket[u]
    BY <1>3, <1>4
  <2> QED
    BY <2>2, <2>3 DEF VacantAt
<1>11. Passed'
  <2> SUFFICES ASSUME NEW k \in Nat, k < tail_seq_ PROVE seq'[Slot(k)] > k
    BY <1>1 DEF Passed
  <2>1. CASE Slot(k) = Slot(c)
    BY <1>0, <1>5, <1>7, <2>1
  <2>2. CASE Slot(k) # Slot(c)
    BY <1>6, <2>2 DEF Passed
  <2> QED
    BY <2>1, <2>2
<1>12. ASSUME NEW u \in Threads, u # t, Enqueuing(u) \/ Dequeuing(u)
       PROVE  seq'[Slot(ticket[u])] = seq[Slot(ticket[u])]
  <2>1. Slot(ticket[u]) # Slot(c)
    BY <1>3, <1>12, Apart DEF c
  <2> QED
    BY <1>4, <1>6, <1>12, <2>1
<1>13. Enqueuers' /\ Dequeuers'
  <2>1. ASSUME NEW u \in Threads, Enqueuing(u)' PROVE Enqueuer(u)'
    <3>1. u # t /\ Enqueuing(u) /\ Enqueuer(u)
      BY <1>3, <1>4, <2>1 DEF Enqueuers
    <3> QED
      BY <1>1, <1>4, <1>12, <3>1 DEF Enqueuer
  <2>2. ASSUME NEW u \in Threads, Dequeuing(u)' PROVE Dequeuer(u)'
    <3>1. u # t /\ Dequeuing(u) /\ Dequeuer(u)
      BY <1>3, <1>4, <2>2 DEF Dequeuers
    <3> QED
      BY <1>1, <1>4, <1>12, <3>1 DEF Dequeuer
  <2> QED
    BY <2>1, <2>2 DEF Enqueuers, Dequeuers
<1>14. TicketsUnique'
  BY <1>3, <1>4 DEF TicketsUnique
<1>15. NotOverfull'
  BY <1>1 DEF NotOverfull
<1>16. ASSUME NEW u \in Threads
       PROVE  Claim(u)' /\ Call(u)' /\ Written(u)'
  <2>0. Claim(u) /\ Call(u) /\ Written(u)
    BY DEF Claims, Calls, Writings
  <2>1. CASE u = t
    BY <2>0, <2>1, <1>1 DEF Claim, Call, Written, E_labels
  <2>2. CASE u # t
    <3>1. Call(u)' /\ Written(u)'
      BY <2>0, <2>2, <1>1, <1>4 DEF Call, Written
    <3>2. seq[Slot(head_seq_)] = head_seq_ => Slot(head_seq_) # Slot(c)
      BY <1>0, <1>5, SlotDistinct
    <3>3. seq[Slot(tail_seq_)] = tail_seq_ + 1 => Slot(tail_seq_) # Slot(c)
      BY <1>0, <1>5, SlotDistinct
    <3>4. /\ seq[Slot(head_seq_)] = head_seq_ => seq'[Slot(head_seq_)] = head_seq_
          /\ seq[Slot(tail_seq_)] = tail_seq_ + 1 => seq'[Slot(tail_seq_)] = tail_seq_ + 1
      BY <1>0, <1>6, <3>2, <3>3
    <3>5. Claim(u)'
      BY <2>0, <2>2, <3>4, <1>1, <1>4 DEF Claim
    <3> QED
      BY <3>1, <3>5
  <2> QED
    BY <2>1, <2>2
<1> QED
  BY <1>2, <1>9, <1>10, <1>11, <1>13, <1>14, <1>15, <1>16 DEF Claims, Calls, Writings

(* Giving a node back keeps the invariant: its new number is the ticket of *)
(* the next round, the only claimable ticket with that node.               *)
LEMMA D_storeStep ==
  ASSUME QueueInv, Size > 1, NEW t \in Threads, D_store(t)
  PROVE  QueueInv'
<1> USE DEF QueueInv
<1> DEFINE c == ticket[t]
<1>0. /\ Size \in Nat /\ head_seq_ \in Nat /\ tail_seq_ \in Nat /\ c \in Nat
      /\ tail_seq_ <= head_seq_ /\ head_seq_ <= tail_seq_ + Size
  BY MpmcAssumption DEF QueueTypeOK, NotOverfull
<1>1. /\ seq' = [seq EXCEPT ![Slot(c)] = c + Size]
      /\ UNCHANGED <<head_seq_, tail_seq_, data>>
      /\ pc[t] = "D store" /\ pc'[t] = "idle"
      /\ result'[t] = "true" /\ ticket'[t] = 0 /\ local'[t] = None
  BY DEF D_store, Return, QueueTypeOK
<1>2. QueueTypeOK'
  <2>1. /\ pc' \in [Threads -> {"idle"} \cup E_labels \cup D_labels]
        /\ result' \in [Threads -> {"none", "busy", "true", "false"}]
    BY DEF QueueTypeOK, D_store, Return
  <2>2. ticket' \in [Threads -> Nat] /\ local' \in [Threads -> Values \cup {None}]
    BY DEF QueueTypeOK, D_store, Return
  <2>3. seq' \in [Slots -> Int]
    <3>1. c + Size \in Int
      BY <1>0
    <3> QED
      BY <1>1, <3>1 DEF QueueTypeOK
  <2> QED
    BY <1>1, <2>1, <2>2, <2>3 DEF QueueTypeOK
<1>3. /\ Dequeuing(t) /\ ~Dequeuing(t)' /\ ~Enqueuing(t) /\ ~Enqueuing(t)'
      /\ Dequeuer(t)
  BY <1>1 DEF Enqueuing, Dequeuing, Dequeuers
<1>4. ASSUME NEW u \in Threads, u # t
      PROVE  /\ pc'[u] = pc[u] /\ ticket'[u] = ticket[u] /\ ticket[u] \in Nat
             /\ local'[u] = local[u] /\ result'[u] = result[u]
             /\ Enqueuing(u)' <=> Enqueuing(u)
             /\ Dequeuing(u)' <=> Dequeuing(u)
  BY <1>4, Others DEF Step, Enqueuing, Dequeuing, QueueTypeOK
<1>5. c < tail_seq_ /\ head_seq_ <= c + Size /\ seq[Slot(c)] = c + 1
  BY <1>3 DEF Dequeuer
<1>6. ASSUME NEW k \in Nat, Slot(k) # Slot(c)
      PROVE  seq'[Slot(k)] = seq[Slot(k)]
  BY <1>0, <1>1, <1>6, SlotType DEF QueueTypeOK
<1>7. seq'[Slot(c)] = c + Size
  BY <1>0, <1>1, SlotType DEF QueueTypeOK
<1> HIDE DEF c
<1>8. Occupied'
  <2> SUFFICES ASSUME NEW k \in Nat, tail_seq_ <= k, k < head_seq_
               PROVE  OccupiedAt(k)'
    BY <1>1 DEF Occupied
  <2>1. Slot(k) # Slot(c)
    BY <1>0, <1>5, SlotDistinct
  <2>2. OccupiedAt(k) /\ seq'[Slot(k)] = seq[Slot(k)]
    BY <1>6, <2>1 DEF Occupied
  <2>3. \A u \in Threads : Enqueuing(u)' /\ ticket'[u] = k <=> Enqueuing(u) /\ ticket[u] = k
    BY <1>3, <1>4
  <2> QED
    BY <1>1, <2>2, <2>3 DEF OccupiedAt
<1>9. Vacant'
  <2> SUFFICES ASSUME NEW k \in Nat, head_seq_ <= k, k < tail_seq_ + Size
               PROVE  VacantAt(k)'
    BY <1>1 DEF Vacant
  <2>1. CASE k = c + Size
    <3>1. Slot(k) = Slot(c)
      BY <1>0, <2>1, SlotNext
    <3> QED
      BY <1>7, <2>1, <3>1 DEF VacantAt
  <2>2. CASE k # c + Size
    <3>1. c + Size \in Nat /\ Slot(c + Size) = Slot(c)
      BY <1>0, SlotNext
    <3>2. Slot(k) # Slot(c)
      BY <1>0, <1>5, <2>2, <3>1, SlotDistinct
    <3>3. VacantAt(k) /\ seq'[Slot(k)] = seq[Slot(k)]
      BY <1>6, <3>2 DEF Vacant
    <3>4. c # k - Size
      BY <1>0, <2>2
    <3>5. \A u \in Threads : Dequeuing(u) /\ ticket[u] = k - Size =>
                               Dequeuing(u)' /\ ticket'[u] = k - Size
      BY <1>4, <3>4 DEF c
    <3> QED
      BY <3>3, <3>5 DEF VacantAt
  <2> QED
    BY <2>1, <2>2
<1>10. Passed'
  <2> SUFFICES ASSUME NEW k \in Nat, k < tail_seq_ PROVE seq'[Slot(k)] > k
    BY <1>1 DEF Passed
  <2>0. seq[Slot(k)] > k
    BY DEF Passed
  <2>1. CASE Slot(k) = Slot(c)
    BY <1>0, <1>5, <1>7, <2>0, <2>1
  <2>2. CASE Slot(k) # Slot(c)
    BY <1>6, <2>0, <2>2
  <2> QED
    BY <2>1, <2>2
<1>11. ASSUME NEW u \in Threads, u # t, Enqueuing(u) \/ Dequeuing(u)
       PROVE  seq'[Slot(ticket[u])] = seq[Slot(ticket[u])]
  <2>1. Slot(ticket[u]) # Slot(c)
    BY <1>3, <1>11, Apart DEF c
  <2> QED
    BY <1>4, <1>6, <1>11, <2>1
<1>12. Enqueuers' /\ Dequeuers'
  <2>1. ASSUME NEW u \in Threads, Enqueuing(u)' PROVE Enqueuer(u)'
    <3>1. u # t /\ Enqueuing(u) /\ Enqueuer(u)
      BY <1>3, <1>4, <2>1 DEF Enqueuers
    <3> QED
      BY <1>1, <1>4, <1>11, <3>1 DEF Enqueuer
  <2>2. ASSUME NEW u \in Threads, Dequeuing(u)' PROVE Dequeuer(u)'
    <3>1. u # t /\ Dequeuing(u) /\ Dequeuer(u)
      BY <1>3, <1>4, <2>2 DEF Dequeuers
    <3> QED
      BY <1>1, <1>4, <1>11, <3>1 DEF Dequeuer
  <2> QED
    BY <2>1, <2>2 DEF Enqueuers, Dequeuers
<1>13. TicketsUnique'
  BY <1>3, <1>4 DEF TicketsUnique
<1>14. NotOverfull'
  BY <1>1 DEF NotOverfull
<1>15. ASSUME NEW u \in Threads
       PROVE  Claim(u)' /\ Call(u)' /\ Written(u)'
  <2>0. Claim(u) /\ Call(u) /\ Written(u)
    BY DEF Claims, Calls, Writings
  <2>1. CASE u = t
    BY <2>0, <2>1, <1>1 DEF Claim, Call, Written, E_labels
  <2>2. CASE u # t
    <3>1. Call(u)' /\ Written(u)'
      BY <2>0, <2>2, <1>1, <1>4 DEF Call, Written
    <3>2. seq[Slot(head_seq_)] = head_seq_ => Slot(head_seq_) # Slot(c)
      BY <1>0, <1>5, SlotDistinct
    <3>3. seq[Slot(tail_seq_)] = tail_seq_ + 1 => Slot(tail_seq_) # Slot(c)
      BY <1>0, <1>5, SlotDistinct
    <3>4. /\ seq[Slot(head_seq_)] = head_seq_ => seq'[Slot(head_seq_)] = head_seq_
          /\ seq[Slot(tail_seq_)] = tail_seq_ + 1 => seq'[Slot(tail_seq_)] = tail_seq_ + 1
      BY <1>0, <1>6, <3>2, <3>3
    <3>5. Claim(u)'
      BY <2>0, <2>2, <3>4, <1>1, <1>4 DEF Claim
    <3> QED
      BY <3>1, <3>5
  <2> QED
    BY <2>1, <2>2
<1> QED
  BY <1>2, <1>8, <1>9, <1>10, <1>12, <1>13, <1>14, <1>15 DEF Claims, Calls, Writings

-----------------------------------------------------------------------------
(* Every step keeps the invariant.                                         *)
LEMMA QueueStepInv ==
  ASSUME QueueInv, Size > 1, [QueueNext]_queueVars
  PROVE  QueueInv'
<1>1. CASE UNCHANGED queueVars
  <2>1. QueueTypeOK' /\ Claims' /\ Calls'
    BY <1>1 DEF QueueInv, queueVars, QueueTypeOK, Claims, Claim, Calls, Call
  <2> QED
    BY <1>1, <2>1, Quiet DEF queueVars, Enqueuing, Dequeuing
<1>2. CASE QueueNext
  <2>1. PICK t \in Threads : QuietStep(t) \/ Step(t)
    BY <1>2 DEF QueueNext, QuietStep
  <2> QED
    BY <2>1, QuietSteps, E_casStep, E_dataStep, E_storeStep, D_casStep, D_dataStep,
       D_storeStep DEF Step, QuietStep
<1> QED
  BY <1>1, <1>2

(* The invariant holds at every moment, for every ring of two or more      *)
(* nodes and any number of threads and operations. A ring of one node      *)
(* passes the constructor's assertion (41), but there the numbers of a     *)
(* full and of a free node coincide, and the theorems do not hold.         *)
THEOREM QueueInvariant ==
  ASSUME Size > 1
  PROVE  QueueSpec => []QueueInv
<1>1. QueueInv /\ [QueueNext]_queueVars => QueueInv'
  BY QueueStepInv
<1> QED
  BY <1>1, QueueInitial, PTL DEF QueueSpec

(* The accesses to the data of a node (78, 118) are not atomic; no two     *)
(* threads are ever between the claim and the store of the same node.      *)
THEOREM NodesExclusive ==
  ASSUME Size > 1
  PROVE  QueueSpec => []NodeExclusive
<1>1. QueueInv => NodeExclusive
  BY Apart DEF NodeExclusive
<1> QED
  BY <1>1, QueueInvariant, PTL

(* The node of the next ticket of enqueue is never ahead of it.            *)
LEMMA HeadNotAhead ==
  ASSUME QueueInv
  PROVE  seq[Slot(head_seq_)] <= head_seq_
<1>1. head_seq_ \in Nat /\ tail_seq_ \in Nat /\ Size \in Nat /\ Size > 0
  BY MpmcAssumption DEF QueueInv, QueueTypeOK
<1>2. CASE head_seq_ < tail_seq_ + Size
  <2>1. VacantAt(head_seq_)
    BY <1>1, <1>2 DEF QueueInv, Vacant
  <2> QED
    BY <1>1, <2>1 DEF VacantAt
<1>3. CASE head_seq_ = tail_seq_ + Size
  <2>1. OccupiedAt(tail_seq_) /\ Slot(head_seq_) = Slot(tail_seq_)
    BY <1>1, <1>3, SlotNext DEF QueueInv, Occupied
  <2> QED
    BY <1>1, <1>3, <2>1 DEF OccupiedAt
<1> QED
  BY <1>1, <1>2, <1>3 DEF QueueInv, NotOverfull

(* The node of the next ticket of dequeue is never ahead of a stored       *)
(* value.                                                                  *)
LEMMA TailNotAhead ==
  ASSUME QueueInv
  PROVE  seq[Slot(tail_seq_)] <= tail_seq_ + 1
<1>1. head_seq_ \in Nat /\ tail_seq_ \in Nat /\ Size \in Nat /\ Size > 0
  BY MpmcAssumption DEF QueueInv, QueueTypeOK
<1>2. CASE tail_seq_ < head_seq_
  <2>1. OccupiedAt(tail_seq_)
    BY <1>1, <1>2 DEF QueueInv, Occupied
  <2> QED
    BY <1>1, <2>1 DEF OccupiedAt
<1>3. CASE tail_seq_ = head_seq_
  <2>1. VacantAt(tail_seq_)
    BY <1>1, <1>3 DEF QueueInv, Vacant
  <2> QED
    BY <1>1, <2>1 DEF VacantAt
<1> QED
  BY <1>1, <1>2, <1>3 DEF QueueInv, NotOverfull

(* enqueue and dequeue repeat their loop (89, 130) only after another      *)
(* thread got the ticket they had loaded.                                  *)
THEOREM RetryOnlyWhenBeaten ==
  ASSUME Size > 1
  PROVE  QueueSpec => []BeatenOnRetry
<1>1. ASSUME QueueInv, NEW t \in Threads, ticket[t] <= head_seq_,
             seq[Slot(ticket[t])] > ticket[t]
      PROVE  head_seq_ > ticket[t]
  <2>1. ticket[t] \in Nat /\ head_seq_ \in Nat /\ seq[Slot(head_seq_)] \in Int
    BY <1>1, SlotType DEF QueueInv, QueueTypeOK
  <2>2. seq[Slot(head_seq_)] <= head_seq_
    BY <1>1, HeadNotAhead
  <2> QED
    BY <1>1, <2>1, <2>2
<1>2. ASSUME QueueInv, NEW t \in Threads, ticket[t] <= tail_seq_,
             seq[Slot(ticket[t])] > ticket[t] + 1
      PROVE  tail_seq_ > ticket[t]
  <2>1. ticket[t] \in Nat /\ tail_seq_ \in Nat /\ seq[Slot(tail_seq_)] \in Int
    BY <1>2, SlotType DEF QueueInv, QueueTypeOK
  <2>2. seq[Slot(tail_seq_)] <= tail_seq_ + 1
    BY <1>2, TailNotAhead
  <2> QED
    BY <1>2, <2>1, <2>2
<1>3. QueueInv => BeatenOnRetry
  BY <1>1, <1>2 DEF QueueInv, Claims, Claim, BeatenOnRetry
<1> QED
  BY <1>3, QueueInvariant, PTL

-----------------------------------------------------------------------------
(* MpmcQueue implements BoundedFifo.  Each step of a thread is one step of *)
(* the FIFO or none; the proof goes through View, which says what the      *)
(* refinement mapping of MpmcQueue makes of a state where QueueInv holds.  *)

(* What BoundedFifo keeps of a value in the queue.                         *)
Items == [value : Values \cup {None}, owner : Threads \cup {None}]

(* Sequences with the same elements are equal.                             *)
LEMMA SequencesEqual ==
  ASSUME NEW S, NEW s \in Seq(S), NEW t \in Seq(S), Len(s) = Len(t),
         \A i \in 1..Len(s) : s[i] = t[i]
  PROVE  s = t
OBVIOUS

(* How to recognise Append, and below Tail, by the elements.               *)
LEMMA AppendIs ==
  ASSUME NEW S, NEW s \in Seq(S), NEW t \in Seq(S), NEW x \in S,
         Len(t) = Len(s) + 1,
         \A i \in 1..Len(s) : t[i] = s[i],
         t[Len(s) + 1] = x
  PROVE  t = Append(s, x)
<1>1. /\ Append(s, x) \in Seq(S)
      /\ Len(Append(s, x)) = Len(t)
      /\ \A i \in 1..Len(t) : Append(s, x)[i] = t[i]
  OBVIOUS
<1> QED
  BY <1>1, SequencesEqual

(* A sequence that has the elements of s but the first is its tail.        *)
LEMMA TailIs ==
  ASSUME NEW S, NEW s \in Seq(S), NEW t \in Seq(S), s # << >>,
         Len(t) = Len(s) - 1,
         \A i \in 1..Len(t) : t[i] = s[i + 1]
  PROVE  t = Tail(s)
<1>1. /\ Tail(s) \in Seq(S)
      /\ Len(Tail(s)) = Len(t)
      /\ \A i \in 1..Len(t) : Tail(s)[i] = t[i]
  OBVIOUS
<1> QED
  BY <1>1, SequencesEqual

(* The instance's Cardinality is Cardinality.                              *)
LEMMA FifoCardinality ==
  ASSUME NEW S PROVE Fifo!Cardinality(S) = Cardinality(S)
BY DEF Fifo!Cardinality, Cardinality

(* A claimed place that is not published shows the value and the name of   *)
(* its enqueuer.                                                           *)
LEMMA HolderOnly ==
  ASSUME QueueInv, NEW t \in Threads, Enqueuing(t)
  PROVE  AbstractItem(ticket[t]) = [value |-> local[t], owner |-> t]
<1>1. Holders(ticket[t]) = {t}
  BY DEF Holders, QueueInv, TicketsUnique
<1>2. (CHOOSE u \in Holders(ticket[t]) : TRUE) = t
  BY <1>1
<1> QED
  BY <1>1, <1>2 DEF AbstractItem

(* A published place shows the data of its node.                           *)
LEMMA NoHolder ==
  ASSUME NEW k \in Nat, \A t \in Threads : ~(Enqueuing(t) /\ ticket[t] = k)
  PROVE  AbstractItem(k) = [value |-> data[Slot(k)], owner |-> None]
<1>1. Holders(k) = {}
  BY DEF Holders
<1> QED
  BY <1>1 DEF AbstractItem

(* Every ticket shows an item.                                             *)
LEMMA ItemType ==
  ASSUME QueueInv, NEW k \in Nat
  PROVE  AbstractItem(k) \in Items
<1>1. CASE \E t \in Threads : Enqueuing(t) /\ ticket[t] = k
  BY <1>1, HolderOnly DEF Items, QueueInv, QueueTypeOK
<1>2. CASE \A t \in Threads : ~(Enqueuing(t) /\ ticket[t] = k)
  BY <1>2, NoHolder, SlotType DEF Items, QueueInv, QueueTypeOK
<1> QED
  BY <1>1, <1>2

(* The abstract queue is the sequence of the items of the tickets from     *)
(* tail_seq_ to head_seq_ - 1.                                             *)
LEMMA ItemsSequence ==
  ASSUME QueueInv
  PROVE  /\ AbstractItems \in Seq(Items)
         /\ Len(AbstractItems) = head_seq_ - tail_seq_
         /\ DOMAIN AbstractItems = 1..(head_seq_ - tail_seq_)
         /\ \A i \in 1..(head_seq_ - tail_seq_) :
              AbstractItems[i] = AbstractItem(tail_seq_ + i - 1)
<1> DEFINE n == head_seq_ - tail_seq_
<1>1. n \in Nat /\ tail_seq_ \in Nat
  BY DEF QueueInv, QueueTypeOK, NotOverfull
<1>2. \A i \in 1..n : AbstractItem(tail_seq_ + i - 1) \in Items
  BY <1>1, ItemType
<1>3. AbstractItems = [i \in 1..n |-> AbstractItem(tail_seq_ + i - 1)]
  BY DEF AbstractItems
<1> HIDE DEF n
<1>4. AbstractItems \in Seq(Items) /\ Len(AbstractItems) = n
  BY <1>1, <1>2, <1>3
<1> QED
  BY <1>3, <1>4 DEF n

(* What a dequeuer has taken: the data of its node, then its copy.         *)
LEMMA TakingIs ==
  ASSUME QueueInv, NEW t \in Threads
  PROVE  /\ pc[t] = "D data" => AbstractTaking[t] = data[Slot(ticket[t])]
         /\ pc[t] = "D store" => AbstractTaking[t] = local[t]
         /\ ~Dequeuing(t) => AbstractTaking[t] = None
         /\ Dequeuing(t) => AbstractTaking[t] # None
<1>1. /\ pc[t] = "D data" => data[Slot(ticket[t])] \in Values
      /\ pc[t] = "D store" => local[t] \in Values
  BY DEF QueueInv, Writings, Written, Calls, Call
<1>2. None \notin Values
  BY MpmcAssumption
<1>3. AbstractTaking[t] = CASE pc[t] = "D data"  -> data[Slot(ticket[t])]
                            [] pc[t] = "D store" -> local[t]
                            [] OTHER             -> None
  BY DEF AbstractTaking
<1> QED
  BY <1>1, <1>2, <1>3 DEF Dequeuing

(* HolderOnly, NoHolder and ItemsSequence in one state predicate.          *)
ItemsView ==
  /\ \A t \in Threads :
       Enqueuing(t) => AbstractItem(ticket[t]) = [value |-> local[t], owner |-> t]
  /\ \A k \in Nat :
       (\A t \in Threads : ~(Enqueuing(t) /\ ticket[t] = k))
         => AbstractItem(k) = [value |-> data[Slot(k)], owner |-> None]
  /\ AbstractItems \in Seq(Items)
  /\ Len(AbstractItems) = head_seq_ - tail_seq_
  /\ DOMAIN AbstractItems = 1..(head_seq_ - tail_seq_)
  /\ \A i \in 1..(head_seq_ - tail_seq_) :
       AbstractItems[i] = AbstractItem(tail_seq_ + i - 1)

(* TakingIs as a state predicate.                                          *)
TakingView ==
  /\ DOMAIN AbstractTaking = Threads
  /\ \A t \in Threads :
       /\ pc[t] = "D data" => AbstractTaking[t] = data[Slot(ticket[t])]
       /\ pc[t] = "D store" => AbstractTaking[t] = local[t]
       /\ ~Dequeuing(t) => AbstractTaking[t] = None
       /\ Dequeuing(t) => AbstractTaking[t] # None

(* The abstract state in terms of the concrete one.                        *)
View == ItemsView /\ TakingView

(* The invariant implies View.                                             *)
LEMMA QueueView == QueueInv => View
<1> SUFFICES ASSUME QueueInv PROVE View
  OBVIOUS
<1>1. DOMAIN AbstractTaking = Threads
  BY DEF AbstractTaking
<1> QED
  BY <1>1, HolderOnly, NoHolder, ItemsSequence, TakingIs DEF View, ItemsView, TakingView

(* QueueView in the next state.                                            *)
LEMMA QueueViewNext == QueueInv' => View'
BY QueueView, PTL

-----------------------------------------------------------------------------
(* A new queue is an empty FIFO.                                           *)
LEMMA FifoInitial == QueueInit => Fifo!FifoInit
<1> SUFFICES ASSUME QueueInit PROVE Fifo!FifoInit
  OBVIOUS
<1>1. AbstractItems = << >>
  BY DEF QueueInit, AbstractItems
<1>2. AbstractTaking = [t \in Threads |-> None]
  BY DEF QueueInit, AbstractTaking
<1> QED
  BY <1>1, <1>2 DEF Fifo!FifoInit, QueueInit

(* A ticket whose enqueuer, value and node stay the same shows the same    *)
(* item.                                                                   *)
LEMMA SameItem ==
  ASSUME View, View', NEW k \in Nat,
         \A t \in Threads :
           (Enqueuing(t)' /\ ticket'[t] = k) <=> (Enqueuing(t) /\ ticket[t] = k),
         \A t \in Threads :
           Enqueuing(t) /\ ticket[t] = k => local'[t] = local[t],
         \/ data'[Slot(k)] = data[Slot(k)]
         \/ \E t \in Threads : Enqueuing(t) /\ ticket[t] = k
  PROVE  AbstractItem(k)' = AbstractItem(k)
<1>1. CASE \E t \in Threads : Enqueuing(t) /\ ticket[t] = k
  <2>1. PICK t \in Threads : Enqueuing(t) /\ ticket[t] = k
    BY <1>1
  <2>2. Enqueuing(t)' /\ ticket'[t] = k /\ local'[t] = local[t]
    BY <2>1
  <2>3. AbstractItem(k) = [value |-> local[t], owner |-> t]
    BY <2>1 DEF View, ItemsView, TakingView
  <2>4. AbstractItem(k)' = [value |-> local'[t], owner |-> t]
    BY <2>2 DEF View, ItemsView, TakingView
  <2> QED
    BY <2>2, <2>3, <2>4
<1>2. CASE \A t \in Threads : ~(Enqueuing(t) /\ ticket[t] = k)
  <2>1. AbstractItem(k) = [value |-> data[Slot(k)], owner |-> None]
    BY <1>2 DEF View, ItemsView, TakingView
  <2>2. \A t \in Threads : ~(Enqueuing(t) /\ ticket[t] = k)'
    BY <1>2
  <2>3. AbstractItem(k)' = [value |-> data'[Slot(k)], owner |-> None]
    BY <2>2 DEF View, ItemsView, TakingView
  <2> QED
    BY <1>2, <2>1, <2>3
<1> QED
  BY <1>1, <1>2

(* While the counters stay the same the abstract queue changes only with   *)
(* the items.                                                              *)
LEMMA SameItems ==
  ASSUME QueueInv, UNCHANGED <<head_seq_, tail_seq_>>,
         \A k \in Nat : tail_seq_ <= k /\ k < head_seq_ =>
                          AbstractItem(k)' = AbstractItem(k)
  PROVE  AbstractItems' = AbstractItems
<1>1. head_seq_ \in Nat /\ tail_seq_ \in Nat
  BY DEF QueueInv, QueueTypeOK
<1>2. \A i \in 1..(head_seq_ - tail_seq_) :
        AbstractItem(tail_seq_ + i - 1)' = AbstractItem(tail_seq_ + i - 1)
  BY <1>1
<1> QED
  BY <1>2 DEF AbstractItems

(* AbstractTaking is determined by its values.                             *)
LEMMA SameTaking ==
  ASSUME View, View',
         \A t \in Threads : AbstractTaking'[t] = AbstractTaking[t]
  PROVE  AbstractTaking' = AbstractTaking
<1>1. /\ AbstractTaking = [t \in Threads |-> AbstractTaking[t]]
      /\ AbstractTaking' = [t \in Threads |-> AbstractTaking'[t]]
  BY DEF AbstractTaking
<1> QED
  BY <1>1

(* Steps before a claim, and those that fail, change nothing abstract but  *)
(* the result.                                                             *)
LEMMA QuietAbstract ==
  ASSUME QueueInv, QueueInv', NEW t \in Threads, QuietStep(t)
  PROVE  UNCHANGED <<AbstractItems, AbstractTaking>>
<1>0. View /\ View'
  BY QueueView, QueueViewNext
<1>1. UNCHANGED <<head_seq_, tail_seq_, seq, data>>
  BY DEF QuietStep, enqueue, dequeue, E_load, E_seq, E_cas_fails, D_load, D_seq,
         D_cas_fails
<1>2. /\ \A u \in Threads : Enqueuing(u)' <=> Enqueuing(u)
      /\ \A u \in Threads : Dequeuing(u)' <=> Dequeuing(u)
      /\ \A u \in Threads : Enqueuing(u) \/ Dequeuing(u) =>
           pc'[u] = pc[u] /\ ticket'[u] = ticket[u] /\ local'[u] = local[u]
  BY DEF QueueInv, QueueTypeOK, Enqueuing, Dequeuing, QuietStep, enqueue, dequeue, E_load,
         E_seq, E_cas_fails, D_load, D_seq, D_cas_fails, Goto, Return
<1>3. \A k \in Nat : AbstractItem(k)' = AbstractItem(k)
  BY <1>0, <1>1, <1>2, SameItem
<1>4. ASSUME NEW u \in Threads
      PROVE  AbstractTaking'[u] = AbstractTaking[u]
  <2>1. CASE Dequeuing(u)
    <3>1. pc[u] = "D data" \/ pc[u] = "D store"
      BY <2>1 DEF Dequeuing
    <3>2. pc'[u] = pc[u] /\ ticket'[u] = ticket[u] /\ local'[u] = local[u]
      BY <1>2, <2>1
    <3> QED
      BY <1>0, <1>1, <3>1, <3>2 DEF View, ItemsView, TakingView
  <2>2. CASE ~Dequeuing(u)
    BY <1>0, <1>2, <2>2 DEF View, ItemsView, TakingView
  <2> QED
    BY <2>1, <2>2
<1> QED
  BY <1>0, <1>1, <1>3, <1>4, SameItems, SameTaking

-----------------------------------------------------------------------------
(* The abstract takers are the threads between the two steps of dequeue.   *)
LEMMA TakersAre ==
  ASSUME QueueInv PROVE Fifo!Takers = {t \in Threads : Dequeuing(t)}
<1>1. View
  BY QueueView
<1> QED
  BY <1>1 DEF Fifo!Takers, View, TakingView

(* A thread without a node is not between its steps in the FIFO either.    *)
LEMMA NotBetween ==
  ASSUME QueueInv, NEW t \in Threads, ~Enqueuing(t), ~Dequeuing(t)
  PROVE  ~Fifo!Between(t)
<1>1. View
  BY QueueView
<1>2. t \notin Fifo!Takers
  BY TakersAre
<1>3. t # None
  BY MpmcAssumption
<1>4. ASSUME NEW i \in DOMAIN AbstractItems
      PROVE  AbstractItems[i].owner # t
  <2> DEFINE k == tail_seq_ + i - 1
  <2>1. k \in Nat /\ AbstractItems[i] = AbstractItem(k)
    <3>1. tail_seq_ \in Nat /\ head_seq_ \in Nat
      BY DEF QueueInv, QueueTypeOK
    <3>2. i \in 1..(head_seq_ - tail_seq_)
      BY <1>1, <1>4 DEF View, ItemsView, TakingView
    <3> QED
      BY <3>1, <3>2, ItemsSequence
  <2> HIDE DEF k
  <2>2. CASE \E u \in Threads : Enqueuing(u) /\ ticket[u] = k
    <3>1. PICK u \in Threads : Enqueuing(u) /\ ticket[u] = k
      BY <2>2
    <3>2. AbstractItem(k) = [value |-> local[u], owner |-> u]
      BY <1>1, <3>1 DEF View, ItemsView, TakingView
    <3> QED
      BY <2>1, <3>1, <3>2
  <2>3. CASE \A u \in Threads : ~(Enqueuing(u) /\ ticket[u] = k)
    <3>1. AbstractItem(k) = [value |-> data[Slot(k)], owner |-> None]
      BY <1>1, <2>1, <2>3 DEF View, ItemsView, TakingView
    <3> QED
      BY <1>3, <2>1, <3>1
  <2> QED
    BY <2>2, <2>3
<1> QED
  BY <1>2, <1>4 DEF Fifo!Between, Fifo!Owners

(* The call of enqueue or dequeue is Begin.                                *)
LEMMA BeginStep ==
  ASSUME QueueInv, QueueInv', NEW t \in Threads,
         (\E value \in Values : enqueue(t, value)) \/ dequeue(t)
  PROVE  Fifo!Begin(t)
<1>1. UNCHANGED <<AbstractItems, AbstractTaking>>
  BY QuietAbstract DEF QuietStep
<1>2. result[t] # "busy" /\ result' = [result EXCEPT ![t] = "busy"]
  BY DEF QueueInv, Calls, Call, enqueue, dequeue
<1> QED
  BY <1>1, <1>2 DEF Fifo!Begin

(* Loading a ticket, at first or after a failed compare_exchange, is no    *)
(* step of the FIFO.                                                       *)
LEMMA LoopStep ==
  ASSUME QueueInv, QueueInv', NEW t \in Threads,
         E_load(t) \/ E_cas_fails(t) \/ D_load(t) \/ D_cas_fails(t)
  PROVE  UNCHANGED Fifo!fifoVars
<1>1. UNCHANGED <<AbstractItems, AbstractTaking>>
  BY QuietAbstract DEF QuietStep
<1>2. UNCHANGED result
  BY DEF E_load, E_cas_fails, D_load, D_cas_fails, Goto
<1> QED
  BY <1>1, <1>2 DEF Fifo!fifoVars

(* When the node of an enqueue's ticket is behind it, the queue is full or *)
(* a dequeue has not given its node back.                                  *)
LEMMA FullOrTaking ==
  ASSUME QueueInv, NEW k \in Nat, k <= head_seq_, seq[Slot(k)] < k
  PROVE  Len(AbstractItems) = Size \/ Fifo!Takers # {}
<1>1. /\ head_seq_ \in Nat /\ tail_seq_ \in Nat /\ Size \in Nat
      /\ seq[Slot(k)] \in Int
  BY MpmcAssumption, SlotType DEF QueueInv, QueueTypeOK
<1>2. ~(k < tail_seq_)
  BY <1>1 DEF QueueInv, Passed
<1>3. ~(tail_seq_ <= k /\ k < head_seq_)
  <2>1. ASSUME OccupiedAt(k) PROVE FALSE
    BY <1>1, <2>1 DEF OccupiedAt
  <2> QED
    BY <2>1 DEF QueueInv, Occupied
<1>4. k = head_seq_
  BY <1>1, <1>2, <1>3
<1>5. CASE head_seq_ < tail_seq_ + Size
  <2>1. VacantAt(k)
    BY <1>4, <1>5 DEF QueueInv, Vacant
  <2>2. \E u \in Threads : Dequeuing(u)
    BY <1>1, <2>1 DEF VacantAt
  <2> QED
    BY <2>2, TakersAre
<1>6. CASE head_seq_ = tail_seq_ + Size
  <2>1. Len(AbstractItems) = head_seq_ - tail_seq_
    BY QueueView DEF View, ItemsView, TakingView
  <2> QED
    BY <1>1, <1>6, <2>1
<1> QED
  BY <1>1, <1>5, <1>6 DEF QueueInv, NotOverfull

(* The first item of a queue that is not empty is that of tail_seq_.       *)
LEMMA FirstItem ==
  ASSUME QueueInv, tail_seq_ < head_seq_
  PROVE  AbstractItems # << >> /\ Head(AbstractItems) = AbstractItem(tail_seq_)
<1>1. head_seq_ \in Nat /\ tail_seq_ \in Nat
  BY DEF QueueInv, QueueTypeOK
<1>2. AbstractItems \in Seq(Items) /\ Len(AbstractItems) = head_seq_ - tail_seq_
  BY QueueView DEF View, ItemsView, TakingView
<1>3. AbstractItems # << >>
  BY <1>1, <1>2
<1>4. Head(AbstractItems) = AbstractItems[1]
  BY <1>2, <1>3
<1>5. AbstractItems[1] = AbstractItem(tail_seq_ + 1 - 1)
  BY <1>1, ItemsSequence
<1>6. tail_seq_ + 1 - 1 = tail_seq_
  BY <1>1
<1> QED
  BY <1>3, <1>4, <1>5, <1>6

(* When the node of a dequeue's ticket has no value, the queue is empty or *)
(* its first value is not published yet.                                   *)
LEMMA EmptyOrPending ==
  ASSUME QueueInv, NEW k \in Nat, k <= tail_seq_, seq[Slot(k)] < k + 1
  PROVE  AbstractItems = << >> \/ Head(AbstractItems).owner # None
<1>1. /\ head_seq_ \in Nat /\ tail_seq_ \in Nat
      /\ seq[Slot(k)] \in Int
  BY SlotType DEF QueueInv, QueueTypeOK
<1>2. k = tail_seq_
  BY <1>1 DEF QueueInv, Passed
<1>3. CASE tail_seq_ < head_seq_
  <2>1. OccupiedAt(k)
    BY <1>2, <1>3 DEF QueueInv, Occupied
  <2>2. PICK u \in Threads : Enqueuing(u) /\ ticket[u] = k
    BY <1>1, <2>1 DEF OccupiedAt
  <2>3. AbstractItem(k) = [value |-> local[u], owner |-> u]
    BY <2>2, QueueView DEF View, ItemsView, TakingView
  <2>4. u # None
    BY MpmcAssumption
  <2> QED
    BY <1>2, <1>3, <2>3, <2>4, FirstItem
<1>4. CASE tail_seq_ = head_seq_
  <2>1. AbstractItems \in Seq(Items) /\ Len(AbstractItems) = 0
    BY <1>1, <1>4, ItemsSequence
  <2> QED
    BY <2>1
<1> QED
  BY <1>1, <1>3, <1>4 DEF QueueInv, NotOverfull

(* enqueue returns false (86) only when EnqueueFails allows it.            *)
LEMMA E_seqAbstract ==
  ASSUME QueueInv, QueueInv', NEW t \in Threads, E_seq(t)
  PROVE  Fifo!EnqueueFails(t) \/ UNCHANGED Fifo!fifoVars
<1>1. UNCHANGED <<AbstractItems, AbstractTaking>>
  BY QuietAbstract DEF QuietStep
<1>2. CASE seq[Slot(ticket[t])] < ticket[t] /\ Return(t, "false")
  <2>1. pc[t] = "E seq"
    BY DEF E_seq
  <2>2. result[t] = "busy"
    BY <2>1 DEF QueueInv, Calls, Call
  <2>3. ~Fifo!Between(t)
    BY <2>1, NotBetween DEF Enqueuing, Dequeuing
  <2>4. ticket[t] \in Nat /\ ticket[t] <= head_seq_
    BY <2>1 DEF QueueInv, QueueTypeOK, Claims, Claim
  <2>5. Len(AbstractItems) = Size \/ Fifo!Takers # {}
    BY <1>2, <2>4, FullOrTaking
  <2>6. result' = [result EXCEPT ![t] = "false"]
    BY <1>2 DEF Return
  <2> QED
    BY <1>1, <2>2, <2>3, <2>5, <2>6 DEF Fifo!EnqueueFails
<1>3. CASE UNCHANGED result
  BY <1>1, <1>3 DEF Fifo!fifoVars
<1> QED
  BY <1>2, <1>3, E_seqBranches DEF QueueInv, Goto

(* dequeue returns false (127) only when DequeueFails allows it.           *)
LEMMA D_seqAbstract ==
  ASSUME QueueInv, QueueInv', NEW t \in Threads, D_seq(t)
  PROVE  Fifo!DequeueFails(t) \/ UNCHANGED Fifo!fifoVars
<1>1. UNCHANGED <<AbstractItems, AbstractTaking>>
  BY QuietAbstract DEF QuietStep
<1>2. CASE seq[Slot(ticket[t])] < ticket[t] + 1 /\ Return(t, "false")
  <2>1. pc[t] = "D seq"
    BY DEF D_seq
  <2>2. result[t] = "busy"
    BY <2>1 DEF QueueInv, Calls, Call
  <2>3. ~Fifo!Between(t)
    BY <2>1, NotBetween DEF Enqueuing, Dequeuing
  <2>4. ticket[t] \in Nat /\ ticket[t] <= tail_seq_
    BY <2>1 DEF QueueInv, QueueTypeOK, Claims, Claim
  <2>5. AbstractItems = << >> \/ Head(AbstractItems).owner # None
    BY <1>2, <2>4, EmptyOrPending
  <2>6. result' = [result EXCEPT ![t] = "false"]
    BY <1>2 DEF Return
  <2> QED
    BY <1>1, <2>2, <2>3, <2>5, <2>6 DEF Fifo!DequeueFails
<1>3. CASE UNCHANGED result
  BY <1>1, <1>3 DEF Fifo!fifoVars
<1> QED
  BY <1>2, <1>3, D_seqBranches DEF QueueInv, Goto

-----------------------------------------------------------------------------
(* The room used: the tickets of the dequeuers are different numbers       *)
(* between head_seq_ - Size and tail_seq_, so they and the queue together  *)
(* leave room for the claim that head_seq_ shows.                          *)
LEMMA RoomTaken ==
  ASSUME QueueInv, Size > 1,
         \A t \in Threads : Dequeuing(t) => head_seq_ < ticket[t] + Size,
         head_seq_ < tail_seq_ + Size
  PROVE  Len(AbstractItems) + Cardinality(Fifo!Takers) < Size
<1> DEFINE S == {t \in Threads : Dequeuing(t)}
           T == (head_seq_ + 1 - Size)..(tail_seq_ - 1)
           f == [t \in S |-> ticket[t]]
<1>1. head_seq_ \in Nat /\ tail_seq_ \in Nat /\ Size \in Nat
  BY MpmcAssumption DEF QueueInv, QueueTypeOK
<1>2. \A t \in S : ticket[t] \in T
  <2> SUFFICES ASSUME NEW t \in Threads, Dequeuing(t) PROVE ticket[t] \in T
    OBVIOUS
  <2>1. ticket[t] \in Nat /\ ticket[t] < tail_seq_
    BY DEF QueueInv, QueueTypeOK, Dequeuers, Dequeuer
  <2> QED
    BY <1>1, <2>1
<1>3. f \in Injection(S, T)
  <2>1. \A t, u \in S : t # u => ticket[t] # ticket[u]
    BY DEF QueueInv, TicketsUnique
  <2> QED
    BY <1>2, <2>1 DEF Injection, IsInjective
<1>4. IsFiniteSet(T) /\ Cardinality(T) = (tail_seq_ + Size - 1) - head_seq_
  BY <1>1, FS_Interval
<1>5. IsFiniteSet(S) /\ Cardinality(S) <= Cardinality(T)
  BY <1>3, <1>4, FS_Injection
<1>6. Cardinality(S) \in Nat
  BY <1>5, FS_CardinalityType
<1>7. Len(AbstractItems) = head_seq_ - tail_seq_
  BY ItemsSequence
<1>8. Fifo!Takers = S
  BY TakersAre
<1> HIDE DEF S, T
<1> QED
  BY <1>1, <1>4, <1>5, <1>6, <1>7, <1>8

(* A successful compare_exchange of enqueue is Reserve.                    *)
LEMMA E_casAbstract ==
  ASSUME QueueInv, QueueInv', Size > 1, NEW t \in Threads, E_cas(t)
  PROVE  Fifo!Reserve(t, local[t])
<1>0. View /\ View'
  BY QueueView, QueueViewNext
<1>1. /\ ticket[t] = head_seq_ /\ head_seq_' = head_seq_ + 1
      /\ UNCHANGED <<tail_seq_, data, ticket, local, result>>
  BY DEF E_cas, Goto
<1>2. /\ head_seq_ \in Nat /\ tail_seq_ \in Nat /\ Size \in Nat
      /\ tail_seq_ <= head_seq_ /\ head_seq_' <= tail_seq_ + Size
  <2>1. /\ head_seq_ \in Nat /\ tail_seq_ \in Nat /\ Size \in Nat
        /\ tail_seq_ <= head_seq_
    BY MpmcAssumption DEF QueueInv, QueueTypeOK, NotOverfull
  <2>2. head_seq_' <= tail_seq_' + Size
    BY DEF QueueInv, NotOverfull
  <2> QED
    BY <1>1, <2>1, <2>2
<1>3. /\ ~Enqueuing(t) /\ ~Dequeuing(t)
      /\ \A u \in Threads : Enqueuing(u)' <=> Enqueuing(u) \/ u = t
      /\ \A u \in Threads : Dequeuing(u)' <=> Dequeuing(u)
      /\ \A u \in Threads : Dequeuing(u) => pc'[u] = pc[u]
  BY DEF QueueInv, QueueTypeOK, E_cas, Goto, Enqueuing, Dequeuing
<1>4. result[t] = "busy" /\ ~Fifo!Between(t)
  <2>1. result[t] = "busy"
    BY DEF E_cas, QueueInv, Calls, Call
  <2> QED
    BY <1>3, <2>1, NotBetween
<1>5. Len(AbstractItems) + Cardinality(Fifo!Takers) < Size
  <2>1. head_seq_ < tail_seq_ + Size
    BY <1>1, <1>2
  <2>2. ASSUME NEW u \in Threads, Dequeuing(u)
        PROVE  head_seq_ < ticket[u] + Size
    <3>1. Dequeuing(u)'
      BY <1>3, <2>2
    <3>2. Dequeuer(u)'
      BY <3>1 DEF QueueInv, Dequeuers
    <3>3. ticket[u] \in Nat
      BY DEF QueueInv, QueueTypeOK
    <3> QED
      BY <1>1, <1>2, <3>2, <3>3 DEF Dequeuer
  <2> QED
    BY <2>1, <2>2, RoomTaken
<1>6. AbstractTaking' = AbstractTaking
  <2>1. ASSUME NEW u \in Threads PROVE AbstractTaking'[u] = AbstractTaking[u]
    <3>1. CASE Dequeuing(u)
      <4>1. pc[u] = "D data" \/ pc[u] = "D store"
        BY <3>1 DEF Dequeuing
      <4>2. pc'[u] = pc[u] /\ ticket'[u] = ticket[u] /\ local'[u] = local[u]
        BY <1>1, <1>3, <3>1
      <4> QED
        BY <1>0, <1>1, <4>1, <4>2 DEF View, TakingView
    <3>2. CASE ~Dequeuing(u)
      BY <1>0, <1>3, <3>2 DEF View, TakingView
    <3> QED
      BY <3>1, <3>2
  <2> QED
    BY <1>0, <2>1, SameTaking
<1>7. AbstractItems' = Append(AbstractItems, [value |-> local[t], owner |-> t])
  <2> DEFINE x == [value |-> local[t], owner |-> t]
  <2>1. PICK lo \in Nat, n \in Nat : lo = tail_seq_ /\ lo + n = head_seq_
    <3>1. head_seq_ - tail_seq_ \in Nat
      BY <1>2
    <3>2. tail_seq_ + (head_seq_ - tail_seq_) = head_seq_
      BY <1>2
    <3> QED
      BY <1>2, <3>1, <3>2
  <2>2. head_seq_ - tail_seq_ = n /\ head_seq_' - tail_seq_' = n + 1
    BY <1>1, <1>2, <2>1
  <2>3. ASSUME NEW k \in Nat, lo <= k, k < lo + n
        PROVE  AbstractItem(k)' = AbstractItem(k)
    <3>1. k # ticket[t]
      BY <1>1, <2>1, <2>3
    <3> QED
      BY <1>0, <1>1, <1>3, <3>1, SameItem
  <2>4. AbstractItem(lo + n)' = x
    <3>1. Enqueuing(t)' /\ ticket'[t] = lo + n
      BY <1>1, <1>3, <2>1
    <3> QED
      BY <1>0, <1>1, <3>1 DEF View, ItemsView
  <2>5. /\ AbstractItems \in Seq(Items) /\ Len(AbstractItems) = n
        /\ \A i \in 1..n : AbstractItems[i] = AbstractItem(lo + i - 1)
    BY <1>0, <2>1, <2>2 DEF View, ItemsView
  <2>6. /\ AbstractItems' \in Seq(Items) /\ Len(AbstractItems') = n + 1
        /\ \A i \in 1..(n + 1) : AbstractItems'[i] = AbstractItem(lo + i - 1)'
    <3>1. tail_seq_' = lo
      BY <1>1, <2>1
    <3> QED
      BY <1>0, <2>2, <3>1 DEF View, ItemsView, Items
  <2>7. \A i \in 1..n : AbstractItems'[i] = AbstractItems[i]
    <3> SUFFICES ASSUME NEW i \in 1..n
                 PROVE  AbstractItems'[i] = AbstractItems[i]
      OBVIOUS
    <3>1. lo + i - 1 \in Nat /\ lo <= lo + i - 1 /\ lo + i - 1 < lo + n
      OBVIOUS
    <3>2. AbstractItem(lo + i - 1)' = AbstractItem(lo + i - 1)
      BY <2>3, <3>1
    <3> QED
      BY <2>5, <2>6, <3>2
  <2>8. AbstractItems'[n + 1] = x
    <3>1. lo + (n + 1) - 1 = lo + n
      OBVIOUS
    <3> QED
      BY <2>4, <2>6, <3>1
  <2>9. x \in Items
    BY DEF QueueInv, QueueTypeOK, Items
  <2> HIDE DEF x
  <2>10. AbstractItems' = Append(AbstractItems, x)
    BY <2>5, <2>6, <2>7, <2>8, <2>9, AppendIs
  <2> QED
    BY <2>10 DEF x
<1>8. UNCHANGED result
  BY <1>1
<1> QED
  BY <1>4, <1>5, <1>6, <1>7, <1>8, FifoCardinality DEF Fifo!Reserve

(* Writing the data is no step of the FIFO: the value is not to be seen    *)
(* yet.                                                                    *)
LEMMA E_dataAbstract ==
  ASSUME QueueInv, QueueInv', Size > 1, NEW t \in Threads, E_data(t)
  PROVE  UNCHANGED Fifo!fifoVars
<1>0. View /\ View'
  BY QueueView, QueueViewNext
<1>1. /\ data' = [data EXCEPT ![Slot(ticket[t])] = local[t]]
      /\ UNCHANGED <<head_seq_, tail_seq_, seq, ticket, local, result>>
  BY DEF E_data, Goto
<1>2. /\ Enqueuing(t)
      /\ \A u \in Threads : Enqueuing(u)' <=> Enqueuing(u)
      /\ \A u \in Threads : Dequeuing(u)' <=> Dequeuing(u)
      /\ \A u \in Threads : Dequeuing(u) => u # t /\ pc'[u] = pc[u]
  BY DEF QueueInv, QueueTypeOK, E_data, Goto, Enqueuing, Dequeuing
<1>3. ASSUME NEW k \in Nat, Slot(k) # Slot(ticket[t])
      PROVE  data'[Slot(k)] = data[Slot(k)]
  BY <1>1, <1>3, SlotType DEF QueueInv, QueueTypeOK
<1>4. AbstractItems' = AbstractItems
  <2>1. ASSUME NEW k \in Nat, tail_seq_ <= k, k < head_seq_
        PROVE  AbstractItem(k)' = AbstractItem(k)
    <3>1. CASE k = ticket[t]
      BY <1>0, <1>1, <1>2, <3>1, SameItem
    <3>2. CASE k # ticket[t]
      <4>1. /\ head_seq_ \in Nat /\ tail_seq_ \in Nat /\ Size \in Nat /\ ticket[t] \in Nat
            /\ head_seq_ <= tail_seq_ + Size
        BY MpmcAssumption DEF QueueInv, QueueTypeOK, NotOverfull
      <4>2. tail_seq_ <= ticket[t] /\ ticket[t] < head_seq_
        BY <1>2 DEF QueueInv, Enqueuers, Enqueuer
      <4>3. Slot(k) # Slot(ticket[t])
        BY <2>1, <3>2, <4>1, <4>2, SlotDistinct
      <4>4. data'[Slot(k)] = data[Slot(k)]
        BY <1>3, <4>3
      <4> QED
        BY <1>0, <1>1, <1>2, <4>4, SameItem
    <3> QED
      BY <3>1, <3>2
  <2> QED
    BY <1>1, <2>1, SameItems
<1>5. AbstractTaking' = AbstractTaking
  <2>1. ASSUME NEW u \in Threads PROVE AbstractTaking'[u] = AbstractTaking[u]
    <3>1. CASE Dequeuing(u)
      <4>1. pc[u] = "D data" \/ pc[u] = "D store"
        BY <3>1 DEF Dequeuing
      <4>2. pc'[u] = pc[u] /\ ticket'[u] = ticket[u] /\ local'[u] = local[u]
        BY <1>1, <1>2, <3>1
      <4>3. Slot(ticket[u]) # Slot(ticket[t]) /\ ticket[u] \in Nat
        BY <1>2, <3>1, Apart DEF QueueInv, QueueTypeOK
      <4>4. data'[Slot(ticket[u])] = data[Slot(ticket[u])]
        BY <1>3, <4>3
      <4> QED
        BY <1>0, <1>1, <4>1, <4>2, <4>4 DEF View, TakingView
    <3>2. CASE ~Dequeuing(u)
      BY <1>0, <1>2, <3>2 DEF View, TakingView
    <3> QED
      BY <3>1, <3>2
  <2> QED
    BY <1>0, <2>1, SameTaking
<1> QED
  BY <1>1, <1>4, <1>5 DEF Fifo!fifoVars

(* Copying the data is no step of the FIFO.                                *)
LEMMA D_dataAbstract ==
  ASSUME QueueInv, QueueInv', NEW t \in Threads, D_data(t)
  PROVE  UNCHANGED Fifo!fifoVars
<1>0. View /\ View'
  BY QueueView, QueueViewNext
<1>1. /\ UNCHANGED <<head_seq_, tail_seq_, seq, data, ticket, result>>
      /\ pc[t] = "D data" /\ pc'[t] = "D store"
      /\ local'[t] = data[Slot(ticket[t])]
  BY DEF D_data, Goto, QueueInv, QueueTypeOK
<1>2. /\ \A u \in Threads : Enqueuing(u)' <=> Enqueuing(u)
      /\ \A u \in Threads : Dequeuing(u)' <=> Dequeuing(u)
      /\ \A u \in Threads : Enqueuing(u) => local'[u] = local[u]
      /\ \A u \in Threads : u # t => pc'[u] = pc[u] /\ local'[u] = local[u]
  BY DEF QueueInv, QueueTypeOK, D_data, Goto, Enqueuing, Dequeuing
<1>3. AbstractItems' = AbstractItems
  <2>1. \A k \in Nat : AbstractItem(k)' = AbstractItem(k)
    BY <1>0, <1>1, <1>2, SameItem
  <2> QED
    BY <1>1, <2>1, SameItems
<1>4. AbstractTaking' = AbstractTaking
  <2>1. ASSUME NEW u \in Threads PROVE AbstractTaking'[u] = AbstractTaking[u]
    <3>1. CASE u = t
      BY <1>0, <1>1, <3>1 DEF View, TakingView
    <3>2. CASE u # t /\ Dequeuing(u)
      <4>1. pc[u] = "D data" \/ pc[u] = "D store"
        BY <3>2 DEF Dequeuing
      <4>2. pc'[u] = pc[u] /\ ticket'[u] = ticket[u] /\ local'[u] = local[u]
        BY <1>1, <1>2, <3>2
      <4> QED
        BY <1>0, <1>1, <4>1, <4>2 DEF View, TakingView
    <3>3. CASE ~Dequeuing(u)
      BY <1>0, <1>2, <3>3 DEF View, TakingView
    <3> QED
      BY <3>1, <3>2, <3>3
  <2> QED
    BY <1>0, <2>1, SameTaking
<1> QED
  BY <1>1, <1>3, <1>4 DEF Fifo!fifoVars

(* The store of the sequence number in enqueue is Publish, with the value  *)
(* the enqueuer was given.                                                 *)
LEMMA E_storeAbstract ==
  ASSUME QueueInv, QueueInv', Size > 1, NEW t \in Threads, E_store(t)
  PROVE  Fifo!Publish(t)
<1>0. View /\ View'
  BY QueueView, QueueViewNext
<1>1. /\ UNCHANGED <<head_seq_, tail_seq_, data>>
      /\ result' = [result EXCEPT ![t] = "true"]
  BY DEF E_store, Return
<1>2. /\ Enqueuing(t) /\ ~Enqueuing(t)' /\ ~Dequeuing(t) /\ ~Dequeuing(t)'
      /\ \A u \in Threads : u # t =>
           /\ Enqueuing(u)' <=> Enqueuing(u)
           /\ Dequeuing(u)' <=> Dequeuing(u)
           /\ pc'[u] = pc[u] /\ ticket'[u] = ticket[u] /\ local'[u] = local[u]
  BY DEF QueueInv, QueueTypeOK, E_store, Return, Enqueuing, Dequeuing
<1>3. data[Slot(ticket[t])] = local[t]
  BY DEF E_store, QueueInv, Writings, Written
<1>4. AbstractTaking' = AbstractTaking
  <2>1. ASSUME NEW u \in Threads PROVE AbstractTaking'[u] = AbstractTaking[u]
    <3>1. CASE Dequeuing(u)
      <4>1. pc[u] = "D data" \/ pc[u] = "D store"
        BY <3>1 DEF Dequeuing
      <4>2. pc'[u] = pc[u] /\ ticket'[u] = ticket[u] /\ local'[u] = local[u]
        BY <1>2, <3>1
      <4> QED
        BY <1>0, <1>1, <4>1, <4>2 DEF View, TakingView
    <3>2. CASE ~Dequeuing(u)
      BY <1>0, <1>2, <3>2 DEF View, TakingView
    <3> QED
      BY <3>1, <3>2
  <2> QED
    BY <1>0, <2>1, SameTaking
<1>5. PICK lo \in Nat, n \in Nat, c \in Nat :
        /\ lo = tail_seq_ /\ lo + n = head_seq_ /\ c = ticket[t]
        /\ lo <= c /\ c < lo + n
  <2>1. /\ head_seq_ \in Nat /\ tail_seq_ \in Nat /\ ticket[t] \in Nat
        /\ tail_seq_ <= ticket[t] /\ ticket[t] < head_seq_
    BY <1>2 DEF QueueInv, QueueTypeOK, Enqueuers, Enqueuer
  <2>2. head_seq_ - tail_seq_ \in Nat /\ tail_seq_ + (head_seq_ - tail_seq_) = head_seq_
    BY <2>1
  <2> QED
    BY <2>1, <2>2
<1>6. ASSUME NEW k \in Nat, k # c
      PROVE  AbstractItem(k)' = AbstractItem(k)
  <2>1. ASSUME NEW u \in Threads
        PROVE  /\ (Enqueuing(u)' /\ ticket'[u] = k) <=> (Enqueuing(u) /\ ticket[u] = k)
               /\ Enqueuing(u) /\ ticket[u] = k => local'[u] = local[u]
    BY <1>2, <1>5, <1>6
  <2> QED
    BY <1>0, <1>1, <2>1, SameItem
<1>7. AbstractItem(c) = [value |-> local[t], owner |-> t]
  BY <1>0, <1>2, <1>5 DEF View, ItemsView
<1>8. AbstractItem(c)' = [value |-> local[t], owner |-> None]
  <2>1. ASSUME NEW u \in Threads PROVE ~(Enqueuing(u)' /\ ticket'[u] = c)
    BY <1>2, <1>5 DEF QueueInv, TicketsUnique
  <2> QED
    BY <1>0, <1>1, <1>3, <1>5, <2>1 DEF View, ItemsView
<1> DEFINE i == c - lo + 1
<1>9. i \in 1..n /\ lo + i - 1 = c /\ \A j \in 1..n : j # i => lo + j - 1 \in Nat /\ lo + j - 1 # c
  BY <1>5
<1>10. /\ DOMAIN AbstractItems = 1..n /\ DOMAIN AbstractItems' = 1..n
       /\ \A j \in 1..n : AbstractItems[j] = AbstractItem(lo + j - 1)
       /\ \A j \in 1..n : AbstractItems'[j] = AbstractItem(lo + j - 1)'
       /\ AbstractItems \in Seq(Items) /\ AbstractItems' \in Seq(Items)
       /\ Len(AbstractItems) = n /\ Len(AbstractItems') = n
  <2>1. head_seq_ - tail_seq_ = n /\ head_seq_' - tail_seq_' = n /\ tail_seq_' = lo
    BY <1>1, <1>5
  <2> QED
    BY <1>0, <1>5, <2>1 DEF View, ItemsView, Items
<1> HIDE DEF i
<1>11. /\ AbstractItems[i] = [value |-> local[t], owner |-> t]
       /\ AbstractItems'[i] = [value |-> local[t], owner |-> None]
       /\ \A j \in 1..n : j # i => AbstractItems'[j] = AbstractItems[j]
  BY <1>6, <1>7, <1>8, <1>9, <1>10
<1>12. AbstractItems' = [AbstractItems EXCEPT ![i].owner = None]
  <2>1. /\ AbstractItems = [j \in 1..n |-> AbstractItems[j]]
        /\ AbstractItems' = [j \in 1..n |-> AbstractItems'[j]]
    BY <1>10
  <2>2. [AbstractItems[i] EXCEPT !.owner = None] = AbstractItems'[i]
    BY <1>11
  <2> QED
    BY <1>9, <1>11, <2>1, <2>2
<1>13. i \in DOMAIN AbstractItems /\ AbstractItems[i].owner = t
  BY <1>9, <1>10, <1>11
<1>14. \E j \in DOMAIN AbstractItems :
         /\ AbstractItems[j].owner = t
         /\ AbstractItems' = [AbstractItems EXCEPT ![j].owner = None]
  BY <1>12, <1>13, Zenon
<1> QED
  BY <1>1, <1>4, <1>14, Zenon DEF Fifo!Publish

(* A successful compare_exchange of dequeue is Take, of the oldest value.  *)
LEMMA D_casAbstract ==
  ASSUME QueueInv, QueueInv', Size > 1, NEW t \in Threads, D_cas(t)
  PROVE  Fifo!Take(t)
<1>0. View /\ View'
  BY QueueView, QueueViewNext
<1>1. /\ ticket[t] = tail_seq_ /\ tail_seq_' = tail_seq_ + 1
      /\ UNCHANGED <<head_seq_, data, ticket, local, result>>
  BY DEF D_cas, Goto
<1>2. PICK lo \in Nat, n \in Nat : lo = tail_seq_ /\ lo + n + 1 = head_seq_
  <2>1. head_seq_ \in Nat /\ tail_seq_ \in Nat
    BY DEF QueueInv, QueueTypeOK
  <2>2. tail_seq_' <= head_seq_'
    BY DEF QueueInv, NotOverfull
  <2>3. head_seq_ - tail_seq_ - 1 \in Nat
        /\ tail_seq_ + (head_seq_ - tail_seq_ - 1) + 1 = head_seq_
    BY <1>1, <2>1, <2>2
  <2> QED
    BY <2>1, <2>3
<1>3. /\ ~Enqueuing(t) /\ ~Dequeuing(t) /\ pc'[t] = "D data"
      /\ \A u \in Threads : Enqueuing(u)' <=> Enqueuing(u)
      /\ \A u \in Threads : Dequeuing(u)' <=> Dequeuing(u) \/ u = t
      /\ \A u \in Threads : u # t => pc'[u] = pc[u]
  BY DEF QueueInv, QueueTypeOK, D_cas, Goto, Enqueuing, Dequeuing
<1>4. result[t] = "busy" /\ ~Fifo!Between(t)
  <2>1. result[t] = "busy"
    BY DEF D_cas, QueueInv, Calls, Call
  <2> QED
    BY <1>3, <2>1, NotBetween
<1>5. AbstractItem(lo) = [value |-> data[Slot(lo)], owner |-> None]
  <2>1. \A u \in Threads : ~(Enqueuing(u) /\ ticket[u] = lo)
    <3>1. ASSUME NEW u \in Threads, Enqueuing(u) PROVE ticket[u] # lo
      <4>1. Enqueuer(u)' /\ ticket[u] \in Nat
        BY <1>3, <3>1 DEF QueueInv, Enqueuers, QueueTypeOK
      <4> QED
        BY <1>1, <1>2, <4>1 DEF Enqueuer
    <3> QED
      BY <3>1
  <2> QED
    BY <1>0, <2>1 DEF View, ItemsView
<1>6. AbstractItems # << >> /\ Head(AbstractItems) = AbstractItem(lo)
  BY <1>2, FirstItem
<1>7. AbstractItems' = Tail(AbstractItems)
  <2>1. \A k \in Nat : AbstractItem(k)' = AbstractItem(k)
    BY <1>0, <1>1, <1>3, SameItem
  <2>2. /\ head_seq_ - tail_seq_ = n + 1 /\ head_seq_' - tail_seq_' = n
        /\ tail_seq_' = lo + 1
    BY <1>1, <1>2
  <2>3. /\ AbstractItems \in Seq(Items) /\ Len(AbstractItems) = n + 1
        /\ \A j \in 1..(n + 1) : AbstractItems[j] = AbstractItem(lo + j - 1)
    BY <1>0, <1>2, <2>2 DEF View, ItemsView
  <2>4. /\ AbstractItems' \in Seq(Items) /\ Len(AbstractItems') = n
        /\ \A j \in 1..n : AbstractItems'[j] = AbstractItem(lo + 1 + j - 1)'
    BY <1>0, <2>2 DEF View, ItemsView, Items
  <2>5. ASSUME NEW j \in 1..n PROVE AbstractItems'[j] = AbstractItems[j + 1]
    <3>1. /\ lo + 1 + j - 1 = lo + j /\ lo + (j + 1) - 1 = lo + j
          /\ lo + j \in Nat /\ j + 1 \in 1..(n + 1)
      OBVIOUS
    <3> QED
      BY <2>1, <2>3, <2>4, <3>1
  <2>6. Len(AbstractItems') = Len(AbstractItems) - 1
    BY <2>3, <2>4
  <2> QED
    BY <1>6, <2>3, <2>4, <2>5, <2>6, TailIs
<1>8. AbstractTaking' = [AbstractTaking EXCEPT ![t] = Head(AbstractItems).value]
  <2>1. AbstractTaking'[t] = Head(AbstractItems).value
    <3>1. AbstractTaking'[t] = data'[Slot(ticket'[t])]
      BY <1>0, <1>3 DEF View, TakingView
    <3>2. data'[Slot(ticket'[t])] = data[Slot(lo)]
      BY <1>1, <1>2
    <3>3. Head(AbstractItems).value = data[Slot(lo)]
      BY <1>5, <1>6
    <3> QED
      BY <3>1, <3>2, <3>3
  <2>2. ASSUME NEW u \in Threads, u # t PROVE AbstractTaking'[u] = AbstractTaking[u]
    <3>1. CASE Dequeuing(u)
      <4>1. pc[u] = "D data" \/ pc[u] = "D store"
        BY <3>1 DEF Dequeuing
      <4>2. pc'[u] = pc[u] /\ ticket'[u] = ticket[u] /\ local'[u] = local[u]
        BY <1>1, <1>3, <2>2
      <4> QED
        BY <1>0, <1>1, <4>1, <4>2 DEF View, TakingView
    <3>2. CASE ~Dequeuing(u)
      BY <1>0, <1>3, <2>2, <3>2 DEF View, TakingView
    <3> QED
      BY <3>1, <3>2
  <2>3. /\ AbstractTaking = [u \in Threads |-> AbstractTaking[u]]
        /\ AbstractTaking' = [u \in Threads |-> AbstractTaking'[u]]
    BY DEF AbstractTaking
  <2> QED
    BY <2>1, <2>2, <2>3
<1>9. Head(AbstractItems).owner = None
  BY <1>5, <1>6
<1>10. UNCHANGED result
  BY <1>1
<1> QED
  BY <1>4, <1>6, <1>7, <1>8, <1>9, <1>10 DEF Fifo!Take

(* The store of the sequence number in dequeue is Release.                 *)
LEMMA D_storeAbstract ==
  ASSUME QueueInv, QueueInv', NEW t \in Threads, D_store(t)
  PROVE  Fifo!Release(t)
<1>0. View /\ View'
  BY QueueView, QueueViewNext
<1>1. /\ UNCHANGED <<head_seq_, tail_seq_, data>>
      /\ result' = [result EXCEPT ![t] = "true"]
  BY DEF D_store, Return
<1>2. /\ Dequeuing(t) /\ ~Dequeuing(t)' /\ ~Enqueuing(t) /\ ~Enqueuing(t)'
      /\ \A u \in Threads : u # t =>
           /\ Enqueuing(u)' <=> Enqueuing(u)
           /\ Dequeuing(u)' <=> Dequeuing(u)
           /\ pc'[u] = pc[u] /\ ticket'[u] = ticket[u] /\ local'[u] = local[u]
  BY DEF QueueInv, QueueTypeOK, D_store, Return, Enqueuing, Dequeuing
<1>3. AbstractItems' = AbstractItems
  <2>1. ASSUME NEW k \in Nat PROVE AbstractItem(k)' = AbstractItem(k)
    <3>1. ASSUME NEW u \in Threads
          PROVE  /\ (Enqueuing(u)' /\ ticket'[u] = k) <=> (Enqueuing(u) /\ ticket[u] = k)
                 /\ Enqueuing(u) /\ ticket[u] = k => local'[u] = local[u]
      BY <1>2
    <3> QED
      BY <1>0, <1>1, <3>1, SameItem
  <2> QED
    BY <1>1, <2>1, SameItems
<1>4. AbstractTaking' = [AbstractTaking EXCEPT ![t] = None]
  <2>1. AbstractTaking'[t] = None
    BY <1>0, <1>2 DEF View, TakingView
  <2>2. ASSUME NEW u \in Threads, u # t PROVE AbstractTaking'[u] = AbstractTaking[u]
    <3>1. CASE Dequeuing(u)
      <4>1. pc[u] = "D data" \/ pc[u] = "D store"
        BY <3>1 DEF Dequeuing
      <4>2. pc'[u] = pc[u] /\ ticket'[u] = ticket[u] /\ local'[u] = local[u]
        BY <1>2, <2>2
      <4> QED
        BY <1>0, <1>1, <4>1, <4>2 DEF View, TakingView
    <3>2. CASE ~Dequeuing(u)
      BY <1>0, <1>2, <2>2, <3>2 DEF View, TakingView
    <3> QED
      BY <3>1, <3>2
  <2>3. /\ AbstractTaking = [u \in Threads |-> AbstractTaking[u]]
        /\ AbstractTaking' = [u \in Threads |-> AbstractTaking'[u]]
    BY DEF AbstractTaking
  <2> QED
    BY <2>1, <2>2, <2>3
<1>5. t \in Fifo!Takers
  BY <1>2, TakersAre
<1> QED
  BY <1>1, <1>3, <1>4, <1>5 DEF Fifo!Release

-----------------------------------------------------------------------------
(* Every step of the queue is a step of the FIFO or leaves it unchanged.   *)
LEMMA FifoStep ==
  ASSUME QueueInv, QueueInv', Size > 1, [QueueNext]_queueVars
  PROVE  [Fifo!FifoNext]_(Fifo!fifoVars)
<1>1. CASE UNCHANGED queueVars
  <2>1. UNCHANGED <<AbstractItems, AbstractTaking, result>>
    BY <1>1 DEF queueVars, AbstractItems, AbstractItem, Holders, AbstractTaking, Enqueuing
  <2> QED
    BY <2>1 DEF Fifo!fifoVars
<1>2. CASE QueueNext
  <2>1. PICK t \in Threads : QuietStep(t) \/ Step(t)
    BY <1>2 DEF QueueNext, QuietStep
  <2>2. CASE (\E value \in Values : enqueue(t, value)) \/ dequeue(t)
    BY <2>2, BeginStep DEF Fifo!FifoNext
  <2>3. CASE E_load(t) \/ E_cas_fails(t) \/ D_load(t) \/ D_cas_fails(t)
    BY <2>3, LoopStep
  <2>4. CASE E_seq(t)
    BY <2>4, E_seqAbstract DEF Fifo!FifoNext
  <2>5. CASE D_seq(t)
    BY <2>5, D_seqAbstract DEF Fifo!FifoNext
  <2>6. CASE E_cas(t)
    <3>1. local[t] \in Values
      BY <2>6 DEF E_cas, QueueInv, Calls, Call, E_labels
    <3> QED
      BY <2>6, <3>1, E_casAbstract DEF Fifo!FifoNext
  <2>7. CASE D_cas(t)
    BY <2>7, D_casAbstract DEF Fifo!FifoNext
  <2>8. CASE E_data(t) \/ D_data(t)
    BY <2>8, E_dataAbstract, D_dataAbstract
  <2>9. CASE E_store(t)
    BY <2>9, E_storeAbstract DEF Fifo!FifoNext
  <2>10. CASE D_store(t)
    BY <2>10, D_storeAbstract DEF Fifo!FifoNext
  <2> QED
    BY <2>1, <2>2, <2>3, <2>4, <2>5, <2>6, <2>7, <2>8, <2>9, <2>10 DEF QuietStep, Step
<1> QED
  BY <1>1, <1>2

(* The queue implements the bounded FIFO, for every ring of two or more    *)
(* nodes: values leave in the order of their claims, each once and         *)
(* unaltered, at most Size of them are held, and a call fails only when    *)
(* the queue is full or empty or an operation of another thread is between *)
(* its two steps.                                                          *)
THEOREM QueueRefinesFifo ==
  ASSUME Size > 1
  PROVE  QueueSpec => RefinesFifo
<1>1. QueueInv /\ QueueInv' /\ [QueueNext]_queueVars => [Fifo!FifoNext]_(Fifo!fifoVars)
  BY FifoStep
<1> QED
  BY <1>1, FifoInitial, QueueInvariant, PTL DEF QueueSpec, RefinesFifo, Fifo!FifoSpec
=============================================================================
