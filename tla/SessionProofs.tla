---------------------------- MODULE SessionProofs ----------------------------
(***************************************************************************)
(* Proofs about the pools of an I/O worker (modules Pool and Session).     *)
(*                                                                         *)
(* None of the three properties is inductive.  They follow from one fact   *)
(* about the code that holds along every run: connect_callback moves       *)
(* nothing from connections_pending_ to connections_.  So the first stays  *)
(* the set of all the connections of its pool, which bounds their number,  *)
(* and the second stays empty, so that the destructors free nothing.       *)
(* Which pool may be deleted depends on the map of the worker and on the   *)
(* order in which the pools were constructed.                              *)
(***************************************************************************)
EXTENDS Session, FiniteSetTheorems, SequenceTheorems, TLAPS

(* The phases of a connection.                                             *)
Phases == {"resolving", "connecting", "open", "ready", "closing", "ended"}

(* A pool. Its list connections_ is always empty: nothing in the code adds *)
(* to it.                                                                  *)
PoolType ==
  [address_ : Hosts,
   core_connections_per_host_ : Nat,
   max_connections_per_host_ : Nat,
   connections_ : {{}},
   connections_pending_ : SUBSET Nat,
   deleted : BOOLEAN]

(* A connection. None is ever freed: a destructor deletes those in         *)
(* connections_ only.                                                      *)
ConnectionType == [pool : Nat, phase : Phases, freed : {FALSE}]

(* The types of the variables the invariant is about.                      *)
SessionTypeOK ==
  /\ pools \in Seq(PoolType)
  /\ connections \in Seq(ConnectionType)
  /\ hosts \in [Hosts -> Nat]

(* The connections a pool has started.                                     *)
Of(p) == {c \in DOMAIN connections : connections[c].pool = p}

(* What a pool grows to that starts with core connections.                 *)
Least(core, max) == IF core = 0 /\ max > 0 THEN 1 ELSE core

(* The pending connections of a pool are all it has ever started, and      *)
(* there are at least its core connections, one more if it had none and    *)
(* may have one.                                                           *)
Bounded(p) ==
  /\ pools[p].connections_pending_ = Of(p)
  /\ pools[p].core_connections_per_host_ <= Cardinality(Of(p))
  /\ Cardinality(Of(p)) <= Least(pools[p].core_connections_per_host_,
                                 pools[p].max_connections_per_host_)

(* Every pool, deleted or not, is bounded in that way.                     *)
PoolsBounded == \A p \in DOMAIN pools : Bounded(p)

(* A connection belongs to a pool that has been constructed.               *)
Pooled == \A c \in DOMAIN connections : connections[c].pool \in DOMAIN pools

(* The map refers to pools that have been constructed, and they are not    *)
(* deleted before the worker is.                                           *)
Mapped ==
  \A h \in Hosts : hosts[h] # 0 =>
    /\ hosts[h] \in DOMAIN pools
    /\ user # "done" => pools[hosts[h]].deleted = FALSE

(* A deleted pool came after the one the map has for its host.             *)
Duplicate(p) == pools[p].deleted =>
  LET first == hosts[pools[p].address_] IN first # 0 /\ first < p

(* Until the worker is deleted, every deleted pool is a duplicate.         *)
Duplicates == user # "done" => \A p \in DOMAIN pools : Duplicate(p)

(* The inductive invariant.                                                *)
SessionInv ==
  /\ SessionTypeOK
  /\ Pooled
  /\ PoolsBounded
  /\ Mapped
  /\ Duplicates

-----------------------------------------------------------------------------
(* A pool has finitely many connections.                                   *)
LEMMA OfFinite ==
  ASSUME SessionTypeOK, NEW p
  PROVE  IsFiniteSet(Of(p)) /\ Cardinality(Of(p)) \in Nat
<1>1. Len(connections) \in Nat /\ DOMAIN connections = 1..Len(connections)
  BY DEF SessionTypeOK
<1>2. IsFiniteSet(1..Len(connections))
  BY <1>1, FS_Interval
<1>3. Of(p) \in SUBSET (1..Len(connections))
  BY <1>1 DEF Of
<1>4. IsFiniteSet(Of(p))
  BY <1>2, <1>3, FS_Subset
<1> QED
  BY <1>4, FS_CardinalityType

(* What Spawned(p, n) is: the connections there were, then n new ones.     *)
LEMMA SpawnedIs ==
  ASSUME SessionTypeOK, NEW p \in Nat, NEW n \in Nat
  PROVE  /\ Spawned(p, n) \in Seq(ConnectionType)
         /\ Len(Spawned(p, n)) = Len(connections) + n
         /\ \A c \in 1..(Len(connections) + n) :
              Spawned(p, n)[c] = IF c <= Len(connections) THEN connections[c]
                                                          ELSE NewConnection(p)
<1> DEFINE new == [i \in 1..n |-> NewConnection(p)]
<1>1. NewConnection(p) \in ConnectionType
  BY DEF NewConnection, ConnectionType, Phases
<1>2. new \in Seq(ConnectionType) /\ Len(new) = n /\ \A i \in 1..n : new[i] = NewConnection(p)
  BY <1>1
<1>3. connections \in Seq(ConnectionType) /\ Len(connections) \in Nat
  BY DEF SessionTypeOK
<1> HIDE DEF new
<1>4. /\ connections \o new \in Seq(ConnectionType)
      /\ Len(connections \o new) = Len(connections) + n
      /\ \A c \in 1..(Len(connections) + n) :
           (connections \o new)[c] = IF c <= Len(connections) THEN connections[c]
                                                              ELSE new[c - Len(connections)]
  BY <1>2, <1>3, ConcatProperties
<1>5. ASSUME NEW c \in 1..(Len(connections) + n), ~(c <= Len(connections))
      PROVE  new[c - Len(connections)] = NewConnection(p)
  BY <1>2, <1>3, <1>5
<1>6. Spawned(p, n) = connections \o new
  BY DEF Spawned, new
<1> QED
  BY <1>4, <1>5, <1>6

(* The connections of each pool after n more were started for pool p.      *)
LEMMA OfSpawned ==
  ASSUME SessionTypeOK, NEW p \in Nat, NEW n \in Nat, connections' = Spawned(p, n)
  PROVE  /\ \A q : q # p => Of(q)' = Of(q)
         /\ Of(p)' = Of(p) \cup ((Len(connections) + 1)..(Len(connections) + n))
         /\ \A c \in DOMAIN connections' :
              \/ c \in DOMAIN connections /\ connections'[c] = connections[c]
              \/ connections'[c].pool = p
<1>1. Len(connections) \in Nat /\ DOMAIN connections = 1..Len(connections)
  BY DEF SessionTypeOK
<1>0. connections' \in Seq(ConnectionType) /\ Len(connections') = Len(connections) + n
  BY SpawnedIs
<1>2. /\ DOMAIN connections' = 1..(Len(connections) + n)
      /\ \A c \in 1..(Len(connections) + n) :
           connections'[c] = IF c <= Len(connections) THEN connections[c]
                                                      ELSE NewConnection(p)
  <2>1. DOMAIN connections' = 1..(Len(connections) + n)
    BY <1>0
  <2>2. \A c \in 1..(Len(connections) + n) :
          Spawned(p, n)[c] = IF c <= Len(connections) THEN connections[c]
                                                      ELSE NewConnection(p)
    BY SpawnedIs
  <2> QED
    BY <2>1, <2>2
<1>3. NewConnection(p).pool = p
  BY DEF NewConnection
<1>4. ASSUME NEW q, q # p PROVE Of(q)' = Of(q)
  <2>1. ASSUME NEW c PROVE c \in Of(q)' <=> c \in Of(q)
    BY <1>1, <1>2, <1>3, <1>4 DEF Of
  <2> QED
    BY <2>1
<1>5. Of(p)' = Of(p) \cup ((Len(connections) + 1)..(Len(connections) + n))
  <2>1. ASSUME NEW c
        PROVE  c \in Of(p)' <=>
                 c \in Of(p) \/ c \in (Len(connections) + 1)..(Len(connections) + n)
    BY <1>1, <1>2, <1>3 DEF Of
  <2> QED
    BY <2>1
<1>6. \A c \in DOMAIN connections' :
              \/ c \in DOMAIN connections /\ connections'[c] = connections[c]
              \/ connections'[c].pool = p
  BY <1>1, <1>2, <1>3
<1> QED
  BY <1>4, <1>5, <1>6

-----------------------------------------------------------------------------
(* The constructors establish the invariant.                               *)
LEMMA SessionInitial == SessionInit => SessionInv
<1> SUFFICES ASSUME SessionInit PROVE SessionInv
  OBVIOUS
<1>1. pools = << >> /\ connections = << >> /\ hosts = [h \in Hosts |-> 0]
  BY DEF SessionInit, PoolInit
<1>2. SessionTypeOK
  BY <1>1 DEF SessionTypeOK
<1> QED
  BY <1>1, <1>2 DEF SessionInv, Pooled, PoolsBounded, Mapped, Duplicates

(* A step that does not touch the pools, and does not undelete the worker, *)
(* keeps the invariant.                                                    *)
LEMMA Unchanged ==
  ASSUME SessionInv, UNCHANGED <<pools, connections, hosts>>,
         user' # "done" => user # "done"
  PROVE  SessionInv'
BY DEF SessionInv, SessionTypeOK, Pooled, PoolsBounded, Bounded, Of, Mapped,
       Duplicates, Duplicate

(* What the loop reports to a connection keeps the invariant.              *)
LEMMA PhaseChanges ==
  ASSUME SessionInv, UNCHANGED <<pools, hosts, user>>,
         NEW c \in DOMAIN connections, NEW phase \in Phases, Becomes(c, phase)
  PROVE  SessionInv'
<1> USE DEF SessionInv
<1>1. connections' = [connections EXCEPT ![c].phase = phase]
  BY DEF Becomes
<1>2. connections \in Seq(ConnectionType)
  BY DEF SessionTypeOK
<1>3. /\ connections' \in Seq(ConnectionType)
      /\ DOMAIN connections' = DOMAIN connections
      /\ \A d \in DOMAIN connections : connections'[d].pool = connections[d].pool
  <2>0. connections[c] \in ConnectionType
    BY <1>2
  <2>1. [connections[c] EXCEPT !.phase = phase] \in ConnectionType
    BY <2>0 DEF ConnectionType
  <2>2. connections' = [connections EXCEPT ![c] = [connections[c] EXCEPT !.phase = phase]]
    BY <1>1
  <2>3. [connections[c] EXCEPT !.phase = phase].pool = connections[c].pool
    BY <2>0 DEF ConnectionType
  <2> QED
    BY <1>2, <2>1, <2>2, <2>3
<1>4. \A p : Of(p)' = Of(p)
  BY <1>3 DEF Of
<1>5. SessionTypeOK' /\ Pooled'
  BY <1>3 DEF SessionTypeOK, Pooled
<1>6. PoolsBounded'
  BY <1>4 DEF PoolsBounded, Bounded
<1>7. Mapped' /\ Duplicates'
  BY DEF Mapped, Duplicates, Duplicate
<1> QED
  BY <1>5, <1>6, <1>7

(* maybe_spawn_connection keeps the invariant: since the pending           *)
(* connections are all there are, it can only start the first one of a     *)
(* pool.                                                                   *)
LEMMA SpawnKeeps ==
  ASSUME SessionInv, UNCHANGED <<hosts, user>>, NEW p \in DOMAIN pools,
         maybe_spawn_connection(p, ssl_context)
  PROVE  SessionInv'
<1> USE DEF SessionInv
<1> DEFINE c == Len(connections) + 1
<1>1. /\ Cardinality(pools[p].connections_pending_) < 1
      /\ Cardinality(pools[p].connections_) + Cardinality(pools[p].connections_pending_)
           < pools[p].max_connections_per_host_
      /\ pools' = [pools EXCEPT ![p].connections_pending_ = @ \union {c}]
      /\ connections' = Spawned(p, 1)
  BY DEF maybe_spawn_connection, MaxSimultaneousCreation
<1>2. /\ pools \in Seq(PoolType) /\ pools[p] \in PoolType /\ p \in Nat
      /\ Len(connections) \in Nat /\ DOMAIN connections = 1..Len(connections)
  BY DEF SessionTypeOK
<1>3. /\ pools[p].core_connections_per_host_ \in Nat
      /\ pools[p].max_connections_per_host_ \in Nat
      /\ pools[p].connections_ = {}
      /\ pools[p].connections_pending_ \in SUBSET Nat
  BY <1>2 DEF PoolType
<1>4. /\ pools[p].connections_pending_ = Of(p)
      /\ pools[p].core_connections_per_host_ <= Cardinality(Of(p))
      /\ IsFiniteSet(Of(p)) /\ Cardinality(Of(p)) \in Nat
  BY OfFinite DEF PoolsBounded, Bounded
<1>5. /\ Cardinality(Of(p)) = 0
      /\ pools[p].core_connections_per_host_ = 0
      /\ pools[p].max_connections_per_host_ > 0
  <2>1. Cardinality(pools[p].connections_) = 0
    BY <1>3, FS_EmptySet
  <2> QED
    BY <1>1, <1>3, <1>4, <2>1
<1> DEFINE pool == [pools[p] EXCEPT !.connections_pending_ = @ \union {c}]
<1>6. /\ pool \in PoolType
      /\ pool.connections_pending_ = Of(p) \cup {c}
      /\ pool.core_connections_per_host_ = pools[p].core_connections_per_host_
      /\ pool.max_connections_per_host_ = pools[p].max_connections_per_host_
      /\ pool.address_ = pools[p].address_ /\ pool.deleted = pools[p].deleted
  <2>1. pools[p].connections_pending_ \cup {c} \in SUBSET Nat
    BY <1>2, <1>3
  <2> QED
    BY <1>2, <1>4, <2>1 DEF PoolType
<1>7. pools' = [pools EXCEPT ![p] = pool]
  BY <1>1
<1> HIDE DEF pool
<1>8. /\ pools' \in Seq(PoolType) /\ DOMAIN pools' = DOMAIN pools
      /\ pools'[p] = pool
      /\ \A q \in DOMAIN pools : q # p => pools'[q] = pools[q]
  BY <1>2, <1>6, <1>7
<1>9. /\ connections' \in Seq(ConnectionType)
      /\ \A q : q # p => Of(q)' = Of(q)
      /\ Of(p)' = Of(p) \cup {c}
      /\ \A d \in DOMAIN connections' :
           \/ d \in DOMAIN connections /\ connections'[d] = connections[d]
           \/ connections'[d].pool = p
  <2>1. c..c = {c} /\ Len(connections) + 1 = c
    BY <1>2
  <2>2. connections' \in Seq(ConnectionType)
    BY <1>1, <1>2, SpawnedIs
  <2> QED
    BY <1>1, <1>2, <2>1, <2>2, OfSpawned
<1>10. c \notin Of(p)
  BY <1>2 DEF Of
<1> HIDE DEF c
<1>11. Cardinality(Of(p)') = 1
  <2>1. Cardinality(Of(p) \cup {c}) = Cardinality(Of(p)) + 1
    BY <1>4, <1>10, FS_AddElement
  <2> QED
    BY <1>5, <1>9, <2>1
<1>12. SessionTypeOK'
  BY <1>1, <1>8, <1>9 DEF SessionTypeOK
<1>13. Pooled'
  BY <1>8, <1>9 DEF Pooled
<1>14. PoolsBounded'
  <2> SUFFICES ASSUME NEW q \in DOMAIN pools' PROVE Bounded(q)'
    BY DEF PoolsBounded
  <2>1. CASE q = p
    <3>1. /\ pools'[p].core_connections_per_host_ = 0
          /\ pools'[p].max_connections_per_host_ > 0
          /\ pools'[p].connections_pending_ = Of(p)'
      BY <1>5, <1>6, <1>8, <1>9
    <3>2. Least(pools'[p].core_connections_per_host_, pools'[p].max_connections_per_host_) = 1
      BY <3>1 DEF Least
    <3>3. 0 <= 1 /\ 1 <= 1
      OBVIOUS
    <3> QED
      BY <1>11, <2>1, <3>1, <3>2, <3>3 DEF Bounded
  <2>2. CASE q # p
    <3>1. Bounded(q) /\ pools'[q] = pools[q] /\ Of(q)' = Of(q)
      BY <1>8, <1>9, <2>2 DEF PoolsBounded
    <3> QED
      BY <3>1 DEF Bounded
  <2> QED
    BY <2>1, <2>2
<1>15. \A q \in DOMAIN pools : pools'[q].address_ = pools[q].address_
                               /\ pools'[q].deleted = pools[q].deleted
  BY <1>6, <1>8
<1>16. Mapped' /\ Duplicates'
  BY <1>8, <1>15 DEF Mapped, Duplicates, Duplicate
<1> QED
  BY <1>12, <1>13, <1>14, <1>16

(* Deleting the worker keeps the invariant: it deletes the pools but frees *)
(* no connection.                                                          *)
LEMMA DeleteKeeps ==
  ASSUME SessionInv, delete_worker
  PROVE  SessionInv'
<1> USE DEF SessionInv
<1>1. /\ user' = "done" /\ UNCHANGED hosts
      /\ pools' = [p \in DOMAIN pools |-> [pools[p] EXCEPT !.deleted = TRUE]]
      /\ connections' = [c \in DOMAIN connections |->
                          [connections[c] EXCEPT !.freed =
                             @ \/ \E p \in DOMAIN pools : c \in pools[p].connections_]]
  BY DEF delete_worker
<1>2. /\ pools \in Seq(PoolType) /\ connections \in Seq(ConnectionType)
  BY DEF SessionTypeOK
<1>3. connections' = connections
  <2>1. ASSUME NEW c \in DOMAIN connections
        PROVE  [connections[c] EXCEPT !.freed =
                  @ \/ \E p \in DOMAIN pools : c \in pools[p].connections_] = connections[c]
    <3>1. connections[c] \in ConnectionType
      BY <1>2
    <3>2. connections[c].freed = FALSE
      BY <3>1 DEF ConnectionType
    <3>3. ASSUME NEW p \in DOMAIN pools PROVE pools[p].connections_ = {}
      <4>1. pools[p] \in PoolType
        BY <1>2
      <4> QED
        BY <4>1 DEF PoolType
    <3>4. (connections[c].freed \/ \E p \in DOMAIN pools : c \in pools[p].connections_) = FALSE
      BY <3>2, <3>3
    <3>5. [connections[c] EXCEPT !.freed = FALSE] = connections[c]
      BY <3>1, <3>2 DEF ConnectionType
    <3> QED
      BY <3>4, <3>5
  <2>2. connections' = [c \in DOMAIN connections |-> connections[c]]
    BY <1>1, <2>1
  <2> QED
    BY <1>2, <2>2
<1>4. /\ pools' \in Seq(PoolType) /\ DOMAIN pools' = DOMAIN pools
      /\ \A p \in DOMAIN pools :
           /\ pools'[p].connections_pending_ = pools[p].connections_pending_
           /\ pools'[p].core_connections_per_host_ = pools[p].core_connections_per_host_
           /\ pools'[p].max_connections_per_host_ = pools[p].max_connections_per_host_
  <2>1. ASSUME NEW p \in DOMAIN pools
        PROVE  /\ [pools[p] EXCEPT !.deleted = TRUE] \in PoolType
               /\ pools'[p].connections_pending_ = pools[p].connections_pending_
               /\ pools'[p].core_connections_per_host_ = pools[p].core_connections_per_host_
               /\ pools'[p].max_connections_per_host_ = pools[p].max_connections_per_host_
    <3>1. pools[p] \in PoolType /\ pools'[p] = [pools[p] EXCEPT !.deleted = TRUE]
      BY <1>1, <1>2
    <3> QED
      BY <3>1 DEF PoolType
  <2>2. DOMAIN pools = 1..Len(pools) /\ Len(pools) \in Nat
    BY <1>2
  <2> QED
    BY <1>1, <2>1, <2>2
<1>5. SessionTypeOK'
  BY <1>1, <1>2, <1>3, <1>4 DEF SessionTypeOK
<1>6. Pooled' /\ PoolsBounded'
  BY <1>3, <1>4 DEF Pooled, PoolsBounded, Bounded, Of
<1>7. Mapped' /\ Duplicates'
  BY <1>1, <1>4 DEF Mapped, Duplicates
<1> QED
  BY <1>5, <1>6, <1>7

(* add_pool keeps the invariant, whether or not the host has a pool        *)
(* already.                                                                *)
LEMMA AddKeeps ==
  ASSUME SessionInv, NEW host \in Hosts, NEW core \in Cores, NEW max \in Maxima,
         add_pool(host, core, max)
  PROVE  SessionInv'
<1> USE DEF SessionInv
<1>0. PICK p \in Nat : p = Len(pools) + 1
  BY DEF SessionTypeOK
<1> DEFINE pool == NewPool(host, core, max)
           ps == Append(pools, pool)
           cs == Spawned(p, core)
           gone == [pool EXCEPT !.deleted = TRUE]
<1>1. /\ core \in Nat /\ max \in Nat
      /\ pools \in Seq(PoolType) /\ Len(pools) \in Nat /\ DOMAIN pools = 1..Len(pools)
      /\ Len(connections) \in Nat
      /\ hosts \in [Hosts -> Nat]
  BY SessionAssumption DEF SessionTypeOK
<1>2. /\ pool \in PoolType /\ gone \in PoolType
      /\ pool.address_ = host /\ gone.address_ = host
      /\ pool.connections_ = {}
      /\ pool.deleted = FALSE /\ gone.deleted = TRUE
  <2>1. (Len(connections) + 1)..(Len(connections) + core) \in SUBSET Nat
    BY <1>1
  <2> QED
    BY <1>1, <2>1 DEF NewPool, PoolType
<1>3. /\ pool.core_connections_per_host_ = core /\ gone.core_connections_per_host_ = core
      /\ pool.max_connections_per_host_ = max /\ gone.max_connections_per_host_ = max
      /\ pool.connections_pending_ = (Len(connections) + 1)..(Len(connections) + core)
      /\ gone.connections_pending_ = (Len(connections) + 1)..(Len(connections) + core)
  BY DEF NewPool
<1> HIDE DEF pool, gone
<1>4. /\ ps \in Seq(PoolType) /\ DOMAIN ps = 1..p /\ ps[p] = pool
      /\ \A q \in DOMAIN pools : ps[q] = pools[q]
  BY <1>0, <1>1, <1>2
<1>5. cs \in Seq(ConnectionType)
  BY <1>1, SpawnedIs
<1> HIDE DEF ps, cs
<1>6. /\ hosts[host] = 0 => pools' = ps /\ connections' = cs
      /\ hosts[host] # 0 => pools' = [ps EXCEPT ![p].deleted = TRUE] /\ connections' = cs
  <2>1. CASE hosts[host] = 0
    BY <1>0, <2>1 DEF add_pool, ps, cs, pool
  <2>2. CASE hosts[host] # 0
    <3>1. /\ pools' = DeletePool(ps, cs, p).ps
          /\ connections' = DeletePool(ps, cs, p).cs
      BY <1>0, <2>2 DEF add_pool, ps, cs, pool
    <3>2. DeletePool(ps, cs, p).ps = [ps EXCEPT ![p].deleted = TRUE]
      BY DEF DeletePool
    <3>3. DeletePool(ps, cs, p).cs = [c \in DOMAIN cs |-> cs[c]]
      BY <1>2, <1>4 DEF DeletePool
    <3>4. [c \in DOMAIN cs |-> cs[c]] = cs
      BY <1>5
    <3> QED
      BY <2>2, <3>1, <3>2, <3>3, <3>4
  <2> QED
    BY <2>1, <2>2
<1>7. /\ pools' \in Seq(PoolType) /\ DOMAIN pools' = 1..p
      /\ \A q \in DOMAIN pools : pools'[q] = pools[q]
      /\ pools'[p] = IF hosts[host] = 0 THEN pool ELSE gone
  <2>1. CASE hosts[host] = 0
    BY <1>4, <1>6, <2>1
  <2>2. CASE hosts[host] # 0
    <3>1. pools' = [ps EXCEPT ![p] = gone]
      BY <1>4, <1>6, <2>2 DEF gone
    <3>2. \A q \in DOMAIN pools : q # p /\ q \in DOMAIN ps
      BY <1>0, <1>1, <1>4
    <3>3. p \in DOMAIN ps
      BY <1>0, <1>1, <1>4
    <3> QED
      BY <1>2, <1>4, <2>2, <3>1, <3>2, <3>3
  <2> QED
    BY <2>1, <2>2
<1>8. /\ hosts' = [hosts EXCEPT ![host] = IF @ = 0 THEN p ELSE @]
      /\ UNCHANGED user /\ user = "free"
  BY <1>0 DEF add_pool, Owns
<1>9. /\ \A q : q # p => Of(q)' = Of(q)
      /\ Of(p)' = Of(p) \cup ((Len(connections) + 1)..(Len(connections) + core))
      /\ \A c \in DOMAIN connections' :
           \/ c \in DOMAIN connections /\ connections'[c] = connections[c]
           \/ connections'[c].pool = p
  <2>1. connections' = Spawned(p, core)
    BY <1>6 DEF cs
  <2> QED
    BY <1>1, <2>1, OfSpawned
<1>10. Of(p) = {}
  BY <1>0, <1>1 DEF Of, Pooled
<1>11. Cardinality(Of(p)') = core
  <2> DEFINE a == Len(connections) + 1
             b == Len(connections) + core
  <2>1. Of(p)' = a..b
    BY <1>9, <1>10
  <2>2. a \in Int /\ b \in Int /\ (IF a > b THEN 0 ELSE b - a + 1) = core
    BY <1>1
  <2> HIDE DEF a, b
  <2>3. Cardinality(a..b) = IF a > b THEN 0 ELSE b - a + 1
    BY <2>2, FS_Interval
  <2> QED
    BY <2>1, <2>2, <2>3
<1>12. p \notin DOMAIN pools /\ DOMAIN pools' = DOMAIN pools \cup {p} /\ p # 0
  BY <1>0, <1>1, <1>7
<1>13. SessionTypeOK'
  <2>1. hosts' \in [Hosts -> Nat]
    BY <1>1, <1>8
  <2> QED
    BY <1>5, <1>6, <1>7, <2>1 DEF SessionTypeOK
<1>14. Pooled'
  BY <1>8, <1>9, <1>12 DEF Pooled
<1>15. PoolsBounded'
  <2> SUFFICES ASSUME NEW q \in DOMAIN pools' PROVE Bounded(q)'
    BY DEF PoolsBounded
  <2>1. CASE q = p
    <3>1. /\ pools'[p].core_connections_per_host_ = core
          /\ pools'[p].max_connections_per_host_ = max
          /\ pools'[p].connections_pending_ = Of(p)'
      BY <1>3, <1>7, <1>9, <1>10
    <3>2. core <= core /\ core <= Least(core, max)
      BY <1>1 DEF Least
    <3> QED
      BY <1>11, <2>1, <3>1, <3>2 DEF Bounded
  <2>2. CASE q \in DOMAIN pools
    <3>1. Bounded(q) /\ pools'[q] = pools[q] /\ Of(q)' = Of(q)
      BY <1>7, <1>9, <1>12, <2>2 DEF PoolsBounded
    <3> QED
      BY <3>1 DEF Bounded
  <2> QED
    BY <1>12, <2>1, <2>2
<1>16. Mapped'
  <2> SUFFICES ASSUME NEW h \in Hosts, hosts'[h] # 0
               PROVE  hosts'[h] \in DOMAIN pools' /\ pools'[hosts'[h]].deleted = FALSE
    BY DEF Mapped
  <2>1. CASE h = host /\ hosts[host] = 0
    <3>1. hosts'[h] = p
      BY <1>1, <1>8, <2>1
    <3> QED
      BY <1>2, <1>7, <1>12, <2>1, <3>1
  <2>2. CASE ~(h = host /\ hosts[host] = 0)
    <3>1. hosts'[h] = hosts[h]
      BY <1>1, <1>8, <2>2
    <3>2. hosts[h] \in DOMAIN pools /\ pools[hosts[h]].deleted = FALSE
      BY <1>8, <3>1 DEF Mapped
    <3> QED
      BY <1>7, <1>12, <3>1, <3>2
  <2> QED
    BY <2>1, <2>2
<1>17. Duplicates'
  <2> SUFFICES ASSUME NEW q \in DOMAIN pools', pools'[q].deleted
               PROVE  LET first == hosts'[pools'[q].address_] IN first # 0 /\ first < q
    BY DEF Duplicates, Duplicate
  <2>1. CASE q = p
    <3>1. hosts[host] # 0
      BY <1>2, <1>7, <2>1
    <3>2. pools'[q].address_ = host /\ hosts'[host] = hosts[host]
      BY <1>1, <1>2, <1>7, <1>8, <2>1, <3>1
    <3>3. hosts[host] \in DOMAIN pools
      BY <3>1 DEF Mapped
    <3>4. hosts[host] < p
      BY <1>0, <1>1, <3>3
    <3> QED
      BY <2>1, <3>1, <3>2, <3>4
  <2>2. CASE q \in DOMAIN pools
    <3>1. pools'[q] = pools[q] /\ pools[q].address_ \in Hosts
      <4>1. pools[q] \in PoolType
        BY <1>1, <2>2
      <4> QED
        BY <1>7, <2>2, <4>1 DEF PoolType
    <3>2. hosts[pools[q].address_] # 0 /\ hosts[pools[q].address_] < q
      BY <1>8, <2>2, <3>1 DEF Duplicates, Duplicate
    <3>3. hosts'[pools[q].address_] = hosts[pools[q].address_]
      BY <1>1, <1>8, <3>1, <3>2
    <3> QED
      BY <3>1, <3>2, <3>3
  <2> QED
    BY <1>12, <2>1, <2>2
<1> QED
  BY <1>13, <1>14, <1>15, <1>16, <1>17

(* A poll keeps the invariant, whatever it reports.                        *)
LEMMA PollKeeps ==
  ASSUME SessionInv, uv_io_poll
  PROVE  SessionInv'
<1>1. PICK c \in DOMAIN connections : progress(c) \/ message(c) \/ close(c)
  BY DEF uv_io_poll
<1>2. UNCHANGED <<pools, hosts, user>>
  BY <1>1 DEF uv_io_poll, progress, message, close, Becomes, connect_callback
<1>3. CASE UNCHANGED connections
  BY <1>2, <1>3, Unchanged
<1>4. CASE \E phase \in Phases : Becomes(c, phase)
  BY <1>2, <1>4, PhaseChanges
<1>5. UNCHANGED connections \/ \E phase \in Phases : Becomes(c, phase)
  BY <1>1 DEF progress, message, close, Phases
<1> QED
  BY <1>3, <1>4, <1>5

(* Every step keeps the invariant.                                         *)
LEMMA SessionStep ==
  ASSUME SessionInv, [SessionNext]_sessionVars
  PROVE  SessionInv'
<1>1. CASE UNCHANGED sessionVars
  BY <1>1, Unchanged DEF sessionVars, poolVars, workerVars
<1>2. CASE \E h \in Hosts, core \in Cores, max \in Maxima : add_pool(h, core, max)
  BY <1>2, AddKeeps
<1>3. CASE \E h \in Hosts : use_pool(h)
  <2>1. PICK h \in Hosts : use_pool(h)
    BY <1>3
  <2>2. hosts[h] \in DOMAIN pools /\ UNCHANGED <<hosts, user>>
    BY <2>1 DEF use_pool, SessionInv, Mapped, workerVars
  <2>3. CASE maybe_spawn_connection(hosts[h], ssl_context)
    BY <2>2, <2>3, SpawnKeeps
  <2>4. CASE borrow_connection(hosts[h])
    <3>1. pools[hosts[h]] \in PoolType
      BY <2>2 DEF SessionInv, SessionTypeOK
    <3>2. pools[hosts[h]].connections_ = {}
      BY <3>1 DEF PoolType
    <3>3. UNCHANGED <<pools, connections>>
      BY <2>4, <3>2 DEF borrow_connection
    <3> QED
      BY <2>2, <3>3, Unchanged
  <2> QED
    BY <2>1, <2>3, <2>4 DEF use_pool
<1>4. CASE run_async \/ stop \/ join \/ join_returns
  <2>1. UNCHANGED <<pools, connections, hosts>> /\ user # "done"
    BY <1>4 DEF run_async, stop, join, join_returns, poolVars, Owns, Started
  <2> QED
    BY <2>1, Unchanged
<1>5. CASE delete_worker
  BY <1>5, DeleteKeeps
<1>6. CASE uv_run_test \/ uv_backend_timeout \/ uv_io_poll_returns
  <2>1. UNCHANGED <<pools, connections, hosts, user>>
    BY <1>6 DEF uv_run_test, uv_backend_timeout, uv_io_poll_returns, Goes, poolVars
  <2> QED
    BY <2>1, Unchanged
<1>7. CASE uv_io_poll
  BY <1>7, PollKeeps
<1> QED
  BY <1>1, <1>2, <1>3, <1>4, <1>5, <1>6, <1>7 DEF SessionNext

(* The invariant holds for every set of hosts, for every choice of the     *)
(* sizes of pools and for any number of pools and runs.                    *)
THEOREM SessionInvariant == SessionSpec => []SessionInv
<1>1. SessionInv /\ [SessionNext]_sessionVars => SessionInv'
  BY SessionStep
<1> QED
  BY <1>1, SessionInitial, PTL DEF SessionSpec

(* No destructor frees a connection that is active in the loop: neither    *)
(* the one of a second pool of a host nor the one of the worker.           *)
THEOREM ActiveNotFreed == SessionSpec => []NoActiveConnectionFreed
<1>1. SessionInv => NoActiveConnectionFreed
  <2> SUFFICES ASSUME SessionInv, NEW c \in DOMAIN connections
               PROVE  ~connections[c].freed
    BY DEF NoActiveConnectionFreed
  <2>1. connections[c] \in ConnectionType
    BY DEF SessionInv, SessionTypeOK
  <2> QED
    BY <2>1 DEF ConnectionType
<1> QED
  BY <1>1, SessionInvariant, PTL

(* add_pool deletes no pool but the one it has just constructed for a host *)
(* that has one; the pool in the map stays.                                *)
THEOREM FirstPoolStays == SessionSpec => []OnlyDuplicatesDeleted
<1>1. SessionInv => OnlyDuplicatesDeleted
  <2> SUFFICES ASSUME SessionInv, user # "done", NEW p \in DOMAIN pools, pools[p].deleted
               PROVE  /\ hosts[pools[p].address_] < p
                      /\ ~pools[hosts[pools[p].address_]].deleted
    BY DEF OnlyDuplicatesDeleted
  <2>1. pools[p] \in PoolType
    BY DEF SessionInv, SessionTypeOK
  <2>2. pools[p].address_ \in Hosts
    BY <2>1 DEF PoolType
  <2>3. hosts[pools[p].address_] # 0 /\ hosts[pools[p].address_] < p
    BY DEF SessionInv, Duplicates, Duplicate
  <2>4. pools[hosts[pools[p].address_]].deleted = FALSE
    BY <2>2, <2>3 DEF SessionInv, Mapped
  <2> QED
    BY <2>3, <2>4
<1> QED
  BY <1>1, SessionInvariant, PTL

(* The bound of PoolSize, without maxima and minima of sets.               *)
LEMMA MaxMin ==
  ASSUME NEW core \in Nat, NEW max \in Nat
  PROVE  Max({core, Min({1, max})}) = Least(core, max)
<1> DEFINE m == IF max = 0 THEN 0 ELSE 1
<1>1. Min({1, max}) = m
  <2>1. m \in {1, max} /\ \A y \in {1, max} : m <= y
    OBVIOUS
  <2>2. \A x \in {1, max} : (\A y \in {1, max} : x <= y) => x = m
    OBVIOUS
  <2> QED
    BY <2>1, <2>2 DEF Min
<1> DEFINE n == Least(core, max)
<1>2. m \in Nat /\ n \in {core, m} /\ \A y \in {core, m} : n >= y
  BY DEF Least
<1>3. \A x \in {core, m} : (\A y \in {core, m} : x >= y) => x = n
  BY DEF Least
<1> HIDE DEF m, n
<1>4. Max({core, m}) = n
  BY <1>2, <1>3 DEF Max
<1> QED
  BY <1>1, <1>4 DEF n

(* A pool never has fewer connections than its constructor started, and    *)
(* never more unless it started none; then maybe_spawn_connection starts   *)
(* one, once.                                                              *)
THEOREM PoolsKeepTheirSize == SessionSpec => []PoolSize
<1>1. SessionInv => PoolSize
  <2> SUFFICES ASSUME SessionInv, NEW p \in DOMAIN pools
               PROVE  LET pool == pools[p]
                          n == Cardinality(Of(p))
                      IN  /\ n >= pool.core_connections_per_host_
                          /\ n <= Max({pool.core_connections_per_host_,
                                       Min({MaxSimultaneousCreation,
                                            pool.max_connections_per_host_})})
    BY DEF PoolSize, Of
  <2>1. pools[p] \in PoolType
    BY DEF SessionInv, SessionTypeOK
  <2>2. /\ pools[p].core_connections_per_host_ \in Nat
        /\ pools[p].max_connections_per_host_ \in Nat
        /\ Cardinality(Of(p)) \in Nat
    BY <2>1, OfFinite DEF PoolType, SessionInv
  <2>3. Bounded(p)
    BY DEF SessionInv, PoolsBounded
  <2> QED
    BY <2>2, <2>3, MaxMin DEF Bounded, MaxSimultaneousCreation
<1> QED
  BY <1>1, SessionInvariant, PTL
=============================================================================
