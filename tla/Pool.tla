-------------------------------- MODULE Pool ---------------------------------
(***************************************************************************)
(* The pools of connections of one I/O worker (include/cql_pool.hpp).  A   *)
(* pool starts connections and keeps pointers to them; what it sees of a   *)
(* connection afterwards is connect_callback.                              *)
(*                                                                         *)
(* Of a ClientConnection (module ClientConnection) only the phase matters  *)
(* here: the loop stays alive as long as some connection has a request or  *)
(* a handle that is active.                                                *)
(***************************************************************************)
EXTENDS Integers, Sequences, FiniteSets, FiniteSetsExt

CONSTANT
  MaxPools   \* bound: pools that are ever constructed

(* max_simultaneous_creation, which IOWorker::add_pool leaves at its *)
(* default.                                                          *)
MaxSimultaneousCreation == 1

VARIABLES
  pools,        \* the Pool objects, in the order of their construction
  connections,  \* the ClientConnection objects, likewise
  process       \* "running", "aborted", or "undefined"

poolVars == <<pools, connections, process>>

PoolInit ==
  /\ pools = << >>
  /\ connections = << >>
  /\ process = "running"

Active(c) == c.phase \in {"resolving", "connecting", "open", "ready", "closing"}

-----------------------------------------------------------------------------
(* new ClientConnection and init, which starts to resolve the host name;   *)
(* connect_callback_ is bound to the pool.                                 *)
NewConnection(p) == [pool |-> p, phase |-> "resolving", freed |-> FALSE]

(* The constructor: core_connections_per_host connections at once, however *)
(* many max_connections_per_host and max_simultaneous_creation allow.      *)
NewPool(host, core, max) ==
  [address_ |-> host,
   core_connections_per_host_ |-> core,
   max_connections_per_host_ |-> max,
   connections_ |-> {},
   connections_pending_ |-> (Len(connections) + 1)..(Len(connections) + core),
   deleted |-> FALSE]

Spawned(p, n) == connections \o [i \in 1..n |-> NewConnection(p)]

(* ssl_context_ is a pointer that nobody initialises: not null, it is      *)
(* dereferenced by every spawn.                                            *)
AfterSpawn(ssl_context, n) ==
  IF n > 0 /\ ssl_context = "garbage" THEN "undefined" ELSE process

(* Mutant of maybe_spawn_connection: one too many at a time. *)
maybe_spawn_connection_one_more(p, ssl_context) ==
  /\ Cardinality(pools[p].connections_pending_) <= MaxSimultaneousCreation
  /\ Cardinality(pools[p].connections_) + Cardinality(pools[p].connections_pending_)
       < pools[p].max_connections_per_host_
  /\ pools' = [pools EXCEPT ![p].connections_pending_ = @ \union {Len(connections) + 1}]
  /\ connections' = Spawned(p, 1)
  /\ process' = AfterSpawn(ssl_context, 1)

maybe_spawn_connection(p, ssl_context) ==
  /\ Cardinality(pools[p].connections_pending_) < MaxSimultaneousCreation
  /\ Cardinality(pools[p].connections_) + Cardinality(pools[p].connections_pending_)
       < pools[p].max_connections_per_host_
  /\ pools' = [pools EXCEPT ![p].connections_pending_ = @ \union {Len(connections) + 1}]
  /\ connections' = Spawned(p, 1)
  /\ process' = AfterSpawn(ssl_context, 1)

(* borrow_connection and find_least_busy: max_element of an empty list is  *)
(* its end, which is dereferenced.  Otherwise it returns the connection    *)
(* with the most free streams, or NULL if that one has no stream left; the *)
(* test of output is always true, so no Error is returned, and the pool    *)
(* stays as it is.                                                         *)
borrow_connection(p) ==
  /\ process' = IF pools[p].connections_ = {} THEN "undefined" ELSE process
  /\ UNCHANGED <<pools, connections>>

(* Mutant of DeletePool: the connections still on their way go too. *)
DeletePool_pending(ps, cs, p) ==
  [ps |-> [ps EXCEPT ![p].deleted = TRUE],
   cs |-> [c \in DOMAIN cs |->
             IF c \in ps[p].connections_ \union ps[p].connections_pending_
               THEN [cs[c] EXCEPT !.freed = TRUE]
               ELSE cs[c]]]

(* ~Pool: the connections in connections_pending_ stay. *)
DeletePool(ps, cs, p) ==
  [ps |-> [ps EXCEPT ![p].deleted = TRUE],
   cs |-> [c \in DOMAIN cs |->
             IF c \in ps[p].connections_ THEN [cs[c] EXCEPT !.freed = TRUE] ELSE cs[c]]]

(* It does nothing, for a ready connection or for a failed one.  It is     *)
(* bound to the Pool, which may have been deleted; since it touches none   *)
(* of its members, the model lets such a call go by.                       *)
connect_callback(c) == UNCHANGED pools

-----------------------------------------------------------------------------
(* What the loop reports to a connection. *)
Becomes(c, phase) == connections' = [connections EXCEPT ![c].phase = phase]

(* on_resolve and on_connect; of a failure nobody is told. *)
progress(c) ==
  /\ \/ connections[c].phase = "resolving" /\ Becomes(c, "connecting")
     \/ connections[c].phase = "connecting" /\ Becomes(c, "open")
     \/ connections[c].phase \in {"resolving", "connecting"} /\ Becomes(c, "ended")
  /\ UNCHANGED <<pools, process>>

(* on_read: a message; one of them ends the start-up of the connection,    *)
(* with notify_ready or notify_error.                                      *)
message(c) ==
  /\ connections[c].phase \in {"open", "ready"}
  /\ \/ UNCHANGED <<pools, connections>>
     \/ /\ connections[c].phase = "open"
        /\ Becomes(c, "ready")
        /\ connect_callback(c)
  /\ UNCHANGED process

(* on_read at the end of the stream: close.  on_close then runs into       *)
(* assert(false) in event_received, which a build with NDEBUG leaves out.  *)
close(c) ==
  /\ \/ /\ connections[c].phase \in {"open", "ready"}
        /\ Becomes(c, "closing")
        /\ UNCHANGED process
     \/ /\ connections[c].phase = "closing"
        /\ Becomes(c, "ended")
        /\ process' \in {"running", "aborted"}
  /\ UNCHANGED pools

-----------------------------------------------------------------------------
(* The size of a pool: the core connections of its constructor, or else    *)
(* what maybe_spawn_connection may add.  Since connect_callback takes      *)
(* nothing out of connections_pending_, a pool that has started as many    *)
(* connections as max_simultaneous_creation never starts another, even     *)
(* when all of them have failed.                                           *)
PoolSize ==
  \A p \in DOMAIN pools :
    LET pool == pools[p]
        n == Cardinality({c \in DOMAIN connections : connections[c].pool = p})
    IN  /\ n >= pool.core_connections_per_host_
        /\ n <= Max({pool.core_connections_per_host_,
                     Min({MaxSimultaneousCreation, pool.max_connections_per_host_})})

(* A connection that has a request or a handle in the loop is not freed,   *)
(* although the pool that started it may be gone.                          *)
NoActiveConnectionFreed ==
  \A c \in DOMAIN connections : connections[c].freed => ~Active(connections[c])
=============================================================================
