------------------------------- MODULE Session -------------------------------
(***************************************************************************)
(* An I/O worker of a Session (include/cql_session.hpp): a loop, a thread  *)
(* that runs it, and the pools of the connections in it.  The workers of a *)
(* session share nothing, so there is one here.                            *)
(*                                                                         *)
(* The repository does not call an IOWorker yet: the constructor of        *)
(* Session is private and Cluster::connect returns NULL.  The user here is *)
(* the thread that owns the worker.  It makes the calls in the order their *)
(* meaning asks for: pools are used while the thread does not run, since   *)
(* nothing locks them, and a thread that was started is joined before the  *)
(* worker is deleted or run again.                                         *)
(*                                                                         *)
(* The loop (external) is uv_run of libuv 0.10 in the mode the code uses.  *)
(***************************************************************************)
EXTENDS Pool

CONSTANTS
  Hosts,         \* the arguments of add_pool: hosts,
  Cores,         \* values of core_connections_per_host
  Maxima,        \* values of max_connections_per_host
  MaxRuns        \* bound: calls of run_async

ASSUME SessionAssumption ==
  /\ Cores \subseteq Nat
  /\ Maxima \subseteq Nat
  /\ MaxPools \in Nat
  /\ MaxRuns \in Nat

(* Where the thread may be.  "none": not created, or joined; "head": the   *)
(* test of the loop; "prepare": before the time-out of the poll is         *)
(* computed; "poll": waits without one; "look": polls without waiting;     *)
(* "reported": some events have been reported; "ended": uv_run has         *)
(* returned.                                                               *)
VARIABLES
  ssl_context,  \* what the uninitialised pointer is: "null" or "garbage"
  hosts,        \* the map IOWorker::pools; 0 for none
  thread,       \* where the thread is in uv_run
  stop_flag,    \* of the loop
  stopping,     \* stop was called since the thread was started
  user,         \* "free", in "join", or "done": the worker is deleted
  runs          \* calls of run_async

workerVars == <<ssl_context, hosts, thread, stop_flag, stopping, user, runs>>
sessionVars == <<poolVars, workerVars>>

(* Session and IOWorker: the constructors. *)
SessionInit ==
  /\ PoolInit
  /\ ssl_context \in {"null", "garbage"}
  /\ hosts = [h \in Hosts |-> 0]
  /\ thread = "none"
  /\ stop_flag = FALSE
  /\ stopping = FALSE
  /\ user = "free"
  /\ runs = 0

-----------------------------------------------------------------------------
(* The user. *)
Owns == process = "running" /\ user = "free" /\ thread = "none"

(* Mutant of add_pool: the new pool replaces the old one. *)
add_pool_replaces(host, core, max) ==
  LET p == Len(pools) + 1
      ps == Append(pools, NewPool(host, core, max))
      old == IF hosts[host] = 0 THEN [ps |-> ps, cs |-> Spawned(p, core)]
                                ELSE DeletePool(ps, Spawned(p, core), hosts[host])
  IN  /\ Owns
      /\ p <= MaxPools
      /\ pools' = old.ps
      /\ connections' = old.cs
      /\ hosts' = [hosts EXCEPT ![host] = p]
      /\ process' = AfterSpawn(ssl_context, core)
      /\ UNCHANGED <<ssl_context, thread, stop_flag, stopping, user, runs>>

(* The pool is constructed, and its connections are started, before insert *)
(* looks for the host; when the host is there already the new pool is      *)
(* deleted at once.                                                        *)
add_pool(host, core, max) ==
  LET p == Len(pools) + 1
      ps == Append(pools, NewPool(host, core, max))
      new == IF hosts[host] = 0 THEN [ps |-> ps, cs |-> Spawned(p, core)]
                                ELSE DeletePool(ps, Spawned(p, core), p)
  IN  /\ Owns
      /\ p <= MaxPools
      /\ pools' = new.ps
      /\ connections' = new.cs
      /\ hosts' = [hosts EXCEPT ![host] = IF @ = 0 THEN p ELSE @]
      /\ process' = AfterSpawn(ssl_context, core)
      /\ UNCHANGED <<ssl_context, thread, stop_flag, stopping, user, runs>>

use_pool(host) ==
  /\ Owns
  /\ hosts[host] # 0
  /\ maybe_spawn_connection(hosts[host], ssl_context) \/ borrow_connection(hosts[host])
  /\ UNCHANGED workerVars

run_async ==
  /\ Owns
  /\ runs < MaxRuns
  /\ runs' = runs + 1
  /\ thread' = "head"
  /\ stopping' = FALSE
  /\ UNCHANGED <<poolVars, ssl_context, hosts, stop_flag, user>>

Started == process = "running" /\ user = "free" /\ thread # "none"

(* Mutant of stop: it forgets the loop. *)
stop_forgets ==
  /\ Started
  /\ stopping' = TRUE
  /\ UNCHANGED <<poolVars, ssl_context, hosts, thread, stop_flag, user, runs>>

(* uv_stop sets the flag, and does nothing to wake the thread. *)
stop ==
  /\ Started
  /\ stop_flag' = TRUE
  /\ stopping' = TRUE
  /\ UNCHANGED <<poolVars, ssl_context, hosts, thread, user, runs>>

join ==
  /\ Started
  /\ user' = "join"
  /\ UNCHANGED <<poolVars, ssl_context, hosts, thread, stop_flag, stopping, runs>>

join_returns ==
  /\ process = "running"
  /\ user = "join"
  /\ thread = "ended"
  /\ user' = "free"
  /\ thread' = "none"
  /\ UNCHANGED <<poolVars, ssl_context, hosts, stop_flag, stopping, runs>>

(* ~IOWorker, and with it the map and its pools (see DeletePool). *)
delete_worker ==
  /\ Owns
  /\ user' = "done"
  /\ pools' = [p \in DOMAIN pools |-> [pools[p] EXCEPT !.deleted = TRUE]]
  /\ connections' = [c \in DOMAIN connections |->
                       [connections[c] EXCEPT !.freed =
                          @ \/ \E p \in DOMAIN pools : c \in pools[p].connections_]]
  /\ UNCHANGED <<process, ssl_context, hosts, thread, stop_flag,
                 stopping, runs>>

-----------------------------------------------------------------------------
(* uv_run. *)
Alive == \E c \in DOMAIN connections : Active(connections[c])

Goes(from, to) ==
  /\ process = "running"
  /\ thread = from
  /\ thread' = to
  /\ UNCHANGED <<poolVars, ssl_context, hosts, stopping, user, runs>>

(* The test of the loop; the flag is reset on the way out. *)
uv_run_test ==
  \/ Alive /\ ~stop_flag /\ Goes("head", "prepare") /\ UNCHANGED stop_flag
  \/ (~Alive \/ stop_flag) /\ Goes("head", "ended") /\ stop_flag' = FALSE

(* The time-out of the poll is 0 when the flag is set, or when there is a  *)
(* handle to close.                                                        *)
Closing == \E c \in DOMAIN connections : connections[c].phase = "closing"

uv_backend_timeout ==
  /\ Goes("prepare", IF stop_flag \/ Closing THEN "look" ELSE "poll")
  /\ UNCHANGED stop_flag

(* The poll reports an event, and may report more. *)
uv_io_poll ==
  /\ process = "running"
  /\ thread \in {"poll", "look", "reported"}
  /\ thread' = "reported"
  /\ \E c \in DOMAIN connections : progress(c) \/ message(c) \/ close(c)
  /\ UNCHANGED <<ssl_context, hosts, stop_flag, stopping, user, runs>>

uv_io_poll_returns ==
  /\ \E from \in {"look", "reported"} : Goes(from, "head")
  /\ UNCHANGED stop_flag

SessionNext ==
  \/ \E h \in Hosts, core \in Cores, max \in Maxima : add_pool(h, core, max)
  \/ \E h \in Hosts : use_pool(h)
  \/ run_async \/ stop \/ join \/ join_returns \/ delete_worker
  \/ uv_run_test \/ uv_backend_timeout \/ uv_io_poll \/ uv_io_poll_returns

(* The thread runs, and a join whose thread has ended returns.  Nothing is *)
(* assumed of the network: an event may never come.                        *)
SessionSpec ==
  /\ SessionInit
  /\ [][SessionNext]_sessionVars
  /\ WF_sessionVars(uv_run_test)
  /\ WF_sessionVars(uv_backend_timeout)
  /\ WF_sessionVars(uv_io_poll_returns)
  /\ WF_sessionVars(join_returns)

-----------------------------------------------------------------------------
(* A pool is deleted before its worker only if it is a second one of its   *)
(* host, and then the first one stays.  Until then every connect_callback_ *)
(* bound to a pool in the map may run.                                     *)
OnlyDuplicatesDeleted ==
  user # "done" =>
    \A p \in DOMAIN pools :
      pools[p].deleted => hosts[pools[p].address_] < p /\ ~pools[hosts[pools[p].address_]].deleted

(* A thread that was told to stop is joined, unless the process dies or    *)
(* the thread waits in a poll that no event ends: the flag is read only    *)
(* between two polls, so that join hangs on a silent network, but it never *)
(* hangs on a busy one.                                                    *)
JoinReturns ==
  (user = "join" /\ stopping) ~>
    (user = "free" \/ process # "running" \/ [](thread = "poll"))
=============================================================================
