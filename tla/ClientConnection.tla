--------------------------- MODULE ClientConnection ---------------------------
(***************************************************************************)
(* One connection of the driver (include/cql_client_connection.hpp), not   *)
(* using SSL: the event driven start-up, the sending of requests, the      *)
(* dispatch of replies by stream id, and closing.  The state of the stream *)
(* allocator, stream_storage_, is the state of StreamStorage.              *)
(*                                                                         *)
(* The connection lives on one libuv loop: every action below is one call  *)
(* by libuv or by a user of the connection, run to completion.  The server *)
(* is external.  It answers each message, in any order, with any reply the *)
(* protocol has for the message, and up to MaxDuplicates times a second    *)
(* time; a reply is not kept in a variable of its own, the server's choice *)
(* of it and its arrival (on_read, consume) are one step.                  *)
(*                                                                         *)
(* Users call the connection once connect_callback_ has told them that it  *)
(* is ready, and are not told when it closes.                              *)
(***************************************************************************)
EXTENDS StreamStorage, Sequences, Functions

CONSTANTS
  Requests,       \* the CallerRequests that users make, each used once
  NULL,           \* no request
  MaxSetKeyspace, \* bound: calls of set_keyspace
  MaxDuplicates   \* bound: replies the server sends beyond one per message

ASSUME ConnectionAssumption ==
  /\ StorageType = Requests \cup {NULL}
  /\ NULL \notin Requests
  /\ MaxSetKeyspace \in Nat
  /\ MaxDuplicates \in Nat

CLIENT_STATE_NEW           == 0
CLIENT_STATE_RESOLVED      == 1
CLIENT_STATE_CONNECTED     == 2
CLIENT_STATE_HANDSHAKE     == 3
CLIENT_STATE_SUPPORTED     == 4
CLIENT_STATE_READY         == 5
CLIENT_STATE_DISCONNECTING == 6
CLIENT_STATE_DISCONNECTED  == 7

VARIABLES
  state_,            \* a CLIENT_STATE
  connect_callback_, \* "null", "set", or "clobbered" by a write behind storage_
  uv_,               \* what libuv will call back next, see UvType
  writes,            \* messages given to uv_write, in order
  wire,              \* messages written that the server has not answered
  answered,          \* messages answered that the server may answer again
  requests,          \* the CallerRequests
  calls,             \* calls of connect_callback_ without and with an error
  lost,              \* messages that uv_write could not send
  leaked,            \* messages whose reply did not release their stream
  keyspaces,         \* calls of set_keyspace so far
  duplicates,        \* superfluous replies so far
  failure            \* why the process died, or "none"

connVars == <<state_, connect_callback_, uv_, writes, wire, answered, requests,
              calls, lost, leaked, keyspaces, duplicates, failure>>

vars == <<connVars, streamVars>>

(* "start": init not called yet; "getaddrinfo", "connect", "read", "close": *)
(* the callback that is pending; "none": libuv calls no more.              *)
UvType == {"start", "getaddrinfo", "connect", "read", "close", "none"}

(* What the server may answer to a message: the protocol's replies, by the *)
(* case of consume and on_result that handles them.  USE_KS is the query   *)
(* that set_keyspace sends; a QUERY of a user may be one too.              *)
Replies ==
  [OPTIONS |-> {"SUPPORTED", "ERROR"},
   STARTUP |-> {"READY", "AUTHENTICATE", "ERROR"},
   USE_KS  |-> {"SET_KEYSPACE", "ERROR"},
   QUERY   |-> {"RESULT", "SET_KEYSPACE", "ERROR"},
   PREPARE |-> {"PREPARED", "ERROR"}]

MessageType ==
  [op : DOMAIN Replies, stream : IdType, request : StorageType]

RequestType ==
  [sent : BOOLEAN, error : BOOLEAN, result : StorageType, notified : Nat]

Running == failure = "none"

(* The constructor. *)
ConnInit ==
  /\ StreamInit
  /\ state_ = CLIENT_STATE_NEW
  /\ connect_callback_ = "null"
  /\ uv_ = "start"
  /\ writes = << >>
  /\ wire = {}
  /\ answered = {}
  /\ requests = [r \in Requests |-> [sent |-> FALSE, error |-> FALSE,
                                     result |-> NULL, notified |-> 0]]
  /\ calls = [ready |-> 0, error |-> 0]
  /\ lost = {}
  /\ leaked = {}
  /\ keyspaces = 0
  /\ duplicates = 0
  /\ failure = "none"

-----------------------------------------------------------------------------
(* Sending *)

(* The element of storage_ behind its end, the one of stream Max, is the   *)
(* first word of connect_callback_; whether that word matters depends on   *)
(* the std::function of the build.                                         *)
StoredBehindEnd(stream) ==
  connect_callback_' \in
    IF stream = Max /\ connect_callback_ = "set"
      THEN {"set", "clobbered"} ELSE {connect_callback_}

(* send_data: on a closed socket uv_write fails, which nobody looks at. *)
send_data(message) ==
  IF state_ >= CLIENT_STATE_DISCONNECTING
    THEN lost' = lost \cup {message} /\ UNCHANGED writes
    ELSE writes' = Append(writes, message) /\ UNCHANGED lost

(* send_message(message, request) that finds a stream and returns no error. *)
send_message(op, request) ==
  \E stream \in IdType :
    /\ set_stream(request, stream)
    /\ StoredBehindEnd(stream)
    /\ send_data([op |-> op, stream |-> stream, request |-> request])

(* send_message that found no stream. *)
send_message_error ==
  set_stream_error /\ UNCHANGED <<connect_callback_, writes, lost>>

(* send_message by the connection itself, which ignores the error. *)
send_internal(op) == send_message(op, NULL) \/ send_message_error

(* exec (op = QUERY) and prepare (op = PREPARE) of request r. *)
exec(op, r) ==
  /\ Running
  /\ state_ >= CLIENT_STATE_READY
  /\ ~requests[r].sent
  /\ \/ /\ send_message(op, r)
        /\ requests' = [requests EXCEPT ![r].sent = TRUE]
     \/ /\ send_message_error
        /\ requests' = [requests EXCEPT ![r].sent = TRUE,
                                        ![r].error = TRUE,
                                        ![r].notified = @ + 1]
  /\ UNCHANGED <<state_, uv_, wire, answered, calls, leaked, keyspaces,
                 duplicates, failure>>

(* The same calls when the constructor of CallerRequest, which builds a    *)
(* std::string from NULL, is what that is in the usual builds: an          *)
(* exception nobody catches.  exec above is a build that takes it for "".  *)
CallerRequest_throws ==
  /\ Running
  /\ state_ >= CLIENT_STATE_READY
  /\ \E r \in Requests : ~requests[r].sent
  /\ failure' = "null string"
  /\ UNCHANGED <<streamVars, state_, connect_callback_, uv_, writes, wire,
                 answered, requests, calls, lost, leaked, keyspaces, duplicates>>

set_keyspace ==
  /\ Running
  /\ state_ >= CLIENT_STATE_READY
  /\ keyspaces < MaxSetKeyspace
  /\ keyspaces' = keyspaces + 1
  /\ send_internal("USE_KS")
  /\ UNCHANGED <<state_, uv_, wire, answered, requests, calls, leaked,
                 duplicates, failure>>

(* on_write: the message is on its way, or the write failed. *)
on_write(status) ==
  /\ Running
  /\ writes # << >>
  /\ writes' = Tail(writes)
  /\ IF status = 0
       THEN uv_ = "read" /\ wire' = wire \cup {Head(writes)} /\ UNCHANGED lost
       ELSE lost' = lost \cup {Head(writes)} /\ UNCHANGED wire
  /\ UNCHANGED <<streamVars, state_, connect_callback_, uv_, answered, requests,
                 calls, leaked, keyspaces, duplicates, failure>>

-----------------------------------------------------------------------------
(* Start-up: each callback moves state_ on and lets event_received start   *)
(* the next operation.                                                     *)

init(connect) ==
  /\ Running
  /\ uv_ = "start"
  /\ connect_callback_' = connect
  /\ uv_' = "getaddrinfo"
  /\ UNCHANGED <<streamVars, state_, writes, wire, answered, requests, calls,
                 lost, leaked, keyspaces, duplicates, failure>>

(* on_resolve, then connect(); a failure is reported to nobody. *)
on_resolve(status) ==
  /\ Running
  /\ uv_ = "getaddrinfo"
  /\ IF status = 0
       THEN state_' = CLIENT_STATE_RESOLVED /\ uv_' = "connect"
       ELSE uv_' = "none" /\ UNCHANGED state_
  /\ UNCHANGED <<streamVars, connect_callback_, writes, wire, answered, requests,
                 calls, lost, leaked, keyspaces, duplicates, failure>>

(* Mutant of on_connect: event_received is not called. *)
on_connect_no_event(status) ==
  /\ Running
  /\ uv_ = "connect"
  /\ IF status = 0
       THEN state_' = CLIENT_STATE_CONNECTED /\ uv_' = "read"
       ELSE uv_' = "none" /\ UNCHANGED state_
  /\ UNCHANGED <<streamVars, connect_callback_, writes, wire, answered, requests,
                 calls, lost, leaked, keyspaces, duplicates, failure>>

(* on_connect, then ssl_handshake() with ssl_ = NULL, then send_options(). *)
on_connect(status) ==
  /\ Running
  /\ uv_ = "connect"
  /\ IF status = 0
       THEN /\ state_' = CLIENT_STATE_HANDSHAKE
            /\ uv_' = "read"
            /\ send_internal("OPTIONS")
       ELSE /\ uv_' = "none"
            /\ UNCHANGED <<state_, streamVars, connect_callback_, writes, lost>>
  /\ UNCHANGED <<wire, answered, requests, calls, leaked, keyspaces, duplicates,
                 failure>>

-----------------------------------------------------------------------------
(* Replies *)

(* connect_callback_(this, err), kind is "ready" when err is NULL. *)
call_connect_callback(kind) ==
  CASE connect_callback_ = "null"      -> UNCHANGED <<calls, failure>>
    [] connect_callback_ = "set"       -> /\ calls' = [calls EXCEPT ![kind] = @ + 1]
                                          /\ UNCHANGED failure
    [] connect_callback_ = "clobbered" -> /\ failure' = "wild callback"
                                          /\ UNCHANGED calls

(* The server's part of a reply to message m.  Superfluous replies are     *)
(* only sent to users' queries.                                            *)
Reply(m, reply) ==
  /\ reply \in Replies[m.op]
  /\ uv_ = "read"
  /\ \/ /\ m \in wire
        /\ wire' = wire \ {m}
        /\ answered' = IF m.request # NULL /\ duplicates < MaxDuplicates
                         THEN answered \cup {m} ELSE answered
        /\ UNCHANGED duplicates
     \/ /\ m \in answered
        /\ duplicates < MaxDuplicates
        /\ duplicates' = duplicates + 1
        /\ UNCHANGED <<wire, answered>>

(* The reply to m does not release its stream: nothing will. *)
KeepStream(m) == leaked' = leaked \cup {m}

(* on_supported, then send_startup(). *)
on_supported(m) ==
  /\ Running
  /\ Reply(m, "SUPPORTED")
  /\ state_' = CLIENT_STATE_SUPPORTED
  /\ send_internal("STARTUP")
  /\ KeepStream(m)
  /\ UNCHANGED <<uv_, requests, calls, keyspaces, failure>>

(* on_ready, then notify_ready(). *)
on_ready(m) ==
  /\ Running
  /\ Reply(m, "READY")
  /\ state_' = CLIENT_STATE_READY
  /\ call_connect_callback("ready")
  /\ KeepStream(m)
  /\ UNCHANGED <<streamVars, connect_callback_, uv_, writes, lost, requests, keyspaces>>

(* AUTHENTICATE: Message::allocate_body has no body for it and asserts. *)
on_authenticate(m) ==
  /\ Running
  /\ Reply(m, "AUTHENTICATE")
  /\ failure' = "assert body"
  /\ KeepStream(m)
  /\ UNCHANGED <<streamVars, state_, connect_callback_, uv_, writes, lost,
                 requests, calls, keyspaces>>

(* Mutant of on_error: every error is reported to connect_callback_. *)
on_error_always_notifies(m) ==
  /\ Running
  /\ Reply(m, "ERROR")
  /\ call_connect_callback("error")
  /\ KeepStream(m)
  /\ UNCHANGED <<streamVars, state_, connect_callback_, uv_, writes, lost, requests,
                 keyspaces>>

(* An error is reported through connect_callback_ while the connection is  *)
(* starting up and to nobody later; the request is not looked up.          *)
on_error(m) ==
  /\ Running
  /\ Reply(m, "ERROR")
  /\ IF state_ < CLIENT_STATE_READY
       THEN call_connect_callback("error")
       ELSE UNCHANGED <<calls, failure>>
  /\ KeepStream(m)
  /\ UNCHANGED <<streamVars, state_, connect_callback_, uv_, writes, lost, requests,
                 keyspaces>>

(* on_result, case SET_KEYSPACE: keyspace_callback_ is called, the stream  *)
(* is neither released nor its request notified.                           *)
on_result_set_keyspace(m) ==
  /\ Running
  /\ Reply(m, "SET_KEYSPACE")
  /\ KeepStream(m)
  /\ UNCHANGED <<streamVars, state_, connect_callback_, uv_, writes, lost, requests,
                 calls, keyspaces, failure>>

(* Mutant of deliver: the result is stored but notify is forgotten. *)
deliver_silently(request, m) ==
  IF request = NULL
    THEN failure' = "null request" /\ UNCHANGED requests
    ELSE /\ requests' = [requests EXCEPT ![request].result = m.request]
         /\ UNCHANGED failure

(* get_stream returned a request: store the result and notify it. *)
deliver(request, m) ==
  IF request = NULL
    THEN failure' = "null request" /\ UNCHANGED requests
    ELSE /\ requests' = [requests EXCEPT ![request].result = m.request,
                                         ![request].notified = @ + 1]
         /\ UNCHANGED failure

(* Mutant of on_result: the stream is looked up without releasing it. *)
on_result_keeps_stream(m) ==
  /\ Running
  /\ Reply(m, "RESULT")
  /\ \E request \in StorageType \cup {Garbage} :
       get_stream_peek(m.stream, request) /\ deliver(request, m)
  /\ UNCHANGED <<state_, connect_callback_, uv_, writes, lost, calls, leaked, keyspaces>>

(* Mutant of on_result: the stream is off by one. *)
on_result_next_stream(m) ==
  /\ Running
  /\ m.stream < Max
  /\ Reply(m, "RESULT")
  /\ \E request \in StorageType \cup {Garbage} :
       \/ get_stream(m.stream + 1, request) /\ UNCHANGED <<requests, calls, failure>>
       \/ /\ get_stream_error(m.stream + 1, request)
          /\ call_connect_callback("error")
          /\ UNCHANGED requests
  /\ UNCHANGED <<state_, connect_callback_, uv_, writes, lost, leaked, keyspaces>>

(* on_result, the default case. *)
on_result(m) ==
  /\ Running
  /\ Reply(m, "RESULT")
  /\ \E request \in StorageType \cup {Garbage} :
       \/ get_stream(m.stream, request) /\ deliver(request, m) /\ UNCHANGED calls
       \/ /\ get_stream_error(m.stream, request)
          /\ call_connect_callback("error")
          /\ UNCHANGED requests
  /\ UNCHANGED <<state_, connect_callback_, uv_, writes, lost, leaked, keyspaces>>

(* on_result, case PREPARED: an error of get_stream is dropped. *)
on_result_prepared(m) ==
  /\ Running
  /\ Reply(m, "PREPARED")
  /\ \E request \in StorageType \cup {Garbage} :
       \/ get_stream(m.stream, request) /\ deliver(request, m)
       \/ get_stream_error(m.stream, request) /\ UNCHANGED <<requests, failure>>
  /\ UNCHANGED <<state_, connect_callback_, uv_, writes, lost, calls, leaked, keyspaces>>

-----------------------------------------------------------------------------
(* Closing *)

(* on_read with nread = -1 (end of file or an error), then close(). *)
close ==
  /\ Running
  /\ uv_ = "read"
  /\ state_' = CLIENT_STATE_DISCONNECTING
  /\ uv_' = "close"
  /\ UNCHANGED <<streamVars, connect_callback_, writes, wire, answered, requests,
                 calls, lost, leaked, keyspaces, duplicates, failure>>

(* on_close, then event_received, which has no case for the new state. *)
on_close ==
  /\ Running
  /\ uv_ = "close"
  /\ uv_' = "none"
  /\ state_' = CLIENT_STATE_DISCONNECTED
  /\ failure' = "assert event"
  /\ UNCHANGED <<streamVars, connect_callback_, writes, wire, answered, requests,
                 calls, lost, leaked, keyspaces, duplicates>>

-----------------------------------------------------------------------------
(* consume: the reply's opcode selects the handler. *)
consume(m) ==
  \/ on_supported(m)
  \/ on_ready(m)
  \/ on_authenticate(m)
  \/ on_error(m)
  \/ on_result_set_keyspace(m)
  \/ on_result(m)
  \/ on_result_prepared(m)

ConnNext ==
  \/ \E connect \in {"null", "set"} : init(connect)
  \/ \E status \in {0, -1} : on_resolve(status)
  \/ \E status \in {0, -1} : on_connect(status)
  \/ \E status \in {0, -1} : on_write(status)
  \/ \E r \in Requests, op \in {"QUERY", "PREPARE"} : exec(op, r)
  \/ CallerRequest_throws
  \/ set_keyspace
  \/ \E m \in wire \cup answered : consume(m)
  \/ close
  \/ on_close

(* libuv calls every callback that is pending, and the server answers what *)
(* it was sent; users need not call.                                       *)
ConnFairness ==
  /\ WF_vars(\E status \in {0, -1} : on_resolve(status))
  /\ WF_vars(\E status \in {0, -1} : on_connect(status))
  /\ WF_vars(\E status \in {0, -1} : on_write(status))
  /\ WF_vars(on_close)
  /\ WF_vars(\E m \in wire : consume(m))

ConnSpec == ConnInit /\ [][ConnNext]_vars

FairConnSpec == ConnSpec /\ ConnFairness

-----------------------------------------------------------------------------
InFlight == wire \cup Range(writes)

(* Types. *)
ConnTypeOK ==
  /\ StreamTypeOK
  /\ state_ \in CLIENT_STATE_NEW..CLIENT_STATE_DISCONNECTED
  /\ connect_callback_ \in {"null", "set", "clobbered"}
  /\ uv_ \in UvType
  /\ writes \in Seq(MessageType)
  /\ wire \subseteq MessageType
  /\ answered \subseteq MessageType
  /\ requests \in [Requests -> RequestType]
  /\ calls \in [ready : Nat, error : Nat]
  /\ lost \subseteq MessageType
  /\ leaked \subseteq MessageType
  /\ keyspaces \in 0..MaxSetKeyspace
  /\ duplicates \in 0..MaxDuplicates
  /\ failure \in {"none", "wild callback", "null request", "null string",
                  "assert body", "assert event"}

(* The server has answered no message twice. *)
ServerConforms == duplicates = 0

(* A reply finds the request it is for: every message that is still to be  *)
(* answered has a stream of its own, which is allocated and leads back to  *)
(* the request of the message (send_message 626-648, on_result 427-485).   *)
StreamsMatchInFlight ==
  ServerConforms =>
    /\ \A m, n \in InFlight : m.stream = n.stream => m = n
    /\ \A m \in InFlight : /\ m.stream \in InUse
                           /\ storage_[m.stream] = m.request

(* Where the streams are: each one in use is that of one message, either   *)
(* in flight, or lost, or one whose reply did not release it.  Only a      *)
(* RESULT gives a stream back; OPTIONS, STARTUP, USE and every query that  *)
(* failed cost the connection a stream for good.                           *)
StreamsAccounted ==
  LET holders == InFlight \cup lost \cup leaked
  IN  ServerConforms =>
        /\ InUse = {m.stream : m \in holders}
        /\ \A m, n \in holders : m.stream = n.stream => m = n

(* The connection calls its allocator only as StreamStorage says a caller  *)
(* does: whatever replies come, get_stream is not called with a stream     *)
(* that was never handed out.                                              *)
UsesStreamStorage == StreamSpec

(* The result a request is given is the reply to its own message, and a    *)
(* request has either a result or an error (on_result, exec).              *)
OwnResult ==
  ServerConforms =>
    \A r \in Requests :
      /\ requests[r].result \in {NULL, r}
      /\ requests[r].notified > 0
           => (requests[r].error <=> requests[r].result = NULL)

(* No request is notified twice, not even when a reply is repeated on a    *)
(* stream that was given to another request meanwhile.                     *)
NotifiedOnce == \A r \in Requests : requests[r].notified <= 1

(* The connection reports the end of its start-up once, as ready or as an  *)
(* error, and calls connect_callback_ for nothing else                     *)
(* (notify_ready 538-544, notify_error 546-553, on_result 478-481).        *)
ConnectReportedOnce == ServerConforms => calls.ready + calls.error <= 1

(* With a server that answers once, no reply dereferences the NULL request *)
(* of the connection's own messages, and connect_callback_ is not called   *)
(* after the request of stream Max was stored over it.                     *)
NoUndefinedBehaviour ==
  ServerConforms => failure \notin {"wild callback", "null request"}

(* event_received: "default: assert(false)" (193-195). *)
EventExpected == failure # "assert event"

(* A connection that is started reports ready or an error, unless it was   *)
(* given no callback, resolving, connecting or a write failed silently, or *)
(* the connection was closed.                                              *)
StartupReported ==
  uv_ = "getaddrinfo" ~>
    \/ calls.ready + calls.error > 0
    \/ connect_callback_ = "null"
    \/ uv_ \in {"none", "close"}
    \/ failure # "none"
    \/ \E m \in lost : m.op \in {"OPTIONS", "STARTUP"}

(* A request that was sent is notified, unless its message was answered    *)
(* with ERROR or SET_KEYSPACE or could not be written, or the connection   *)
(* is closed.                                                              *)
RequestNotified ==
  \A r \in Requests :
    requests[r].sent ~>
      \/ requests[r].notified > 0
      \/ \E m \in lost \cup leaked : m.request = r
      \/ uv_ \in {"none", "close"}
      \/ failure # "none"

=============================================================================
