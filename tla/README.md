# A TLA+ model of uv-client-server

uv-client-server is the core of a Cassandra driver in C++ on top of libuv: a
connection speaks the CQL binary protocol with a server, hands each request one
of 127 stream ids, finds the request of a reply by the stream id in it, and
wakes up the threads that wait for it. This directory models the parts of it
that carry state, checks them with TLC, and proves with TLAPS the allocator of
stream ids, the start-up and the dispatch of replies, the waiting for requests,
the queue, the framing, most of the message bodies and the pools. Paths are
relative to the repository.

## Parts of the system

| part | source | state | operations |
|---|---|---|---|
| stream storage | `include/cql_stream_storage.hpp` | stack of free ids, flag and stored value per id | `set_stream`, `get_stream`, `available_streams` |
| client connection | `include/cql_client_connection.hpp` | `state_`, callbacks, the stream storage, the incoming message | `init`, `exec`, `prepare`, `set_keyspace`; libuv's `on_resolve`, `on_connect`, `on_read`, `on_write`, `on_close`; a handler per opcode |
| request | `include/cql_request.hpp` | flag, mutex, condition variable, callback, result | `notify`, `wait`, `wait_for`, `callback_executor` |
| MPMC queue | `include/cql_mpmc_queue.hpp` | ring of nodes with sequence numbers, head and tail | `enqueue`, `dequeue` |
| message framing | `include/cql_message.hpp` | header and body buffers, counts of bytes received | `consume`, `prepare`, `allocate_body` |
| bodies, serialization | `include/cql_body_*.hpp`, `include/cql_serialization.hpp` | the fields of a body | `prepare`, `consume`, `ResultIterator` |
| SSL session, context | `include/cql_ssl_session.hpp`, `include/cql_ssl_context.hpp` | OpenSSL's pipes | `handshake`, `read_write` |
| pool | `include/cql_pool.hpp` | lists of open and pending connections | `spawn_connection`, `maybe_spawn_connection`, `borrow_connection` |
| session, I/O worker | `include/cql_session.hpp` | worker threads, a queue, pools by host | start, stop and join; the rest are stubs |
| cluster | `include/cql_cluster.hpp` | options | `option`; `connect` returns NULL |

How they interact. A user's thread creates a request with `exec` or `prepare`
of a connection; the connection takes a stream from its stream storage, stores
the request there, and writes the message. libuv calls `on_read` with bytes;
`Message::consume` cuts them into messages; `ClientConnection::consume` calls
the handler of the opcode; `on_result` gets the request back from the stream
storage, gives it the result and calls `notify`, which wakes the waiting
threads and runs the user's callback, on the loop or on libuv's work queue. A
pool owns connections of one host and picks the one with most free streams. The
session is to feed its I/O workers through the MPMC queue.

What is hard in it:

* *interleaving*: enqueues and dequeues on the ring; `notify` against `wait`
  and `wait_for`; replies in any order against new requests;
* *boundaries*: running out of streams, arrays indexed with ids from 1, a ring
  that is full, reads that end anywhere in a message;
* *sequences of calls*: release and reuse of ids, replies that come twice,
  requests on a connection that is closing;
* *what must eventually happen*: a connection reports the end of its start-up,
  a request is notified, a waiting thread returns, a handshake is finished, a
  worker that was stopped is joined.

`PROJECT.json` lists these as hazards, each at its line, with the properties
that cover it. Where the code does go wrong, no property can catch it: the hazard
then has a note saying which property delimits the case. What makes each part correct:

* stream storage: an id is free or held by one caller, never both or neither;
* connection: a reply reaches the request it belongs to, at most once; every
  stream in use is accounted for; the user hears of the start-up once;
* request: a thread returns only when there is a result, and does return; the
  callback runs once;
* queue: a bounded FIFO, and no two threads on one node;
* framing: the messages found are the messages sent, whatever the reads;
* bodies: the size announced is the size written; what is read is what was
  written, whichever optional parts there are;
* SSL session: no byte is lost, repeated or overtaken between two engines,
  whatever the pieces; callers get through the handshake;
* pool and worker: the limits on connections hold; a connection in the loop is
  not freed; stop and join end the thread.

## Modules

| module | models |
|---|---|
| `StreamStorage` | the stream id allocator |
| `ClientConnection` | a connection without SSL; extends `StreamStorage` |
| `ClientConnectionProofs` | its theorems, and those of the allocator |
| `Request` | waiting for and notifying one request |
| `RequestProofs` | its theorems |
| `BoundedFifo` | what the queue promises, an abstract specification |
| `MpmcQueue` | the queue's algorithm, refining `BoundedFifo` |
| `MpmcQueueProofs` | its invariant and theorems, and the proof of the refinement |
| `Message` | cutting the byte stream into messages |
| `Recursion` | lemmas for the proofs: induction, and recursive functions |
| `MessageProofs` | its theorems; extends `Recursion` |
| `Serialization` | fields of bodies, with widths and positions |
| `MessagePrepare` | building and encoding messages; extends `Serialization` |
| `BodyResult` | parsing a RESULT and iterating over its rows; extends `Serialization` |
| `Exchange` | a request and the reply to it; composes `MessagePrepare` and `BodyResult` |
| `ExchangeProofs` | theorems about all four; extends `Recursion` |
| `SSLSession` | `read_write` over an abstract TLS engine |
| `SSLConnection` | two sessions and the network between them, one of them driven by a caller or by a `ClientConnection`; extends `SSLSession` |
| `SSLConnectionProofs` | its theorems; extends `Recursion` |
| `Pool` | the pools of a worker, with connections reduced to their phase |
| `Session` | an I/O worker: the thread that owns it and the thread in `uv_run`; extends `Pool` |
| `SessionProofs` | its theorems |
| `MC*` | the instances for TLC |

Operators whose comment begins "Mutant of" are wrong variants of the operator
below them. They are used nowhere; `PROJECT.json` says which property must fail
when one takes the place of the operator it is a variant of.

### StreamStorage

The variables are the members of the class. `set_stream` and `get_stream` are
split by outcome (`set_stream_error`, `get_stream_error`, `get_stream_peek` for
`releaseStream = false`). `allocated_streams_` and `storage_` have `Max`
elements in the code and are indexed with ids `1..Max`; the model gives them the
domain `0..Max`, and position `Max` is the memory behind the array. What is
there:

* behind `allocated_streams_`: a padding byte nobody writes and the constructor
  does not initialise. `StreamInit` chooses it freely;
* behind `storage_`: in a `ClientConnection` the member `connect_callback_`;
  see there.

Since the flag of id `Max` may be set from the beginning, a `get_stream(Max)`
before that id was handed out may "release" it and leave it on the stack
twice. `Known` excludes this one call: the driver calls `get_stream` with the
stream of a reply, which is the stream of an earlier request. `InUse` is
therefore "flagged and handed out before".

The decrement of the unsigned index wraps (`Decremented`); that it never does is
part of `StreamTypeOK`.

### ClientConnection

An action is one call from libuv or from a user, run to completion on the loop's
thread, including the `event_received` at the end of the handlers: `on_connect`
for example goes through `CLIENT_STATE_CONNECTED` and `ssl_handshake` to
`CLIENT_STATE_HANDSHAKE` and sends OPTIONS in one step, as the code does without
SSL. `uv_` is the callback libuv owes the connection. `writes` are the messages
in libuv's write queue, `wire` those the server has, `lost` those that could not
be written.

The server is external. It answers each message, in any order, with any reply
the protocol allows (`Replies`), and may answer `MaxDuplicates` users' messages a
second time. A reply and the arrival of its last byte are one step; how bytes
become messages is the matter of `Message`. A message is its opcode, stream and
request; its text does not matter to any handler.

Users call `exec`, `prepare` and `set_keyspace` from the time the connection
is ready, and go on while it is closing: nothing tells them.

`failure` says what ended the process: one of the asserts (AUTHENTICATE has no
case in `allocate_body`; `on_close` runs into `event_received`'s default), the
dereferencing of a NULL request, a call of an overwritten `connect_callback_`,
or the constructor of `CallerRequest`, which passes NULL to `std::string`. The
last throws in the usual builds (`CallerRequest_throws`); `exec` models a build
in which it does not, otherwise no request could ever be made.

`leaked` is a history variable: the messages whose reply did not release their
stream. `on_supported`, `on_ready`, `on_error` and the SET_KEYSPACE case of
`on_result` do not call `get_stream`.

### Request

One step is one access to the flag, the mutex or the condition variable. A wait
on the condition variable is external and modelled by its C++ semantics: test
the predicate with the mutex held, unlock and block atomically, wake by
`notify_all`, timeout or spuriously, lock again. `notify` is four steps: the
result is stored (by the connection), the flag is set, `notify_all`, the
callback; none takes the mutex. `wait_for` has no return statement when it finds the flag set
at its start, so it returns any value then, although the comment above it promises
"true if value is ready": a caller may be told of a timeout that was none.
`ReturnsWhenReady` is about the value true only.

### MpmcQueue and BoundedFifo

One step is one atomic load, store or compare-and-swap, and one access to a
node's data. A weak compare-and-swap may fail for no reason. Two abstractions:

* sequence numbers are natural numbers. The code compares `size_t` differences
  as signed numbers, which is the same unless a thread sleeps while 2^63
  operations pass;
* a relaxed load may return an old value of `head_seq_` or `tail_seq_`. That is
  the same as having loaded it earlier, and the model lets a thread pause
  between any two steps. The loads of a node's `seq` are acquire loads, paired
  with release stores, which gives the accesses to `data` their order.

`BoundedFifo` is the promise: an enqueue first gets a place and then publishes
its value; a dequeue takes the oldest value and then gives the room back. In
between, another call may fail on a queue that has room, or holds values, which
the code's comment ("the queue is full") passes over. `AbstractItems` and
`AbstractTaking` are the refinement mapping.

While other threads go on, a call may have to try again any number of times.
What the algorithm promises is `BeatenOnRetry`: a thread that finds the node ahead
of its ticket was overtaken by another thread, which got that ticket. (The other
reason to try again is a compare-and-swap that fails, perhaps for no reason.) And
no call waits for another thread: `CallsReturn` says that the call of a thread that
is scheduled returns even if all others stop for ever, each wherever it is, as
long as the contention ends. In the run it does: the number of enqueues is bounded, and
so is that of the dequeues that can succeed.

A ring of one node passes the constructor's assertion and is wrong: full and
empty have the same sequence number and an enqueue overwrites the value. The
session's queue has 1024 nodes; the runs use 2, the smallest that works.

### Message

A byte is represented by its position in the stream, so the content of a buffer
shows what was copied there. `consume_header`, `consume_partial` and
`consume_body` are the paths of `Message::consume` (header still incomplete;
header complete, body not; body complete) with the bookkeeping of the loop in
`ClientConnection::consume`. The body of a message that is complete is not
decoded here.

### Serialization, MessagePrepare, BodyResult and Exchange

A buffer is a sequence of fields, numbers of 1, 2 or 4 bytes and runs of raw
bytes; a text is a name and a size, its characters do not matter. Positions are
byte offsets, so that a size too small or a field skipped moves all that
follows. A number read where none of that width starts is `Garbage`, and so is
every position computed from it: in the code it could be anything. A short
keeps 16 bits of the value passed; values that do not fit an int are left out.
Flags are the sets of their bits, and the numbers of opcodes and kinds are
names.

The counts of lists, maps and multimaps are `int16_t`. From `SignBit` on (2^15) they
are read as negative numbers (`Signed`) and the loop over the entries does not run
(`Rounds`); the decoders then take what follows for something else. The lengths of
strings are not affected: the cast writes them into the low bytes of a `size_t`
(`TwoBytes`).

`MessagePrepare` has one action per setter and `prepare`, which is
`Message::prepare` with the `prepare` of the body. That computes a size, then
allocates, then writes; the model keeps the three apart (`frame.size`,
`frame.allocated`, `frame.fields`). When a body changes, the last frame is
forgotten. `QueryRead` is a server that follows the protocol: the bound values and
the paging state are `[bytes]`, with an int for a length, as `parse_metadata` reads
the paging state of a result. `BodyQuery::prepare`, and the repository's test of it,
write the length of a paging state as a short. So `ReadBack` claims everything of a
query without a paging state, and with one what lies before it. The startup and
error bodies are read back by the code's own `consume`.

`BodyResult` takes any result a server may send, encoded (external; a
global table specification comes only with metadata), and has the actions
`consume`, `ResultIterator` (the constructor) and `next_row` (`next`). An
iterator is made for results of kind ROWS only; for the others `rows` is NULL.

`Exchange` puts the two together: a message is built and sent, the server
answers it with the kind of reply that belongs to it or with an ERROR, and the
code's `consume` for the opcode parses the reply. `SUPPORTED` is a multimap of
lists here, with or without the two keys the code looks for.

What these parts do besides that a user should know, all of it in the model:
a query with a serial consistency is sent with two bytes that were never written;
a paging state is sent with a length of two bytes where the protocol has four; a
STARTUP option or an error message of 2^16 bytes or more is sent with a wrong
length; a SUPPORTED with 2^15 options or more, or a list of as many strings, is read
as empty; the metadata of column `i` is entry `column_count + i` of
`column_metadata`; a null cell has the size `(size_t)-1`, and behind it the
cells of a result are read from the wrong place; the first row of an empty
result is read behind its end. The properties say what does hold in spite
of it. The frame in the test of bound values (`src/test/main.cpp:75`) has two
bytes for the length of a value where `BodyQuery::prepare` writes four
(`encode_long_string`), so that test cannot pass (run `query_value`).

### SSLSession and SSLConnection

A session is an engine between two queues of `BUFFER_SIZE` bytes. The engine is
OpenSSL, external, and reduced to what `read_write` sees of it: a handshake of
four flights in turn, then records, each decrypted when it is complete; a read
that finds no complete record takes what there is and returns -1; a write before
the end of the handshake writes nothing. A byte is a record and a place in it.
`read_write` is its four parts in order, `write_input`, `read_output`,
`read_input`, `take_output`; an Error of one leaves out the ones behind it.

A `caller` makes these calls in any order, with any part of what has arrived.
A `connection` is the SSL branch of `on_read`, the loop as a function
(`on_read_loop`), called from `on_connect` with no bytes and then for each read. It
may fail to connect, of which nobody is told, or to read, which closes it
(`connect_failed`, `read_failed`); after that libuv reports nothing more.
What the model shows of it:

* the loop ends when the input has been taken, and `read_write` decodes before
  it takes its input, so the answer of the server stays undecoded. The server
  waits for the client and nothing reads again: the connection stays in
  `CLIENT_STATE_CONNECTED` for ever and its user hears nothing;
* if the answer comes in two reads, the second one decodes the first part, gets
  -1, and `consume` is called with that as a size (`undefined`);
* `send_message` writes to the socket, past the session. No message is sent in
  the clear only because the connection never gets that far
  (`NothingInTheClear`; its mutant, a loop that drains the session and then
  looks for the end of the handshake, sends OPTIONS unencrypted).

### Pool and Session

Nothing in the repository creates a worker yet: the constructor of `Session` is
private and `Cluster::connect` returns NULL. The model lets an owner make the
calls the class offers, pools only while the thread does not run (nothing locks
them), and `join` before the worker is run again or deleted. `uv_run` is
external and follows libuv 0.10: test of the loop, computation of the time-out,
poll, callbacks; `uv_stop` sets a flag and does not wake the poll. The workers
of a session share nothing, so there is one.

Of a connection the phase is kept, since it decides whether the loop is alive
and whether a callback may still come. `ssl_context` is never initialised; the
model takes it to be null or garbage, and a garbage one ends in `undefined` with
the first connection.

`connect_callback` does nothing in this commit, so `connections_` stays empty and
every `borrow_connection` dereferences the end of an empty list. The callback is
bound to its pool, also when the pool was a duplicate and is deleted; such a call
touches no member and the model lets it go by.

## Runs

| run | checks | shows |
|---|---|---|
| `connection` | of the allocator `StreamTypeOK`, `FreeListExact`, `NeverOverwritten`, `DoubleReleaseRejected`; of the connection `StreamsMatchInFlight`, `StreamsAccounted`, `OwnResult`, `NotifiedOnce`, `ConnectReportedOnce`, `NoUndefinedBehaviour`, `UsesStreamStorage`, `StartupReported`, `RequestNotified` | under every order of the calls that a connection makes, with repeated replies and up to exhaustion, the stack of ids is exact; replies reach their own request; streams in use are exactly those of messages in flight, lost, or leaked by their handler; a start-up is reported and a request notified, except in the cases the properties name, all of which are silent failures of the code |
| `connection_close` | `EventExpected` | *violated*: every close ends in `assert(false)` |
| `queue` | `NodeExclusive`, `BeatenOnRetry`, `RefinesFifo`, `CallsReturn` | three threads on two nodes, over two rounds of the ring; the queue is a bounded FIFO, a thread whose node is ahead of its ticket was beaten, and no call waits for another thread |
| `request` | `ReturnsWhenReady`, `CallbackOnce`, `CallbackCalled`, `BlockedAreWoken` | three waiting threads; what does hold of waiting and notifying |
| `request_lost_wakeup` | `WaitersResumed` | *violated*: a thread that tests the flag, then loses the processor until `notify` is through, then blocks, blocks for ever |
| `framing` | `FramesExact`, `BodyIntactUnlessSplit`, `AllDelivered` | boundaries of messages are right for every cut; bodies are when they arrive with the end of their header |
| `framing_split` | `BodyIntact` | *violated*: a body that arrives in a later read than the end of its header is put at the wrong offset, and behind the buffer |
| `exchange` | `FrameFilled`, `ReadBack`, `ParsedAsSent`, `RowsExact`, `CursorInBuffer`, `AnswerAsSent` | for every combination of options, the size computed, the bytes written and what a server reads agree, but for the serial consistency and paging states; every part of a reply is found, rows are right up to the first null, and lists unless a count has the sign bit |
| `prepare_options` | `FrameInBuffer` | *violated*: `BodyOptions` and `BodyReady` allocate no bytes for a frame of eight |
| `query_value` | `QueryValueAsTested` | *violated*: the frame of a bound value is two bytes longer than the test of it expects |
| `ssl` | `PipeExact`, `ReadExact`, `NothingInTheClear`, `HandshakeDecided`, `PayloadRead`, `SSLStartupStalls` | no byte is lost or moved, however little a call accepts; two callers finish the handshake, or both learn that it failed, and read what was written; a `ClientConnection` that does not fail stalls |
| `session` | `PoolSize`, `NoActiveConnectionFreed`, `OnlyDuplicatesDeleted`, `JoinReturns` | a pool gets no larger than its core connections and its limits allow, but never replaces a connection; a pool that is added twice is deleted with its connections under way, which is safe for the loop; `join` returns unless the network is silent |

The five violated properties are quoted from the code's own comments,
assertions and tests; `PROJECT.json` has them under findings.

Some properties of `connection` are stated for a server that has not answered
twice so far (`ServerConforms`): a second reply on a stream that has been given
to another request is delivered to that request, and the code could not know.
`NotifiedOnce` and `UsesStreamStorage` hold with such replies too.

### Bounds

* `Max` = 4 streams in `connection`: the stack can be empty, full and in between,
  ids get out of order, and id `Max`, the special one, is reached. The driver's
  value is 127. The run has the calls of a connection only; the theorems about the
  allocator are for every value and every caller `StreamSpec` admits, one that
  calls `get_stream` without releasing included, and `UsesStreamStorage` says that the
  connection is one of them.
* `connection`: 2 requests, two calls of `set_keyspace`, two superfluous
  replies, 4 streams. OPTIONS and STARTUP take two streams for good, so the third
  and fourth go to users, users run out, and stream `Max` is used while the
  start-up callback is set. A superfluous reply can hit a free stream and one
  with a new owner. The run checks liveness too, so it uses no symmetry; the
  theorems are for any number of requests.
* `queue`: 2 nodes, 3 threads, 2 values. No enqueue starts once two have their
  ticket, but those begun before go on, so tickets run to 3: both nodes are used a
  second time while calls of the first round are unfinished. Three threads
  give two of one kind against one of the other, as well as three of a kind.
  The run checks liveness for each thread, so it uses no symmetry. The theorems
  have no bound on tickets, threads or nodes.
* `request`: 3 waiters, each with `wait` or `wait_for`: one that holds the
  mutex, one that wants it, one that is blocked.
* `framing`: 3 frames with bodies of 0 to 3 bytes, headers of 3 bytes (8 in
  the code), reads of 1 to 8 bytes: a read can end at every place of a message
  and can hold two messages and a part of a third.
* `exchange`, requests: empty texts and texts of the sizes the tests use, a paging state
  longer than two bytes can say, up to two values; every option set or not, in every
  combination.
* `SignBit` = 36 in place of 2^15 for what the highest bit of a short is worth, so
  that two bytes have 72 values: a list with as many strings as the sign bit is
  short enough for TLC, while the other lengths (but the long paging state's),
  the numbers of types (up to 34) and the other counts keep below it. `SizeValues` = 2^20 in place of 2^64. Both are scales only:
  the theorems are for every value (`SignBit` > 34).
* `exchange`, replies: up to two columns, that may share a name, of a plain, a custom, a
  set and a map type; up to two rows of cells that are null, empty or not;
  every combination of flags; `next` called past the end. Two columns and two
  rows give each cell a neighbour in its row and in the next. SUPPORTED: up to two
  options with up to two strings; and one string less than the sign bit and as
  many, before or behind another option, some of the strings spelling the
  name of an option; and as many options.
* `ssl`: flights of 2 bytes and records of 3, so that each can be cut; queues of
  5 bytes, less than two records, so that they fill up; two payloads from each
  side, so that one can be lost, repeated or overtaken.
* `session`: two hosts, two pools (of two hosts or of one), pools of 0 or 1 core
  connections with a maximum of 0 or 2, so that the constructor exceeds a limit
  and `maybe_spawn_connection` meets both of its tests; two runs of the worker,
  so that pools are used with connections in every phase.

### Fairness

* Connection: libuv calls each callback that is due, in some way (success or
  failure), and the server answers what it was sent. Users need not call and
  `close` need not happen.
* Request: threads inside a call run on; a mutex that is free again and again
  is given to each of those that want it; the reply comes; the work queue runs. A spurious
  wake-up is possible and never due, so nothing relies on it.
* Queue: none in `QueueSpec`. `CallsReturn` assumes for one thread at a time that it is
  scheduled and that its `compare_exchange_weak` does not fail for no reason every time
  (`Scheduled`); the others may stop.
* Framing: bytes sent arrive, and the loop consumes them.
* SSL: callers go on calling with what has arrived, as the loop of `test_ssl`
  does, and libuv reports to a connection what has arrived, and that it is
  connected or has failed to be. Nobody has to write or to shut down, and a
  connection need not fail.
* Session: the worker's thread runs on when it is not waiting in a poll, and
  `join` returns when the thread has ended. No event has to come.

Deadlock is not checked where the system may really stop: a connection that is
closed or dead, a request whose threads have all returned, a stream of which
all frames are delivered, a result that has been iterated over, sessions that
are shut down or stalled, a worker that is deleted or whose thread waits for an
event.

## Proofs

### The allocator

`ClientConnectionProofs` proves, for every `Max` and `StorageType` that satisfy
`StreamStorageAssumption` (`Max` positive, the largest `uintptr_t` above it, a
never-written element distinguishable from a stored value):

| theorem | states |
|---|---|
| `StreamTypeCorrect` | `StreamSpec => []StreamTypeOK` |
| `FreeListIsExact` | `StreamSpec => []FreeListExact` |
| `AvailableIsExact` | `StreamSpec => []AvailableExact` |
| `StorageNeverOverwritten` | `StreamSpec => NeverOverwritten` |
| `DoubleReleaseIsRejected` | `StreamSpec => DoubleReleaseRejected` |

The inductive invariant `StreamInv` is the conjunction of `StreamTypeOK`,
`FreeListExact`, `IndexCounts` and `FlagsHandedOut`. `FreeListExact` alone is not
inductive: to push an id, `get_stream` needs room below the index. `IndexCounts`
says that the index is the number of ids in use, so it is positive when one of
them is released; it also gives `AvailableExact`. `FlagsHandedOut` says that a
set flag of an id below `Max` belongs to an id that was handed out, which
excludes releasing an id that is on the stack; for id `Max`, whose flag is
arbitrary at first, `Known` does that. The lemmas `SetStreamInv` and
`GetStreamInv` are about one call each and are stated without the
specification around it, so that they can be cited for a connection.

### The connection

`ClientConnectionProofs` proves, for every number of streams, set of requests
and bound on repeated replies (`ConnectionAssumption`):

| theorem | states |
|---|---|
| `ConnTypeCorrect` | `ConnSpec => []ConnTypeOK` |
| `RepliesFindTheirRequest` | `ConnSpec => []StreamsMatchInFlight` |
| `StreamsAreAccounted` | `ConnSpec => []StreamsAccounted` |
| `ResultsAreOwn` | `ConnSpec => []OwnResult` |
| `NotifiedAtMostOnce` | `ConnSpec => []NotifiedOnce` |
| `ConnFreeListIsExact` | `ConnSpec => []FreeListExact` |
| `ConnUsesStreamStorage` | `ConnSpec => UsesStreamStorage` (which is `StreamSpec`) |
| `ConnectIsReportedOnce` | `ConnSpec => []ConnectReportedOnce`, for `Max >= 3` |
| `BehaviourIsDefined` | `ConnSpec => []NoUndefinedBehaviour`, for `Max >= 3` |

The invariant `ConnInv` adds to the types and to `StreamInv`:

* `HandedOut`: the stream of every message that may be answered was handed out.
  This discharges `Known`, the assumption the allocator makes about its caller;
* `OwnersWaiting`: a request stored in a stream in use was sent, is in no other
  stream in use, and has been told nothing. When a reply releases the stream,
  the request leaves the streams in use for good, so it is not notified again,
  whatever the server repeats;
* `Accounted`, as long as the server has repeated nothing: the streams in use
  are, one each, those of the messages in flight, lost and leaked (`Exact`), and
  a message is in libuv's queue once and not also with the server
  (`QueuedOnce`). `StreamsAccounted` is not inductive without that: a message
  leaves the account when its stream is released only if it was at one place.

`Exact` is an operator of four arguments with a lemma for each way an action
changes them: a message moves (`ExactKeep`), a message is sent (`ExactNew`), a
stream is released (`ExactRelease`).

The last two theorems have an invariant of their own on top of `ConnInv`,
`StartupInv`, which is about a server that answers nothing twice
(`ServerConforms`):

* `Phase`: the callback libuv owes tells the state, so that a `connect` finds
  nothing sent, and a read one of three states;
* `StartupMessages`: while the connection starts up there is at most one message
  in flight, the one its state says. So a second SUPPORTED or READY cannot
  come, and every message of a user has a request to be notified;
* `Reported`: `connect_callback_` has been called at most once, and not at all
  while a reply to a message of the connection itself is expected;
* `FirstStreams`: before the connection is ready nothing has been released, the
  stack is as the constructor made it, and OPTIONS and STARTUP get the streams 1
  and 2. This is where `Max >= 3` is needed: the value stored for stream `Max`
  overwrites `connect_callback_`, and with two streams STARTUP would have that
  stream. The driver has 127.

### Requests

`RequestProofs` proves `RequestTypeOK`, `ReturnsWhenReady` and `CallbackOnce`
for any set of waiting threads. Its invariant adds `NotifyProgress`, which ties
the result, the flag and the callback to the step notify has reached.

### The queue

For any set of threads and values, any number of operations, and every ring of
more than one node:

| theorem | states |
|---|---|
| `NodesExclusive` | `QueueSpec => []NodeExclusive` |
| `RetryOnlyWhenBeaten` | `QueueSpec => []BeatenOnRetry` |
| `QueueRefinesFifo` | `QueueSpec => RefinesFifo` (the specification of `BoundedFifo`) |

`Size > 1` is a hypothesis of the theorems and not an assumption of the module,
because the code's assertion (`cql_mpmc_queue.hpp:41`) lets a ring of one node
through; for that one they are false.

The tickets `tail_seq_ .. tail_seq_ + Size - 1` have one node each. The invariant
`QueueInv` says what the sequence number of each of these nodes is: a ticket
below `head_seq_` has a number that says claimed or filled (`Occupied`), one from
`head_seq_` on says free, or the dequeue of the round before has not returned
the node (`Vacant`), and the node of an older ticket is ahead of it (`Passed`).
Where the number does not tell, it names the thread: `Enqueuers` and `Dequeuers`
say what a thread between its compare-and-swap and its store knows, and
`TicketsUnique` that no two of them have the same ticket. `Claims` is about a
thread between reading a sequence number and the compare-and-swap: what it saw
is still true if its ticket is current, which is why the swap is safe although
the node is not looked at again. The arithmetic of rounds (`SlotApart`,
`SlotNext`, `SlotDistinct`) is proved first, from the definition of division.

For the refinement, an enqueue's swap is the step that claims a place, its store
the one that publishes; a dequeue's swap takes the value and its store gives the
room back; all other steps stutter. The values in the abstract queue are a
function of the ring (`AbstractItems`), and `QueueInv` says that the function
changes at one place when a step does.

### Framing

`MessageProofs` proves, for every size of a header, every stream of frames and
every way to cut it into reads:

| theorem | states |
|---|---|
| `FramesAreExact` | `MsgSpec => []FramesExact` |
| `BodiesIntactUnlessSplit` | `MsgSpec => []BodyIntactUnlessSplit` |

Where frame `f` starts is a recursive function, `StartOf`, and the provers know
nothing of it but its defining equation, and that only if a function satisfying
it exists. The library's induction theorems take an operator as a parameter and
cannot be used here. `Recursion` therefore derives induction for *sets* of
natural numbers (`SetInduction`) from the theorem that `<` is well-founded
(`Smallest`). `MessageProofs` shows with it that the partial sums exist
(`SumsExist`, `SumExists`), that `StartOf` is one of them (`StartOfIs`), and that frames do not
overlap (`StartsApart`).

`MessageInv` adds to the two properties the types, `InStream` (a read brings no
byte that was not sent) and `HeaderSoFar`: the first byte in the header's buffer
is the first byte of the next frame, so the length is read from the right
place, and a complete header whose body is outstanding means that the read was
split. That last part is what separates the bodies that are intact from those
of the finding `framing_split`.

### The bodies

`ExchangeProofs` proves, for any texts, values, page sizes and answers of a
server that satisfy `PrepareAssumption`, `ExchangeAssumption` and
`ResultAssumption` (only one text is empty; strings and lists a server sends
have lengths that two bytes can say, and numbers of types are below the sign bit;
`Reserved` is 8, as
`CQL_HEADER_SIZE` is):

| theorem | states |
|---|---|
| `RequestInvariant` | `ExchangeSpec => []RequestInv` |
| `FramesAreFilled` | `ExchangeSpec => []FrameFilled` |
| `RequestsReadBack` | `ExchangeSpec => []ReadBack` |
| `AnswersArriveAsSent` | `ExchangeSpec => []AnswerAsSent` |
| `ResultInvariant` | `ExchangeSpec => []ResultInv` |
| `ResultsAreParsedAsSent` | `ExchangeSpec => []ParsedAsSent` |
| `RowsAreExact` | `ExchangeSpec => []RowsExact` |
| `CursorStaysInBuffer` | `ExchangeSpec => []CursorInBuffer` |

The first two invariants are short. `RequestInv`: while a message is built its body has the
type of its opcode, and the frame, if there is one, is what prepare makes of the
body as it is. `AnswerInv`: an answer that has arrived is one of a server's, in
the server's encoding. The work is in what the encoders and decoders compute:

* a buffer `c` *goes on* from `b` if it begins with the fields of `b` (`Goes`).
  Offsets in `b` are the same in `c` (`OffsetGoes`), so what was written stays
  where it is;
* at offset `Size(b)` of any `c` that goes on from `b` with a field, a reader
  finds that field and no other (`NumberFound`, `BytesFound`). Several fields may
  start at one offset when texts are empty; but a number takes at least one
  byte, and two runs of no bytes are the same text. This is where the
  assumption that only one text is empty is used;
* so every decoder undoes its encoder and ends where the encoder ended
  (`DecodeShort`, `DecodeInt`, `DecodeString`, `DecodeLong`);
* lists, maps and bound values are written and read by recursive functions. A
  recursive function is known only by its equation, so each needs a proof that
  the equation has a solution (`Iterates` of `Recursion`) and then an induction
  to `n` (`UpTo`) for what it is after `i` steps: the buffer with `i` entries,
  and on the reading side the first `i` entries and the offset behind them
  (`ValuesReadBack`, `MapReadBack`, `ListReadBack`, `SupportedReadBack`).

For a SUPPORTED the reader has the first list of every key (`FirstEntries`), as
insertion into a map leaves it. The run has no server that sends a key twice; the
theorem is for those too. Neither claims that a list arrives which the client
cannot count (`Countable`): its number has the sign bit, the loop does not run, and the
theorem is that the client has no string of it. What comes behind such a list is
decoded out of step, so a key that occurs only there is left out (`InReach`).

Of a query with a paging state the theorem says what is read before it; see
`QueryRead` above.

The last four are about a RESULT with any number of columns and rows, any cell
sizes, nulls included, and any number of calls of `next`. `ResultInv` says that
until it is consumed a result is as its constructor left it, from then on it is
what the server sent (`ReadAs`), and that an iterator is on its row (`AtRow`): if
the rows before have no null, it has the cells of that row up to the first null
and, if there is none, `position_next` is where the next row begins. `RowsExact`
by itself says nothing of `position_next` and is not inductive. The argument:

* the encoding of a result is written in parts, each behind the buffer of the
  parts before it, so that each part *goes on* to the whole and is read where
  the part before it ended, whichever optional parts there are (`PagesRead`,
  `TableRead`, `DescriptionRead`, `MetadataRead`);
* the loop over the columns (`ColumnsRead`): after `i` columns the metadata has
  them behind the `column_count` empty entries it begins with, and
  `column_index` is the first column of every name (`IndexOf`);
* the loop over the cells of a row (`CellsStep`, `RowRead`): up to the first null,
  each cell has its bytes and its size as a `size_t`. Behind a null the length of -1
  has moved the cursor, and nothing is claimed.

### SSL sessions

`SSLConnectionProofs` proves, for every `FlightLen`, `PayloadLen` and `BufferSize`
that satisfy `SSLAssumption` (positive lengths; a flight and a record fit into
the output queue), any number of payloads and both drivers, a caller and a
`ClientConnection`:

| theorem | states |
|---|---|
| `SSLInvariant` | `SSLSpec => []SSLInv` |
| `PipeIsExact` | `SSLSpec => []PipeExact` |
| `ReadIsExact` | `SSLSpec => []ReadExact` |
| `NothingGoesInTheClear` | `SSLSpec => []NothingInTheClear` |

`SSLInv` has three parts: the types, `BothOK` and `ConnectionWaits`. `BothOK` says of
each side

* what its engine has made (`Making`): the beginning of a script, two flights and
  then records 1, 2, ..., as long as its stage and its writes call for; or the
  alert of a server that refused;
* what it has taken of its peer's script (`Taking`): whole flights or records and
  the part of one, and that the payloads of the whole records are what its side
  has read or can read;
* where the other bytes are (`Flow`): those made and not yet taken lie, in order,
  in the input queue, on the way, and in the peer's output queue.

and that almost nothing is left in its output queue between two calls
(`OutputLeft`), which is why the next flight or record fits. `PipeExact` is `Flow`
with the bounds of the queues; it is not inductive without the scripts, because
what an engine does with its next byte, and so how much it adds to its output,
depends on what that byte is. One lemma for each operation of the engine and each part of
`read_write` says what it does to an engine for which this holds. `IncomingIs`
is the causality between the two: neither engine can be ahead of what the other
has sent.

`ConnectionWaits` says that a `ClientConnection` whose behaviour is defined has not
taken a byte of the server's answer. `WaitingCall` shows that the loop of
`on_read` then ends with its first iteration, so that the recursive function
needs no induction, and the code behind the loop, which would send in the clear,
is not reached.

### The pools

`SessionProofs` proves, for any hosts, any number of pools, connections and
runs of the worker:

| theorem | states |
|---|---|
| `ActiveNotFreed` | `SessionSpec => []NoActiveConnectionFreed` |
| `FirstPoolStays` | `SessionSpec => []OnlyDuplicatesDeleted` |
| `PoolsKeepTheirSize` | `SessionSpec => []PoolSize` |

They all rest on one fact about the code: `connect_callback` moves nothing from
`connections_pending_` to `connections_`. So the second list stays empty,
the destructors free nothing, and the first is all the connections
of its pool (`Pooled`, `PoolsBounded`), which bounds their number. `Mapped` and
`Duplicates` say which pool the worker's map has and that the others of the
same host were constructed later.

### Only model-checked

* liveness, which the prover cannot do: `StartupReported`, `RequestNotified`,
  `CallsReturn`, `CallbackCalled`, `BlockedAreWoken`, `AllDelivered`, `HandshakeDecided`,
  `PayloadRead`, `SSLStartupStalls`, `JoinReturns`;
* the five properties that are violated.

Every invariant and every action property that a passing run checks is stated by
a theorem.

## Not modelled

* TLS itself: the engine is an abstraction of OpenSSL, with one order of
  flights, no renegotiation, no errors but a refused handshake, and payloads
  that fit into the output queue.
* `Session` beyond its workers: `prepare`, `execute`, `shutdown` and
  `set_keyspace` are stubs, and `queue_` has no user.
* Cluster, `cql.h`: setters of options that nothing reads. `option` reads an int
  from every value, even from a shorter string.
* Byte order and characters of texts.
* SSL context: straight-line calls of OpenSSL without state.
* Errors, logging, the example client, the test server and the tests.
* Calls of a connection from a thread other than the loop's: the class has no
  protection against them, and nothing in the repository makes them.

## Plan

1. Done: every part of the driver that keeps state over several steps, their
   runs; the proofs of the allocator, the connection, the request, the queue and
   its refinement, the framing, the encoding of requests, the decoding of
   ERROR, SUPPORTED and RESULT, the SSL sessions, and the pools.
2. When the code gets there: a `Session` that is used, with requests that pass
   through its queue to a pool, and a pool that moves its connections.
