---------------------------- MODULE MessagePrepare ---------------------------
(***************************************************************************)
(* Building and encoding a message: the constructor of Message with its    *)
(* allocate_body, the setters of the bodies, and Message::prepare with the *)
(* prepare of each body (include/cql_message.hpp, cql_body_*.hpp).  Every  *)
(* prepare first computes a size, then allocates a buffer, then writes     *)
(* fields into it: three computations that have to agree.                  *)
(***************************************************************************)
EXTENDS Serialization

CONSTANTS
  Reserved,      \* CQL_HEADER_SIZE
  Queries,       \* query, prepare and error texts a user passes
  ParamValues,   \* values bound to a query
  PagingStates,  \* paging states
  PageSizes,     \* page sizes
  MaxValues      \* bound: values bound to one query

ASSUME PrepareAssumption ==
  /\ Reserved = 8
  /\ \A text \in Queries \cup ParamValues \cup PagingStates : IsText(text)
  /\ PageSizes \subseteq Nat
  /\ MaxValues \in Nat

VARIABLES
  opcode,  \* of the message
  body,    \* the members of its body
  frame    \* what the last prepare returned, forgotten when the body changes

prepareVars == <<opcode, body, frame>>

NoFrame == [size |-> 0, allocated |-> 0, fields |-> << >>]

Opcodes == {"RESULT", "PREPARE", "ERROR", "OPTIONS", "STARTUP", "SUPPORTED",
            "QUERY", "READY"}

NoConsistency == -1
NoPageSize == -1

(* allocate_body: the new body, as its constructor leaves it.  The class   *)
(* members that say whether an optional one was set, page_size_set_ and    *)
(* serial_consistent_, are represented by NoPageSize and NoConsistency.    *)
allocate_body(op) ==
  CASE op = "QUERY" ->
         [query_ |-> EmptyText, consistency_ |-> 0, page_size_ |-> NoPageSize,
          paging_state_ |-> EmptyText, serial_consistency_ |-> NoConsistency,
          values_ |-> << >>]
    [] op = "PREPARE" -> [prepare_ |-> EmptyText]
    [] op = "STARTUP" -> [cql_version |-> Text("3.0.0", 5), compression |-> EmptyText]
    [] op = "ERROR" -> [code |-> -1, message |-> EmptyText]
    [] op = "SUPPORTED" -> [compression |-> << >>, cql_versions |-> << >>]
    [] OTHER -> << >>

MessageInit ==
  /\ opcode \in Opcodes
  /\ body = allocate_body(opcode)
  /\ frame = NoFrame

-----------------------------------------------------------------------------
(* The setters. *)
Set(op, field, value) ==
  /\ opcode = op
  /\ body' = [body EXCEPT ![field] = value]
  /\ frame' = NoFrame
  /\ UNCHANGED opcode

query_string(input) == Set("QUERY", "query_", input)
consistency(c) == Set("QUERY", "consistency_", c)
serial_consistency(c) == Set("QUERY", "serial_consistency_", c)
page_size(size) == Set("QUERY", "page_size_", size)
paging_state(state) == Set("QUERY", "paging_state_", state)

(* Values are only ever added. *)
add_value(value) ==
  /\ opcode = "QUERY"
  /\ Len(body.values_) < MaxValues
  /\ Set("QUERY", "values_", Append(body.values_, value))

prepare_string(input) == Set("PREPARE", "prepare_", input)

(* The constructor of BodyError that takes a message. *)
error_message(input) == Set("ERROR", "message", input)

(* The public members of BodyStartup. *)
startup_option(field, value) == Set("STARTUP", field, value)

-----------------------------------------------------------------------------
(* prepare of the bodies: size is what it computes, allocated the size of  *)
(* the buffer, fields what it writes behind the reserved bytes.            *)

(* The sum of the sizes of the values and of their lengths. *)
ValuesSize ==
  LET sum[i \in 0..Len(body.values_)] ==
        IF i = 0 THEN 0 ELSE sum[i - 1] + 4 + body.values_[i].size
  IN  sum[Len(body.values_)]

HasValues == body.values_ # << >>
HasPageSize == body.page_size_ # NoPageSize
HasPagingState == body.paging_state_.size > 0
SerialConsistent == body.serial_consistency_ # NoConsistency

When(condition, n) == IF condition THEN n ELSE 0

(* Mutant of QuerySize: the number of values is not counted. *)
QuerySize_no_count ==
  Reserved + 4 + body.query_.size + 2 + 1
    + When(SerialConsistent, 2)
    + When(HasPagingState, 2 + body.paging_state_.size)
    + When(HasValues, ValuesSize)
    + When(HasPageSize, 4)
    + When(SerialConsistent, 2)

(* BodyQuery::prepare, the size: the serial consistency is added twice. *)
QuerySize ==
  Reserved + 4 + body.query_.size + 2 + 1
    + When(SerialConsistent, 2)
    + When(HasPagingState, 2 + body.paging_state_.size)
    + When(HasValues, 2 + ValuesSize)
    + When(HasPageSize, 4)
    + When(SerialConsistent, 2)

(* BodyQuery::prepare, the flags; the byte is represented by its bits. *)
QueryFlags ==
  {f \in {"VALUES", "PAGE_SIZE", "PAGING_STATE", "SERIAL_CONSISTENCY"} :
     CASE f = "VALUES" -> HasValues
       [] f = "PAGE_SIZE" -> HasPageSize
       [] f = "PAGING_STATE" -> HasPagingState
       [] f = "SERIAL_CONSISTENCY" -> SerialConsistent}

ValueFields(buffer) ==
  LET after[i \in 0..Len(body.values_)] ==
        IF i = 0 THEN encode_short(buffer, Len(body.values_))
                 ELSE encode_long_string(after[i - 1], body.values_[i])
  IN  after[Len(body.values_)]

(* Mutant of QueryFields: the paging state is written before the page      *)
(* size, in the order in which the sizes are added.                        *)
QueryFields_paging_first(buffer) ==
  LET b1 == encode_long_string(buffer, body.query_)
      b2 == encode_byte(encode_short(b1, body.consistency_), QueryFlags)
      b3 == IF HasValues THEN ValueFields(b2) ELSE b2
      b4 == IF HasPagingState THEN encode_string(b3, body.paging_state_) ELSE b3
      b5 == IF HasPageSize THEN encode_int(b4, body.page_size_) ELSE b4
  IN  IF SerialConsistent THEN encode_short(b5, body.serial_consistency_) ELSE b5

(* BodyQuery::prepare, what is written. *)
QueryFields(buffer) ==
  LET b1 == encode_long_string(buffer, body.query_)
      b2 == encode_byte(encode_short(b1, body.consistency_), QueryFlags)
      b3 == IF HasValues THEN ValueFields(b2) ELSE b2
      b4 == IF HasPageSize THEN encode_int(b3, body.page_size_) ELSE b3
      b5 == IF HasPagingState THEN encode_string(b4, body.paging_state_) ELSE b4
  IN  IF SerialConsistent THEN encode_short(b5, body.serial_consistency_) ELSE b5

(* BodyStartup::prepare *)
COMPRESSION == Text("COMPRESSION", 11)
CQL_VERSION == Text("CQL_VERSION", 11)

StartupOption(key, value) ==
  IF value.size > 0 THEN <<[key |-> key, value |-> value]>> ELSE << >>

StartupOptions ==
  StartupOption(COMPRESSION, body.compression)
    \o StartupOption(CQL_VERSION, body.cql_version)

StartupSize ==
  Reserved + 2
    + When(body.compression.size > 0, 2 + 11 + 2 + body.compression.size)
    + When(body.cql_version.size > 0, 2 + 11 + 2 + body.cql_version.size)

(* size and allocated, for the opcode of the message.  BodyOptions and     *)
(* BodyReady allocate the size they are called with, which is 0, before    *)
(* they set it; BodyResult and BodySupported do nothing.                   *)
BodySize ==
  CASE opcode = "QUERY" -> QuerySize
    [] opcode = "PREPARE" -> Reserved + 4 + body.prepare_.size
    [] opcode = "STARTUP" -> StartupSize
    [] opcode = "ERROR" -> Reserved + 4 + 2 + body.message.size
    [] opcode \in {"OPTIONS", "READY"} -> Reserved
    [] OTHER -> 0

BodyAllocated == IF opcode \in {"OPTIONS", "READY"} THEN 0 ELSE BodySize

BodyFields(buffer) ==
  CASE opcode = "QUERY" -> QueryFields(buffer)
    [] opcode = "PREPARE" -> encode_long_string(buffer, body.prepare_)
    [] opcode = "STARTUP" -> encode_string_map(buffer, StartupOptions)
    [] opcode = "ERROR" -> encode_string(encode_int(buffer, body.code), body.message)
    [] OTHER -> buffer

-----------------------------------------------------------------------------
(* Message::prepare.  A body that sets no size gets a buffer for the       *)
(* header alone; version, flags and stream are one field here.             *)
prepare ==
  LET size == IF BodySize = 0 THEN Reserved ELSE BodySize
      Header == encode_int(encode_byte(<<Number(3, 0)>>, opcode), size - Reserved)
  IN  /\ frame' = [size |-> size,
                   allocated |-> IF BodySize = 0 THEN Reserved ELSE BodyAllocated,
                   fields |-> BodyFields(Header)]
      /\ UNCHANGED <<opcode, body>>

PrepareNext ==
  \/ \E input \in Queries :
       query_string(input) \/ prepare_string(input) \/ error_message(input)
  \/ \E c \in {0, 1} : consistency(c)
  \/ \E c \in {8, 9} : serial_consistency(c)
  \/ \E size \in PageSizes : page_size(size)
  \/ \E state \in PagingStates : paging_state(state)
  \/ \E value \in ParamValues : add_value(value)
  \/ \E field \in {"cql_version", "compression"}, value \in Queries :
       startup_option(field, value)
  \/ prepare

PrepareSpec == MessageInit /\ [][PrepareNext]_prepareVars

-----------------------------------------------------------------------------
(* What the peer reads in a frame. *)
Prepared(op) == opcode = op /\ frame # NoFrame

(* BodyError::consume *)
ErrorConsumed(fields, pos) ==
  LET code == decode_int(fields, pos)
      message == decode_string(fields, code.next)
  IN  [code |-> code.value, message |-> message.value]

(* BodyStartup::consume, into a new body: an option that is absent keeps   *)
(* its default.                                                            *)
StartupConsumed(fields) ==
  LET options == decode_string_map(fields, Reserved).value
      option(key, default) == IF \E e \in options : e.key = key
                                THEN (CHOOSE e \in options : e.key = key).value
                                ELSE default
  IN  [cql_version |-> option(CQL_VERSION, Text("3.0.0", 5)),
       compression |-> option(COMPRESSION, EmptyText)]

(* The server reads one value more. *)
NextValue(fields, before) ==
  LET v == decode_long_string(fields, before.next)
  IN  [value |-> Append(before.value, v.value), next |-> v.next]

(* n values, one behind the other from position pos on. *)
ValuesRead(fields, n, pos) ==
  LET after[i \in 0..n] ==
        IF i = 0 THEN [value |-> << >>, next |-> pos]
                 ELSE NextValue(fields, after[i - 1])
  IN  after[n]

(* The server, reading a query: every field that the flags announce, in    *)
(* the order of the protocol, each by its own length.  Values and paging   *)
(* states are [bytes]: their lengths are ints (the paging state of a       *)
(* result, too: cql_body_result.hpp:175).                                  *)
QueryRead(fields) ==
  LET query == decode_long_string(fields, Reserved)
      level == TwoBytes(fields, query.next)
      flags == NumberAt(fields, level.next, 1)
      start == Plus(level.next, 1)
      count == TwoBytes(fields, start)
      values == IF "VALUES" \in flags
                  THEN ValuesRead(fields, count.value, count.next)
                  ELSE [value |-> << >>, next |-> start]
      page == IF "PAGE_SIZE" \in flags
                THEN decode_int(fields, values.next)
                ELSE [value |-> NoPageSize, next |-> values.next]
      paging == IF "PAGING_STATE" \in flags
                  THEN decode_long_string(fields, page.next)
                  ELSE [value |-> EmptyText, next |-> page.next]
      serial == IF "SERIAL_CONSISTENCY" \in flags
                  THEN TwoBytes(fields, paging.next)
                  ELSE [value |-> NoConsistency, next |-> paging.next]
  IN  [query_ |-> query.value, consistency_ |-> level.value,
       page_size_ |-> page.value, paging_state_ |-> paging.value,
       serial_consistency_ |-> serial.value, values_ |-> values.value]

-----------------------------------------------------------------------------
(* The size that prepare computes before it allocates is the number of     *)
(* bytes it writes afterwards, whatever was set and in whatever order; a   *)
(* query with a serial consistency is announced two bytes longer than what *)
(* is written of it.  No byte is written behind the buffer, the header of  *)
(* OPTIONS and READY apart.                                                *)
FrameFilled ==
  frame # NoFrame =>
    /\ frame.size = Size(frame.fields)
                      + When(Prepared("QUERY") /\ SerialConsistent, 2)
    /\ opcode \notin {"OPTIONS", "READY"} => Size(frame.fields) <= frame.allocated

(* What prepare writes, read back, is what was set: the flags announce     *)
(* exactly the fields that follow, in an order the peer can follow, each   *)
(* with its own length.  The two bytes of a number of values and of a      *)
(* string's length have to hold it.  Nothing is said of what lies from a   *)
(* paging state on: BodyQuery::prepare writes its length as a short        *)
(* (cql_body_query.hpp:193), and the server reads an int.                  *)
ReadBack ==
  /\ Prepared("QUERY") /\ Len(body.values_) < ShortValues =>
       LET read == QueryRead(frame.fields)
       IN  /\ \A part \in {"query_", "consistency_", "values_", "page_size_"} :
                read[part] = body[part]
           /\ ~HasPagingState => read = body
  /\ /\ Prepared("STARTUP")
     /\ body.cql_version.size > 0
     /\ body.cql_version.size < ShortValues
     /\ body.compression.size < ShortValues
     => StartupConsumed(frame.fields) = body
  /\ Prepared("ERROR") /\ body.message.size < ShortValues =>
       ErrorConsumed(frame.fields, Reserved) = body

(* CHECK_EQUAL(sizeof(TEST_MESSAGE_OPTIONS), size) and the memcmp of that  *)
(* many bytes of the buffer (src/test/main.cpp:158-163): a frame lies in   *)
(* the buffer that holds it.                                               *)
FrameInBuffer == frame # NoFrame => Size(frame.fields) <= frame.allocated

(* CHECK_EQUAL(sizeof(TEST_MESSAGE_QUERY_VALUE), size), of a query of 16   *)
(* bytes with one value of 12 and no other option                          *)
(* (src/test/main.cpp:65-78, 233): the frame has 47 bytes, the length of   *)
(* the value two of them ("0x00, 0x0c, // value size 12").                 *)
QueryValueAsTested ==
  /\ Prepared("QUERY")
  /\ body.query_.size = 16
  /\ Len(body.values_) = 1 /\ body.values_[1].size = 12
  /\ QueryFlags = {"VALUES"}
  => frame.size = 47
=============================================================================
