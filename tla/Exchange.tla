------------------------------- MODULE Exchange ------------------------------
(***************************************************************************)
(* One request and its reply, at the level of message bodies: the client   *)
(* builds and prepares a message (MessagePrepare) and sends it; the server *)
(* answers with a message that fits; the client allocates the body for the *)
(* opcode it finds in the header and lets that body consume the bytes      *)
(* (include/cql_message.hpp, cql_body_*.hpp).  The rows of a RESULT are    *)
(* read by BodyResult.  How the bytes get across is Message's matter.      *)
(***************************************************************************)
EXTENDS MessagePrepare, BodyResult

CONSTANTS
  Errors,     \* errors the server reports: a code and a message
  Supported   \* what servers support: the entries of a multimap, in order

(* What a server sends fits the two bytes that announce it. *)
IsShortSeq(s) == s \in Seq({s[i] : i \in DOMAIN s}) /\ Len(s) < ShortValues

ASSUME ExchangeAssumption ==
  /\ \A error \in Errors :
       /\ error = [code |-> error.code, message |-> error.message]
       /\ error.code \in Int
       /\ IsShortText(error.message)
  /\ \A entries \in Supported :
       /\ IsShortSeq(entries)
       /\ \A i \in DOMAIN entries :
            /\ IsShortText(entries[i].key)
            /\ IsShortSeq(entries[i].value)
            /\ \A j \in DOMAIN entries[i].value : IsShortText(entries[i].value[j])

VARIABLES
  phase,   \* of the exchange
  answer   \* an ERROR or a SUPPORTED, as the server has it

exchangeVars == <<phase, answer>>

vars == <<prepareVars, resultVars, exchangeVars>>

NoAnswer == << >>

ExchangeInit ==
  /\ MessageInit
  /\ ResultInit
  /\ phase = "building"
  /\ answer = NoAnswer

build ==
  /\ phase = "building"
  /\ PrepareNext
  /\ UNCHANGED <<resultVars, exchangeVars>>

(* A frame that prepare returned is written to the socket.  Of the request *)
(* only the opcode matters from here on: which replies are possible.       *)
send ==
  /\ phase = "building"
  /\ frame # NoFrame
  /\ opcode \in {"OPTIONS", "STARTUP", "QUERY", "PREPARE"}
  /\ phase' = "sent"
  /\ body' = allocate_body(opcode)
  /\ frame' = NoFrame
  /\ UNCHANGED <<opcode, resultVars, answer>>

-----------------------------------------------------------------------------
(* The server's encoding of its answers. *)
ErrorFields(error) == encode_string(encode_int(<< >>, error.code), error.message)

ListFields(fields, list) ==
  LET after[i \in 0..Len(list)] ==
        IF i = 0 THEN encode_short(fields, Len(list)) ELSE encode_string(after[i - 1], list[i])
  IN  after[Len(list)]

SupportedFields(entries) ==
  LET after[i \in 0..Len(entries)] ==
        IF i = 0
          THEN encode_short(<< >>, Len(entries))
          ELSE ListFields(encode_string(after[i - 1], entries[i].key), entries[i].value)
  IN  after[Len(entries)]

(* A new Message, whose body is allocated when its header is complete; the *)
(* request is gone by now.                                                 *)
incoming(op) ==
  /\ phase = "sent"
  /\ phase' = "received"
  /\ opcode' = op
  /\ body' = allocate_body(op)
  /\ frame' = NoFrame

receive_error(error) ==
  /\ incoming("ERROR")
  /\ answer' = error
  /\ buffer' = ErrorFields(error)
  /\ UNCHANGED <<sent, result, iterator>>

receive_supported(entries) ==
  /\ opcode = "OPTIONS"
  /\ incoming("SUPPORTED")
  /\ answer' = entries
  /\ buffer' = SupportedFields(entries)
  /\ UNCHANGED <<sent, result, iterator>>

receive_ready ==
  /\ opcode = "STARTUP"
  /\ incoming("READY")
  /\ UNCHANGED <<resultVars, answer>>

receive ==
  /\ opcode \in {"QUERY", "PREPARE"}
  /\ incoming("RESULT")
  /\ \E r \in Results :
       /\ r.kind = "PREPARED" <=> opcode = "PREPARE"
       /\ receive_result(r)
  /\ UNCHANGED answer

-----------------------------------------------------------------------------
(* BodySupported::consume: a list is replaced only by an option of its     *)
(* name.                                                                   *)
SupportedConsumed ==
  LET options == decode_string_multimap(buffer, 0).value
      option(key, default) == IF \E e \in options : e.key = key
                                THEN (CHOOSE e \in options : e.key = key).value
                                ELSE default
  IN  [compression |-> option(COMPRESSION, body.compression),
       cql_versions |-> option(CQL_VERSION, body.cql_versions)]

(* Body::consume, called by Message::consume with the bytes of the body. *)
consume_body ==
  /\ phase = "received"
  /\ phase' = "consumed"
  /\ \/ /\ opcode = "RESULT"
        /\ consume
        /\ UNCHANGED body
     \/ /\ opcode # "RESULT"
        /\ body' = CASE opcode = "ERROR" -> ErrorConsumed(buffer, 0)
                     [] opcode = "SUPPORTED" -> SupportedConsumed
                     [] opcode = "READY" -> body
        /\ UNCHANGED resultVars
  /\ UNCHANGED <<opcode, frame, answer>>

(* The user of a RESULT goes over its rows. *)
iterate ==
  /\ phase = "consumed"
  /\ ResultIterator \/ next_row
  /\ UNCHANGED <<prepareVars, exchangeVars>>

ExchangeNext ==
  \/ build
  \/ send
  \/ \E error \in Errors : receive_error(error)
  \/ \E entries \in Supported : receive_supported(entries)
  \/ receive_ready
  \/ receive
  \/ consume_body
  \/ iterate

ExchangeSpec == ExchangeInit /\ [][ExchangeNext]_vars

-----------------------------------------------------------------------------
(* The entries for a key, and those before the first of them: all, if      *)
(* there is none.                                                          *)
Of(key) == {i \in DOMAIN answer : answer[i].key = key}
Ahead(key) == {i \in DOMAIN answer : \A j \in Of(key) : i < j}

(* What the client can count: the number of entries or strings is read as  *)
(* an int16_t, and a loop up to a negative number does not run.            *)
Countable(seq) == Len(seq) < SignBit

(* The list that the server gave for a key, or no string at all. *)
Given(key) ==
  IF Of(key) # {} /\ Countable(answer) /\ Countable(answer[Min(Of(key))].value)
    THEN answer[Min(Of(key))].value
    ELSE << >>

(* Behind a list that is not counted the decoder takes its strings for     *)
(* entries; nothing is said of a key that only comes there.                *)
InReach(key) == Countable(answer) => \A i \in Ahead(key) : Countable(answer[i].value)

(* An ERROR reaches the client as the server reported it, and of a         *)
(* SUPPORTED, whatever other options it has and in whatever order, each    *)
(* list gets exactly the strings the server gave for it first; or none, if *)
(* their number, or that of the options, has the sign bit of a short.      *)
AnswerAsSent ==
  phase = "consumed" =>
    /\ opcode = "ERROR" => body = answer
    /\ opcode = "SUPPORTED" =>
         /\ InReach(COMPRESSION) => body.compression = Given(COMPRESSION)
         /\ InReach(CQL_VERSION) => body.cql_versions = Given(CQL_VERSION)
=============================================================================
