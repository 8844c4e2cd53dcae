------------------------------- MODULE Message -------------------------------
(***************************************************************************)
(* Cutting the byte stream of a connection into messages: Message::consume *)
(* (include/cql_message.hpp) and the loop of ClientConnection::consume     *)
(* around it.  The server sends frames, a header of HeaderSize bytes that  *)
(* holds the length of the body, and the body; the network delivers the    *)
(* bytes in reads of any size.  A byte is represented by its position in   *)
(* the stream, so that a buffer shows which bytes were copied to it.       *)
(***************************************************************************)
EXTENDS Integers, Sequences

CONSTANTS
  HeaderSize,  \* CQL_HEADER_SIZE
  Frames,      \* bound: number of frames the server sends
  MaxLength,   \* bound: length of a body
  MaxRead,     \* bound: bytes delivered by one read
  Garbage      \* content of a byte of a buffer that was never written

ASSUME MessageAssumption ==
  /\ HeaderSize \in Nat \ {0}
  /\ Frames \in Nat \ {0}
  /\ MaxLength \in Nat
  /\ MaxRead \in Nat \ {0}
  /\ Garbage \notin Nat

VARIABLES
  frames,             \* body lengths of the frames sent
  pos,                \* position of the next byte to consume
  remaining,          \* bytes of the current read still to consume
  received,           \* the members of incomming_ from here ...
  header_received,
  header_buffer,
  length,
  body_buffer,
  body_buffer_pos,    \* ... to here
  split,              \* the read that completed the header of incomming_ did
                      \* not hold all of its body
  overflow,           \* bytes were copied behind the end of body_buffer
  delivered           \* messages whose body_ready was set

headerVars == <<header_received, header_buffer>>
bodyVars == <<length, body_buffer, body_buffer_pos, split>>
incomming == <<received, headerVars, bodyVars>>
msgVars == <<frames, pos, remaining, incomming, overflow, delivered>>

(* Position of the first byte of frame f. *)
StartOf[f \in Nat] ==
  IF f <= 1 THEN 0 ELSE StartOf[f - 1] + HeaderSize + frames[f - 1]

Total == StartOf[Frames + 1]

NoHeader == [i \in 0..HeaderSize-1 |-> Garbage]

(* Message::Message() *)
MessageInit ==
  /\ received = 0
  /\ header_received = FALSE
  /\ header_buffer = NoHeader
  /\ length = 0
  /\ body_buffer = << >>
  /\ body_buffer_pos = 0
  /\ split = FALSE

MsgInit ==
  /\ frames \in [1..Frames -> 0..MaxLength]
  /\ pos = 0
  /\ remaining = 0
  /\ overflow = FALSE
  /\ delivered = << >>
  /\ MessageInit

-----------------------------------------------------------------------------
(* memcpy of n bytes of the input, starting at position from, to offset to *)
(* of buffer; what lies outside of the buffer is not written.              *)
Copied(buffer, to, from, n) ==
  [i \in DOMAIN buffer |->
     IF i \in to..(to + n - 1) THEN from + (i - to) ELSE buffer[i]]

(* The length in a header: ntohl of its last bytes. *)
LengthIn(header) ==
  IF \E f \in 1..Frames : header[0] = StartOf[f]
    THEN frames[CHOOSE f \in 1..Frames : header[0] = StartOf[f]]
    ELSE 0

(* on_read: the next bytes arrive. *)
on_read(size) ==
  /\ remaining = 0
  /\ size <= Total - pos
  /\ remaining' = size
  /\ UNCHANGED <<frames, pos, incomming, overflow, delivered>>

(* consume, while the header is incomplete. *)
consume_header ==
  /\ remaining > 0
  /\ ~header_received
  /\ received + remaining < HeaderSize
  /\ header_buffer' = Copied(header_buffer, received, pos, remaining)
  /\ received' = received + remaining
  /\ pos' = pos + remaining
  /\ remaining' = 0
  /\ UNCHANGED <<frames, header_received, bodyVars, overflow, delivered>>

(* What the rest of consume works with: the bytes that complete the header *)
(* (none if it was complete before), and the body buffer, allocated when   *)
(* the header is complete.                                                 *)
HeaderNeeded == IF header_received THEN 0 ELSE HeaderSize - received
Header == Copied(header_buffer, received, pos, HeaderNeeded)
Length == IF header_received THEN length ELSE LengthIn(Header)
Body == IF header_received THEN body_buffer ELSE [i \in 0..Length-1 |-> Garbage]

(* Mutant of InputPos: input_pos is not moved behind the header. *)
InputPos_at_header == pos

(* input_pos after the header *)
InputPos == pos + HeaderNeeded

(* Mutant of BodyComplete: one byte more is waited for. *)
BodyComplete_strict == received + remaining - HeaderSize > Length

BodyComplete == received + remaining - HeaderSize >= Length

(* Mutant of BodyNeeded: the bytes of the header are not left out. *)
BodyNeeded_whole_read == remaining - (received + remaining - Length - HeaderSize)

(* needed in consume: the bytes of this read that complete the body. *)
BodyNeeded ==
  (remaining - HeaderNeeded) - (received + remaining - Length - HeaderSize)

(* consume, the body is complete; ClientConnection::consume takes the      *)
(* message and starts a new one.                                           *)
consume_body ==
  /\ remaining > 0
  /\ received + remaining >= HeaderSize
  /\ BodyComplete
  /\ delivered' = Append(delivered,
       [length |-> Length, split |-> split,
        body |-> Copied(Body, body_buffer_pos, InputPos, BodyNeeded)])
  /\ overflow' = (overflow \/ (BodyNeeded > 0 /\ body_buffer_pos + BodyNeeded > Length))
  /\ pos' = pos + HeaderNeeded + BodyNeeded
  /\ remaining' = remaining - (HeaderNeeded + BodyNeeded)
  /\ received' = 0
  /\ header_received' = FALSE
  /\ header_buffer' = NoHeader
  /\ length' = 0
  /\ body_buffer' = << >>
  /\ body_buffer_pos' = 0
  /\ split' = FALSE
  /\ UNCHANGED frames

(* consume, the header is complete and the body is not.  The position in   *)
(* the body advances by the size of the read, header bytes included.       *)
consume_partial ==
  /\ remaining > 0
  /\ received + remaining >= HeaderSize
  /\ ~BodyComplete
  /\ header_received' = TRUE
  /\ header_buffer' = Header
  /\ length' = Length
  /\ body_buffer' = Copied(Body, body_buffer_pos, InputPos, remaining - HeaderNeeded)
  /\ overflow' = (overflow \/ body_buffer_pos + remaining - HeaderNeeded > Length)
  /\ body_buffer_pos' = body_buffer_pos + remaining
  /\ split' = (split \/ HeaderNeeded > 0)
  /\ received' = received + remaining
  /\ pos' = pos + remaining
  /\ remaining' = 0
  /\ UNCHANGED <<frames, delivered>>

MsgNext ==
  \/ \E size \in 1..MaxRead : on_read(size)
  \/ consume_header
  \/ consume_body
  \/ consume_partial

MsgSpec == MsgInit /\ [][MsgNext]_msgVars

(* The bytes that were sent arrive and the loop runs. *)
FairMsgSpec == MsgSpec /\ WF_msgVars(MsgNext)

-----------------------------------------------------------------------------
(* Wherever the reads cut the stream, the messages found are the frames    *)
(* sent, in order, and the bytes counted for the current one are those     *)
(* consumed since its first: a read never loses or repeats a byte for the  *)
(* next message.                                                           *)
FramesExact ==
  /\ Len(delivered) <= Frames
  /\ \A i \in DOMAIN delivered : delivered[i].length = frames[i]
  /\ pos = StartOf[Len(delivered) + 1] + received

BodyOf(f) == [i \in 0..frames[f]-1 |-> StartOf[f] + HeaderSize + i]

(* The body handed on is the body sent, and nothing is written behind the  *)
(* buffer, as long as the read that completes a header holds all of its    *)
(* body.                                                                   *)
BodyIntactUnlessSplit ==
  /\ \A i \in DOMAIN delivered : ~delivered[i].split => delivered[i].body = BodyOf(i)
  /\ overflow => split \/ \E i \in DOMAIN delivered : delivered[i].split

(* "we haven't received all the data yet copy the entire input to our      *)
(* buffer" (cql_message.hpp:197-198): the body handed on is the body sent. *)
BodyIntact == \A i \in DOMAIN delivered : delivered[i].body = BodyOf(i)

(* Every frame sent is handed on. *)
AllDelivered == <>(Len(delivered) = Frames)
=============================================================================
