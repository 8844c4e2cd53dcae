---------------------------- MODULE SSLConnection ----------------------------
(***************************************************************************)
(* Two SSL sessions that talk to each other over a network which keeps the *)
(* order of the bytes but delivers them in pieces of any size.             *)
(*                                                                         *)
(* The client's session is driven in one of two ways.  A "caller" calls    *)
(* read_write again and again with whatever there is, the way test_ssl     *)
(* (src/test/main.cpp) drives both of its sessions, and submits again what *)
(* was not read (test_ssl takes it that everything is).  A "connection" is *)
(* a ClientConnection with an SSL session                                  *)
(* (include/cql_client_connection.hpp): it calls read_write only from      *)
(* on_read.  The server is always driven by a caller.                      *)
(***************************************************************************)
EXTENDS SSLSession, SequencesExt

CONSTANT
  MaxWrites   \* bound: payloads that each side passes to read_write

VARIABLES
  driver,    \* of the client's session, or "none" once libuv reports no more
  ssl,       \* the sessions
  open,      \* shutdown has not been called
  wire,      \* the bytes on the way to each side
  given,     \* payloads each side has passed to read_write
  read,      \* the bytes each side got from read_write
  errors,    \* whether read_write has returned an Error
  state_,    \* state_ of the ClientConnection
  undefined  \* its behaviour is undefined

sslVars == <<driver, ssl, open, wire, given, read, errors, state_, undefined>>

Sides == {"client", "server"}
Peer(side) == IF side = "client" THEN "server" ELSE "client"

(* The server lacks a key or a certificate in some runs. *)
SSLInit ==
  /\ driver \in {"caller", "connection"}
  /\ \E usable \in BOOLEAN :
       ssl = [side \in Sides |-> IF side = "client" THEN handshake(TRUE, TRUE)
                                                    ELSE handshake(FALSE, usable)]
  /\ open = [side \in Sides |-> TRUE]
  /\ wire = [side \in Sides |-> << >>]
  /\ given = [side \in Sides |-> 0]
  /\ read = [side \in Sides |-> << >>]
  /\ errors = [side \in Sides |-> FALSE]
  /\ state_ = "CONNECTING"
  /\ undefined = FALSE

-----------------------------------------------------------------------------
(* A caller. *)
Drives(side) == open[side] /\ (side = "server" \/ driver = "caller")

(* One call with the first n bytes that have come, and perhaps a payload;  *)
(* the caller takes a size of -1 for no data.                              *)
Call(side, n, writing) ==
  /\ Drives(side)
  /\ \E c \in {read_write(ssl[side], FirstBytes(wire[side], n), writing)} :
      /\ ssl' = [ssl EXCEPT ![side] = c.s]
      /\ wire' = [wire EXCEPT ![side] = BytesBehind(@, c.read_size),
                              ![Peer(side)] = @ \o c.write_output]
      /\ read' = [read EXCEPT ![side] = @ \o c.read_output]
      /\ errors' = [errors EXCEPT ![side] = @ \/ c.error]
  /\ UNCHANGED <<driver, open, state_, undefined>>

pump(side) ==
  /\ \E n \in 0..Len(wire[side]) : Call(side, n, FALSE)
  /\ UNCHANGED given

write(side) ==
  /\ given[side] < MaxWrites
  /\ given' = [given EXCEPT ![side] = @ + 1]
  /\ \E n \in {0, Len(wire[side])} : Call(side, n, TRUE)

(* SSL_shutdown and SSL_free: what is in the BIO pair goes with it. *)
shutdown(side) ==
  /\ Drives(side)
  /\ open' = [open EXCEPT ![side] = FALSE]
  /\ UNCHANGED <<driver, ssl, wire, given, read, errors, state_, undefined>>

-----------------------------------------------------------------------------
(* ClientConnection.  The state of the loop in on_read: the session, what  *)
(* is left of the input, what was sent and consumed, state_, and whether   *)
(* the loop has ended.                                                     *)
OPTIONS == <<[record |-> <<"OPTIONS", 0>>, place |-> 1]>>

(* The end of the body: the rest of the input, or break; the end of the    *)
(* handshake is looked for only when there is a rest.  send_options writes *)
(* to the socket, past the session.                                        *)
Rest(l, c) ==
  IF c.read_size < Len(l.input)
    THEN IF handshake_done(c.s)
           THEN [l EXCEPT !.input = BytesBehind(@, c.read_size),
                          !.sent = @ \o OPTIONS, !.state_ = "HANDSHAKE"]
           ELSE [l EXCEPT !.input = BytesBehind(@, c.read_size)]
    ELSE [l EXCEPT !.ended = TRUE]

(* consume with a size of -1 reads behind the buffer. *)
Consumed(l, c) ==
  IF c.read_output_size < 0
    THEN [l EXCEPT !.undefined = TRUE, !.ended = TRUE]
    ELSE [l EXCEPT !.read = @ \o c.read_output]

Sent(l, c) == [l EXCEPT !.s = c.s, !.sent = @ \o c.write_output]

Iteration(l) ==
  Then(read_write(l.s, l.input, FALSE),
       LAMBDA c : Then(Sent(Consumed(l, c), c),
                       LAMBDA after : IF after.ended THEN after ELSE Rest(after, c)))

(* Mutant of on_read_loop: it goes on while the session has bytes to       *)
(* decode, and looks for the end of the handshake when it ends.            *)
on_read_loop_drains(input, state) ==
  LET start == [s |-> ssl["client"], input |-> input, sent |-> << >>, read |-> << >>,
                state_ |-> state, undefined |-> FALSE, ended |-> FALSE]
      again(l) == LET c == read_write(l.s, l.input, FALSE)
                  IN  [l EXCEPT !.s = c.s, !.sent = @ \o c.write_output,
                                !.input = BytesBehind(@, c.read_size),
                                !.read = @ \o c.read_output]
      last == again(again(again(start)))
  IN  IF handshake_done(last.s)
        THEN [last EXCEPT !.sent = @ \o OPTIONS, !.state_ = "HANDSHAKE"]
        ELSE last

(* The loop of on_read.  Every iteration but the last takes a byte of the  *)
(* input, or decodes some to make room.                                    *)
on_read_loop(input, state) ==
  LET start == [s |-> ssl["client"], input |-> input, sent |-> << >>, read |-> << >>,
                state_ |-> state, undefined |-> FALSE, ended |-> FALSE]
      after[i \in 0..(Len(input) + BufferSize)] ==
        IF i = 0
          THEN Iteration(start)
          ELSE Then(after[i - 1], LAMBDA l : IF l.ended THEN l ELSE Iteration(l))
  IN  after[Len(input) + BufferSize]

on_read(n, state) ==
  /\ \E l \in {on_read_loop(FirstBytes(wire["client"], n), state)} :
      /\ ssl' = [ssl EXCEPT !["client"] = l.s]
      /\ wire' = [wire EXCEPT !["client"] = BytesBehind(@, n), !["server"] = @ \o l.sent]
      /\ read' = [read EXCEPT !["client"] = @ \o l.read]
      /\ undefined' = l.undefined
      /\ state_' = l.state_
  /\ UNCHANGED <<driver, open, given, errors>>

(* on_connect, with the call of ssl_handshake that event_received makes:   *)
(* on_read with no bytes.                                                  *)
on_connect ==
  /\ driver = "connection"
  /\ state_ = "CONNECTING"
  /\ on_read(0, "CONNECTED")

(* on_connect with a status of -1: nothing is done, and nobody hears of it.*)
connect_failed ==
  /\ driver = "connection"
  /\ state_ = "CONNECTING"
  /\ driver' = "none"
  /\ UNCHANGED <<ssl, open, wire, given, read, errors, state_, undefined>>

on_read_event ==
  /\ driver = "connection"
  /\ state_ # "CONNECTING"
  /\ ~undefined
  /\ \E n \in 1..Len(wire["client"]) : on_read(n, state_)

(* on_read with nread = -1: close().  Where that leads is the same without *)
(* a session, and a part of ClientConnection.                              *)
read_failed ==
  /\ driver = "connection"
  /\ state_ # "CONNECTING"
  /\ ~undefined
  /\ driver' = "none"
  /\ state_' = "DISCONNECTING"
  /\ UNCHANGED <<ssl, open, wire, given, read, errors, undefined>>

SSLNext ==
  \/ \E side \in Sides : pump(side) \/ write(side) \/ shutdown(side)
  \/ on_connect \/ connect_failed
  \/ on_read_event \/ read_failed

(* A caller goes on calling, as the loop of test_ssl does; the network     *)
(* delivers what is on the way, and the event loop reports it, or that the *)
(* connection was not made.  Nobody has to write or to shut down, and a    *)
(* connection that was made need not fail.                                 *)
SSLSpec ==
  /\ SSLInit
  /\ [][SSLNext]_sslVars
  /\ \A side \in Sides : WF_sslVars(pump(side))
  /\ WF_sslVars(on_connect \/ connect_failed)
  /\ WF_sslVars(on_read_event)

-----------------------------------------------------------------------------
(* The bytes that one engine has produced and the other has not yet taken  *)
(* are, in this order, in the input queue of the other, on the way, and in *)
(* the output queue of the one: whatever the pieces in which they arrive   *)
(* and however little of them a call of read_write accepts, none is lost,  *)
(* repeated or overtaken.  The queues keep within BUFFER_SIZE.             *)
PipeExact ==
  \A side \in Sides :
    /\ BytesBehind(ssl[Peer(side)].made, ssl[side].taken)
         = ssl[side].in \o wire[side] \o ssl[Peer(side)].out
    /\ Len(ssl[side].in) <= BufferSize
    /\ Len(ssl[side].out) <= BufferSize

Written(side) == FlattenSeq([n \in 1..ssl[side].writes |-> Payload(Data(n))])

(* What a side reads is what the other side's engine accepted, from the    *)
(* first byte on and without gaps; of the payloads passed to read_write    *)
(* while the handshake was not finished not a byte comes out, although     *)
(* read_write reported no error.                                           *)
ReadExact ==
  \A side \in Sides :
    /\ IsPrefix(read[side] \o ssl[side].plain, Written(Peer(side)))
    /\ ssl[side].writes <= given[side]

BothOpen == \A side \in Sides : open[side]
BothFinished == \A side \in Sides : handshake_done(ssl[side])
Refused == ~ssl["server"].usable

(* Sessions that are called again and again finish the handshake, the      *)
(* lag of read_write notwithstanding, and if the server has to refuse it   *)
(* both sides are told by an Error: the client too, although the call that *)
(* fails leaves the alert in the output queue.                             *)
HandshakeDecided ==
  driver = "caller" ~>
    \/ ~BothOpen
    \/ ~Refused /\ BothFinished
    \/ Refused /\ errors["client"] /\ errors["server"]

(* A payload that the engine accepted is read by the other side. *)
PayloadRead ==
  \A side \in Sides : \A n \in 1..MaxWrites :
    (driver = "caller" /\ ssl[side].writes >= n) ~>
      (~BothOpen \/ Len(read[Peer(side)]) >= n * PayloadLen)

(* Nothing is on the way, and the server cannot go on by itself. *)
Quiescent ==
  /\ \A side \in Sides : wire[side] = << >>
  /\ ssl["server"].in = << >>
  /\ ssl["server"].out = << >>

(* A ClientConnection with SSL gets no further than CONNECTED, even if     *)
(* neither connecting nor reading fails and the server goes on.  on_read   *)
(* leaves the loop before it decodes the bytes it put into the session     *)
(* last, so either the server's answer arrives at once and stays in the    *)
(* queue, or a second read decodes the first part of it, gets no data, and *)
(* passes -1 to consume.  Everything else of the exchange is done: the     *)
(* client's first flight was sent and nothing is left to send.             *)
SSLStartupStalls ==
  driver = "connection" ~>
    [](\/ undefined
       \/ driver = "none" \/ ~open["server"]
       \/ /\ Quiescent
          /\ state_ = "CONNECTED"
          /\ ssl["client"].in # << >>
          /\ ssl["client"].out = << >>)

(* No CQL message leaves a connection with SSL unencrypted.  send_message  *)
(* writes to the socket past the session, so this rests on the stall: a    *)
(* connection that noticed the end of its handshake would send OPTIONS in  *)
(* the clear.                                                              *)
NothingInTheClear == \A side \in Sides : ~Contains(wire[side], OPTIONS[1])
=============================================================================
