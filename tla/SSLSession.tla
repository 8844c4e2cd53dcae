----------------------------- MODULE SSLSession ------------------------------
(***************************************************************************)
(* One SSLSession (include/cql_ssl_session.hpp) and the part of OpenSSL it *)
(* drives.  A session is a TLS engine between two byte queues of           *)
(* BufferSize bytes, a BIO pair: the caller puts what came from the        *)
(* network in one and takes what is to be sent from the other, and         *)
(* read_write is the only way to make the engine run.                      *)
(*                                                                         *)
(* The engine (external) is reduced to what the caller can see of it: a    *)
(* handshake of four flights in turn, the client's first, then records of  *)
(* application data.  A byte is a record and a place in it, so that a byte *)
(* that is lost, repeated or moved is noticed.                             *)
(***************************************************************************)
EXTENDS Integers, Sequences

CONSTANTS
  FlightLen,   \* bytes of a flight of the handshake
  PayloadLen,  \* bytes that one call writes
  BufferSize   \* BUFFER_SIZE

(* What one call of read_write produces fits into the empty output queue: *)
(* a flight and a record.  A flight fits into the input queue.             *)
ASSUME SSLAssumption ==
  /\ FlightLen \in Nat \ {0}
  /\ PayloadLen \in Nat \ {0}
  /\ BufferSize \in Nat
  /\ BufferSize >= FlightLen + PayloadLen + 1

Flights == 4

Flight(n) == <<"flight", n>>
Data(n) == <<"data", n>>
Alert == <<"alert", 0>>

(* A record of data has one byte more than its payload. *)
Length(record) ==
  CASE record[1] = "flight" -> FlightLen
    [] record[1] = "data" -> PayloadLen + 1
    [] record[1] = "alert" -> 1

BytesUpTo(record, n) == [i \in 1..n |-> [record |-> record, place |-> i]]
BytesOf(record) == BytesUpTo(record, Length(record))
Payload(record) == BytesUpTo(record, PayloadLen)

(* Op after v: first v, then Op of its value. *)
Then(v, Op(_)) == CHOOSE r \in {Op(x) : x \in {v}} : TRUE

Least(a, b) == IF a < b THEN a ELSE b
FirstBytes(s, n) == SubSeq(s, 1, n)
BytesBehind(s, n) == SubSeq(s, n + 1, Len(s))

(* How many bytes at the front of s belong to the record. *)
Leading(s, record) ==
  CHOOSE n \in 0..Len(s) :
    /\ \A i \in 1..n : s[i].record = record
    /\ n < Len(s) => s[n + 1].record # record

-----------------------------------------------------------------------------
(* The engine.  in and out are the two directions of the BIO pair, part    *)
(* the bytes of an incomplete record that the engine has taken from in,    *)
(* plain the rest of a decrypted record, flight the last flight received   *)
(* or sent, usable whether it has what the handshake needs of it (for a    *)
(* server, a key and a certificate).  taken and made count what has left   *)
(* in, and record what was put in out.                                     *)
Engine(usable) ==
  [in |-> << >>, out |-> << >>, part |-> 0, plain |-> << >>, flight |-> 0,
   usable |-> usable, failed |-> FALSE, writes |-> 0, taken |-> 0, made |-> << >>]

Emit(s, bytes) == [s EXCEPT !.out = @ \o bytes, !.made = @ \o bytes]

TakeBytes(s, n, part) ==
  [s EXCEPT !.in = BytesBehind(@, n), !.taken = @ + n, !.part = part]

Finished(s) == s.flight = Flights

(* A flight is complete: the engine goes on to its own next one. *)
FlightReceived(s) ==
  LET next == s.flight + 2
  IN  IF ~s.usable
        THEN Emit([s EXCEPT !.failed = TRUE], BytesOf(Alert))
        ELSE [Emit(s, IF next <= Flights THEN BytesOf(Flight(next)) ELSE << >>)
                EXCEPT !.flight = Least(next, Flights)]

(* The handshake, as far as the bytes in the queue carry it; SSL_read and  *)
(* SSL_write begin with it.                                                *)
SSL_do_handshake(s) ==
  IF Finished(s) \/ s.failed \/ s.in = << >>
    THEN s
    ELSE IF Head(s.in).record = Alert
      THEN [TakeBytes(s, 1, 0) EXCEPT !.failed = TRUE]
      ELSE LET n == Leading(s.in, Flight(s.flight + 1))
           IN  IF s.part + n < FlightLen
                 THEN TakeBytes(s, n, s.part + n)
                 ELSE Then(TakeBytes(s, n, 0), FlightReceived)

(* A record of data is decrypted when it is complete. *)
Decrypt(s) ==
  IF ~Finished(s) \/ s.plain # << >> \/ s.in = << >>
    THEN s
    ELSE LET record == Head(s.in).record
             n == Leading(s.in, record)
         IN  IF s.part + n < Length(record)
               THEN TakeBytes(s, n, s.part + n)
               ELSE [TakeBytes(s, n, 0) EXCEPT !.plain = Payload(record)]

(* SSL_read: at most n bytes of one record, or -1, which stands for        *)
(* SSL_ERROR_WANT_READ unless the engine has failed.                       *)
Handed(s, n) ==
  IF s.plain = << >>
    THEN [s |-> s, status |-> -1, bytes |-> << >>]
    ELSE [s |-> [s EXCEPT !.plain = BytesBehind(@, Least(n, Len(@)))],
          status |-> Least(n, Len(s.plain)),
          bytes |-> FirstBytes(s.plain, Least(n, Len(s.plain)))]

SSL_read(s, n) ==
  Then(Then(SSL_do_handshake(s), Decrypt), LAMBDA t : Handed(t, n))

(* SSL_write: before the end of the handshake nothing is written, and the  *)
(* status is SSL_ERROR_WANT_READ.                                          *)
Encrypt(s) ==
  IF Finished(s)
    THEN [Emit(s, BytesOf(Data(s.writes + 1))) EXCEPT !.writes = @ + 1]
    ELSE s

SSL_write(s) == Then(SSL_do_handshake(s), Encrypt)

(* BIO_ctrl_pending(ssl_bio): decrypted bytes, or else raw ones. *)
Pending(s) == IF s.plain # << >> THEN Len(s.plain) ELSE Len(s.in)

-----------------------------------------------------------------------------
(* init and handshake: the client's first flight is in the output queue. *)
handshake(client, usable) ==
  IF client
    THEN [Emit(Engine(usable), BytesOf(Flight(1))) EXCEPT !.flight = 1]
    ELSE Engine(usable)

handshake_done(s) == Finished(s)

(* read_write, a part of the function per operator; c is the call: the     *)
(* session, whether CQL_SSL_CHECK_ERROR returned an Error, and the four    *)
(* results.                                                                *)
Called(s) ==
  [s |-> s, error |-> FALSE, read_size |-> 0, read_output_size |-> 0,
   read_output |-> << >>, write_output |-> << >>]

(* CQL_SSL_CHECK_ERROR lets SSL_ERROR_WANT_READ pass. *)
CheckError(c) == [c EXCEPT !.error = c.s.failed]

write_input(c, writing) ==
  IF writing THEN Then([c EXCEPT !.s = SSL_write(@)], CheckError) ELSE c

(* Mutant of read_output: the engine is read until it has no more, into a  *)
(* new buffer each time.                                                   *)
read_output_last(c) ==
  IF c.error \/ Pending(c.s) = 0
    THEN c
    ELSE LET first == SSL_read(c.s, Pending(c.s))
             second == SSL_read(first.s, Pending(first.s))
             r == IF Pending(first.s) = 0 \/ second.status < 0 THEN first ELSE second
         IN  CheckError([c EXCEPT !.s = IF Pending(first.s) = 0 THEN first.s ELSE second.s,
                                  !.read_output_size = r.status,
                                  !.read_output = r.bytes])

(* BIO_read's result is the size, as it is: -1 when there is no data. *)
read_output(c) ==
  IF c.error \/ Pending(c.s) = 0
    THEN c
    ELSE Then(SSL_read(c.s, Pending(c.s)),
              LAMBDA r : CheckError([c EXCEPT !.s = r.s,
                                              !.read_output_size = r.status,
                                              !.read_output = r.bytes]))

(* Mutant of read_input: all of the input counts as read. *)
read_input_all(c, input) ==
  IF c.error
    THEN c
    ELSE LET n == Least(BufferSize - Len(c.s.in), Len(input))
         IN  [c EXCEPT !.read_size = Len(input), !.s.in = @ \o FirstBytes(input, n)]

(* What there is room for; 0 if there is none, or no input. *)
read_input(c, input) ==
  IF c.error
    THEN c
    ELSE LET n == Least(BufferSize - Len(c.s.in), Len(input))
         IN  [c EXCEPT !.read_size = n, !.s.in = @ \o FirstBytes(input, n)]

(* Mutant of take_output: only a call that has read something looks for    *)
(* output.                                                                 *)
take_output_after_read(c) ==
  IF c.error \/ c.read_size = 0
    THEN c
    ELSE [c EXCEPT !.write_output = c.s.out, !.s.out = << >>]

take_output(c) ==
  IF c.error
    THEN c
    ELSE [c EXCEPT !.write_output = c.s.out, !.s.out = << >>]

read_write(s, input, writing) ==
  Then(Then(Then(write_input(Called(s), writing), read_output),
            LAMBDA c : read_input(c, input)),
       take_output)
=============================================================================
