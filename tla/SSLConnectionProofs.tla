------------------------- MODULE SSLConnectionProofs -------------------------
(***************************************************************************)
(* Proofs about two SSL sessions that talk to each other, for flights,     *)
(* payloads and queues of any size and any number of payloads.             *)
(*                                                                         *)
(* The invariant says what an engine has made and what it has taken.  What *)
(* it has made is the beginning of a script (its two flights, then records *)
(* 1, 2, ... of data) as long as its flight and its writes call for, or    *)
(* the alert of a server that refused; what it has taken of its peer's     *)
(* script ends flight records or data records where flight and part say,   *)
(* and its side has read the payloads of the records before.  The bytes    *)
(* that are made and not yet taken lie, in order, in the input queue, on   *)
(* the way, and in the output queue.                                       *)
(*                                                                         *)
(* One lemma per operation of the session (SSL_do_handshake, Decrypt,      *)
(* SSL_read, SSL_write and the four parts of read_write) says what it does *)
(* to an engine for which this holds; IncomingIs says that neither side    *)
(* can be ahead of what the other has sent, and WaitingCall that the loop  *)
(* of ClientConnection's on_read ends with its first iteration.            *)
(***************************************************************************)
EXTENDS SSLConnection, Recursion, SequenceTheorems

Records == {Flight(n) : n \in Nat} \cup {Data(n) : n \in Nat} \cup {Alert}

Byte == [record : Records, place : Nat]

EngineType ==
  [in : Seq(Byte), out : Seq(Byte), part : Nat, plain : Seq(Byte), flight : Nat,
   usable : BOOLEAN, failed : BOOLEAN, writes : Nat, taken : Nat, made : Seq(Byte)]

(* The bytes before the record of data k + 1. *)
At(k) == 2 * FlightLen + k * (PayloadLen + 1)

-----------------------------------------------------------------------------
(* The bytes behind the first n. *)
LEMMA Behind ==
  ASSUME NEW S, NEW s \in Seq(S), NEW n \in Nat, n <= Len(s)
  PROVE  /\ BytesBehind(s, n) \in Seq(S)
         /\ Len(BytesBehind(s, n)) = Len(s) - n
         /\ \A i \in 1..(Len(s) - n) : BytesBehind(s, n)[i] = s[n + i]
<1>1. \A i \in (n + 1)..Len(s) : s[i] \in S
  OBVIOUS
<1>2. n + 1 \in Int /\ Len(s) \in Int
  OBVIOUS
<1>3. /\ SubSeq(s, n + 1, Len(s)) \in Seq(S)
      /\ Len(SubSeq(s, n + 1, Len(s))) = IF n + 1 <= Len(s) THEN Len(s) - (n + 1) + 1 ELSE 0
      /\ \A i \in 1..(Len(s) - (n + 1) + 1) : SubSeq(s, n + 1, Len(s))[i] = s[(n + 1) + i - 1]
  BY <1>1, <1>2, SubSeqProperties
<1>4. ASSUME NEW i \in 1..(Len(s) - n) PROVE SubSeq(s, n + 1, Len(s))[i] = s[n + i]
  <2>1. i \in 1..(Len(s) - (n + 1) + 1) /\ (n + 1) + i - 1 = n + i
    OBVIOUS
  <2> QED
    BY <1>3, <2>1
<1> QED
  BY <1>3, <1>4 DEF BytesBehind

(* The first n bytes. *)
LEMMA InFront ==
  ASSUME NEW S, NEW s \in Seq(S), NEW n \in Nat, n <= Len(s)
  PROVE  /\ FirstBytes(s, n) \in Seq(S)
         /\ Len(FirstBytes(s, n)) = n
         /\ \A i \in 1..n : FirstBytes(s, n)[i] = s[i]
<1>1. ASSUME NEW i \in 1..n PROVE s[i] \in S
  <2>1. i \in 1..Len(s)
    OBVIOUS
  <2> QED
    BY <2>1, ElementOfSeq
<1>3. /\ SubSeq(s, 1, n) \in Seq(S)
      /\ Len(SubSeq(s, 1, n)) = IF 1 <= n THEN n - 1 + 1 ELSE 0
      /\ \A i \in 1..(n - 1 + 1) : SubSeq(s, 1, n)[i] = s[1 + i - 1]
  BY <1>1, SubSeqProperties
<1>4. ASSUME NEW i \in 1..n PROVE SubSeq(s, 1, n)[i] = s[i]
  <2>1. i \in 1..(n - 1 + 1) /\ 1 + i - 1 = i
    OBVIOUS
  <2> QED
    BY <1>3, <2>1
<1>5. Len(SubSeq(s, 1, n)) = n
  BY <1>3
<1> QED
  BY <1>3, <1>4, <1>5 DEF FirstBytes

(* Bytes may be put together in any order of steps. *)
LEMMA Assoc ==
  ASSUME NEW a \in Seq(Byte), NEW b \in Seq(Byte), NEW c \in Seq(Byte)
  PROVE  (a \o b) \o c = a \o (b \o c)
BY ConcatAssociative

(* What is in front and what is behind make up the whole. *)
LEMMA FrontBehind ==
  ASSUME NEW S, NEW s \in Seq(S), NEW n \in Nat, n <= Len(s)
  PROVE  FirstBytes(s, n) \o BytesBehind(s, n) = s
<1>1. /\ 1 \in 1..(Len(s) + 1) /\ n \in (1 - 1)..Len(s) /\ Len(s) \in n..Len(s)
  OBVIOUS
<1>2. SubSeq(s, 1, n) \o SubSeq(s, n + 1, Len(s)) = SubSeq(s, 1, Len(s))
  BY <1>1, ConcatAdjacentSubSeq
<1>3. SubSeq(s, 1, Len(s)) = s
  BY SubSeqFull
<1> QED
  BY <1>2, <1>3 DEF FirstBytes, BytesBehind

(* The bytes at the front that belong to a record. *)
LEMMA LeadingIs ==
  ASSUME NEW S, NEW s \in Seq(S), NEW record, NEW n \in Nat, n <= Len(s),
         \A i \in 1..n : s[i].record = record,
         n < Len(s) => s[n + 1].record # record
  PROVE  Leading(s, record) = n
<1> DEFINE Is(m) == /\ \A i \in 1..m : s[i].record = record
                    /\ m < Len(s) => s[m + 1].record # record
<1>1. n \in 0..Len(s) /\ Is(n)
  OBVIOUS
<1>2. ASSUME NEW m \in 0..Len(s), Is(m) PROVE m = n
  <2>1. ~(m < n)
    <3> SUFFICES ASSUME m < n PROVE FALSE
      OBVIOUS
    <3>1. m + 1 \in 1..n /\ m < Len(s)
      OBVIOUS
    <3> QED
      BY <1>2, <3>1
  <2>2. ~(n < m)
    <3> SUFFICES ASSUME n < m PROVE FALSE
      OBVIOUS
    <3>1. n + 1 \in 1..m /\ n < Len(s)
      OBVIOUS
    <3> QED
      BY <1>2, <3>1
  <2> QED
    BY <2>1, <2>2
<1>3. Leading(s, record) = CHOOSE m \in 0..Len(s) : Is(m)
  BY DEF Leading
<1> HIDE DEF Is
<1> QED
  BY <1>1, <1>2, <1>3

-----------------------------------------------------------------------------
(* Where the records of data begin. *)
LEMMA AtFacts ==
  /\ At(0) = FlightLen + FlightLen
  /\ \A k \in Nat : /\ At(k) \in Nat
                    /\ At(k) >= FlightLen + FlightLen
                    /\ At(k + 1) = At(k) + PayloadLen + 1
<1>1. FlightLen \in Nat /\ PayloadLen \in Nat
  BY SSLAssumption
<1>2. At(0) = FlightLen + FlightLen
  BY <1>1 DEF At
<1>3. ASSUME NEW k \in Nat
      PROVE  /\ At(k) \in Nat
             /\ At(k) >= FlightLen + FlightLen
             /\ At(k + 1) = At(k) + PayloadLen + 1
  <2>1. k * (PayloadLen + 1) \in Nat
    BY <1>1
  <2>2. (k + 1) * (PayloadLen + 1) = k * (PayloadLen + 1) + (PayloadLen + 1)
    BY <1>1
  <2> QED
    BY <1>1, <2>1, <2>2 DEF At
<1> QED
  BY <1>2, <1>3

(* Their order. *)
LEMMA AtOrder ==
  ASSUME NEW k \in Nat, NEW n \in Nat, k <= n
  PROVE  At(k) <= At(n)
<1>1. FlightLen \in Nat /\ PayloadLen \in Nat
  BY SSLAssumption
<1>2. PICK d \in Nat : n = k + d
  <2>1. n - k \in Nat /\ n = k + (n - k)
    OBVIOUS
  <2> QED
    BY <2>1
<1>3. (k + d) * (PayloadLen + 1) = k * (PayloadLen + 1) + d * (PayloadLen + 1)
  BY <1>1
<1>4. k * (PayloadLen + 1) \in Nat /\ d * (PayloadLen + 1) \in Nat
  BY <1>1
<1> QED
  BY <1>1, <1>2, <1>3, <1>4 DEF At

(* The record that a position lies in is the only one. *)
LEMMA AtUnique ==
  ASSUME NEW k \in Nat, NEW n \in Nat, NEW i \in Nat, NEW j \in Nat,
         j < PayloadLen + 1, i < PayloadLen + 1, At(k) + i <= At(n) + j
  PROVE  k <= n
<1> SUFFICES ASSUME n + 1 <= k PROVE FALSE
  OBVIOUS
<1>1. PayloadLen \in Nat
  BY SSLAssumption
<1>2. n + 1 \in Nat /\ At(n + 1) <= At(k)
  BY AtOrder
<1>3. At(n + 1) = At(n) + PayloadLen + 1 /\ At(n) \in Nat /\ At(k) \in Nat
  BY AtFacts
<1> QED
  BY <1>1, <1>2, <1>3

-----------------------------------------------------------------------------
(* The bytes of a record. *)
LEMMA BytesAre ==
  ASSUME NEW record \in Records, NEW n \in Nat
  PROVE  /\ BytesUpTo(record, n) \in Seq(Byte)
         /\ Len(BytesUpTo(record, n)) = n
         /\ \A i \in 1..n : BytesUpTo(record, n)[i] = [record |-> record, place |-> i]
<1>1. \A i \in 1..n : [record |-> record, place |-> i] \in Byte
  BY DEF Byte
<1> QED
  BY <1>1 DEF BytesUpTo

(* The records differ, and each has its length. *)
LEMMA RecordsAre ==
  /\ \A n \in Nat : Flight(n) \in Records /\ Data(n) \in Records
  /\ Alert \in Records
  /\ \A n, k \in Nat : Flight(n) # Data(k) /\ Flight(n) # Alert /\ Data(k) # Alert
  /\ \A n, k \in Nat : Flight(n) = Flight(k) => n = k
  /\ \A n, k \in Nat : Data(n) = Data(k) => n = k
  /\ \A n \in Nat : Length(Flight(n)) = FlightLen /\ Length(Data(n)) = PayloadLen + 1
  /\ Length(Alert) = 1
<1>1. /\ \A n \in Nat : Flight(n) \in Records /\ Data(n) \in Records
      /\ Alert \in Records
  BY DEF Records
<1>2. /\ \A n, k \in Nat : Flight(n) # Data(k) /\ Flight(n) # Alert /\ Data(k) # Alert
      /\ \A n, k \in Nat : Flight(n) = Flight(k) => n = k
      /\ \A n, k \in Nat : Data(n) = Data(k) => n = k
  BY DEF Flight, Data, Alert
<1>3. /\ \A n \in Nat : Length(Flight(n)) = FlightLen /\ Length(Data(n)) = PayloadLen + 1
      /\ Length(Alert) = 1
  BY DEF Length, Flight, Data, Alert
<1> QED
  BY <1>1, <1>2, <1>3

(* The bytes of a flight, of a record of data, of an alert, and a payload. *)
LEMMA WholeRecords ==
  /\ \A n \in Nat : /\ BytesOf(Flight(n)) \in Seq(Byte)
                    /\ Len(BytesOf(Flight(n))) = FlightLen
                    /\ \A i \in 1..FlightLen :
                         BytesOf(Flight(n))[i] = [record |-> Flight(n), place |-> i]
  /\ \A n \in Nat : /\ BytesOf(Data(n)) \in Seq(Byte)
                    /\ Len(BytesOf(Data(n))) = PayloadLen + 1
                    /\ \A i \in 1..(PayloadLen + 1) :
                         BytesOf(Data(n))[i] = [record |-> Data(n), place |-> i]
  /\ \A n \in Nat : /\ Payload(Data(n)) \in Seq(Byte)
                    /\ Len(Payload(Data(n))) = PayloadLen
  /\ BytesOf(Alert) \in Seq(Byte)
  /\ Len(BytesOf(Alert)) = 1
  /\ BytesOf(Alert)[1] = [record |-> Alert, place |-> 1]
<1>1. FlightLen \in Nat /\ PayloadLen \in Nat /\ PayloadLen + 1 \in Nat
  BY SSLAssumption
<1>2. ASSUME NEW n \in Nat
      PROVE  /\ BytesOf(Flight(n)) \in Seq(Byte)
             /\ Len(BytesOf(Flight(n))) = FlightLen
             /\ \A i \in 1..FlightLen :
                  BytesOf(Flight(n))[i] = [record |-> Flight(n), place |-> i]
  <2>1. BytesOf(Flight(n)) = BytesUpTo(Flight(n), FlightLen) /\ Flight(n) \in Records
    BY RecordsAre DEF BytesOf
  <2>2. /\ BytesUpTo(Flight(n), FlightLen) \in Seq(Byte)
        /\ Len(BytesUpTo(Flight(n), FlightLen)) = FlightLen
        /\ \A i \in 1..FlightLen : BytesUpTo(Flight(n), FlightLen)[i] = [record |-> Flight(n), place |-> i]
    BY <1>1, <2>1, BytesAre
  <2> QED
    BY <2>1, <2>2
<1>3. ASSUME NEW n \in Nat
      PROVE  /\ BytesOf(Data(n)) \in Seq(Byte)
             /\ Len(BytesOf(Data(n))) = PayloadLen + 1
             /\ \A i \in 1..(PayloadLen + 1) :
                  BytesOf(Data(n))[i] = [record |-> Data(n), place |-> i]
  <2>1. BytesOf(Data(n)) = BytesUpTo(Data(n), PayloadLen + 1) /\ Data(n) \in Records
    BY RecordsAre DEF BytesOf
  <2> QED
    BY <1>1, <2>1, BytesAre
<1>4. ASSUME NEW n \in Nat
      PROVE  Payload(Data(n)) \in Seq(Byte) /\ Len(Payload(Data(n))) = PayloadLen
  BY <1>1, BytesAre, RecordsAre DEF Payload
<1>5. /\ BytesOf(Alert) \in Seq(Byte)
      /\ Len(BytesOf(Alert)) = 1
      /\ BytesOf(Alert)[1] = [record |-> Alert, place |-> 1]
  <2>1. BytesOf(Alert) = BytesUpTo(Alert, 1) /\ Alert \in Records
    BY RecordsAre DEF BytesOf
  <2>2. /\ BytesUpTo(Alert, 1) \in Seq(Byte)
        /\ Len(BytesUpTo(Alert, 1)) = 1
        /\ \A i \in 1..1 : BytesUpTo(Alert, 1)[i] = [record |-> Alert, place |-> i]
    BY <1>1, <2>1, BytesAre
  <2> QED
    BY <2>1, <2>2
<1> QED
  BY <1>2, <1>3, <1>4, <1>5

-----------------------------------------------------------------------------
(* What the first k records of data carry. *)
Paid(k) == FlattenSeq([n \in 1..k |-> Payload(Data(n))])

(* f puts the first k payloads together. *)
Joins(f, k) ==
  /\ f \in [1..k -> Seq(Byte)]
  /\ \A i \in 1..k : f[i] = IF i = 1 THEN Payload(Data(i)) ELSE f[i - 1] \o Payload(Data(i))

(* There is such a function. *)
LEMMA JoinsExist ==
  ASSUME NEW k \in Nat
  PROVE  \E f : Joins(f, k)
<1> DEFINE step == [i \in 1..k |-> [s \in Seq(Byte) |-> s \o Payload(Data(i))]]
<1>1. step \in [1..k -> [Seq(Byte) -> Seq(Byte)]]
  <2>1. ASSUME NEW i \in 1..k, NEW s \in Seq(Byte) PROVE s \o Payload(Data(i)) \in Seq(Byte)
    <3>1. Payload(Data(i)) \in Seq(Byte)
      BY WholeRecords
    <3> QED
      BY <3>1
  <2> QED
    BY <2>1
<1>2. << >> \in Seq(Byte)
  OBVIOUS
<1>3. \E f : Iterated(f, Seq(Byte), << >>, k, step)
  <2> HIDE DEF step
  <2> QED
    BY <1>1, <1>2, Iterates
<1>4. PICK f : Iterated(f, Seq(Byte), << >>, k, step)
  BY <1>3
<1>5. /\ f \in [0..k -> Seq(Byte)]
      /\ f[0] = << >>
      /\ \A i \in 1..k : f[i] = step[i][f[i - 1]]
  <2> HIDE DEF step
  <2> QED
    BY <1>4 DEF Iterated
<1>6. PICK g : g = [i \in 1..k |-> f[i]]
  OBVIOUS
<1>7. ASSUME NEW i \in 1..k
      PROVE  g[i] = IF i = 1 THEN Payload(Data(i)) ELSE g[i - 1] \o Payload(Data(i))
  <2>1. i - 1 \in 0..k /\ f[i - 1] \in Seq(Byte)
    BY <1>5
  <2>2. f[i] = f[i - 1] \o Payload(Data(i))
    BY <1>5, <2>1
  <2>3. Payload(Data(i)) \in Seq(Byte)
    BY WholeRecords
  <2>4. CASE i = 1
    <3>0. f[i - 1] = << >>
      BY <1>5, <2>4
    <3>1. f[i] = << >> \o Payload(Data(i))
      BY <2>2, <3>0
    <3> QED
      BY <1>6, <2>3, <2>4, <3>1, ConcatEmptySeq
  <2>5. CASE i # 1
    <3>1. i - 1 \in 1..k
      BY <2>5
    <3> QED
      BY <1>6, <2>2, <2>5, <3>1
  <2> QED
    BY <2>4, <2>5
<1>8. g \in [1..k -> Seq(Byte)]
  BY <1>5, <1>6
<1> QED
  BY <1>7, <1>8 DEF Joins

(* It is the only one, as far as it goes. *)
LEMMA JoinsUnique ==
  ASSUME NEW k \in Nat, NEW n \in Nat, k <= n, NEW f, Joins(f, k), NEW g, Joins(g, n)
  PROVE  \A i \in 1..k : f[i] = g[i]
<1> DEFINE S == {i \in 0..k : i = 0 \/ f[i] = g[i]}
<1>1. 0 \in S
  OBVIOUS
<1>2. ASSUME NEW i \in 1..k, i - 1 \in S PROVE i \in S
  <2>1. /\ f[i] = IF i = 1 THEN Payload(Data(i)) ELSE f[i - 1] \o Payload(Data(i))
        /\ g[i] = IF i = 1 THEN Payload(Data(i)) ELSE g[i - 1] \o Payload(Data(i))
    <3>1. i \in 1..n
      OBVIOUS
    <3> QED
      BY <3>1 DEF Joins
  <2>2. i = 1 \/ f[i - 1] = g[i - 1]
    BY <1>2
  <2> QED
    BY <2>1, <2>2
<1>3. \A i \in 0..k : i \in S
  <2> HIDE DEF S
  <2> QED
    BY <1>1, <1>2, UpTo
<1> QED
  BY <1>3

(* FlattenSeq puts the payloads together. *)
LEMMA PaidIs ==
  ASSUME NEW k \in Nat \ {0}, NEW f, Joins(f, k)
  PROVE  Paid(k) = f[k]
<1>1. PICK seqs : seqs = [n \in 1..k |-> Payload(Data(n))]
  OBVIOUS
<1>2. Len(seqs) = k /\ DOMAIN seqs = 1..k
  <2>1. \A n \in 1..k : Payload(Data(n)) \in Seq(Byte)
    BY WholeRecords
  <2>2. seqs \in Seq(Seq(Byte))
    BY <1>1, <2>1
  <2> QED
    BY <1>1, <2>2
<1> DEFINE Eq(h) == h = [i \in 1..k |-> IF i = 1 THEN seqs[i] ELSE h[i - 1] \o seqs[i]]
           e == CHOOSE h : Eq(h)
<1>3. Paid(k) = e[k]
  <2>1. Paid(k) = FlattenSeq(seqs)
    BY <1>1 DEF Paid
  <2>2. Len(seqs) # 0
    BY <1>2
  <2>3. FlattenSeq(seqs) =
          (CHOOSE h : h = [i \in 1..Len(seqs) |-> IF i = 1 THEN seqs[i] ELSE h[i - 1] \o seqs[i]])[Len(seqs)]
    BY <2>2, Zenon DEF FlattenSeq
  <2> QED
    BY <1>2, <2>1, <2>3, Zenon
<1>4. Eq(f)
  <2>1. f \in [1..k -> Seq(Byte)] /\ DOMAIN f = 1..k
    BY DEF Joins
  <2>2. ASSUME NEW i \in 1..k PROVE f[i] = IF i = 1 THEN seqs[i] ELSE f[i - 1] \o seqs[i]
    BY <1>1 DEF Joins
  <2> QED
    BY <2>1, <2>2
<1>5. Eq(e)
  <2> HIDE DEF Eq
  <2> QED
    BY <1>4
<1>6. ASSUME NEW i \in 1..k
      PROVE  e[i] = IF i = 1 THEN Payload(Data(i)) ELSE e[i - 1] \o Payload(Data(i))
  <2> HIDE DEF e
  <2> QED
    BY <1>1, <1>5
<1> DEFINE S == {i \in 0..k : i = 0 \/ e[i] = f[i]}
<1>7. 0 \in S
  OBVIOUS
<1>8. ASSUME NEW i \in 1..k, i - 1 \in S PROVE i \in S
  <2> HIDE DEF e
  <2>1. f[i] = IF i = 1 THEN Payload(Data(i)) ELSE f[i - 1] \o Payload(Data(i))
    BY DEF Joins
  <2> QED
    BY <1>6, <1>8, <2>1
<1>9. \A i \in 0..k : i \in S
  <2> HIDE DEF S
  <2> QED
    BY <1>7, <1>8, UpTo
<1> HIDE DEF e
<1> QED
  BY <1>3, <1>9

(* The payloads, one by one. *)
LEMMA PaidFacts ==
  /\ Paid(0) = << >>
  /\ \A k \in Nat : /\ Paid(k) \in Seq(Byte)
                    /\ Paid(k + 1) = Paid(k) \o Payload(Data(k + 1))
<1>1. Paid(0) = << >>
  <2>1. [n \in 1..0 |-> Payload(Data(n))] = << >>
    OBVIOUS
  <2>2. PICK none : none = << >>
    OBVIOUS
  <2>3. FlattenSeq(none) = none
    BY <2>2 DEF FlattenSeq
  <2> QED
    BY <2>1, <2>2, <2>3 DEF Paid
<1>2. ASSUME NEW k \in Nat
      PROVE  Paid(k) \in Seq(Byte) /\ Paid(k + 1) = Paid(k) \o Payload(Data(k + 1))
  <2>1. PICK f : Joins(f, k)
    BY JoinsExist
  <2>2. k + 1 \in Nat \ {0} /\ k <= k + 1
    OBVIOUS
  <2>3. PICK g : Joins(g, k + 1)
    BY <2>2, JoinsExist
  <2>4. Paid(k + 1) = g[k + 1]
    BY <2>2, <2>3, PaidIs
  <2>5. g[k + 1] = IF k + 1 = 1 THEN Payload(Data(k + 1)) ELSE g[(k + 1) - 1] \o Payload(Data(k + 1))
    <3>1. k + 1 \in 1..(k + 1)
      OBVIOUS
    <3> QED
      BY <2>3, <3>1 DEF Joins
  <2>6. Payload(Data(k + 1)) \in Seq(Byte)
    BY <2>2, WholeRecords
  <2>7. CASE k = 0
    <3>1. << >> \o Payload(Data(k + 1)) = Payload(Data(k + 1))
      BY <2>6, ConcatEmptySeq
    <3>2. Paid(k + 1) = Payload(Data(k + 1))
      BY <2>4, <2>5, <2>7
    <3>3. Paid(k) = << >> /\ << >> \in Seq(Byte)
      BY <1>1, <2>7
    <3> QED
      BY <3>1, <3>2, <3>3
  <2>8. CASE k # 0
    <3>1. k \in Nat \ {0} /\ k \in 1..k /\ (k + 1) - 1 = k /\ k + 1 # 1
      BY <2>8
    <3>2. Paid(k) = f[k]
      BY <2>1, <3>1, PaidIs
    <3>3. f[k] = g[k]
      BY <2>1, <2>2, <2>3, <3>1, JoinsUnique
    <3>4. f[k] \in Seq(Byte)
      BY <2>1, <3>1 DEF Joins
    <3>5. g[k + 1] = g[k] \o Payload(Data(k + 1))
      BY <2>5, <3>1
    <3> QED
      BY <2>4, <3>2, <3>3, <3>4, <3>5
  <2> QED
    BY <2>7, <2>8
<1> QED
  BY <1>1, <1>2

(* The payloads of the first k records come first among those of n. *)
LEMMA PaidPrefix ==
  ASSUME NEW k \in Nat, NEW n \in Nat, k <= n
  PROVE  IsPrefix(Paid(k), Paid(n))
<1> DEFINE S == {d \in Nat : \E rest \in Seq(Byte) : Paid(k + d) = Paid(k) \o rest}
<1>1. Paid(k) \in Seq(Byte)
  BY PaidFacts
<1>2. 0 \in S
  <2>1. k + 0 = k /\ << >> \in Seq(Byte) /\ Paid(k) \o << >> = Paid(k)
    BY <1>1, ConcatEmptySeq
  <2> QED
    BY <2>1
<1>3. ASSUME NEW d \in S PROVE d + 1 \in S
  <2>1. d \in Nat /\ d + 1 \in Nat /\ k + (d + 1) = (k + d) + 1 /\ k + d \in Nat /\ (k + d) + 1 \in Nat
    OBVIOUS
  <2>2. PICK rest \in Seq(Byte) : Paid(k + d) = Paid(k) \o rest
    BY <1>3
  <2>3. PICK p \in Seq(Byte) : p = Payload(Data((k + d) + 1))
    BY <2>1, WholeRecords
  <2>4. Paid((k + d) + 1) = Paid(k + d) \o p
    BY <2>1, <2>3, PaidFacts
  <2>5. (Paid(k) \o rest) \o p = Paid(k) \o (rest \o p)
    BY <1>1, ConcatAssociative, SMTT(30)
  <2>6. rest \o p \in Seq(Byte)
    OBVIOUS
  <2>7. Paid(k + (d + 1)) = Paid(k) \o (rest \o p)
    BY <2>1, <2>2, <2>4, <2>5
  <2> QED
    BY <2>1, <2>6, <2>7
<1>4. S = Nat
  <2>1. S \in SUBSET Nat
    OBVIOUS
  <2> HIDE DEF S
  <2> QED
    BY <1>2, <1>3, <2>1, SetInduction
<1>5. n - k \in Nat /\ k + (n - k) = n
  OBVIOUS
<1>6. PICK rest \in Seq(Byte) : Paid(n) = Paid(k) \o rest
  <2>1. n - k \in S
    BY <1>4, <1>5
  <2> QED
    BY <1>5, <2>1
<1>7. PICK a \in Seq(Byte) : a = Paid(k)
  BY <1>1
<1>8. Len(a) <= Len(a \o rest) /\ SubSeq(a, 1, Len(a)) = SubSeq(a \o rest, 1, Len(a))
  OBVIOUS
<1> QED
  BY <1>6, <1>7, <1>8 DEF IsPrefix

-----------------------------------------------------------------------------
(* The first flight of each side; its second comes two later. *)
FirstFlight(side) == IF side = "client" THEN 1 ELSE 2

(* The flights up to which a side can have come. *)
Stages(side) == IF side = "client" THEN {1, 3, 4} ELSE {0, 2, 4}

(* The bytes of the flights that a side has sent, and received, when it    *)
(* has come as far as flight f.                                            *)
Gave(f) == IF f = 0 THEN 0 ELSE IF f \in {1, 2} THEN FlightLen ELSE FlightLen + FlightLen
Got(f) == IF f \in {0, 1} THEN 0 ELSE IF f \in {2, 3} THEN FlightLen ELSE FlightLen + FlightLen

(* m is the beginning of two flights of a side and of records 1, 2, ...    *)
Script(side, m) ==
  /\ \A i \in 1..Len(m) :
       i <= FlightLen => m[i] = [record |-> Flight(FirstFlight(side)), place |-> i]
  /\ \A i \in 1..Len(m) :
       i > FlightLen /\ i <= FlightLen + FlightLen =>
         m[i] = [record |-> Flight(FirstFlight(side) + 2), place |-> i - FlightLen]
  /\ \A k \in Nat : \A j \in 1..(PayloadLen + 1) :
       At(k) + j <= Len(m) => m[At(k) + j] = [record |-> Data(k + 1), place |-> j]

(* What an engine has made. *)
Making(side, e) ==
  /\ e.flight \in Stages(side)
  /\ side = "client" => e.usable
  /\ ~e.usable => e.flight = 0
  /\ e.failed => e.flight \in {0, 1}
  /\ e.flight # 4 => e.writes = 0
  /\ IF e.failed /\ side = "server"
       THEN ~e.usable /\ e.made = BytesOf(Alert)
       ELSE /\ Script(side, e.made)
            /\ Len(e.made) = IF e.flight = 4 THEN At(e.writes) ELSE Gave(e.flight)

(* What it has taken of the bytes m that its peer has made, and rd that    *)
(* its side has read.                                                      *)
Taking(side, e, m, rd) ==
  /\ e.taken + Len(e.in) <= Len(m)
  /\ \A i \in 1..Len(e.in) : e.in[i] = m[e.taken + i]
  /\ e.flight = 4 =>
       /\ e.part < PayloadLen + 1
       /\ \E k \in Nat : e.taken = At(k) + e.part /\ rd \o e.plain = Paid(k)
  /\ e.flight # 4 => rd = << >> /\ e.plain = << >>
  /\ e.flight # 4 /\ ~e.failed => e.taken = Got(e.flight) + e.part /\ e.part < FlightLen
  /\ e.failed => IF side = "server" THEN e.taken = FlightLen ELSE m = BytesOf(Alert)
  /\ m = BytesOf(Alert) => e.flight = 1 /\ (e.failed \/ e.taken = 0)

(* What its peer may have made: the next flight at most. *)
Incoming(side, e, m) ==
  /\ Script(Peer(side), m) \/ (side = "client" /\ m = BytesOf(Alert))
  /\ e.flight \in {0, 1} => Len(m) <= FlightLen
  /\ e.flight = 2 => Len(m) <= FlightLen + FlightLen

EngineOK(side, e, m, rd) ==
  e \in EngineType /\ Making(side, e) /\ Taking(side, e, m, rd)

(* It has done what it can of the handshake. *)
Settled(e) == e.flight = 4 \/ e.failed \/ e.in = << >>

(* It has put at most n bytes more in its output queue. *)
Grown(e, t, n) ==
  \E b \in Seq(Byte) : Len(b) <= n /\ t.out = e.out \o b /\ t.made = e.made \o b

-----------------------------------------------------------------------------
(* Taking bytes from the input queue. *)
LEMMA TakeBytesIs ==
  ASSUME NEW e \in EngineType, NEW n \in Nat, n <= Len(e.in), NEW part \in Nat
  PROVE  /\ TakeBytes(e, n, part) \in EngineType
         /\ TakeBytes(e, n, part).in = BytesBehind(e.in, n)
         /\ TakeBytes(e, n, part).taken = e.taken + n
         /\ TakeBytes(e, n, part).part = part
         /\ TakeBytes(e, n, part).out = e.out
         /\ TakeBytes(e, n, part).made = e.made
         /\ TakeBytes(e, n, part).plain = e.plain
         /\ TakeBytes(e, n, part).flight = e.flight
         /\ TakeBytes(e, n, part).usable = e.usable
         /\ TakeBytes(e, n, part).failed = e.failed
         /\ TakeBytes(e, n, part).writes = e.writes
<1>1. e.in \in Seq(Byte) /\ e.taken \in Nat
  BY DEF EngineType
<1>2. PICK b \in Seq(Byte) : b = BytesBehind(e.in, n)
  BY <1>1, Behind
<1>3. PICK k \in Nat : k = e.taken + n
  BY <1>1
<1>4. TakeBytes(e, n, part) = [e EXCEPT !.in = b, !.taken = k, !.part = part]
  BY <1>2, <1>3 DEF TakeBytes
<1> QED
  BY <1>2, <1>3, <1>4 DEF EngineType

(* Putting bytes in the output queue. *)
LEMMA EmitIs ==
  ASSUME NEW e \in EngineType, NEW b \in Seq(Byte)
  PROVE  /\ Emit(e, b) \in EngineType
         /\ Emit(e, b).out = e.out \o b
         /\ Emit(e, b).made = e.made \o b
         /\ Emit(e, b).in = e.in
         /\ Emit(e, b).taken = e.taken
         /\ Emit(e, b).part = e.part
         /\ Emit(e, b).plain = e.plain
         /\ Emit(e, b).flight = e.flight
         /\ Emit(e, b).usable = e.usable
         /\ Emit(e, b).failed = e.failed
         /\ Emit(e, b).writes = e.writes
<1>1. e.out \in Seq(Byte) /\ e.made \in Seq(Byte)
  BY DEF EngineType
<1>2. PICK o \in Seq(Byte) : o = e.out \o b
  BY <1>1, ConcatProperties
<1>3. PICK k \in Seq(Byte) : k = e.made \o b
  BY <1>1, ConcatProperties
<1>4. Emit(e, b) = [e EXCEPT !.out = o, !.made = k]
  BY <1>2, <1>3 DEF Emit
<1> QED
  BY <1>2, <1>3, <1>4 DEF EngineType

(* A flight is complete, and the engine has to refuse. *)
LEMMA ReceivedRefused ==
  ASSUME NEW e \in EngineType, ~e.usable
  PROVE  LET t == FlightReceived(e) IN
         /\ t \in EngineType
         /\ t.out = e.out \o BytesOf(Alert)
         /\ t.made = e.made \o BytesOf(Alert)
         /\ t.failed
         /\ t.in = e.in
         /\ t.taken = e.taken
         /\ t.part = e.part
         /\ t.plain = e.plain
         /\ t.flight = e.flight
         /\ t.usable = e.usable
         /\ t.writes = e.writes
<1>1. PICK f : f = [e EXCEPT !.failed = TRUE]
  OBVIOUS
<1>2. /\ f \in EngineType /\ f.failed /\ f.in = e.in /\ f.taken = e.taken /\ f.part = e.part
      /\ f.plain = e.plain /\ f.flight = e.flight /\ f.usable = e.usable /\ f.writes = e.writes
      /\ f.out = e.out /\ f.made = e.made
  BY <1>1 DEF EngineType
<1>3. FlightReceived(e) = Emit(f, BytesOf(Alert))
  BY <1>1 DEF FlightReceived
<1>4. PICK b \in Seq(Byte) : b = BytesOf(Alert)
  BY WholeRecords
<1>5. PICK t : t = Emit(f, b)
  OBVIOUS
<1>6. /\ t \in EngineType /\ t.failed = f.failed /\ t.in = f.in /\ t.taken = f.taken
      /\ t.part = f.part /\ t.plain = f.plain /\ t.usable = f.usable /\ t.writes = f.writes
      /\ t.out = f.out \o b /\ t.made = f.made \o b /\ t.flight = f.flight
  BY <1>2, <1>5, EmitIs
<1>7. t.out = e.out \o BytesOf(Alert) /\ t.made = e.made \o BytesOf(Alert)
  BY <1>2, <1>4, <1>6
<1> QED
  BY <1>2, <1>3, <1>4, <1>5, <1>6, <1>7

(* A flight is complete, and the engine sends its own. *)
LEMMA ReceivedNext ==
  ASSUME NEW e \in EngineType, e.usable, e.flight <= 2
  PROVE  LET t == FlightReceived(e) IN
         /\ t \in EngineType
         /\ t.out = e.out \o BytesOf(Flight(e.flight + 2))
         /\ t.made = e.made \o BytesOf(Flight(e.flight + 2))
         /\ t.flight = e.flight + 2
         /\ t.in = e.in
         /\ t.taken = e.taken
         /\ t.part = e.part
         /\ t.plain = e.plain
         /\ t.failed = e.failed
         /\ t.usable = e.usable
         /\ t.writes = e.writes
<1>1. e.flight \in Nat
  BY DEF EngineType
<1>2. PICK n \in Nat : n = e.flight + 2 /\ n <= Flights /\ Least(n, Flights) = n
  BY <1>1 DEF Flights, Least
<1>3. PICK b \in Seq(Byte) : b = BytesOf(Flight(n))
  BY <1>2, WholeRecords
<1>4. PICK f : f = Emit(e, b)
  OBVIOUS
<1>5. FlightReceived(e) = [f EXCEPT !.flight = n]
  BY <1>2, <1>3, <1>4 DEF FlightReceived
<1>6. /\ f \in EngineType /\ f.failed = e.failed /\ f.in = e.in /\ f.taken = e.taken
      /\ f.part = e.part /\ f.plain = e.plain /\ f.usable = e.usable /\ f.writes = e.writes
      /\ f.out = e.out \o b /\ f.made = e.made \o b
  BY <1>4, EmitIs
<1>7. PICK t : t = [f EXCEPT !.flight = n]
  OBVIOUS
<1>8. /\ t \in EngineType /\ t.failed = f.failed /\ t.in = f.in /\ t.taken = f.taken
      /\ t.part = f.part /\ t.plain = f.plain /\ t.usable = f.usable /\ t.writes = f.writes
      /\ t.out = f.out /\ t.made = f.made /\ t.flight = n
  BY <1>2, <1>6, <1>7 DEF EngineType
<1>9. /\ t.out = e.out \o BytesOf(Flight(e.flight + 2))
      /\ t.made = e.made \o BytesOf(Flight(e.flight + 2))
  BY <1>2, <1>3, <1>6, <1>8
<1> QED
  BY <1>2, <1>5, <1>6, <1>7, <1>8, <1>9

(* The last flight is complete. *)
LEMMA ReceivedLast ==
  ASSUME NEW e \in EngineType, e.usable, e.flight = 3
  PROVE  LET t == FlightReceived(e) IN
         /\ t \in EngineType
         /\ t.out = e.out
         /\ t.made = e.made
         /\ t.flight = 4
         /\ t.in = e.in
         /\ t.taken = e.taken
         /\ t.part = e.part
         /\ t.plain = e.plain
         /\ t.failed = e.failed
         /\ t.usable = e.usable
         /\ t.writes = e.writes
<1>1. ~(e.flight + 2 <= Flights) /\ Least(e.flight + 2, Flights) = 4
  BY DEF Flights, Least
<1>2. PICK b \in Seq(Byte) : b = << >>
  BY EmptySeq
<1>3. PICK f : f = Emit(e, b)
  OBVIOUS
<1>4. FlightReceived(e) = [f EXCEPT !.flight = 4]
  BY <1>1, <1>2, <1>3 DEF FlightReceived
<1>5. /\ f \in EngineType /\ f.failed = e.failed /\ f.in = e.in /\ f.taken = e.taken
      /\ f.part = e.part /\ f.plain = e.plain /\ f.usable = e.usable /\ f.writes = e.writes
      /\ f.out = e.out \o b /\ f.made = e.made \o b
  BY <1>3, EmitIs
<1>6. e.out \o b = e.out /\ e.made \o b = e.made
  <2>1. e.out \in Seq(Byte) /\ e.made \in Seq(Byte)
    BY DEF EngineType
  <2> QED
    BY <1>2, <2>1, ConcatEmptySeq
<1>7. PICK t : t = [f EXCEPT !.flight = 4]
  OBVIOUS
<1>8. /\ t \in EngineType /\ t.failed = f.failed /\ t.in = f.in /\ t.taken = f.taken
      /\ t.part = f.part /\ t.plain = f.plain /\ t.usable = f.usable /\ t.writes = f.writes
      /\ t.out = f.out /\ t.made = f.made /\ t.flight = 4
  BY <1>5, <1>7 DEF EngineType
<1> QED
  BY <1>4, <1>5, <1>6, <1>7, <1>8

-----------------------------------------------------------------------------
(* The bytes of a script: those of the first flight, *)
LEMMA ScriptFirst ==
  ASSUME NEW side, NEW m \in Seq(Byte), Script(side, m), NEW i \in 1..Len(m), i <= FlightLen
  PROVE  /\ m[i] = [record |-> Flight(FirstFlight(side)), place |-> i]
         /\ m[i].record = Flight(FirstFlight(side))
<1>1. m[i] = [record |-> Flight(FirstFlight(side)), place |-> i]
  BY DEF Script
<1> QED
  BY <1>1

(* those of the second, *)
LEMMA ScriptSecond ==
  ASSUME NEW side, NEW m \in Seq(Byte), Script(side, m), NEW i \in 1..Len(m),
         i > FlightLen, i <= FlightLen + FlightLen
  PROVE  /\ m[i] = [record |-> Flight(FirstFlight(side) + 2), place |-> i - FlightLen]
         /\ m[i].record = Flight(FirstFlight(side) + 2)
<1>1. m[i] = [record |-> Flight(FirstFlight(side) + 2), place |-> i - FlightLen]
  BY DEF Script
<1> QED
  BY <1>1

(* and those of the records of data. *)
LEMMA ScriptData ==
  ASSUME NEW side, NEW m \in Seq(Byte), Script(side, m),
         NEW k \in Nat, NEW j \in 1..(PayloadLen + 1), At(k) + j <= Len(m)
  PROVE  /\ m[At(k) + j] = [record |-> Data(k + 1), place |-> j]
         /\ m[At(k) + j].record = Data(k + 1)
<1>1. m[At(k) + j] = [record |-> Data(k + 1), place |-> j]
  BY DEF Script
<1> QED
  BY <1>1

(* The bytes of the flight that an engine waits for, in its input queue.   *)
LEMMA NextFlight ==
  ASSUME NEW side \in Sides, NEW m \in Seq(Byte), NEW rd,
         NEW e, EngineOK(side, e, m, rd), Script(Peer(side), m),
         e.flight # 4, ~e.failed
  PROVE  /\ e.flight + 1 \in Nat
         /\ Leading(e.in, Flight(e.flight + 1)) = Least(Len(e.in), FlightLen - e.part)
         /\ e.in # << >> => e.in[1].record = Flight(e.flight + 1)
<1>1. /\ e.in \in Seq(Byte) /\ e.taken \in Nat /\ e.part \in Nat /\ e.flight \in Nat
      /\ FlightLen \in Nat /\ Len(e.in) \in Nat /\ Len(m) \in Nat /\ PayloadLen \in Nat
  BY SSLAssumption DEF EngineOK, EngineType
<1>2. /\ e.taken = Got(e.flight) + e.part
      /\ e.part < FlightLen
      /\ e.taken + Len(e.in) <= Len(m)
      /\ \A i \in 1..Len(e.in) : e.in[i] = m[e.taken + i]
  BY DEF EngineOK, Taking
<1>3. e.flight \in Stages(side)
  BY DEF EngineOK, Making
<1>0. /\ Least(Len(e.in), FlightLen - e.part) \in Nat
      /\ Least(Len(e.in), FlightLen - e.part) <= Len(e.in)
      /\ Least(Len(e.in), FlightLen - e.part) <= FlightLen - e.part
      /\ Least(Len(e.in), FlightLen - e.part) < Len(e.in)
           => Least(Len(e.in), FlightLen - e.part) = FlightLen - e.part
  <2>1. \A a, c \in Nat : /\ Least(a, c) \in Nat /\ Least(a, c) <= a /\ Least(a, c) <= c
                          /\ Least(a, c) < a => Least(a, c) = c
    BY DEF Least
  <2>2. FlightLen - e.part \in Nat /\ Len(e.in) \in Nat
    BY <1>1, <1>2
  <2> QED
    BY <2>1, <2>2
<1>4. PICK n \in Nat : n = Least(Len(e.in), FlightLen - e.part)
  BY <1>0
<1>5. n <= Len(e.in) /\ n <= FlightLen - e.part /\ (n < Len(e.in) => n = FlightLen - e.part)
  BY <1>0, <1>4
<1>6. \/ Got(e.flight) = 0 /\ e.flight + 1 = FirstFlight(Peer(side))
      \/ Got(e.flight) = FlightLen /\ e.flight + 1 = FirstFlight(Peer(side)) + 2
  BY <1>3 DEF Got, Stages, FirstFlight, Peer, Sides
<1>7. ASSUME NEW i \in 1..Len(e.in), i <= FlightLen - e.part
      PROVE  e.in[i].record = Flight(e.flight + 1)
  <2>1. e.taken + i \in 1..Len(m) /\ e.in[i] = m[e.taken + i]
    BY <1>1, <1>2, SMTT(30)
  <2>2. CASE Got(e.flight) = 0 /\ e.flight + 1 = FirstFlight(Peer(side))
    <3>1. e.taken + i <= FlightLen
      BY <1>1, <1>2, <1>7, <2>2
    <3>2. m[e.taken + i].record = Flight(FirstFlight(Peer(side)))
      BY <2>1, <3>1, ScriptFirst
    <3> QED
      BY <2>1, <2>2, <3>2
  <2>3. CASE Got(e.flight) = FlightLen /\ e.flight + 1 = FirstFlight(Peer(side)) + 2
    <3>1. e.taken + i > FlightLen /\ e.taken + i <= FlightLen + FlightLen
      BY <1>1, <1>2, <1>7, <2>3, SMTT(30)
    <3>2. m[e.taken + i].record = Flight(FirstFlight(Peer(side)) + 2)
      BY <2>1, <3>1, ScriptSecond
    <3> QED
      BY <2>1, <2>3, <3>2
  <2> QED
    BY <1>6, <2>2, <2>3
<1>8. ASSUME n < Len(e.in) PROVE e.in[n + 1].record # Flight(e.flight + 1)
  <2>1. n + 1 \in 1..Len(e.in) /\ e.taken + (n + 1) \in 1..Len(m) /\ n = FlightLen - e.part
    <3>1. \A t, l, k, x \in Nat :
            t + l <= k /\ x < l => x + 1 \in 1..l /\ t + (x + 1) \in 1..k
      OBVIOUS
    <3>2. e.taken \in Nat /\ Len(e.in) \in Nat /\ Len(m) \in Nat
      BY <1>1, <1>2
    <3>3. e.taken + Len(e.in) <= Len(m)
      BY <1>2
    <3>4. n + 1 \in 1..Len(e.in) /\ e.taken + (n + 1) \in 1..Len(m)
      BY <1>8, <3>1, <3>2, <3>3
    <3>5. n = FlightLen - e.part
      BY <1>5, <1>8
    <3> QED
      BY <3>4, <3>5
  <2>2. e.in[n + 1] = m[e.taken + (n + 1)]
    BY <1>2, <2>1
  <2>3. CASE Got(e.flight) = 0 /\ e.flight + 1 = FirstFlight(Peer(side))
    <3>1. e.taken + (n + 1) = FlightLen + 1 /\ FlightLen + 1 <= FlightLen + FlightLen
      <4>1. FlightLen >= 1
        BY <1>1, SSLAssumption
      <4>2. e.taken = e.part /\ n = FlightLen - e.part
        BY <1>1, <1>2, <2>1, <2>3
      <4>3. \A p, q \in Nat : p + ((q - p) + 1) = q + 1
        OBVIOUS
      <4>4. e.taken + (n + 1) = FlightLen + 1
        BY <1>1, <4>2, <4>3
      <4> QED
        BY <1>1, <4>1, <4>4
    <3>2. m[FlightLen + 1].record = Flight(FirstFlight(Peer(side)) + 2)
      <4>1. FlightLen + 1 \in 1..Len(m) /\ FlightLen + 1 > FlightLen
        BY <1>1, <2>1, <3>1
      <4> QED
        BY <3>1, <4>1, ScriptSecond
    <3>3. e.in[n + 1].record = Flight(FirstFlight(Peer(side)) + 2)
      BY <2>2, <3>1, <3>2
    <3>4. /\ FirstFlight(Peer(side)) \in Nat /\ FirstFlight(Peer(side)) + 2 \in Nat
          /\ FirstFlight(Peer(side)) + 2 # FirstFlight(Peer(side))
      BY DEF FirstFlight
    <3> QED
      BY <2>3, <3>3, <3>4, RecordsAre
  <2>4. CASE Got(e.flight) = FlightLen /\ e.flight + 1 = FirstFlight(Peer(side)) + 2
    <3>1. e.taken + (n + 1) = At(0) + 1
      <4>1. At(0) = FlightLen + FlightLen
        BY AtFacts
      <4>2. e.taken = FlightLen + e.part /\ n = FlightLen - e.part
        BY <1>2, <2>1, <2>4
      <4>3. \A p, q \in Nat : (q + p) + ((q - p) + 1) = (q + q) + 1
        OBVIOUS
      <4>4. e.part \in Nat /\ FlightLen \in Nat
        BY <1>1
      <4>5. (FlightLen + e.part) + ((FlightLen - e.part) + 1) = (FlightLen + FlightLen) + 1
        BY <4>3, <4>4, Zenon
      <4>6. e.taken + (n + 1) = (FlightLen + FlightLen) + 1
        BY <4>2, <4>5
      <4> QED
        BY <4>1, <4>6
    <3>2. 1 \in 1..(PayloadLen + 1)
      BY <1>1
    <3>3. m[At(0) + 1].record = Data(0 + 1)
      <4>1. At(0) + 1 <= Len(m)
        BY <2>1, <3>1
      <4> QED
        BY <3>2, <4>1, ScriptData, ZenonT(60)
    <3>4. e.in[n + 1].record = Data(0 + 1)
      BY <2>2, <3>1, <3>3
    <3>5. 0 + 1 \in Nat /\ e.flight + 1 \in Nat
      BY <1>1
    <3> QED
      BY <3>4, <3>5, RecordsAre
  <2> QED
    BY <1>6, <2>3, <2>4
<1>9. ASSUME NEW i \in 1..n PROVE e.in[i].record = Flight(e.flight + 1)
  <2>1. i \in 1..Len(e.in) /\ i <= FlightLen - e.part
    BY <1>1, <1>5
  <2> QED
    BY <1>7, <2>1
<1>10. Leading(e.in, Flight(e.flight + 1)) = n
  BY <1>1, <1>5, <1>8, <1>9, LeadingIs
<1>11. ASSUME e.in # << >> PROVE e.in[1].record = Flight(e.flight + 1)
  <2>1. 1 \in 1..Len(e.in) /\ 1 <= FlightLen - e.part
    BY <1>1, <1>2, <1>11
  <2> QED
    BY <1>7, <2>1
<1> QED
  BY <1>1, <1>4, <1>10, <1>11

(* A script goes on with a flight, *)
LEMMA ScriptFlight ==
  ASSUME NEW side, NEW m \in Seq(Byte), Script(side, m), NEW f \in Nat,
         \/ Len(m) = 0 /\ f = FirstFlight(side)
         \/ Len(m) = FlightLen /\ f = FirstFlight(side) + 2
  PROVE  /\ Script(side, m \o BytesOf(Flight(f)))
         /\ Len(m \o BytesOf(Flight(f))) = Len(m) + FlightLen
<1>1. FlightLen \in Nat /\ PayloadLen \in Nat
  BY SSLAssumption
<1>2. PICK b \in Seq(Byte) : b = BytesOf(Flight(f))
  BY WholeRecords
<1>3. Len(b) = FlightLen /\ \A i \in 1..FlightLen : b[i] = [record |-> Flight(f), place |-> i]
  BY <1>2, WholeRecords
<1>4. PICK c \in Seq(Byte) : c = m \o b
  BY ConcatProperties
<1>5. Len(c) = Len(m) + FlightLen
  BY <1>3, <1>4, ConcatProperties, ZenonT(60)
<1>6. \A i \in 1..Len(c) : c[i] = IF i <= Len(m) THEN m[i] ELSE b[i - Len(m)]
  BY <1>3, <1>4, <1>5, ConcatProperties
<1>7. ASSUME NEW i \in 1..Len(c), i <= FlightLen
      PROVE  c[i] = [record |-> Flight(FirstFlight(side)), place |-> i]
  <2>1. CASE Len(m) = 0 /\ f = FirstFlight(side)
    <3>1. ~(i <= Len(m)) /\ i - Len(m) = i /\ i \in 1..FlightLen
      BY <1>1, <1>7, <2>1
    <3>2. c[i] = b[i]
      BY <1>6, <3>1
    <3> QED
      BY <1>3, <2>1, <3>1, <3>2
  <2>2. CASE Len(m) = FlightLen /\ f = FirstFlight(side) + 2
    <3>1. i \in 1..Len(m) /\ i <= Len(m)
      BY <1>1, <1>7, <2>2
    <3>2. c[i] = m[i]
      BY <1>6, <3>1
    <3> QED
      BY <1>7, <3>1, <3>2, ScriptFirst
  <2> QED
    BY <2>1, <2>2
<1>8. ASSUME NEW i \in 1..Len(c), i > FlightLen, i <= FlightLen + FlightLen
      PROVE  c[i] = [record |-> Flight(FirstFlight(side) + 2), place |-> i - FlightLen]
  <2>1. Len(m) = FlightLen /\ f = FirstFlight(side) + 2
    BY <1>1, <1>5, <1>8
  <2>2. ~(i <= Len(m)) /\ i - Len(m) = i - FlightLen /\ i - FlightLen \in 1..FlightLen
    BY <1>1, <1>8, <2>1
  <2>3. c[i] = b[i - FlightLen]
    BY <1>6, <2>2
  <2> QED
    BY <1>3, <2>1, <2>2, <2>3
<1>9. Len(c) <= FlightLen + FlightLen
  BY <1>1, <1>5
<1>10. ASSUME NEW k \in Nat, NEW j \in 1..(PayloadLen + 1) PROVE ~(At(k) + j <= Len(c))
  <2>1. At(k) \in Nat /\ At(k) >= FlightLen + FlightLen
    BY AtFacts
  <2> QED
    BY <1>1, <1>9, <2>1
<1>11. Script(side, c)
  BY <1>7, <1>8, <1>10 DEF Script
<1> QED
  BY <1>2, <1>4, <1>5, <1>11

(* and with a record of data. *)
LEMMA ScriptRecord ==
  ASSUME NEW side, NEW m \in Seq(Byte), Script(side, m), NEW n \in Nat, Len(m) = At(n)
  PROVE  /\ Script(side, m \o BytesOf(Data(n + 1)))
         /\ Len(m \o BytesOf(Data(n + 1))) = At(n + 1)
<1>1. FlightLen \in Nat /\ PayloadLen \in Nat
  BY SSLAssumption
<1>2. PICK b \in Seq(Byte) : b = BytesOf(Data(n + 1))
  BY WholeRecords
<1>3. /\ Len(b) = PayloadLen + 1
      /\ \A i \in 1..(PayloadLen + 1) : b[i] = [record |-> Data(n + 1), place |-> i]
  <2>1. n + 1 \in Nat
    OBVIOUS
  <2> QED
    BY <1>2, <2>1, WholeRecords
<1>4. PICK c \in Seq(Byte) : c = m \o b
  BY ConcatProperties
<1>5. /\ At(n) \in Nat /\ At(n) >= FlightLen + FlightLen /\ At(n + 1) = At(n) + PayloadLen + 1
  BY AtFacts
<1>0. Len(c) = Len(m) + Len(b)
  BY <1>4, ConcatProperties
<1>6. Len(c) = At(n) + (PayloadLen + 1) /\ Len(c) = At(n + 1)
  BY <1>0, <1>1, <1>3, <1>5
<1>7. \A i \in 1..Len(c) : c[i] = IF i <= Len(m) THEN m[i] ELSE b[i - Len(m)]
  BY <1>0, <1>4, ConcatProperties
<1>8. ASSUME NEW i \in 1..Len(c), i <= FlightLen + FlightLen
      PROVE  i \in 1..Len(m) /\ c[i] = m[i]
  <2>1. i \in 1..Len(m) /\ i <= Len(m)
    BY <1>1, <1>5, <1>8
  <2> QED
    BY <1>7, <2>1
<1>9. ASSUME NEW i \in 1..Len(c), i <= FlightLen
      PROVE  c[i] = [record |-> Flight(FirstFlight(side)), place |-> i]
  <2>1. i <= FlightLen + FlightLen
    BY <1>1, <1>9
  <2> QED
    BY <1>8, <1>9, <2>1, ScriptFirst
<1>10. ASSUME NEW i \in 1..Len(c), i > FlightLen, i <= FlightLen + FlightLen
      PROVE  c[i] = [record |-> Flight(FirstFlight(side) + 2), place |-> i - FlightLen]
  BY <1>8, <1>10, ScriptSecond
<1>11. ASSUME NEW k \in Nat, NEW j \in 1..(PayloadLen + 1), At(k) + j <= Len(c)
       PROVE  c[At(k) + j] = [record |-> Data(k + 1), place |-> j]
  <2>1. At(k) \in Nat /\ At(k) + j \in 1..Len(c) /\ j \in Nat
    <3>1. At(k) \in Nat
      BY AtFacts
    <3> QED
      BY <1>1, <1>11, <3>1
  <2>2. CASE At(k) + j <= Len(m)
    <3>1. c[At(k) + j] = m[At(k) + j]
      BY <1>7, <2>1, <2>2
    <3> QED
      BY <2>2, <3>1, ScriptData
  <2>3. CASE ~(At(k) + j <= Len(m))
    <3>1. k = n
      <4>1. At(k) + (j - 1) <= At(n) + PayloadLen /\ At(n) + 0 <= At(k) + (j - 1)
        BY <1>1, <1>5, <1>6, <1>11, <2>1, <2>3, SMTT(30)
      <4>2. j - 1 \in Nat /\ j - 1 < PayloadLen + 1 /\ PayloadLen < PayloadLen + 1 /\ 0 < PayloadLen + 1
        BY <1>1, <2>1
      <4>3. k <= n
        BY <1>1, <4>1, <4>2, AtUnique
      <4>4. n <= k
        BY <1>1, <4>1, <4>2, AtUnique
      <4> QED
        BY <4>3, <4>4
    <3>2. (At(k) + j) - Len(m) = j
      BY <1>5, <2>1, <3>1
    <3>3. c[At(k) + j] = b[j]
      BY <1>7, <2>1, <2>3, <3>2
    <3> QED
      BY <1>3, <3>1, <3>3
  <2> QED
    BY <2>2, <2>3
<1>12. Script(side, c)
  BY <1>9, <1>10, <1>11 DEF Script
<1> QED
  BY <1>2, <1>4, <1>6, <1>12

(* What one step of the handshake does to an engine e that waits. *)
HandshakeStep(side, e, t, m, rd) ==
  /\ EngineOK(side, t, m, rd)
  /\ Settled(t)
  /\ Grown(e, t, IF t.failed /\ ~e.failed THEN 1 ELSE FlightLen)
  /\ t.taken + Len(t.in) = e.taken + Len(e.in) /\ Len(t.in) <= Len(e.in)
  /\ t.writes = e.writes
  /\ e.failed => t = e
  /\ e.in = << >> => t = e

(* Nothing is put in the output queue. *)
LEMMA GrownByNone ==
  ASSUME NEW e \in EngineType, NEW t \in EngineType, t.out = e.out, t.made = e.made,
         NEW n \in Nat
  PROVE  Grown(e, t, n)
<1>1. e.out \in Seq(Byte) /\ e.made \in Seq(Byte)
  BY DEF EngineType
<1>2. PICK b \in Seq(Byte) : b = << >>
  BY EmptySeq
<1>3. e.out \o b = e.out /\ e.made \o b = e.made
  BY <1>1, <1>2, ConcatEmptySeq
<1>4. Len(b) <= n
  BY <1>2, EmptySeq
<1>5. t.out = e.out \o b /\ t.made = e.made \o b
  BY <1>3
<1> QED
  BY <1>4, <1>5 DEF Grown

(* An alert ends the handshake. *)
LEMMA HandshakeAlert ==
  ASSUME NEW m \in Seq(Byte), NEW rd, NEW e, EngineOK("client", e, m, rd),
         m = BytesOf(Alert), ~e.failed, e.in # << >>
  PROVE  HandshakeStep("client", e, [TakeBytes(e, 1, 0) EXCEPT !.failed = TRUE], m, rd)
<1>1. e \in EngineType /\ Making("client", e) /\ Taking("client", e, m, rd)
  BY DEF EngineOK
<1>2. /\ e.in \in Seq(Byte) /\ e.taken \in Nat /\ e.part \in Nat /\ e.flight \in Nat
  BY <1>1 DEF EngineType
<1>3. Len(m) = 1
  BY WholeRecords
<1>4. e.flight = 1 /\ e.taken = 0 /\ e.taken + Len(e.in) <= Len(m)
  BY <1>1 DEF Taking
<1>5. Len(e.in) = 1
  BY <1>2, <1>3, <1>4, EmptySeq
<1>6. PICK u : u = TakeBytes(e, 1, 0)
  OBVIOUS
<1>7. /\ u \in EngineType /\ u.failed = e.failed /\ u.in = BytesBehind(e.in, 1) /\ u.taken = e.taken + 1
      /\ u.part = 0 /\ u.plain = e.plain /\ u.usable = e.usable /\ u.writes = e.writes
      /\ u.out = e.out /\ u.made = e.made /\ u.flight = e.flight
  BY <1>1, <1>5, <1>6, TakeBytesIs
<1>8. PICK t : t = [u EXCEPT !.failed = TRUE]
  OBVIOUS
<1>9. /\ t \in EngineType /\ t.failed /\ t.in = u.in /\ t.taken = u.taken
      /\ t.part = u.part /\ t.plain = u.plain /\ t.usable = u.usable /\ t.writes = u.writes
      /\ t.out = u.out /\ t.made = u.made /\ t.flight = u.flight
  BY <1>7, <1>8 DEF EngineType
<1>10. Len(t.in) = 0
  <2>1. Len(BytesBehind(e.in, 1)) = Len(e.in) - 1
    <3>1. PICK q \in Seq(Byte) : q = e.in /\ 1 <= Len(q)
      BY <1>2, <1>5
    <3>2. Len(BytesBehind(q, 1)) = Len(q) - 1
      BY <3>1, Behind
    <3> QED
      BY <3>1, <3>2
  <2> QED
    BY <1>5, <1>7, <1>9, <2>1
<1>11. Making("client", t)
  <2>1. /\ e.flight \in Stages("client") /\ e.usable /\ (e.flight # 4 => e.writes = 0)
        /\ Script("client", e.made) /\ Len(e.made) = Gave(e.flight)
    BY <1>1, <1>4 DEF Making
  <2> QED
    BY <1>4, <1>7, <1>9, <2>1 DEF Making
<1>12. Taking("client", t, m, rd)
  <2>1. rd = << >> /\ e.plain = << >>
    BY <1>1, <1>4 DEF Taking
  <2>2. t.taken = 1 /\ t.taken + Len(t.in) <= Len(m) /\ t.flight = 1 /\ t.plain = << >>
    BY <1>3, <1>4, <1>7, <1>9, <1>10, <2>1
  <2>3. 1..Len(t.in) = {}
    BY <1>10
  <2> QED
    BY <1>9, <2>1, <2>2, <2>3 DEF Taking
<1>13. Grown(e, t, IF t.failed /\ ~e.failed THEN 1 ELSE FlightLen)
  BY <1>1, <1>7, <1>9, GrownByNone
<1>15. t.taken + Len(t.in) = e.taken + Len(e.in) /\ Len(t.in) <= Len(e.in)
  BY <1>4, <1>5, <1>7, <1>9, <1>10
<1>14. HandshakeStep("client", e, t, m, rd)
  BY <1>7, <1>9, <1>11, <1>12, <1>13, <1>15 DEF HandshakeStep, EngineOK, Settled
<1> QED
  BY <1>6, <1>8, <1>14

(* An incomplete flight is kept. *)
LEMMA HandshakePart ==
  ASSUME NEW side \in Sides, NEW m \in Seq(Byte), NEW rd, NEW e, EngineOK(side, e, m, rd),
         e.flight # 4, ~e.failed, m # BytesOf(Alert), e.in # << >>,
         NEW n \in Nat, n = Len(e.in), e.part + n < FlightLen
  PROVE  HandshakeStep(side, e, TakeBytes(e, n, e.part + n), m, rd)
<1>1. e \in EngineType /\ Making(side, e) /\ Taking(side, e, m, rd)
  BY DEF EngineOK
<1>2. /\ e.in \in Seq(Byte) /\ e.taken \in Nat /\ e.part \in Nat /\ e.flight \in Nat
  BY <1>1 DEF EngineType
<1>3. PICK t : t = TakeBytes(e, n, e.part + n)
  OBVIOUS
<1>4. /\ t \in EngineType /\ t.failed = e.failed /\ t.in = BytesBehind(e.in, n) /\ t.taken = e.taken + n
      /\ t.part = e.part + n /\ t.plain = e.plain /\ t.usable = e.usable /\ t.writes = e.writes
      /\ t.out = e.out /\ t.made = e.made /\ t.flight = e.flight
  BY <1>1, <1>2, <1>3, TakeBytesIs, SMTT(30)
<1>5. Len(t.in) = 0 /\ t.in = << >>
  <2>1. Len(BytesBehind(e.in, n)) = Len(e.in) - n /\ BytesBehind(e.in, n) \in Seq(Byte)
    <3>1. PICK q \in Seq(Byte) : q = e.in /\ n <= Len(q)
      BY <1>2
    <3>2. Len(BytesBehind(q, n)) = Len(q) - n /\ BytesBehind(q, n) \in Seq(Byte)
      BY <3>1, Behind
    <3> QED
      BY <3>1, <3>2
  <2>2. Len(t.in) = 0
    BY <1>4, <2>1
  <2> QED
    BY <1>4, <2>1, <2>2, EmptySeq
<1>6. Making(side, t)
  BY <1>1, <1>4 DEF Making
<1>7. Taking(side, t, m, rd)
  <2>1. /\ rd = << >> /\ e.plain = << >> /\ e.taken + Len(e.in) <= Len(m)
        /\ e.taken = Got(e.flight) + e.part
    BY <1>1 DEF Taking
  <2>2. Got(e.flight) \in Nat
    BY SSLAssumption DEF Got
  <2>3. t.taken + Len(t.in) <= Len(m)
    BY <1>2, <1>4, <1>5, <2>1
  <2>4. t.taken = Got(e.flight) + t.part
    BY <1>2, <1>4, <2>1, <2>2
  <2>5. 1..Len(t.in) = {}
    BY <1>5
  <2> QED
    BY <1>4, <2>1, <2>3, <2>4, <2>5 DEF Taking
<1>8. Grown(e, t, IF t.failed /\ ~e.failed THEN 1 ELSE FlightLen)
  BY <1>1, <1>4, GrownByNone, SSLAssumption
<1>10. t.taken + Len(t.in) = e.taken + Len(e.in) /\ Len(t.in) <= Len(e.in)
  BY <1>2, <1>4, <1>5
<1>9. HandshakeStep(side, e, t, m, rd)
  BY <1>4, <1>5, <1>6, <1>7, <1>8, <1>10 DEF HandshakeStep, EngineOK, Settled
<1> QED
  BY <1>3, <1>9

(* A complete flight is answered, or refused. *)
LEMMA HandshakeWhole ==
  ASSUME NEW side \in Sides, NEW m \in Seq(Byte), NEW rd, NEW e, EngineOK(side, e, m, rd),
         e.flight # 4, ~e.failed, m # BytesOf(Alert), e.in # << >>, Incoming(side, e, m),
         NEW n \in Nat, n <= Len(e.in), e.part + n = FlightLen
  PROVE  HandshakeStep(side, e, FlightReceived(TakeBytes(e, n, 0)), m, rd)
<1>1. e \in EngineType /\ Making(side, e) /\ Taking(side, e, m, rd)
  BY DEF EngineOK
<1>2. /\ e.in \in Seq(Byte) /\ e.taken \in Nat /\ e.part \in Nat /\ e.flight \in Nat
      /\ e.made \in Seq(Byte) /\ e.out \in Seq(Byte) /\ e.usable \in BOOLEAN
  BY <1>1 DEF EngineType
<1>3. FlightLen \in Nat /\ FlightLen >= 1
  BY SSLAssumption
<1>4. PICK u : u = TakeBytes(e, n, 0)
  OBVIOUS
<1>5. /\ u \in EngineType /\ u.failed = e.failed /\ u.in = BytesBehind(e.in, n) /\ u.taken = e.taken + n
      /\ u.part = 0 /\ u.plain = e.plain /\ u.usable = e.usable /\ u.writes = e.writes
      /\ u.out = e.out /\ u.made = e.made /\ u.flight = e.flight
  BY <1>1, <1>2, <1>4, TakeBytesIs
<1>6. /\ e.taken + Len(e.in) <= Len(m)
      /\ \A i \in 1..Len(e.in) : e.in[i] = m[e.taken + i]
      /\ rd = << >> /\ e.plain = << >>
      /\ e.taken = Got(e.flight) + e.part
  BY <1>1 DEF Taking
<1>7. /\ u.in \in Seq(Byte) /\ Len(u.in) = Len(e.in) - n
      /\ u.taken + Len(u.in) <= Len(m)
      /\ \A i \in 1..Len(u.in) : u.in[i] = m[u.taken + i]
  <2>1. PICK q \in Seq(Byte) : q = e.in /\ n <= Len(q)
    BY <1>2
  <2>2. /\ BytesBehind(q, n) \in Seq(Byte)
        /\ Len(BytesBehind(q, n)) = Len(q) - n
        /\ \A i \in 1..(Len(q) - n) : BytesBehind(q, n)[i] = q[n + i]
    BY <2>1, Behind
  <2>3. u.in \in Seq(Byte) /\ Len(u.in) = Len(e.in) - n
    BY <1>5, <2>1, <2>2
  <2>4. u.taken + Len(u.in) <= Len(m)
    BY <1>2, <1>5, <1>6, <2>3
  <2>5. ASSUME NEW i \in 1..Len(u.in) PROVE u.in[i] = m[u.taken + i]
    <3>3. PICK l \in Nat : l = Len(q)
      OBVIOUS
    <3>4. i \in 1..(l - n) /\ u.taken = e.taken + n
      BY <1>5, <2>1, <2>3, <3>3
    <3>6. PICK k \in Nat : k = e.taken
      BY <1>2
    <3>7. n + i \in 1..l
      BY <3>4
    <3>8. i \in Nat
      BY <3>4
    <3>9. k + (n + i) = (k + n) + i
      BY <3>8
    <3>5. n + i \in 1..l /\ e.taken + (n + i) = (e.taken + n) + i
      BY <3>6, <3>7, <3>9
    <3>1. i \in 1..(Len(q) - n) /\ n + i \in 1..Len(e.in) /\ e.taken + (n + i) = u.taken + i
      BY <2>1, <3>3, <3>4, <3>5
    <3>2. u.in[i] = e.in[n + i]
      BY <1>5, <2>1, <2>2, <3>1
    <3> QED
      BY <1>6, <3>1, <3>2
  <2> QED
    BY <2>3, <2>4, <2>5
<1>14. u.taken + Len(u.in) = e.taken + Len(e.in) /\ Len(u.in) <= Len(e.in)
  BY <1>2, <1>5, <1>7, SMTT(30)
<1>8. u.taken = Got(e.flight) + FlightLen
  <2>1. Got(e.flight) \in Nat
    BY <1>3 DEF Got
  <2> QED
    BY <1>2, <1>3, <1>5, <1>6, <2>1
<1>9. /\ e.flight \in Stages(side) /\ (side = "client" => e.usable) /\ (~e.usable => e.flight = 0)
      /\ e.writes = 0 /\ Script(side, e.made) /\ Len(e.made) = Gave(e.flight)
  BY <1>1 DEF Making
<1>10. CASE ~e.usable
  <2>1. PICK t : t = FlightReceived(u)
    OBVIOUS
  <2>2. /\ t \in EngineType /\ t.out = u.out \o BytesOf(Alert) /\ t.made = u.made \o BytesOf(Alert)
        /\ t.failed /\ t.in = u.in /\ t.taken = u.taken /\ t.part = u.part /\ t.plain = u.plain
        /\ t.flight = u.flight /\ t.usable = u.usable /\ t.writes = u.writes
    BY <1>5, <1>10, <2>1, ReceivedRefused
  <2>3. side = "server" /\ e.flight = 0
    BY <1>9, <1>10 DEF Sides
  <2>4. BytesOf(Alert) \in Seq(Byte) /\ Len(BytesOf(Alert)) = 1
    BY WholeRecords
  <2>5. t.made = BytesOf(Alert)
    <3>1. e.made = << >>
      BY <1>2, <1>9, <2>3, EmptySeq DEF Gave
    <3> QED
      BY <1>5, <2>2, <2>4, <3>1, ConcatEmptySeq
  <2>6. Making(side, t)
    BY <1>5, <1>9, <1>10, <2>2, <2>3, <2>5 DEF Making
  <2>7. Taking(side, t, m, rd)
    <3>1. t.taken = FlightLen
      BY <1>3, <1>8, <2>2, <2>3 DEF Got
    <3> QED
      BY <1>5, <1>6, <1>7, <2>2, <2>3, <3>1 DEF Taking
  <2>8. Grown(e, t, IF t.failed /\ ~e.failed THEN 1 ELSE FlightLen)
    <3>1. t.failed /\ ~e.failed
      BY <2>2
    <3>2. PICK b \in Seq(Byte) : b = BytesOf(Alert)
      BY <2>4
    <3>3. t.out = e.out \o b /\ t.made = e.made \o b
      BY <1>5, <2>2, <3>2
    <3>5. Len(b) = 1
      BY <2>4, <3>2
    <3>6. Len(b) <= 1
      BY <3>5
    <3>4. Grown(e, t, 1)
      BY <3>3, <3>6 DEF Grown
    <3> QED
      BY <3>1, <3>4
  <2>9. HandshakeStep(side, e, t, m, rd)
    BY <1>5, <1>14, <2>2, <2>6, <2>7, <2>8 DEF HandshakeStep, EngineOK, Settled
  <2> QED
    BY <1>4, <2>1, <2>9
<1>11. CASE e.usable /\ e.flight <= 2
  <2>1. PICK t : t = FlightReceived(u)
    OBVIOUS
  <2>2. PICK f \in Nat : f = e.flight + 2
    BY <1>2
  <2>3. PICK b \in Seq(Byte) : b = BytesOf(Flight(f))
    BY WholeRecords
  <2>4. /\ t \in EngineType /\ t.out = e.out \o b /\ t.made = e.made \o b
        /\ t.failed = u.failed /\ t.in = u.in /\ t.taken = u.taken /\ t.part = u.part
        /\ t.plain = u.plain /\ t.flight = f /\ t.usable = u.usable /\ t.writes = u.writes
    <3>1. u.usable /\ u.flight <= 2
      BY <1>5, <1>11
    <3> QED
      BY <1>5, <2>1, <2>2, <2>3, <3>1, ReceivedNext
  <2>5. /\ Len(b) = FlightLen
    BY <2>3, WholeRecords
  <2>6. e.flight \in {0, 1, 2} /\ f \in {2, 3, 4} /\ f \in Stages(side)
    BY <1>9, <1>11, <2>2, SMTT(30) DEF Stages, Sides
  <2>7. Script(side, t.made) /\ Len(t.made) = Len(e.made) + FlightLen
    <3>1. \/ Len(e.made) = 0 /\ f = FirstFlight(side)
          \/ Len(e.made) = FlightLen /\ f = FirstFlight(side) + 2
      BY <1>9, <1>11, <2>2 DEF Stages, Sides, Gave, FirstFlight
    <3>2. Script(side, e.made \o BytesOf(Flight(f))) /\ Len(e.made \o BytesOf(Flight(f))) = Len(e.made) + FlightLen
      BY <1>2, <1>9, <3>1, ScriptFlight
    <3> QED
      BY <2>3, <2>4, <3>2
  <2>8. Making(side, t)
    <3>1. t.flight # 4 => Len(t.made) = Gave(t.flight)
      BY <1>3, <1>9, <2>2, <2>4, <2>6, <2>7 DEF Gave
    <3>2. t.flight = 4 => Len(t.made) = At(t.writes)
      <4>1. At(0) = FlightLen + FlightLen
        BY AtFacts
      <4> QED
        BY <1>3, <1>5, <1>9, <2>2, <2>4, <2>6, <2>7, <4>1 DEF Gave
    <3>3. ~t.failed /\ t.usable /\ t.writes = 0 /\ t.flight \in Stages(side)
      BY <1>5, <1>9, <1>11, <2>4, <2>6
    <3> QED
      BY <2>7, <3>1, <3>2, <3>3 DEF Making
  <2>9. Taking(side, t, m, rd)
    <3>1. t.flight = 4 => t.taken = At(0) + t.part /\ rd \o t.plain = Paid(0)
      <4>1. At(0) = FlightLen + FlightLen /\ Paid(0) = << >>
        BY AtFacts, PaidFacts
      <4>2. t.flight = 4 => Got(e.flight) = FlightLen
        BY <2>2, <2>4, <2>6 DEF Got
      <4>3. rd \o t.plain = << >>
        BY <1>5, <1>6, <2>4
      <4> QED
        BY <1>3, <1>5, <1>8, <2>4, <4>1, <4>2, <4>3
    <3>2. t.flight # 4 => t.taken = Got(t.flight) + t.part
      <4>1. t.flight # 4 => e.flight \in {0, 1} /\ Got(e.flight) = 0 /\ Got(t.flight) = FlightLen
        BY <2>2, <2>4, <2>6 DEF Got
      <4> QED
        BY <1>3, <1>5, <1>8, <2>4, <4>1
    <3>3. 0 \in Nat /\ t.part < PayloadLen + 1 /\ t.part < FlightLen
      BY <1>3, <1>5, <2>4, SSLAssumption
    <3>4. rd = << >> /\ t.plain = << >> /\ ~t.failed
      BY <1>5, <1>6, <2>4
    <3>5. /\ t.taken + Len(t.in) <= Len(m)
          /\ \A i \in 1..Len(t.in) : t.in[i] = m[t.taken + i]
      BY <1>7, <2>4
    <3> QED
      BY <3>1, <3>2, <3>3, <3>4, <3>5 DEF Taking
  <2>10. Settled(t)
    <3> SUFFICES ASSUME f # 4 PROVE t.in = << >>
      BY <2>4 DEF Settled
    <3>1. e.flight \in {0, 1} /\ Got(e.flight) = 0
      BY <2>2, <2>6 DEF Got
    <3>2. Len(m) <= FlightLen
      BY <3>1 DEF Incoming
    <3>3. Len(u.in) = 0
      BY <1>3, <1>7, <1>8, <3>1, <3>2
    <3> QED
      BY <1>7, <2>4, <3>3, EmptySeq
  <2>11. Grown(e, t, IF t.failed /\ ~e.failed THEN 1 ELSE FlightLen)
    <3>1. ~t.failed
      BY <1>5, <2>4
    <3>2. Len(b) <= FlightLen
      BY <1>3, <2>5
    <3>3. Grown(e, t, FlightLen)
      BY <2>4, <3>2 DEF Grown
    <3> QED
      BY <3>1, <3>3
  <2>12. HandshakeStep(side, e, t, m, rd)
    BY <1>5, <1>14, <2>2, <2>4, <2>8, <2>9, <2>10, <2>11 DEF HandshakeStep, EngineOK
  <2> QED
    BY <1>4, <2>1, <2>12
<1>12. CASE e.usable /\ e.flight = 3
  <2>1. PICK t : t = FlightReceived(u)
    OBVIOUS
  <2>2. /\ t \in EngineType /\ t.out = u.out /\ t.made = u.made
        /\ t.failed = u.failed /\ t.in = u.in /\ t.taken = u.taken /\ t.part = u.part
        /\ t.plain = u.plain /\ t.flight = 4 /\ t.usable = u.usable /\ t.writes = u.writes
    BY <1>5, <1>12, <2>1, ReceivedLast
  <2>3. side = "client"
    BY <1>9, <1>12 DEF Stages, Sides
  <2>4. At(0) = FlightLen + FlightLen /\ Paid(0) = << >>
    BY AtFacts, PaidFacts
  <2>5. Making(side, t)
    <3>1. Len(t.made) = At(t.writes)
      BY <1>3, <1>5, <1>9, <1>12, <2>2, <2>4 DEF Gave
    <3>2. 4 \in Stages(side)
      BY <2>3 DEF Stages
    <3> QED
      BY <1>5, <1>9, <1>12, <2>2, <3>1, <3>2 DEF Making
  <2>6. Taking(side, t, m, rd)
    <3>1. t.taken = At(0) + t.part
      BY <1>3, <1>5, <1>8, <1>12, <2>2, <2>4 DEF Got
    <3>2. rd \o t.plain = Paid(0)
      BY <1>5, <1>6, <2>2, <2>4
    <3>3. 0 \in Nat /\ t.part < PayloadLen + 1
      BY <1>5, <2>2, SSLAssumption
    <3> QED
      BY <1>5, <1>7, <2>2, <3>1, <3>2, <3>3 DEF Taking
  <2>7. Grown(e, t, IF t.failed /\ ~e.failed THEN 1 ELSE FlightLen)
    BY <1>1, <1>3, <1>5, <2>2, GrownByNone
  <2>8. HandshakeStep(side, e, t, m, rd)
    BY <1>5, <1>14, <1>12, <2>2, <2>5, <2>6, <2>7 DEF HandshakeStep, EngineOK, Settled
  <2> QED
    BY <1>4, <2>1, <2>8
<1>13. e.flight <= 2 \/ e.flight = 3
  BY <1>9 DEF Stages
<1> QED
  BY <1>10, <1>11, <1>12, <1>13

(* The handshake, as far as the bytes in the queue carry it. *)
LEMMA Handshake ==
  ASSUME NEW side \in Sides, NEW m \in Seq(Byte), NEW rd, NEW e, EngineOK(side, e, m, rd),
         Incoming(side, e, m)
  PROVE  HandshakeStep(side, e, SSL_do_handshake(e), m, rd)
<1>1. e \in EngineType /\ Making(side, e) /\ Taking(side, e, m, rd)
  BY DEF EngineOK
<1>2. /\ e.in \in Seq(Byte) /\ e.taken \in Nat /\ e.part \in Nat /\ e.flight \in Nat
      /\ e.failed \in BOOLEAN
  BY <1>1 DEF EngineType
<1>3. FlightLen \in Nat
  BY SSLAssumption
<1>4. CASE Settled(e)
  <2>1. SSL_do_handshake(e) = e
    BY <1>4 DEF SSL_do_handshake, Settled, Finished, Flights
  <2>2. Grown(e, e, IF e.failed /\ ~e.failed THEN 1 ELSE FlightLen)
    BY <1>1, <1>3, GrownByNone
  <2>3. HandshakeStep(side, e, e, m, rd)
    BY <1>4, <2>2 DEF HandshakeStep
  <2> QED
    BY <2>1, <2>3
<1>5. CASE ~Settled(e)
  <2>1. e.flight # 4 /\ ~e.failed /\ e.in # << >>
    BY <1>5 DEF Settled
  <2>2. ~(Finished(e) \/ e.failed \/ e.in = << >>)
    BY <2>1 DEF Finished, Flights
  <2>3. Head(e.in) = e.in[1]
    BY <1>2, <2>1
  <2>4. CASE m = BytesOf(Alert)
    <3>1. e.taken = 0 /\ e.flight = 1 /\ \A i \in 1..Len(e.in) : e.in[i] = m[e.taken + i]
      BY <1>1, <2>1, <2>4 DEF Taking
    <3>2. side = "client"
      BY <1>1, <3>1 DEF Making, Stages, Sides
    <3>3. e.in[1] = m[1]
      <4>1. 1 \in 1..Len(e.in) /\ e.taken + 1 = 1
        BY <1>2, <2>1, <3>1
      <4> QED
        BY <3>1, <4>1
    <3>4. Head(e.in).record = Alert
      BY <2>3, <2>4, <3>3, WholeRecords
    <3>5. SSL_do_handshake(e) = [TakeBytes(e, 1, 0) EXCEPT !.failed = TRUE]
      BY <2>2, <3>4 DEF SSL_do_handshake
    <3> QED
      BY <2>1, <2>4, <3>2, <3>5, HandshakeAlert
  <2>5. CASE m # BytesOf(Alert)
    <3>1. Script(Peer(side), m)
      BY <2>5 DEF Incoming
    <3>2. PICK f : f = Flight(e.flight + 1)
      OBVIOUS
    <3>3. /\ e.flight + 1 \in Nat
          /\ Leading(e.in, f) = Least(Len(e.in), FlightLen - e.part)
          /\ e.in[1].record = f
      BY <2>1, <3>1, <3>2, NextFlight
    <3>4. Head(e.in).record # Alert
      BY <2>3, <3>2, <3>3, RecordsAre
    <3>5. PICK n : n = Leading(e.in, f)
      OBVIOUS
    <3>6. e.part < FlightLen
      BY <1>1, <2>1 DEF Taking
    <3>7. n \in Nat /\ n <= Len(e.in) /\ n <= FlightLen - e.part /\ (n < Len(e.in) => n = FlightLen - e.part)
      BY <1>2, <1>3, <3>3, <3>5, <3>6, SMTT(30) DEF Least
    <3>8. SSL_do_handshake(e) =
            IF e.part + n < FlightLen
              THEN TakeBytes(e, n, e.part + n)
              ELSE Then(TakeBytes(e, n, 0), FlightReceived)
      BY <2>2, <3>2, <3>4, <3>5 DEF SSL_do_handshake
    <3>9. Then(TakeBytes(e, n, 0), FlightReceived) = FlightReceived(TakeBytes(e, n, 0))
      BY DEF Then
    <3>10. CASE e.part + n < FlightLen
      <4>1. n = Len(e.in)
        BY <1>2, <1>3, <3>7, <3>10
      <4> QED
        BY <2>1, <2>5, <3>7, <3>8, <3>10, <4>1, HandshakePart
    <3>11. CASE ~(e.part + n < FlightLen)
      <4>1. e.part + n = FlightLen
        BY <1>2, <1>3, <3>7, <3>11
      <4> QED
        BY <2>1, <2>5, <3>7, <3>8, <3>9, <3>11, <4>1, HandshakeWhole
    <3> QED
      BY <3>10, <3>11
  <2> QED
    BY <2>4, <2>5
<1> QED
  BY <1>4, <1>5

-----------------------------------------------------------------------------
(* SSL_write of a payload: a record, once the handshake has finished.      *)
LEMMA EncryptIs ==
  ASSUME NEW side \in Sides, NEW m \in Seq(Byte), NEW rd, NEW e, EngineOK(side, e, m, rd)
  PROVE  LET t == Encrypt(e) IN
         /\ EngineOK(side, t, m, rd)
         /\ Grown(e, t, PayloadLen + 1)
         /\ t.writes \in {e.writes, e.writes + 1}
         /\ t.in = e.in /\ t.taken = e.taken /\ t.flight = e.flight /\ t.failed = e.failed
         /\ e.flight # 4 => t = e
<1>1. e \in EngineType /\ Making(side, e) /\ Taking(side, e, m, rd)
  BY DEF EngineOK
<1>2. /\ e.in \in Seq(Byte) /\ e.taken \in Nat /\ e.part \in Nat /\ e.flight \in Nat
      /\ e.made \in Seq(Byte) /\ e.writes \in Nat /\ e.writes + 1 \in Nat
  BY <1>1 DEF EngineType
<1>3. PayloadLen + 1 \in Nat
  BY SSLAssumption
<1>4. CASE e.flight # 4
  <2>1. Encrypt(e) = e
    BY <1>4 DEF Encrypt, Finished, Flights
  <2>2. Grown(e, e, PayloadLen + 1)
    BY <1>1, <1>3, GrownByNone
  <2> QED
    BY <2>1, <2>2
<1>5. CASE e.flight = 4
  <2>1. PICK b \in Seq(Byte) : b = BytesOf(Data(e.writes + 1))
    BY <1>2, WholeRecords
  <2>2. PICK u : u = Emit(e, b)
    OBVIOUS
  <2>3. /\ u \in EngineType /\ u.failed = e.failed /\ u.in = e.in /\ u.taken = e.taken
        /\ u.part = e.part /\ u.plain = e.plain /\ u.usable = e.usable /\ u.writes = e.writes
        /\ u.out = e.out \o b /\ u.made = e.made \o b /\ u.flight = e.flight
    BY <1>1, <2>2, EmitIs
  <2>4. PICK w \in Nat : w = u.writes + 1
    BY <1>2, <2>3
  <2>5. PICK t : t = [u EXCEPT !.writes = w]
    OBVIOUS
  <2>6. Encrypt(e) = t
    BY <1>5, <2>1, <2>2, <2>4, <2>5 DEF Encrypt, Finished, Flights
  <2>7. /\ t \in EngineType /\ t.failed = u.failed /\ t.in = u.in /\ t.taken = u.taken
        /\ t.part = u.part /\ t.plain = u.plain /\ t.usable = u.usable /\ t.writes = w
        /\ t.out = u.out /\ t.made = u.made /\ t.flight = u.flight
    BY <2>3, <2>4, <2>5 DEF EngineType
  <2>8. ~e.failed /\ Script(side, e.made) /\ Len(e.made) = At(e.writes)
    BY <1>1, <1>5 DEF Making
  <2>9. Script(side, t.made) /\ Len(t.made) = At(t.writes)
    <3>1. /\ Script(side, e.made \o BytesOf(Data(e.writes + 1)))
          /\ Len(e.made \o BytesOf(Data(e.writes + 1))) = At(e.writes + 1)
      BY <1>2, <2>8, ScriptRecord
    <3> QED
      BY <2>1, <2>3, <2>4, <2>7, <3>1
  <2>10. Making(side, t)
    BY <1>1, <1>5, <2>3, <2>7, <2>8, <2>9 DEF Making
  <2>11. Taking(side, t, m, rd)
    BY <1>1, <2>3, <2>7, ZenonT(60) DEF Taking
  <2>12. Grown(e, t, PayloadLen + 1)
    <3>1. Len(b) = PayloadLen + 1
      BY <1>2, <2>1, WholeRecords
    <3>2. Len(b) <= PayloadLen + 1
      BY <1>3, <3>1
    <3>3. t.out = e.out \o b /\ t.made = e.made \o b
      BY <2>3, <2>7
    <3> QED
      BY <3>2, <3>3 DEF Grown
  <2> QED
    BY <1>5, <2>3, <2>4, <2>6, <2>7, <2>10, <2>11, <2>12 DEF EngineOK
<1> QED
  BY <1>4, <1>5

(* The bytes of the record of data that an engine is in, in its input      *)
(* queue.                                                                  *)
LEMMA NextRecord ==
  ASSUME NEW peer, NEW m \in Seq(Byte), Script(peer, m), NEW in \in Seq(Byte), in # << >>,
         NEW k \in Nat, NEW part \in Nat, part < PayloadLen + 1,
         At(k) + part + Len(in) <= Len(m),
         \A i \in 1..Len(in) : in[i] = m[At(k) + part + i]
  PROVE  /\ in[1].record = Data(k + 1)
         /\ Leading(in, Data(k + 1)) = Least(Len(in), (PayloadLen + 1) - part)
<1>1. PICK r \in Nat : r = PayloadLen + 1
  BY SSLAssumption
<1>2. PICK a \in Nat : a = At(k) /\ At(k + 1) = a + r
  <2>1. At(k) \in Nat /\ At(k + 1) = At(k) + PayloadLen + 1 /\ PayloadLen \in Nat
    BY AtFacts, SSLAssumption
  <2> QED
    BY <1>1, <2>1
<1>3. PICK l \in Nat : l = Len(in) /\ l # 0
  BY EmptySeq
<1>4. PICK n \in Nat : n = Least(l, r - part)
  BY <1>1 DEF Least
<1>5. n <= l /\ n <= r - part /\ (n < l => n = r - part) /\ n >= 1
  BY <1>1, <1>3, <1>4 DEF Least
<1>6. ASSUME NEW i \in 1..l, i <= r - part PROVE in[i].record = Data(k + 1)
  <2>1. PICK j \in Nat : j = part + i
    OBVIOUS
  <2>2. j \in 1..r /\ a + j = a + part + i /\ a + j <= a + part + l
    BY <1>6, <2>1
  <2>3. At(k) + j <= Len(m)
    <3>1. PICK lm \in Nat : lm = Len(m) /\ a + part + l <= lm
      BY <1>2, <1>3
    <3>2. a + j <= lm
      BY <2>2, <3>1
    <3> QED
      BY <1>2, <3>1, <3>2
  <2>4. m[At(k) + j].record = Data(k + 1)
    <3>1. j \in 1..(PayloadLen + 1)
      BY <1>1, <2>2
    <3> QED
      BY <2>3, <3>1, ScriptData, ZenonT(60)
  <2>5. in[i] = m[At(k) + j]
    BY <1>2, <1>3, <2>2
  <2> QED
    BY <2>4, <2>5
<1>7. ASSUME n < l PROVE in[n + 1].record # Data(k + 1)
  <2>1. n + 1 \in 1..l /\ a + part + (n + 1) = (a + r) + 1 /\ (a + r) + 1 <= a + part + l
    BY <1>5, <1>7
  <2>2. At(k + 1) + 1 <= Len(m)
    <3>1. a + part + l <= Len(m) /\ Len(m) \in Nat
      BY <1>2, <1>3
    <3> QED
      BY <1>2, <2>1, <3>1, SMTT(30)
  <2>3. k + 1 \in Nat /\ (k + 1) + 1 \in Nat /\ (k + 1) + 1 # k + 1
    OBVIOUS
  <2>4. 1 \in 1..(PayloadLen + 1)
    BY SSLAssumption
  <2>5. m[At(k + 1) + 1].record = Data((k + 1) + 1)
    BY <2>2, <2>3, <2>4, ScriptData, ZenonT(60)
  <2>6. in[n + 1] = m[At(k + 1) + 1]
    BY <1>2, <1>3, <2>1, SMTT(30)
  <2> QED
    BY <2>3, <2>5, <2>6, RecordsAre
<1>8. ASSUME NEW i \in 1..n PROVE in[i].record = Data(k + 1)
  <2>1. i \in 1..l /\ i <= r - part
    BY <1>1, <1>5
  <2> QED
    BY <1>6, <2>1
<1>9. Leading(in, Data(k + 1)) = n
  <2>1. n <= Len(in)
    BY <1>3, <1>5
  <2>2. n < Len(in) => in[n + 1].record # Data(k + 1)
    BY <1>3, <1>7
  <2> QED
    BY <1>8, <2>1, <2>2, LeadingIs
<1>10. in[1].record = Data(k + 1)
  <2>1. 1 \in 1..n
    BY <1>5
  <2> QED
    BY <1>8, <2>1
<1> QED
  BY <1>1, <1>3, <1>4, <1>9, <1>10

(* A record of data is decrypted when it is complete. *)
LEMMA DecryptIs ==
  ASSUME NEW side \in Sides, NEW m \in Seq(Byte), NEW rd \in Seq(Byte),
         NEW e, EngineOK(side, e, m, rd),
         Script(Peer(side), m) \/ (side = "client" /\ m = BytesOf(Alert))
  PROVE  LET t == Decrypt(e) IN
         /\ EngineOK(side, t, m, rd)
         /\ t.taken + Len(t.in) = e.taken + Len(e.in) /\ Len(t.in) <= Len(e.in)
         /\ t.out = e.out /\ t.made = e.made /\ t.writes = e.writes
         /\ t.flight = e.flight /\ t.failed = e.failed
         /\ e.flight # 4 => t = e
<1>1. e \in EngineType /\ Making(side, e) /\ Taking(side, e, m, rd)
  BY DEF EngineOK
<1>2. /\ e.in \in Seq(Byte) /\ e.taken \in Nat /\ e.part \in Nat /\ e.flight \in Nat
      /\ e.plain \in Seq(Byte)
  BY <1>1 DEF EngineType
<1>3. PICK r \in Nat : r = PayloadLen + 1 /\ r >= 1
  BY SSLAssumption
<1>4. CASE e.flight # 4 \/ e.plain # << >> \/ e.in = << >>
  <2>1. Decrypt(e) = e
    BY <1>4 DEF Decrypt, Finished, Flights
  <2> QED
    BY <2>1
<1>5. CASE e.flight = 4 /\ e.plain = << >> /\ e.in # << >>
  <2>1. /\ e.part < PayloadLen + 1
        /\ e.taken + Len(e.in) <= Len(m)
        /\ \A i \in 1..Len(e.in) : e.in[i] = m[e.taken + i]
        /\ m # BytesOf(Alert)
    BY <1>1, <1>5 DEF Taking
  <2>2. PICK k \in Nat : e.taken = At(k) + e.part /\ rd \o e.plain = Paid(k)
    BY <1>1, <1>5 DEF Taking
  <2>3. PICK d : d = Data(k + 1)
    OBVIOUS
  <2>4. e.in[1].record = d /\ Leading(e.in, d) = Least(Len(e.in), (PayloadLen + 1) - e.part)
    <3>1. PICK part \in Nat : part = e.part
      BY <1>2
    <3>2. PICK in \in Seq(Byte) : in = e.in
      BY <1>2
    <3>3. /\ part < PayloadLen + 1 /\ in # << >> /\ At(k) + part + Len(in) <= Len(m)
          /\ \A i \in 1..Len(in) : in[i] = m[At(k) + part + i]
      BY <1>5, <2>1, <2>2, <3>1, <3>2
    <3>4. Script(Peer(side), m)
      BY <2>1
    <3>5. /\ in[1].record = Data(k + 1)
          /\ Leading(in, Data(k + 1)) = Least(Len(in), (PayloadLen + 1) - part)
      BY <3>3, <3>4, NextRecord
    <3> QED
      BY <2>3, <3>1, <3>2, <3>5
  <2>5. Head(e.in).record = d
    BY <1>2, <1>5, <2>4
  <2>6. PICK n : n = Leading(e.in, d)
    OBVIOUS
  <2>7. PICK l \in Nat : l = Len(e.in)
    BY <1>2
  <2>8. n \in Nat /\ n <= l /\ n <= r - e.part /\ (n < l => n = r - e.part)
    BY <1>2, <1>3, <2>1, <2>4, <2>6, <2>7, SMTT(30) DEF Least
  <2>9. Length(d) = r /\ d \in Records
    BY <1>3, <2>3, RecordsAre
  <2>10. Decrypt(e) = IF e.part + n < r THEN TakeBytes(e, n, e.part + n)
                      ELSE [TakeBytes(e, n, 0) EXCEPT !.plain = Payload(d)]
    BY <1>5, <2>5, <2>6, <2>9 DEF Decrypt, Finished, Flights
  <2>11. PICK lm \in Nat : lm = Len(m)
    OBVIOUS
  <2>12. /\ BytesBehind(e.in, n) \in Seq(Byte)
         /\ Len(BytesBehind(e.in, n)) = l - n
         /\ \A i \in 1..(l - n) : BytesBehind(e.in, n)[i] = e.in[n + i]
    <3>1. PICK q \in Seq(Byte) : q = e.in
      BY <1>2
    <3>2. n \in Nat /\ n <= Len(q) /\ l = Len(q)
      BY <2>7, <2>8, <3>1
    <3>3. /\ BytesBehind(q, n) \in Seq(Byte)
          /\ Len(BytesBehind(q, n)) = Len(q) - n
          /\ \A i \in 1..(Len(q) - n) : BytesBehind(q, n)[i] = q[n + i]
      BY <3>2, Behind
    <3> QED
      BY <3>1, <3>2, <3>3
  <2>13. ASSUME NEW t \in EngineType, t.in = BytesBehind(e.in, n), t.taken = e.taken + n
         PROVE  /\ t.taken + Len(t.in) = e.taken + Len(e.in) /\ Len(t.in) <= Len(e.in)
                /\ t.taken + Len(t.in) <= Len(m)
                /\ \A i \in 1..Len(t.in) : t.in[i] = m[t.taken + i]
    <3>1. PICK a \in Nat : a = e.taken
      BY <1>2
    <3>2. Len(t.in) = l - n /\ t.taken = a + n
      BY <2>12, <2>13, <3>1
    <3>3. a + l <= lm
      BY <2>1, <2>7, <2>11, <3>1
    <3>4. (a + n) + (l - n) = a + l
      BY <2>8
    <3>5. ASSUME NEW i \in 1..(l - n) PROVE t.in[i] = m[(a + n) + i]
      <4>1. n + i \in 1..l
        BY <2>8
      <4>2. a + (n + i) = (a + n) + i
        BY <2>8
      <4>3. e.in[n + i] = m[a + (n + i)]
        BY <2>1, <2>7, <3>1, <4>1
      <4> QED
        BY <2>12, <2>13, <4>2, <4>3
    <3>6. l - n <= l
      BY <2>8
    <3>7. t.taken + Len(t.in) = a + l /\ Len(t.in) <= l
      BY <3>2, <3>4, <3>6
    <3>8. t.taken + Len(t.in) <= Len(m)
      BY <2>11, <3>3, <3>7
    <3>9. \A i \in 1..Len(t.in) : t.in[i] = m[t.taken + i]
      BY <3>2, <3>5
    <3> QED
      BY <2>7, <3>1, <3>7, <3>8, <3>9
  <2>14. CASE e.part + n < r
    <3>1. PICK part \in Nat : part = e.part + n
      BY <1>2, <2>8
    <3>2. PICK t : t = TakeBytes(e, n, part)
      OBVIOUS
    <3>3. /\ t \in EngineType /\ t.failed = e.failed /\ t.in = BytesBehind(e.in, n)
          /\ t.taken = e.taken + n /\ t.part = part /\ t.plain = e.plain /\ t.usable = e.usable
          /\ t.writes = e.writes /\ t.out = e.out /\ t.made = e.made /\ t.flight = e.flight
      BY <1>1, <2>7, <2>8, <3>2, TakeBytesIs
    <3>4. Decrypt(e) = t
      BY <2>10, <2>14, <3>1, <3>2
    <3>5. Making(side, t)
      BY <1>1, <3>3 DEF Making
    <3>6. Taking(side, t, m, rd)
      <4>1. t.part < PayloadLen + 1
        BY <1>3, <2>14, <3>1, <3>3
      <4>2. t.taken = At(k) + t.part
        <5>1. At(k) \in Nat
          BY AtFacts
        <5> QED
          BY <1>2, <2>2, <2>8, <3>1, <3>3, <5>1, SMTT(30)
      <4>3. rd \o t.plain = Paid(k)
        BY <2>2, <3>3
      <4>4. t.flight = 4 /\ ~t.failed
        BY <1>1, <1>5, <3>3 DEF Making
      <4> QED
        BY <2>1, <2>13, <3>3, <4>1, <4>2, <4>3, <4>4 DEF Taking
    <3> QED
      BY <1>5, <2>13, <3>3, <3>4, <3>5, <3>6 DEF EngineOK
  <2>15. CASE ~(e.part + n < r)
    <3>1. e.part + n = r
      <4>1. PICK part \in Nat : part = e.part
        BY <1>2
      <4>2. n \in Nat /\ n <= r - part /\ ~(part + n < r)
        BY <2>8, <2>15, <4>1
      <4>3. part + n = r
        BY <4>2
      <4> QED
        BY <4>1, <4>3
    <3>2. PICK u : u = TakeBytes(e, n, 0)
      OBVIOUS
    <3>3. /\ u \in EngineType /\ u.failed = e.failed /\ u.in = BytesBehind(e.in, n)
          /\ u.taken = e.taken + n /\ u.part = 0 /\ u.plain = e.plain /\ u.usable = e.usable
          /\ u.writes = e.writes /\ u.out = e.out /\ u.made = e.made /\ u.flight = e.flight
      BY <1>1, <2>7, <2>8, <3>2, TakeBytesIs
    <3>4. PICK p \in Seq(Byte) : p = Payload(d)
      BY <2>3, WholeRecords, SMTT(30)
    <3>5. PICK t : t = [u EXCEPT !.plain = p]
      OBVIOUS
    <3>6. /\ t \in EngineType /\ t.failed = u.failed /\ t.in = u.in
          /\ t.taken = u.taken /\ t.part = 0 /\ t.plain = p /\ t.usable = u.usable
          /\ t.writes = u.writes /\ t.out = u.out /\ t.made = u.made /\ t.flight = u.flight
      BY <3>3, <3>4, <3>5 DEF EngineType
    <3>7. Decrypt(e) = t
      BY <2>10, <2>15, <3>2, <3>4, <3>5
    <3>8. Making(side, t)
      BY <1>1, <3>3, <3>6 DEF Making
    <3>9. Taking(side, t, m, rd)
      <4>1. t.part < PayloadLen + 1
        BY <1>3, <3>6
      <4>2. t.taken = At(k + 1) + t.part /\ k + 1 \in Nat
        <5>1. At(k) \in Nat /\ At(k + 1) = At(k) + PayloadLen + 1 /\ PayloadLen \in Nat
          BY AtFacts, SSLAssumption
        <5>2. e.taken + n = At(k) + r
          BY <1>2, <2>2, <2>8, <3>1, <5>1, SMTT(30)
        <5> QED
          BY <1>3, <3>3, <3>6, <5>1, <5>2
      <4>3. rd \o t.plain = Paid(k + 1)
        <5>1. Paid(k + 1) = Paid(k) \o p
          BY <2>3, <3>4, PaidFacts
        <5>2. rd \o << >> = rd
          BY ConcatEmptySeq
        <5>3. rd = Paid(k)
          BY <1>5, <2>2, <5>2
        <5> QED
          BY <3>6, <5>1, <5>3
      <4>4. t.flight = 4 /\ ~t.failed
        BY <1>1, <1>5, <3>3, <3>6 DEF Making
      <4>5. t.in = BytesBehind(e.in, n) /\ t.taken = e.taken + n
        BY <3>3, <3>6
      <4>6. /\ t.taken + Len(t.in) <= Len(m)
            /\ \A i \in 1..Len(t.in) : t.in[i] = m[t.taken + i]
        BY <2>13, <3>6, <4>5
      <4> QED
        BY <2>1, <4>1, <4>2, <4>3, <4>4, <4>6 DEF Taking
    <3>10. t.taken + Len(t.in) = e.taken + Len(e.in) /\ Len(t.in) <= Len(e.in)
      BY <2>13, <3>3, <3>6
    <3> QED
      BY <1>5, <3>3, <3>6, <3>7, <3>8, <3>9, <3>10 DEF EngineOK
  <2> QED
    BY <2>14, <2>15
<1> QED
  BY <1>4, <1>5

(* What SSL_read hands out is no longer in the engine.                     *)
LEMMA HandedIs ==
  ASSUME NEW side \in Sides, NEW m \in Seq(Byte), NEW rd \in Seq(Byte),
         NEW e, EngineOK(side, e, m, rd), NEW n \in Nat
  PROVE  LET h == Handed(e, n) IN
         /\ h = [s |-> h.s, status |-> h.status, bytes |-> h.bytes]
         /\ h.status \in Int /\ (h.status < 0 => h.bytes = << >>)
         /\ h.bytes \in Seq(Byte)
         /\ EngineOK(side, h.s, m, rd \o h.bytes)
         /\ h.s.taken = e.taken /\ h.s.in = e.in
         /\ h.s.out = e.out /\ h.s.made = e.made /\ h.s.writes = e.writes
         /\ h.s.flight = e.flight /\ h.s.failed = e.failed
         /\ e.plain = << >> => h.status = -1 /\ h.s = e
<1>1. e \in EngineType /\ Making(side, e) /\ Taking(side, e, m, rd)
  BY DEF EngineOK
<1>2. e.plain \in Seq(Byte)
  BY <1>1 DEF EngineType
<1>3. PICK h : h = Handed(e, n)
  OBVIOUS
<1>4. CASE e.plain = << >>
  <2>1. h = [s |-> e, status |-> -1, bytes |-> << >>]
    BY <1>3, <1>4 DEF Handed
  <2>2. h.s = e /\ h.status = -1 /\ h.bytes = << >>
    BY <2>1
  <2>3. rd \o << >> = rd
    BY ConcatEmptySeq
  <2>4. << >> \in Seq(Byte)
    BY EmptySeq
  <2>5. EngineOK(side, h.s, m, rd \o h.bytes)
    BY <2>2, <2>3
  <2>6. h.bytes \in Seq(Byte)
    BY <2>2, <2>4
  <2> QED
    BY <1>3, <2>1, <2>2, <2>5, <2>6
<1>5. CASE e.plain # << >>
  <2>1. PICK p \in Seq(Byte) : p = e.plain
    BY <1>2
  <2>2. PICK l \in Nat : l = Least(n, Len(p)) /\ l <= Len(p)
    <3>1. Len(p) \in Nat
      OBVIOUS
    <3> QED
      BY <3>1 DEF Least
  <2>3. PICK a \in Seq(Byte) : a = FirstBytes(p, l)
    BY <2>2, InFront
  <2>4. PICK z \in Seq(Byte) : z = BytesBehind(p, l)
    BY <2>2, Behind
  <2>5. a \o z = p
    BY <2>2, <2>3, <2>4, FrontBehind
  <2>6. PICK t : t = [e EXCEPT !.plain = z]
    OBVIOUS
  <2>7. h = [s |-> t, status |-> l, bytes |-> a]
    BY <1>3, <1>5, <2>1, <2>2, <2>3, <2>4, <2>6 DEF Handed
  <2>8. h.s = t /\ h.status = l /\ h.bytes = a
    BY <2>7
  <2>9. /\ t \in EngineType /\ t.failed = e.failed /\ t.in = e.in
        /\ t.taken = e.taken /\ t.part = e.part /\ t.plain = z /\ t.usable = e.usable
        /\ t.writes = e.writes /\ t.out = e.out /\ t.made = e.made /\ t.flight = e.flight
    BY <1>1, <2>4, <2>6 DEF EngineType
  <2>10. e.flight = 4 /\ ~e.failed /\ m # BytesOf(Alert)
    BY <1>1, <1>5 DEF Taking, Making
  <2>11. (rd \o a) \o z = rd \o e.plain
    <3>0. rd \in Seq(Byte) /\ a \in Seq(Byte) /\ z \in Seq(Byte)
      BY <2>3, <2>4
    <3>1. (rd \o a) \o z = rd \o (a \o z)
      BY <3>0, Assoc, Zenon, SMTT(30)
    <3> QED
      BY <2>1, <2>5, <3>1
  <2>12. Making(side, t)
    BY <1>1, <2>9 DEF Making
  <2>13. Taking(side, t, m, rd \o a)
    <3>1. PICK k \in Nat : e.taken = At(k) + e.part /\ rd \o e.plain = Paid(k)
      BY <1>1, <2>10 DEF Taking
    <3>2. t.taken = At(k) + t.part /\ (rd \o a) \o t.plain = Paid(k)
      BY <2>9, <2>11, <3>1
    <3>3. /\ t.part < PayloadLen + 1 /\ t.taken + Len(t.in) <= Len(m)
          /\ \A i \in 1..Len(t.in) : t.in[i] = m[t.taken + i]
      BY <1>1, <2>9, <2>10 DEF Taking
    <3> QED
      BY <2>9, <2>10, <3>2, <3>3 DEF Taking
  <2>14. EngineOK(side, h.s, m, rd \o h.bytes)
    BY <2>8, <2>9, <2>12, <2>13 DEF EngineOK
  <2> QED
    BY <1>3, <1>5, <2>2, <2>7, <2>8, <2>9, <2>14
<1> QED
  BY <1>4, <1>5

-----------------------------------------------------------------------------
(* One call of read_write. *)
CallType ==
  [s : EngineType, error : BOOLEAN, read_size : Int, read_output_size : Int,
   read_output : Seq(Byte), write_output : Seq(Byte)]

(* What has come out of the engine so far, before the input is read and    *)
(* the output taken; e is the session before the call, which may write w   *)
(* payloads.                                                               *)
Progress(side, e, c, m, rd, w) ==
  /\ c \in CallType
  /\ c.error => c.s.failed
  /\ c.read_size = 0
  /\ c.write_output = << >>
  /\ EngineOK(side, c.s, m, rd \o c.read_output)
  /\ c.s.taken + Len(c.s.in) = e.taken + Len(e.in)
  /\ Len(c.s.in) <= Len(e.in)
  /\ c.s.writes <= e.writes + w
  /\ Grown(e, c.s, IF c.s.failed /\ ~e.failed THEN 1 ELSE FlightLen + (PayloadLen + 1))
  /\ e.failed \/ (e.in = << >> /\ e.flight # 4) =>
       c.s.out = e.out /\ c.s.made = e.made /\ c.s.failed = e.failed

(* Two steps. *)
LEMMA GrownTwice ==
  ASSUME NEW e \in EngineType, NEW t, NEW u, NEW i \in Nat, NEW j \in Nat,
         Grown(e, t, i), Grown(t, u, j)
  PROVE  Grown(e, u, i + j)
<1>1. PICK a \in Seq(Byte) : Len(a) <= i /\ t.out = e.out \o a /\ t.made = e.made \o a
  BY DEF Grown
<1>2. PICK b \in Seq(Byte) : Len(b) <= j /\ u.out = t.out \o b /\ u.made = t.made \o b
  BY DEF Grown
<1>3. e.out \in Seq(Byte) /\ e.made \in Seq(Byte)
  BY DEF EngineType
<1>4. u.out = e.out \o (a \o b) /\ u.made = e.made \o (a \o b)
  <2>1. (e.out \o a) \o b = e.out \o (a \o b)
    BY <1>1, <1>2, <1>3, Assoc, Zenon
  <2>2. (e.made \o a) \o b = e.made \o (a \o b)
    BY <1>1, <1>2, <1>3, Assoc, Zenon
  <2> QED
    BY <1>1, <1>2, <2>1, <2>2
<1>5. a \o b \in Seq(Byte) /\ Len(a \o b) = Len(a) + Len(b)
  BY ConcatProperties
<1>6. Len(a \o b) <= i + j
  <2>1. Len(a) \in Nat /\ Len(b) \in Nat
    OBVIOUS
  <2> QED
    BY <1>1, <1>2, <1>5, <2>1
<1> QED
  BY <1>4, <1>5, <1>6 DEF Grown

(* A bound may be raised. *)
LEMMA GrownMore ==
  ASSUME NEW e, NEW t, NEW i \in Nat, NEW j \in Nat, i <= j, Grown(e, t, i)
  PROVE  Grown(e, t, j)
<1>1. PICK a \in Seq(Byte) : Len(a) <= i /\ t.out = e.out \o a /\ t.made = e.made \o a
  BY DEF Grown
<1>2. Len(a) <= j
  BY <1>1
<1> QED
  BY <1>1, <1>2 DEF Grown

(* What SSL_write does, where the handshake comes first. *)
WriteStep(side, e, t, m, rd) ==
  /\ EngineOK(side, t, m, rd)
  /\ Settled(t)
  /\ t.taken + Len(t.in) = e.taken + Len(e.in) /\ Len(t.in) <= Len(e.in)
  /\ t.writes \in {e.writes, e.writes + 1}
  /\ Grown(e, t, IF t.failed /\ ~e.failed THEN 1 ELSE FlightLen + (PayloadLen + 1))
  /\ e.failed \/ (e.in = << >> /\ e.flight # 4) => t = e

(* SSL_write, of an engine for which the invariant holds. *)
LEMMA SSLWriteIs ==
  ASSUME NEW side \in Sides, NEW m \in Seq(Byte), NEW rd, NEW e, EngineOK(side, e, m, rd),
         Incoming(side, e, m)
  PROVE  WriteStep(side, e, SSL_write(e), m, rd)
<1>1. PICK u : u = SSL_do_handshake(e)
  OBVIOUS
<1>2. HandshakeStep(side, e, u, m, rd)
  BY <1>1, Handshake
<1>3. SSL_write(e) = Encrypt(u)
  <2>1. Then(SSL_do_handshake(e), Encrypt) = Encrypt(SSL_do_handshake(e))
    BY DEF Then
  <2> QED
    BY <1>1, <2>1 DEF SSL_write
<1>4. /\ EngineOK(side, u, m, rd) /\ Settled(u)
      /\ Grown(e, u, IF u.failed /\ ~e.failed THEN 1 ELSE FlightLen)
      /\ u.taken + Len(u.in) = e.taken + Len(e.in) /\ Len(u.in) <= Len(e.in)
      /\ u.writes = e.writes
      /\ e.failed => u = e
      /\ e.in = << >> => u = e
  BY <1>2 DEF HandshakeStep
<1>5. PICK t : t = Encrypt(u)
  OBVIOUS
<1>6. /\ EngineOK(side, t, m, rd)
      /\ Grown(u, t, PayloadLen + 1)
      /\ t.writes \in {u.writes, u.writes + 1}
      /\ t.in = u.in /\ t.taken = u.taken /\ t.flight = u.flight /\ t.failed = u.failed
      /\ u.flight # 4 => t = u
  BY <1>4, <1>5, EncryptIs
<1>7. FlightLen \in Nat /\ PayloadLen + 1 \in Nat
  BY SSLAssumption
<1>8. u.failed => u.flight # 4
  BY <1>4 DEF EngineOK, Making
<1>9. Grown(e, t, IF t.failed /\ ~e.failed THEN 1 ELSE FlightLen + (PayloadLen + 1))
  <2>1. CASE u.failed /\ ~e.failed
    BY <1>4, <1>6, <1>8, <2>1
  <2>2. CASE ~(u.failed /\ ~e.failed)
    <3>1. Grown(e, u, FlightLen)
      BY <1>4, <2>2
    <3>2. e \in EngineType
      BY DEF EngineOK
    <3>3. Grown(e, t, FlightLen + (PayloadLen + 1))
      BY <1>6, <1>7, <3>1, <3>2, GrownTwice
    <3> QED
      BY <1>6, <2>2, <3>3
  <2> QED
    BY <2>1, <2>2
<1>10. Settled(t)
  BY <1>4, <1>6 DEF Settled
<1>11. e.failed \/ (e.in = << >> /\ e.flight # 4) => t = e
  <2>1. e.failed => e.flight # 4
    BY DEF EngineOK, Making
  <2> QED
    BY <1>4, <1>6, <2>1
<1>12. t.taken + Len(t.in) = e.taken + Len(e.in) /\ Len(t.in) <= Len(e.in)
  BY <1>4, <1>6
<1>13. t.writes \in {e.writes, e.writes + 1}
  BY <1>4, <1>6
<1>14. WriteStep(side, e, t, m, rd)
  BY <1>6, <1>9, <1>10, <1>11, <1>12, <1>13 DEF WriteStep
<1> QED
  BY <1>3, <1>5, <1>14

(* SSL_read, behind the handshake. *)
LEMMA SSLReadBehind ==
  ASSUME NEW side \in Sides, NEW m \in Seq(Byte), NEW rd \in Seq(Byte), NEW e, NEW t,
         t = SSL_do_handshake(e), EngineOK(side, t, m, rd), NEW n \in Nat,
         Script(Peer(side), m) \/ (side = "client" /\ m = BytesOf(Alert))
  PROVE  LET h == SSL_read(e, n) IN
         /\ h.status \in Int /\ (h.status < 0 => h.bytes = << >>)
         /\ h.bytes \in Seq(Byte)
         /\ EngineOK(side, h.s, m, rd \o h.bytes)
         /\ h.s.taken + Len(h.s.in) = t.taken + Len(t.in) /\ Len(h.s.in) <= Len(t.in)
         /\ h.s.writes = t.writes
         /\ h.s.out = t.out /\ h.s.made = t.made /\ h.s.failed = t.failed
         /\ h.s.flight # 4 => h.status = -1
<1>2. PICK u : u = Decrypt(t)
  OBVIOUS
<1>3. PICK h : h = Handed(u, n)
  OBVIOUS
<1>4. SSL_read(e, n) = h
  <2>1. Then(SSL_do_handshake(e), Decrypt) = Decrypt(SSL_do_handshake(e))
    BY DEF Then
  <2>2. SSL_read(e, n) = Then(u, LAMBDA x : Handed(x, n))
    BY <1>2, <2>1 DEF SSL_read
  <2>3. Then(u, LAMBDA x : Handed(x, n)) = Handed(u, n)
    BY DEF Then
  <2> QED
    BY <1>3, <2>2, <2>3
<1>9. /\ EngineOK(side, u, m, rd)
      /\ u.taken + Len(u.in) = t.taken + Len(t.in) /\ Len(u.in) <= Len(t.in)
      /\ u.out = t.out /\ u.made = t.made /\ u.writes = t.writes
      /\ u.flight = t.flight /\ u.failed = t.failed
  BY <1>2, DecryptIs
<1>10. /\ h.status \in Int /\ (h.status < 0 => h.bytes = << >>)
       /\ h.bytes \in Seq(Byte)
       /\ EngineOK(side, h.s, m, rd \o h.bytes)
       /\ h.s.taken = u.taken /\ h.s.in = u.in
       /\ h.s.out = u.out /\ h.s.made = u.made /\ h.s.writes = u.writes
       /\ h.s.flight = u.flight /\ h.s.failed = u.failed
       /\ u.plain = << >> => h.status = -1
  BY <1>3, <1>9, HandedIs
<1>11. u.flight # 4 => u.plain = << >>
  BY <1>9 DEF EngineOK, Taking
<1> QED
  BY <1>4, <1>9, <1>10, <1>11

(* SSL_read, handshake and all. *)
LEMMA SSLReadIs ==
  ASSUME NEW side \in Sides, NEW m \in Seq(Byte), NEW rd \in Seq(Byte), NEW e,
         EngineOK(side, e, m, rd), Incoming(side, e, m), NEW n \in Nat
  PROVE  LET h == SSL_read(e, n) IN
         /\ h.status \in Int /\ (h.status < 0 => h.bytes = << >>)
         /\ h.bytes \in Seq(Byte)
         /\ EngineOK(side, h.s, m, rd \o h.bytes)
         /\ h.s.taken + Len(h.s.in) = e.taken + Len(e.in) /\ Len(h.s.in) <= Len(e.in)
         /\ h.s.writes = e.writes
         /\ Grown(e, h.s, IF h.s.failed /\ ~e.failed THEN 1 ELSE FlightLen)
         /\ h.s.flight # 4 => h.status = -1
<1>1. PICK t : t = SSL_do_handshake(e)
  OBVIOUS
<1>2. HandshakeStep(side, e, t, m, rd)
  BY <1>1, Handshake
<1>3. /\ EngineOK(side, t, m, rd)
      /\ Grown(e, t, IF t.failed /\ ~e.failed THEN 1 ELSE FlightLen)
      /\ t.taken + Len(t.in) = e.taken + Len(e.in) /\ Len(t.in) <= Len(e.in)
      /\ t.writes = e.writes
  BY <1>2 DEF HandshakeStep
<1>4. Script(Peer(side), m) \/ (side = "client" /\ m = BytesOf(Alert))
  BY DEF Incoming
<1>5. PICK h : h = SSL_read(e, n)
  OBVIOUS
<1>6. /\ h.status \in Int /\ (h.status < 0 => h.bytes = << >>)
      /\ h.bytes \in Seq(Byte)
      /\ EngineOK(side, h.s, m, rd \o h.bytes)
      /\ h.s.taken + Len(h.s.in) = t.taken + Len(t.in) /\ Len(h.s.in) <= Len(t.in)
      /\ h.s.writes = t.writes
      /\ h.s.out = t.out /\ h.s.made = t.made /\ h.s.failed = t.failed
      /\ h.s.flight # 4 => h.status = -1
  BY <1>1, <1>3, <1>4, <1>5, SSLReadBehind
<1>7. Grown(e, h.s, IF h.s.failed /\ ~e.failed THEN 1 ELSE FlightLen)
  BY <1>3, <1>6 DEF Grown
<1> QED
  BY <1>3, <1>5, <1>6, <1>7

(* SSL_read of an engine that has done what it can of the handshake.       *)
LEMMA SSLReadSettled ==
  ASSUME NEW side \in Sides, NEW m \in Seq(Byte), NEW rd \in Seq(Byte), NEW e,
         EngineOK(side, e, m, rd), Settled(e), NEW n \in Nat,
         Script(Peer(side), m) \/ (side = "client" /\ m = BytesOf(Alert))
  PROVE  LET h == SSL_read(e, n) IN
         /\ h.status \in Int /\ (h.status < 0 => h.bytes = << >>)
         /\ h.bytes \in Seq(Byte)
         /\ EngineOK(side, h.s, m, rd \o h.bytes)
         /\ h.s.taken + Len(h.s.in) = e.taken + Len(e.in) /\ Len(h.s.in) <= Len(e.in)
         /\ h.s.writes = e.writes
         /\ h.s.out = e.out /\ h.s.made = e.made /\ h.s.failed = e.failed
         /\ h.s.flight # 4 => h.status = -1
<1>1. e = SSL_do_handshake(e)
  BY DEF SSL_do_handshake, Settled, Finished, Flights
<1>2. PICK h : h = SSL_read(e, n)
  OBVIOUS
<1>3. /\ h.status \in Int /\ (h.status < 0 => h.bytes = << >>)
      /\ h.bytes \in Seq(Byte)
      /\ EngineOK(side, h.s, m, rd \o h.bytes)
      /\ h.s.taken + Len(h.s.in) = e.taken + Len(e.in) /\ Len(h.s.in) <= Len(e.in)
      /\ h.s.writes = e.writes
      /\ h.s.out = e.out /\ h.s.made = e.made /\ h.s.failed = e.failed
      /\ h.s.flight # 4 => h.status = -1
  BY <1>1, <1>2, SSLReadBehind
<1> QED
  BY <1>2, <1>3

(* The first part of read_write: the payload, if there is one.             *)
LEMMA WriteInputIs ==
  ASSUME NEW side \in Sides, NEW m \in Seq(Byte), NEW rd \in Seq(Byte), NEW e,
         EngineOK(side, e, m, rd), Incoming(side, e, m), NEW writing \in BOOLEAN
  PROVE  LET c == write_input(Called(e), writing) IN
         /\ Progress(side, e, c, m, rd, IF writing THEN 1 ELSE 0)
         /\ c.read_output = << >> /\ c.read_output_size = 0
         /\ c.s = e \/ Settled(c.s)
         /\ ~writing => c.s = e /\ ~c.error
<1>1. e \in EngineType
  BY DEF EngineOK
<1>2. PICK o : o = Called(e)
  OBVIOUS
<1>3. o = [s |-> e, error |-> FALSE, read_size |-> 0, read_output_size |-> 0,
           read_output |-> << >>, write_output |-> << >>]
  BY <1>2 DEF Called
<1>4. << >> \in Seq(Byte) /\ rd \o << >> = rd
  BY EmptySeq, ConcatEmptySeq
<1>5. /\ o \in CallType /\ o.s = e /\ o.error = FALSE /\ o.read_size = 0
      /\ o.read_output_size = 0 /\ o.read_output = << >> /\ o.write_output = << >>
  BY <1>1, <1>3, <1>4 DEF CallType
<1>6. FlightLen + (PayloadLen + 1) \in Nat
  BY SSLAssumption
<1>7. e.writes \in Nat
  BY <1>1 DEF EngineType
<1>8. CASE ~writing
  <2>1. write_input(o, writing) = o
    BY <1>8 DEF write_input
  <2>2. Grown(e, e, FlightLen + (PayloadLen + 1))
    BY <1>1, <1>6, GrownByNone
  <2>3. ~(e.failed /\ ~e.failed)
    OBVIOUS
  <2>4. EngineOK(side, o.s, m, rd \o o.read_output)
    BY <1>4, <1>5
  <2>5. e.writes <= e.writes + 0
    BY <1>7
  <2>6. Progress(side, e, o, m, rd, 0)
    BY <1>5, <2>2, <2>3, <2>4, <2>5 DEF Progress
  <2> QED
    BY <1>2, <1>5, <1>8, <2>1, <2>6
<1>9. CASE writing
  <2>1. PICK t : t = SSL_write(e)
    OBVIOUS
  <2>2. /\ EngineOK(side, t, m, rd)
        /\ Settled(t)
        /\ t.taken + Len(t.in) = e.taken + Len(e.in) /\ Len(t.in) <= Len(e.in)
        /\ t.writes \in {e.writes, e.writes + 1}
        /\ Grown(e, t, IF t.failed /\ ~e.failed THEN 1 ELSE FlightLen + (PayloadLen + 1))
        /\ e.failed \/ (e.in = << >> /\ e.flight # 4) => t = e
    <3>1. WriteStep(side, e, t, m, rd)
      BY <2>1, SSLWriteIs
    <3> QED
      BY <3>1 DEF WriteStep
  <2>3. t \in EngineType /\ t.failed \in BOOLEAN
    BY <2>2 DEF EngineOK, EngineType
  <2>4. PICK u : u = [o EXCEPT !.s = t]
    OBVIOUS
  <2>5. /\ u \in CallType /\ u.s = t /\ u.read_size = 0
        /\ u.read_output_size = 0 /\ u.read_output = << >> /\ u.write_output = << >>
    BY <1>5, <2>3, <2>4 DEF CallType
  <2>6. PICK c : c = [u EXCEPT !.error = t.failed]
    OBVIOUS
  <2>7. /\ c \in CallType /\ c.s = t /\ c.error = t.failed /\ c.read_size = 0
        /\ c.read_output_size = 0 /\ c.read_output = << >> /\ c.write_output = << >>
    BY <2>3, <2>5, <2>6 DEF CallType
  <2>8. write_input(o, writing) = c
    <3>1. write_input(o, writing) = Then([o EXCEPT !.s = SSL_write(@)], CheckError)
      BY <1>9 DEF write_input
    <3>2. [o EXCEPT !.s = SSL_write(@)] = u
      BY <1>5, <2>1, <2>4
    <3>3. Then(u, CheckError) = CheckError(u)
      BY DEF Then
    <3>4. CheckError(u) = c
      BY <2>5, <2>6 DEF CheckError
    <3> QED
      BY <3>1, <3>2, <3>3, <3>4
  <2>9. EngineOK(side, c.s, m, rd \o c.read_output)
    BY <1>4, <2>2, <2>7
  <2>10. t.writes <= e.writes + 1
    BY <1>7, <2>2
  <2>11. Progress(side, e, c, m, rd, 1)
    BY <2>2, <2>7, <2>9, <2>10 DEF Progress
  <2> QED
    BY <1>2, <1>9, <2>2, <2>7, <2>8, <2>11
<1> QED
  BY <1>8, <1>9

(* The second part: what the engine can decrypt.                           *)
LEMMA ReadOutputIs ==
  ASSUME NEW side \in Sides, NEW m \in Seq(Byte), NEW rd \in Seq(Byte), NEW e,
         EngineOK(side, e, m, rd), Incoming(side, e, m), NEW w \in Nat,
         NEW d, Progress(side, e, d, m, rd, w), d.read_output = << >>, d.read_output_size = 0,
         d.s = e \/ Settled(d.s)
  PROVE  LET c == read_output(d) IN
         /\ Progress(side, e, c, m, rd, w)
         /\ c.read_output_size < 0 => c.read_output = << >>
         /\ Pending(d.s) = 0 => c = d
         /\ ~d.error /\ Pending(d.s) # 0 /\ c.s.flight # 4 => c.read_output_size = -1
<1>1. CASE d.error \/ Pending(d.s) = 0
  <2>1. read_output(d) = d
    BY <1>1 DEF read_output
  <2> QED
    BY <1>1, <2>1
<1>2. CASE ~d.error /\ Pending(d.s) # 0
  <2>1. /\ d \in CallType /\ d.read_size = 0 /\ d.write_output = << >>
        /\ EngineOK(side, d.s, m, rd \o d.read_output)
        /\ d.s.taken + Len(d.s.in) = e.taken + Len(e.in) /\ Len(d.s.in) <= Len(e.in)
        /\ d.s.writes <= e.writes + w
        /\ Grown(e, d.s, IF d.s.failed /\ ~e.failed THEN 1 ELSE FlightLen + (PayloadLen + 1))
        /\ e.failed \/ (e.in = << >> /\ e.flight # 4) =>
             d.s.out = e.out /\ d.s.made = e.made /\ d.s.failed = e.failed
    BY DEF Progress
  <2>2. rd \o << >> = rd
    BY ConcatEmptySeq
  <2>3. EngineOK(side, d.s, m, rd)
    BY <2>1, <2>2
  <2>4. PICK n \in Nat : n = Pending(d.s)
    <3>1. d.s.in \in Seq(Byte) /\ d.s.plain \in Seq(Byte)
      BY <2>3 DEF EngineOK, EngineType
    <3> QED
      BY <3>1 DEF Pending
  <2>5. PICK h : h = SSL_read(d.s, n)
    OBVIOUS
  <2>6. /\ h.status \in Int /\ (h.status < 0 => h.bytes = << >>)
        /\ h.bytes \in Seq(Byte)
        /\ EngineOK(side, h.s, m, rd \o h.bytes)
        /\ h.s.taken + Len(h.s.in) = d.s.taken + Len(d.s.in) /\ Len(h.s.in) <= Len(d.s.in)
        /\ h.s.writes = d.s.writes
        /\ d.s = e => Grown(e, h.s, IF h.s.failed /\ ~e.failed THEN 1 ELSE FlightLen)
        /\ Settled(d.s) => h.s.out = d.s.out /\ h.s.made = d.s.made /\ h.s.failed = d.s.failed
        /\ h.s.flight # 4 => h.status = -1
    <3>1. PICK x : x = d.s
      OBVIOUS
    <3>2. EngineOK(side, x, m, rd) /\ h = SSL_read(x, n) /\ (x = e \/ Settled(x))
      BY <2>3, <2>5, <3>1
    <3>3. ASSUME x = e
          PROVE  /\ h.status \in Int /\ (h.status < 0 => h.bytes = << >>)
                 /\ h.bytes \in Seq(Byte)
                 /\ EngineOK(side, h.s, m, rd \o h.bytes)
                 /\ h.s.taken + Len(h.s.in) = x.taken + Len(x.in) /\ Len(h.s.in) <= Len(x.in)
                 /\ h.s.writes = x.writes
                 /\ Grown(e, h.s, IF h.s.failed /\ ~e.failed THEN 1 ELSE FlightLen)
                 /\ h.s.flight # 4 => h.status = -1
      <4>1. h = SSL_read(e, n)
        BY <3>2, <3>3
      <4> QED
        BY <3>3, <4>1, SSLReadIs
    <3>4. ASSUME Settled(x)
          PROVE  /\ h.status \in Int /\ (h.status < 0 => h.bytes = << >>)
                 /\ h.bytes \in Seq(Byte)
                 /\ EngineOK(side, h.s, m, rd \o h.bytes)
                 /\ h.s.taken + Len(h.s.in) = x.taken + Len(x.in) /\ Len(h.s.in) <= Len(x.in)
                 /\ h.s.writes = x.writes
                 /\ h.s.out = x.out /\ h.s.made = x.made /\ h.s.failed = x.failed
                 /\ h.s.flight # 4 => h.status = -1
      <4>1. Script(Peer(side), m) \/ (side = "client" /\ m = BytesOf(Alert))
        BY DEF Incoming
      <4> QED
        BY <3>2, <3>4, <4>1, SSLReadSettled, SMTT(30)
    <3> QED
      BY <3>1, <3>2, <3>3, <3>4
  <2>7. h.s \in EngineType /\ h.s.failed \in BOOLEAN
    BY <2>6 DEF EngineOK, EngineType
  <2>8. PICK u : u = [d EXCEPT !.s = h.s, !.read_output_size = h.status, !.read_output = h.bytes]
    OBVIOUS
  <2>9. /\ u \in CallType /\ u.s = h.s /\ u.read_size = 0
        /\ u.read_output_size = h.status /\ u.read_output = h.bytes /\ u.write_output = << >>
    BY <2>1, <2>6, <2>7, <2>8 DEF CallType
  <2>10. PICK c : c = [u EXCEPT !.error = h.s.failed]
    OBVIOUS
  <2>11. /\ c \in CallType /\ c.s = h.s /\ c.read_size = 0 /\ c.error = h.s.failed
         /\ c.read_output_size = h.status /\ c.read_output = h.bytes /\ c.write_output = << >>
    BY <2>7, <2>9, <2>10 DEF CallType
  <2>12. read_output(d) = c
    <3>1. read_output(d) =
            Then(h, LAMBDA r : CheckError([d EXCEPT !.s = r.s, !.read_output_size = r.status,
                                                    !.read_output = r.bytes]))
      BY <1>2, <2>4, <2>5 DEF read_output
    <3>2. Then(h, LAMBDA r : CheckError([d EXCEPT !.s = r.s, !.read_output_size = r.status,
                                                  !.read_output = r.bytes]))
            = CheckError([d EXCEPT !.s = h.s, !.read_output_size = h.status,
                                   !.read_output = h.bytes])
      BY DEF Then
    <3>3. CheckError(u) = c
      BY <2>9, <2>10 DEF CheckError
    <3> QED
      BY <2>8, <3>1, <3>2, <3>3
  <2>13. FlightLen \in Nat /\ FlightLen + (PayloadLen + 1) \in Nat /\ FlightLen <= FlightLen + (PayloadLen + 1)
    BY SSLAssumption
  <2>14. Grown(e, c.s, IF c.s.failed /\ ~e.failed THEN 1 ELSE FlightLen + (PayloadLen + 1))
    <3>1. CASE d.s = e
      <4>1. CASE h.s.failed /\ ~e.failed
        BY <2>6, <2>11, <3>1, <4>1
      <4>2. CASE ~(h.s.failed /\ ~e.failed)
        <5>1. Grown(e, h.s, FlightLen)
          BY <2>6, <3>1, <4>2
        <5>2. Grown(e, h.s, FlightLen + (PayloadLen + 1))
          BY <2>13, <5>1, GrownMore
        <5> QED
          BY <2>11, <4>2, <5>2
      <4> QED
        BY <4>1, <4>2
    <3>2. CASE Settled(d.s)
      BY <2>1, <2>6, <2>11, <3>2 DEF Grown
    <3> QED
      BY <3>1, <3>2
  <2>15. ASSUME e.failed \/ (e.in = << >> /\ e.flight # 4)
         PROVE  c.s.out = e.out /\ c.s.made = e.made /\ c.s.failed = e.failed
    <3>1. Settled(d.s)
      BY <2>15 DEF Settled
    <3> QED
      BY <2>1, <2>6, <2>11, <2>15, <3>1
  <2>16. Progress(side, e, c, m, rd, w)
    BY <2>1, <2>6, <2>11, <2>14, <2>15 DEF Progress
  <2> QED
    BY <1>2, <2>6, <2>11, <2>12, <2>16
<1> QED
  BY <1>1, <1>2

(* What may be in the output queue between two calls: the first flight of  *)
(* a client that was not called yet, or an alert that a failed call left.  *)
OutputLeft(side, e) ==
  \/ e.out = << >>
  \/ side = "client" /\ e.flight = 1 /\ ~e.failed /\ e.in = << >> /\ e.out = e.made
  \/ e.failed /\ Len(e.out) <= 1

(* q are the bytes of m behind the first k. *)
Lies(q, m, k) == \A i \in 1..Len(q) : q[i] = m[k + i]

(* input are the bytes of m that come behind those in the input queue. *)
Follows(e, m, input) ==
  /\ e.taken + Len(e.in) + Len(input) <= Len(m)
  /\ Lies(input, m, e.taken + Len(e.in))

(* There is room for r bytes of the input, which are next in m. *)
Fits(a, input, r, m, taken) ==
  /\ r <= Len(input)
  /\ taken + Len(a) + Len(input) <= Len(m)
  /\ Lies(a, m, taken)
  /\ Lies(input, m, taken + Len(a))

(* A queue that takes r bytes that follow holds the next bytes of m still. *)
LEMMA QueueGrows ==
  ASSUME NEW m \in Seq(Byte), NEW a \in Seq(Byte), NEW taken \in Nat,
         NEW input \in Seq(Byte), NEW r \in Nat, Fits(a, input, r, m, taken)
  PROVE  /\ a \o FirstBytes(input, r) \in Seq(Byte)
         /\ Len(a \o FirstBytes(input, r)) = Len(a) + r
         /\ taken + (Len(a) + r) <= Len(m)
         /\ Lies(a \o FirstBytes(input, r), m, taken)
<1>9. PICK l \in Nat : l = Len(a)
  OBVIOUS
<1>10. PICK k \in Nat : k = Len(input)
  OBVIOUS
<1>11. PICK lm \in Nat : lm = Len(m)
  OBVIOUS
<1>12. /\ r <= k /\ taken + l + k <= lm
       /\ Lies(a, m, taken) /\ Lies(input, m, taken + l)
  BY <1>9, <1>10, <1>11 DEF Fits
<1>3. r <= Len(input)
  BY DEF Fits
<1>1. PICK f \in Seq(Byte) : /\ f = FirstBytes(input, r) /\ Len(f) = r
                             /\ \A i \in 1..r : f[i] = input[i]
  BY <1>3, InFront
<1>4. /\ a \o f \in Seq(Byte) /\ Len(a \o f) = Len(a) + Len(f)
      /\ \A i \in 1..(Len(a) + Len(f)) : (a \o f)[i] = IF i <= Len(a) THEN a[i] ELSE f[i - Len(a)]
  BY ConcatProperties
<1>2. PICK q : q = a \o f
  OBVIOUS
<1>5. q \in Seq(Byte) /\ Len(q) = l + r
  BY <1>1, <1>2, <1>4, <1>9
<1>6. \A i \in 1..(l + r) : q[i] = IF i <= l THEN a[i] ELSE f[i - l]
  BY <1>1, <1>2, <1>4, <1>9
<1>7. taken + (l + r) <= lm
  BY <1>12
<1>8. ASSUME NEW i \in 1..(l + r) PROVE q[i] = m[taken + i]
  <2>1. CASE i <= l
    <3>1. i \in 1..l
      BY <2>1
    <3>2. a[i] = m[taken + i]
      BY <1>9, <1>12, <3>1 DEF Lies
    <3> QED
      BY <1>6, <2>1, <3>2
  <2>2. CASE ~(i <= l)
    <3>5. i - l \in Nat
      BY <2>2
    <3>1. PICK j \in Nat : j = i - l
      BY <3>5
    <3>2. j \in 1..r /\ j \in 1..k /\ taken + l + j = taken + i
      BY <1>12, <2>2, <3>1
    <3>3. q[i] = f[j] /\ f[j] = input[j]
      BY <1>1, <1>6, <2>2, <3>1, <3>2
    <3>4. input[j] = m[taken + l + j]
      BY <1>10, <1>12, <3>2 DEF Lies
    <3> QED
      BY <3>2, <3>3, <3>4
  <2> QED
    BY <2>1, <2>2
<1> QED
  BY <1>1, <1>2, <1>5, <1>7, <1>8, <1>9, <1>11 DEF Lies

(* The input that there is room for is put into the input queue. *)
LEMMA ReadInputIs ==
  ASSUME NEW side \in Sides, NEW m \in Seq(Byte), NEW rd \in Seq(Byte), NEW e \in EngineType,
         NEW w \in Nat, NEW c, Progress(side, e, c, m, rd, w), ~c.error,
         NEW input \in Seq(Byte), Follows(e, m, input), Len(e.in) <= BufferSize
  PROVE  LET d == read_input(c, input) IN
         /\ d \in CallType /\ d.error = c.error
         /\ d.read_output_size = c.read_output_size
         /\ d.read_output = c.read_output /\ d.write_output = c.write_output
         /\ d.read_size \in Nat /\ d.read_size <= Len(input)
         /\ d.read_size = Len(input) \/ Len(d.s.in) = BufferSize
         /\ EngineOK(side, d.s, m, rd \o d.read_output)
         /\ d.s.taken + Len(d.s.in) = e.taken + Len(e.in) + d.read_size
         /\ Len(d.s.in) <= BufferSize
         /\ d.s.out = c.s.out /\ d.s.made = c.s.made
         /\ d.s.failed = c.s.failed /\ d.s.writes = c.s.writes
         /\ d.s.flight = c.s.flight /\ d.s.taken = c.s.taken
<1>1. /\ c \in CallType /\ c.s \in EngineType
      /\ EngineOK(side, c.s, m, rd \o c.read_output)
      /\ c.s.taken + Len(c.s.in) = e.taken + Len(e.in)
  BY DEF Progress, EngineOK
<1>2. PICK t \in EngineType : t = c.s
  BY <1>1
<1>3. /\ t.in \in Seq(Byte) /\ t.taken \in Nat /\ e.in \in Seq(Byte) /\ e.taken \in Nat
  BY DEF EngineType
<1>4. PICK l \in Nat : l = Len(t.in)
  BY <1>3
<1>5. PICK k \in Nat : k = Len(input)
  OBVIOUS
<1>6. BufferSize \in Nat
  BY SSLAssumption
<1>7. Len(c.s.in) <= Len(e.in)
  BY DEF Progress
<1>8. l <= BufferSize
  BY <1>2, <1>3, <1>4, <1>6, <1>7
<1>9. PICK r \in Nat : r = Least(BufferSize - l, k)
  <2>1. BufferSize - l \in Nat
    BY <1>6, <1>8
  <2> QED
    BY <2>1 DEF Least
<1>10. r <= k /\ l + r <= BufferSize /\ (r = k \/ l + r = BufferSize)
  BY <1>6, <1>8, <1>9 DEF Least
<1>11. PICK q : q = t.in \o FirstBytes(input, r)
  OBVIOUS
<1>12. /\ q \in Seq(Byte)
       /\ Len(q) = l + r
       /\ t.taken + Len(q) <= Len(m)
       /\ Lies(q, m, t.taken)
  <2>1. Lies(t.in, m, t.taken)
    BY <1>1, <1>2 DEF EngineOK, Taking, Lies
  <2>2. PICK lm \in Nat : lm = Len(m)
    OBVIOUS
  <2>3. PICK a \in Seq(Byte) : a = t.in
    BY <1>3
  <2>4. PICK v \in Nat : v = t.taken
    BY <1>3
  <2>5. v + l = e.taken + Len(e.in)
    BY <1>1, <1>2, <1>4, <2>4
  <2>6. v + l + k <= lm /\ Lies(input, m, v + l)
    BY <1>5, <2>2, <2>5 DEF Follows
  <2>8. l = Len(a) /\ Lies(a, m, v) /\ q = a \o FirstBytes(input, r)
    BY <1>4, <1>11, <2>1, <2>3, <2>4
  <2>7. Fits(a, input, r, m, v)
    BY <1>5, <1>10, <2>2, <2>6, <2>8 DEF Fits
  <2>9. /\ a \o FirstBytes(input, r) \in Seq(Byte)
        /\ Len(a \o FirstBytes(input, r)) = Len(a) + r
        /\ v + (Len(a) + r) <= Len(m)
        /\ Lies(a \o FirstBytes(input, r), m, v)
    BY <2>7, QueueGrows
  <2> QED
    BY <2>4, <2>8, <2>9
<1>13. PICK u : u = [t EXCEPT !.in = q]
  OBVIOUS
<1>14. /\ u \in EngineType /\ u.failed = t.failed /\ u.in = q
       /\ u.taken = t.taken /\ u.part = t.part /\ u.plain = t.plain /\ u.usable = t.usable
       /\ u.writes = t.writes /\ u.out = t.out /\ u.made = t.made /\ u.flight = t.flight
  BY <1>12, <1>13 DEF EngineType
<1>15. PICK d : d = [c EXCEPT !.read_size = r, !.s.in = q]
  OBVIOUS
<1>16. /\ d \in CallType /\ d.s = u /\ d.error = c.error /\ d.read_size = r
       /\ d.read_output_size = c.read_output_size
       /\ d.read_output = c.read_output /\ d.write_output = c.write_output
  <2>1. d = [c EXCEPT !.read_size = r, !.s = u]
    BY <1>1, <1>2, <1>13, <1>15 DEF CallType
  <2>2. r \in Int
    OBVIOUS
  <2> QED
    BY <1>1, <1>14, <2>1, <2>2 DEF CallType
<1>17. read_input(c, input) = d
  BY <1>1, <1>2, <1>4, <1>5, <1>9, <1>11, <1>15 DEF read_input
<1>18. Making(side, u)
  BY <1>1, <1>2, <1>14 DEF EngineOK, Making
<1>19. Taking(side, u, m, rd \o c.read_output)
  BY <1>1, <1>2, <1>12, <1>14 DEF EngineOK, Taking, Lies
<1>20. EngineOK(side, d.s, m, rd \o d.read_output)
  BY <1>14, <1>16, <1>18, <1>19 DEF EngineOK
<1>21. d.s.taken + Len(d.s.in) = e.taken + Len(e.in) + d.read_size
  <2>1. t.taken + (l + r) = (t.taken + l) + r
    BY <1>3
  <2> QED
    BY <1>1, <1>2, <1>4, <1>12, <1>14, <1>16, <2>1
<1>22. Len(d.s.in) <= BufferSize /\ (d.read_size = Len(input) \/ Len(d.s.in) = BufferSize)
  BY <1>4, <1>5, <1>10, <1>12, <1>14, <1>16
<1>23. d.read_size <= Len(input)
  BY <1>5, <1>10, <1>16
<1> QED
  BY <1>2, <1>14, <1>16, <1>17, <1>20, <1>21, <1>22, <1>23

(* What a call of read_write with this input does. *)
CallDone(side, e, c, m, rd, input, writing) ==
  /\ c.s \in EngineType
  /\ c.read_size \in Nat /\ c.read_size <= Len(input)
  /\ c.read_output \in Seq(Byte) /\ c.write_output \in Seq(Byte)
  /\ EngineOK(side, c.s, m, rd \o c.read_output)
  /\ c.s.taken + Len(c.s.in) = e.taken + Len(e.in) + c.read_size
  /\ Len(c.s.in) <= BufferSize
  /\ \E b \in Seq(Byte) : c.s.made = e.made \o b /\ c.write_output \o c.s.out = e.out \o b
  /\ OutputLeft(side, c.s)
  /\ c.s.writes <= e.writes + (IF writing THEN 1 ELSE 0)
  /\ e.failed => c.s.made = e.made

(* What else can be said of a call without a payload; ClientConnection's   *)
(* loop depends on it.                                                     *)
QuietCall(e, c, input) ==
  /\ c.read_output_size \in Int
  /\ c.read_output_size < 0 => c.read_output = << >>
  /\ c.read_size = Len(input) \/ c.s.failed \/ Len(c.s.in) = BufferSize
  /\ Pending(e) # 0 /\ c.s.flight # 4 => c.read_output_size = -1
  /\ Pending(e) = 0 => /\ c.read_output_size = 0
                       /\ c.s.taken = e.taken /\ c.s.flight = e.flight /\ c.s.failed = e.failed

(* The output is taken, if there was no error. *)
LEMMA TakeOutputIs ==
  ASSUME NEW c \in CallType, ~c.error
  PROVE  LET d == take_output(c) IN
         /\ d.s \in EngineType
         /\ d.write_output = c.s.out /\ d.s.out = << >>
         /\ d.read_size = c.read_size /\ d.read_output = c.read_output
         /\ d.read_output_size = c.read_output_size
         /\ d.s.in = c.s.in /\ d.s.taken = c.s.taken /\ d.s.part = c.s.part
         /\ d.s.plain = c.s.plain /\ d.s.flight = c.s.flight /\ d.s.usable = c.s.usable
         /\ d.s.failed = c.s.failed /\ d.s.writes = c.s.writes /\ d.s.made = c.s.made
<1>1. PICK s \in EngineType : s = c.s
  BY DEF CallType
<1>2. PICK t : t = [s EXCEPT !.out = << >>]
  OBVIOUS
<1>3. << >> \in Seq(Byte)
  BY EmptySeq
<1>4. /\ t \in EngineType /\ t.out = << >>
      /\ t.in = s.in /\ t.taken = s.taken /\ t.part = s.part /\ t.plain = s.plain
      /\ t.flight = s.flight /\ t.usable = s.usable /\ t.failed = s.failed
      /\ t.writes = s.writes /\ t.made = s.made
  BY <1>2, <1>3 DEF EngineType
<1>5. PICK d : d = [c EXCEPT !.write_output = s.out, !.s = t]
  OBVIOUS
<1>6. /\ d.s = t /\ d.write_output = s.out /\ d.read_size = c.read_size
      /\ d.read_output = c.read_output /\ d.read_output_size = c.read_output_size
  BY <1>5 DEF CallType
<1>7. take_output(c) = d
  BY <1>1, <1>2, <1>5 DEF take_output, CallType
<1> QED
  BY <1>1, <1>4, <1>6, <1>7

(* A failed call leaves an alert at most. *)
LEMMA ErrorLeaves ==
  ASSUME NEW side \in Sides, NEW m, NEW rd, NEW w, NEW e \in EngineType, NEW c,
         Progress(side, e, c, m, rd, w), OutputLeft(side, e), c.error
  PROVE  OutputLeft(side, c.s)
<1>1. c.s.failed
  BY DEF Progress
<1>2. CASE e.failed
  <2>1. c.s.out = e.out
    BY <1>2 DEF Progress
  <2>2. e.out = << >> \/ Len(e.out) <= 1
    BY <1>2 DEF OutputLeft
  <2> QED
    BY <1>1, <2>1, <2>2 DEF OutputLeft
<1>3. CASE ~e.failed
  <2>1. Grown(e, c.s, 1)
    BY <1>1, <1>3 DEF Progress
  <2>2. PICK b \in Seq(Byte) : Len(b) <= 1 /\ c.s.out = e.out \o b
    BY <2>1 DEF Grown
  <2>3. ~(e.in = << >> /\ e.flight # 4)
    BY <1>1, <1>3 DEF Progress
  <2>4. e.out = << >>
    BY <1>3, <2>3 DEF OutputLeft
  <2>5. << >> \o b = b
    BY ConcatEmptySeq
  <2> QED
    BY <1>1, <2>2, <2>4, <2>5 DEF OutputLeft
<1>4. e.failed \in BOOLEAN
  BY DEF EngineType
<1> QED
  BY <1>2, <1>3


(* The parts of read_write, one after the other. *)
LEMMA ReadWriteParts ==
  ASSUME NEW e, NEW input, NEW writing
  PROVE  read_write(e, input, writing) =
           take_output(read_input(read_output(write_input(Called(e), writing)), input))
<1>1. PICK d : d = write_input(Called(e), writing)
  OBVIOUS
<1>2. Then(d, read_output) = read_output(d)
  BY DEF Then
<1>3. PICK c : c = read_output(d)
  OBVIOUS
<1>4. Then(c, LAMBDA x : read_input(x, input)) = read_input(c, input)
  BY DEF Then
<1>5. PICK f : f = read_input(c, input)
  OBVIOUS
<1>6. Then(f, take_output) = take_output(f)
  BY DEF Then
<1>7. read_write(e, input, writing) = Then(Then(Then(d, read_output), LAMBDA x : read_input(x, input)), take_output)
  BY <1>1 DEF read_write
<1>8. read_write(e, input, writing) = Then(Then(c, LAMBDA x : read_input(x, input)), take_output)
  BY <1>2, <1>3, <1>7
<1>9. read_write(e, input, writing) = Then(f, take_output)
  BY <1>4, <1>5, <1>8
<1> QED
  BY <1>1, <1>3, <1>5, <1>6, <1>9

(* A call that failed. *)
LEMMA FailedCall ==
  ASSUME NEW side \in Sides, NEW m \in Seq(Byte), NEW rd \in Seq(Byte), NEW e \in EngineType,
         NEW input \in Seq(Byte), Len(e.in) <= BufferSize, OutputLeft(side, e),
         NEW writing \in BOOLEAN, NEW c,
         Progress(side, e, c, m, rd, IF writing THEN 1 ELSE 0), c.error
  PROVE  /\ take_output(read_input(c, input)) = c
         /\ CallDone(side, e, c, m, rd, input, writing)
<1>1. take_output(read_input(c, input)) = c
  <2>1. read_input(c, input) = c
    BY DEF read_input
  <2> QED
    BY <2>1 DEF take_output
<1>2. /\ c \in CallType /\ c.read_size = 0 /\ c.write_output = << >>
      /\ EngineOK(side, c.s, m, rd \o c.read_output)
      /\ c.s.taken + Len(c.s.in) = e.taken + Len(e.in) /\ Len(c.s.in) <= Len(e.in)
      /\ c.s.writes <= e.writes + (IF writing THEN 1 ELSE 0)
      /\ Grown(e, c.s, IF c.s.failed /\ ~e.failed THEN 1 ELSE FlightLen + (PayloadLen + 1))
      /\ e.failed => c.s.made = e.made
  BY DEF Progress
<1>3. c.s \in EngineType /\ c.read_output \in Seq(Byte) /\ c.write_output \in Seq(Byte)
  BY <1>2 DEF CallType
<1>4. OutputLeft(side, c.s)
  BY ErrorLeaves
<1>5. c.s.in \in Seq(Byte) /\ e.in \in Seq(Byte) /\ e.taken \in Nat /\ c.s.out \in Seq(Byte)
  BY <1>3 DEF EngineType
<1>6. Len(c.s.in) <= BufferSize
  <2>1. Len(c.s.in) \in Nat /\ Len(e.in) \in Nat /\ BufferSize \in Nat
    BY <1>5, SSLAssumption
  <2> QED
    BY <1>2, <2>1
<1>7. PICK b \in Seq(Byte) : c.s.out = e.out \o b /\ c.s.made = e.made \o b
  BY <1>2 DEF Grown
<1>8. c.write_output \o c.s.out = e.out \o b
  <2>1. << >> \o c.s.out = c.s.out
    BY <1>5, ConcatEmptySeq
  <2> QED
    BY <1>2, <1>7, <2>1
<1>9. c.read_size \in Nat /\ c.read_size <= Len(input)
  BY <1>2
<1>10. c.s.taken + Len(c.s.in) = e.taken + Len(e.in) + c.read_size
  <2>1. e.taken + Len(e.in) \in Nat
    BY <1>5
  <2> QED
    BY <1>2, <2>1
<1>11. CallDone(side, e, c, m, rd, input, writing)
  BY <1>2, <1>3, <1>4, <1>6, <1>7, <1>8, <1>9, <1>10 DEF CallDone
<1> QED
  BY <1>1, <1>11

(* What the parts after read_output do to a call without an error. *)
LEMMA GoodCall ==
  ASSUME NEW side \in Sides, NEW m \in Seq(Byte), NEW rd \in Seq(Byte), NEW e \in EngineType,
         NEW input \in Seq(Byte), Follows(e, m, input), Len(e.in) <= BufferSize,
         NEW writing \in BOOLEAN, NEW c,
         Progress(side, e, c, m, rd, IF writing THEN 1 ELSE 0), ~c.error
  PROVE  LET g == take_output(read_input(c, input)) IN
         /\ CallDone(side, e, g, m, rd, input, writing)
         /\ g.read_size = Len(input) \/ Len(g.s.in) = BufferSize
         /\ g.read_output_size = c.read_output_size /\ g.read_output = c.read_output
         /\ g.s.taken = c.s.taken /\ g.s.flight = c.s.flight /\ g.s.failed = c.s.failed
<1>1. PICK f : f = read_input(c, input)
  OBVIOUS
<1>2. PICK w \in Nat : w = IF writing THEN 1 ELSE 0
  OBVIOUS
<1>3. Progress(side, e, c, m, rd, w)
  BY <1>2
<1>4. /\ f \in CallType /\ f.error = c.error
      /\ f.read_output_size = c.read_output_size
      /\ f.read_output = c.read_output /\ f.write_output = c.write_output
      /\ f.read_size \in Nat /\ f.read_size <= Len(input)
      /\ f.read_size = Len(input) \/ Len(f.s.in) = BufferSize
      /\ EngineOK(side, f.s, m, rd \o f.read_output)
      /\ f.s.taken + Len(f.s.in) = e.taken + Len(e.in) + f.read_size
      /\ Len(f.s.in) <= BufferSize
      /\ f.s.out = c.s.out /\ f.s.made = c.s.made
      /\ f.s.failed = c.s.failed /\ f.s.writes = c.s.writes
      /\ f.s.flight = c.s.flight /\ f.s.taken = c.s.taken
  BY <1>1, <1>3, ReadInputIs
<1>5. PICK g : g = take_output(f)
  OBVIOUS
<1>6. /\ g.s \in EngineType
      /\ g.write_output = f.s.out /\ g.s.out = << >>
      /\ g.read_size = f.read_size /\ g.read_output = f.read_output
      /\ g.read_output_size = f.read_output_size
      /\ g.s.in = f.s.in /\ g.s.taken = f.s.taken /\ g.s.part = f.s.part
      /\ g.s.plain = f.s.plain /\ g.s.flight = f.s.flight /\ g.s.usable = f.s.usable
      /\ g.s.failed = f.s.failed /\ g.s.writes = f.s.writes /\ g.s.made = f.s.made
  <2>1. f \in CallType /\ ~f.error
    BY <1>4
  <2> QED
    BY <1>5, <2>1, TakeOutputIs
<1>7. /\ Grown(e, c.s, IF c.s.failed /\ ~e.failed THEN 1 ELSE FlightLen + (PayloadLen + 1))
      /\ c.s.writes <= e.writes + w
      /\ e.failed => c.s.made = e.made
  BY <1>3 DEF Progress
<1>8. PICK b \in Seq(Byte) : c.s.out = e.out \o b /\ c.s.made = e.made \o b
  BY <1>7 DEF Grown
<1>9. EngineOK(side, g.s, m, rd \o g.read_output)
  <2>1. Making(side, f.s) /\ Taking(side, f.s, m, rd \o f.read_output)
    BY <1>4 DEF EngineOK
  <2>2. Making(side, g.s)
    BY <1>6, <2>1 DEF Making
  <2>3. Taking(side, g.s, m, rd \o g.read_output)
    BY <1>6, <2>1 DEF Taking
  <2> QED
    BY <1>6, <2>2, <2>3 DEF EngineOK
<1>10. /\ f.read_output \in Seq(Byte) /\ f.s.out \in Seq(Byte)
  BY <1>4 DEF CallType, EngineType
<1>11. g.write_output \o g.s.out = e.out \o b
  <2>1. f.s.out \o << >> = f.s.out
    BY <1>10, ConcatEmptySeq
  <2> QED
    BY <1>4, <1>6, <1>8, <2>1
<1>12. OutputLeft(side, g.s)
  BY <1>6 DEF OutputLeft
<1>13. /\ g.read_size \in Nat /\ g.read_size <= Len(input)
       /\ g.read_output \in Seq(Byte) /\ g.write_output \in Seq(Byte)
       /\ g.s.taken + Len(g.s.in) = e.taken + Len(e.in) + g.read_size
       /\ Len(g.s.in) <= BufferSize
       /\ g.s.writes <= e.writes + (IF writing THEN 1 ELSE 0)
       /\ e.failed => g.s.made = e.made
       /\ g.s.made = e.made \o b
  BY <1>2, <1>4, <1>6, <1>7, <1>8, <1>10
<1>14. CallDone(side, e, g, m, rd, input, writing)
  BY <1>6, <1>9, <1>11, <1>12, <1>13 DEF CallDone
<1> QED
  BY <1>1, <1>4, <1>5, <1>6, <1>14

(* read_write. *)
LEMMA ReadWrite ==
  ASSUME NEW side \in Sides, NEW m \in Seq(Byte), NEW rd \in Seq(Byte), NEW e,
         EngineOK(side, e, m, rd), Incoming(side, e, m),
         NEW input \in Seq(Byte), Follows(e, m, input), Len(e.in) <= BufferSize,
         OutputLeft(side, e), NEW writing \in BOOLEAN
  PROVE  LET c == read_write(e, input, writing) IN
         /\ CallDone(side, e, c, m, rd, input, writing)
         /\ ~writing => QuietCall(e, c, input)
<1>1. PICK d : d = write_input(Called(e), writing)
  OBVIOUS
<1>2. PICK w \in Nat : w = IF writing THEN 1 ELSE 0
  OBVIOUS
<1>3. /\ Progress(side, e, d, m, rd, w)
      /\ d.read_output = << >> /\ d.read_output_size = 0
      /\ d.s = e \/ Settled(d.s)
      /\ ~writing => d.s = e /\ ~d.error
  BY <1>1, <1>2, WriteInputIs
<1>4. PICK c : c = read_output(d)
  OBVIOUS
<1>5. /\ Progress(side, e, c, m, rd, w)
      /\ c.read_output_size < 0 => c.read_output = << >>
      /\ Pending(d.s) = 0 => c = d
      /\ ~d.error /\ Pending(d.s) # 0 /\ c.s.flight # 4 => c.read_output_size = -1
  BY <1>3, <1>4, ReadOutputIs
<1>6. PICK g : g = take_output(read_input(c, input))
  OBVIOUS
<1>7. read_write(e, input, writing) = g
  BY <1>1, <1>4, <1>6, ReadWriteParts
<1>8. e \in EngineType
  BY DEF EngineOK
<1>9. Progress(side, e, c, m, rd, IF writing THEN 1 ELSE 0)
  BY <1>2, <1>5
<1>10. c \in CallType /\ c.read_output_size \in Int /\ (c.error => c.s.failed)
  BY <1>5 DEF Progress, CallType
<1>11. CASE c.error
  <2>1. g = c /\ CallDone(side, e, c, m, rd, input, writing)
    BY <1>6, <1>8, <1>9, <1>11, FailedCall
  <2>2. ~writing => QuietCall(e, c, input)
    BY <1>3, <1>5, <1>10, <1>11 DEF QuietCall
  <2> QED
    BY <1>7, <2>1, <2>2
<1>12. CASE ~c.error
  <2>1. /\ CallDone(side, e, g, m, rd, input, writing)
        /\ g.read_size = Len(input) \/ Len(g.s.in) = BufferSize
        /\ g.read_output_size = c.read_output_size /\ g.read_output = c.read_output
        /\ g.s.taken = c.s.taken /\ g.s.flight = c.s.flight /\ g.s.failed = c.s.failed
    BY <1>6, <1>8, <1>9, <1>12, GoodCall
  <2>2. ~writing => QuietCall(e, g, input)
    BY <1>3, <1>5, <1>10, <2>1 DEF QuietCall
  <2> QED
    BY <1>7, <2>1, <2>2
<1> QED
  BY <1>11, <1>12

-----------------------------------------------------------------------------
(* The bytes m that one engine made, from the first that the other, e, has *)
(* not in its queue: those on the way, w, and those in the output queue o. *)
Flow(e, w, o, m) ==
  /\ e.taken + Len(e.in) + Len(w) + Len(o) = Len(m)
  /\ Lies(w, m, e.taken + Len(e.in))
  /\ Lies(o, m, e.taken + Len(e.in) + Len(w))

(* The same with a number for the bytes before. *)
Stream(k, w, o, m) ==
  /\ k + Len(w) + Len(o) = Len(m)
  /\ Lies(w, m, k)
  /\ Lies(o, m, k + Len(w))

(* Flow is Stream, counted from what the engine has taken or queued. *)
LEMMA FlowIsStream ==
  ASSUME NEW e, NEW w, NEW o, NEW m, NEW k, k = e.taken + Len(e.in)
  PROVE  Flow(e, w, o, m) <=> Stream(k, w, o, m)
BY DEF Flow, Stream

(* What a caller passes are the next bytes. *)
LEMMA PiecesFollow ==
  ASSUME NEW w \in Seq(Byte), NEW o \in Seq(Byte), NEW m \in Seq(Byte), NEW k \in Nat,
         Stream(k, w, o, m), NEW n \in Nat, n <= Len(w)
  PROVE  /\ k + Len(FirstBytes(w, n)) <= Len(m)
         /\ Lies(FirstBytes(w, n), m, k)
<1>1. /\ FirstBytes(w, n) \in Seq(Byte)
      /\ Len(FirstBytes(w, n)) = n
      /\ \A i \in 1..n : FirstBytes(w, n)[i] = w[i]
  BY InFront
<1>2. k + Len(w) + Len(o) = Len(m) /\ Lies(w, m, k)
  BY DEF Stream
<1>3. Len(w) \in Nat /\ Len(o) \in Nat
  OBVIOUS
<1>4. k + n <= Len(m)
  BY <1>2, <1>3
<1>5. ASSUME NEW i \in 1..n PROVE FirstBytes(w, n)[i] = m[k + i]
  <2>1. i \in 1..Len(w)
    BY <1>3
  <2> QED
    BY <1>1, <1>2, <2>1 DEF Lies
<1> QED
  BY <1>1, <1>4, <1>5 DEF Lies

(* Some of the bytes on the way are received. *)
LEMMA StreamReceived ==
  ASSUME NEW w \in Seq(Byte), NEW o \in Seq(Byte), NEW m \in Seq(Byte), NEW k \in Nat,
         Stream(k, w, o, m), NEW r \in Nat, r <= Len(w)
  PROVE  Stream(k + r, BytesBehind(w, r), o, m)
<1>1. /\ BytesBehind(w, r) \in Seq(Byte)
      /\ Len(BytesBehind(w, r)) = Len(w) - r
      /\ \A i \in 1..(Len(w) - r) : BytesBehind(w, r)[i] = w[r + i]
  BY Behind
<1>2. k + Len(w) + Len(o) = Len(m) /\ Lies(w, m, k) /\ Lies(o, m, k + Len(w))
  BY DEF Stream
<1>3. PICK lw \in Nat : lw = Len(w)
  OBVIOUS
<1>4. PICK lo \in Nat : lo = Len(o)
  OBVIOUS
<1>5. (k + r) + (lw - r) = k + lw
  BY <1>3
<1>6. ASSUME NEW i \in 1..(lw - r) PROVE BytesBehind(w, r)[i] = m[(k + r) + i]
  <2>1. r + i \in 1..lw /\ k + (r + i) = (k + r) + i
    BY <1>3
  <2>2. w[r + i] = m[k + (r + i)]
    BY <1>2, <1>3, <2>1 DEF Lies
  <2> QED
    BY <1>1, <1>3, <2>1, <2>2
<1>7. Lies(BytesBehind(w, r), m, k + r)
  BY <1>1, <1>3, <1>6 DEF Lies
<1> QED
  BY <1>1, <1>2, <1>3, <1>4, <1>5, <1>7 DEF Stream

(* A part of a sequence is where it was when the sequence grows. *)
LEMMA LiesStill ==
  ASSUME NEW q \in Seq(Byte), NEW m \in Seq(Byte), NEW b \in Seq(Byte), NEW k \in Nat,
         k + Len(q) <= Len(m), Lies(q, m, k)
  PROVE  Lies(q, m \o b, k)
<1>1. /\ Len(m \o b) = Len(m) + Len(b)
      /\ \A i \in 1..(Len(m) + Len(b)) : (m \o b)[i] = IF i <= Len(m) THEN m[i] ELSE b[i - Len(m)]
  BY ConcatProperties
<1>2. Len(m) \in Nat /\ Len(b) \in Nat /\ Len(q) \in Nat
  OBVIOUS
<1>3. ASSUME NEW i \in 1..Len(q) PROVE q[i] = (m \o b)[k + i]
  <2>1. k + i \in 1..(Len(m) + Len(b)) /\ k + i <= Len(m)
    BY <1>2
  <2>2. (m \o b)[k + i] = m[k + i]
    BY <1>1, <2>1
  <2> QED
    BY <2>2 DEF Lies
<1> QED
  BY <1>3 DEF Lies

(* What lies behind the first k bytes, cut in two. *)
LEMMA LiesInTwo ==
  ASSUME NEW p \in Seq(Byte), NEW q \in Seq(Byte), NEW m, NEW k \in Nat
  PROVE  Lies(p \o q, m, k) <=> Lies(p, m, k) /\ Lies(q, m, k + Len(p))
<1>1. PICK a \in Nat : a = Len(p)
  OBVIOUS
<1>2. PICK b \in Nat : b = Len(q)
  OBVIOUS
<1>3. /\ Len(p \o q) = a + b
      /\ \A i \in 1..(a + b) : (p \o q)[i] = IF i <= a THEN p[i] ELSE q[i - a]
  BY <1>1, <1>2, ConcatProperties
<1>4. PICK s : s = p \o q
  OBVIOUS
<1>5. /\ Len(s) = a + b
      /\ \A i \in 1..(a + b) : s[i] = IF i <= a THEN p[i] ELSE q[i - a]
  BY <1>3, <1>4
<1>6. ASSUME Lies(s, m, k) PROVE Lies(p, m, k) /\ Lies(q, m, k + a)
  <2>1. ASSUME NEW i \in 1..a PROVE p[i] = m[k + i]
    <3>1. i \in 1..(a + b) /\ i <= a
      OBVIOUS
    <3>2. s[i] = m[k + i]
      BY <1>5, <1>6, <3>1 DEF Lies
    <3> QED
      BY <1>5, <3>1, <3>2
  <2>2. ASSUME NEW i \in 1..b PROVE q[i] = m[(k + a) + i]
    <3>1. PICK j \in Nat : j = a + i
      OBVIOUS
    <3>2. j \in 1..(a + b) /\ ~(j <= a) /\ j - a = i /\ k + j = (k + a) + i
      BY <3>1
    <3>3. s[j] = m[k + j]
      BY <1>5, <1>6, <3>2 DEF Lies
    <3>4. s[j] = q[i]
      BY <1>5, <3>2
    <3> QED
      BY <3>2, <3>3, <3>4
  <2> QED
    BY <1>1, <1>2, <2>1, <2>2 DEF Lies
<1>7. ASSUME Lies(p, m, k), Lies(q, m, k + a) PROVE Lies(s, m, k)
  <2>1. ASSUME NEW i \in 1..(a + b) PROVE s[i] = m[k + i]
    <3>1. CASE i <= a
      <4>1. i \in 1..a
        BY <3>1
      <4>2. p[i] = m[k + i]
        BY <1>1, <1>7, <4>1 DEF Lies
      <4> QED
        BY <1>5, <3>1, <4>2
    <3>2. CASE ~(i <= a)
      <4>1. i - a \in 1..b
        BY <3>2
      <4>2. PICK j \in 1..b : j = i - a
        BY <4>1
      <4>3. (k + a) + j = k + i
        BY <4>2
      <4>4. q[j] = m[(k + a) + j]
        BY <1>2, <1>7, <4>2 DEF Lies
      <4>5. s[i] = q[j]
        BY <1>5, <3>2, <4>2
      <4> QED
        BY <4>3, <4>4, <4>5
    <3> QED
      BY <3>1, <3>2
  <2> QED
    BY <1>5, <2>1 DEF Lies
<1> QED
  BY <1>1, <1>4, <1>6, <1>7

(* What was just made lies behind what was there. *)
LEMMA NewBytesLie ==
  ASSUME NEW m \in Seq(Byte), NEW b \in Seq(Byte)
  PROVE  Lies(b, m \o b, Len(m))
<1>1. Lies(m \o b, m \o b, 0) <=> Lies(m, m \o b, 0) /\ Lies(b, m \o b, 0 + Len(m))
  BY LiesInTwo
<1>2. Lies(m \o b, m \o b, 0)
  <2>1. m \o b \in Seq(Byte)
    BY ConcatProperties
  <2> QED
    BY <2>1 DEF Lies
<1>3. 0 + Len(m) = Len(m)
  OBVIOUS
<1> QED
  BY <1>1, <1>2, <1>3

(* The engine makes bytes b more and some of its output goes on the way.   *)
LEMMA StreamGiven ==
  ASSUME NEW w \in Seq(Byte), NEW o \in Seq(Byte), NEW m \in Seq(Byte), NEW k \in Nat,
         Stream(k, w, o, m), NEW b \in Seq(Byte), NEW sent \in Seq(Byte), NEW left \in Seq(Byte),
         sent \o left = o \o b
  PROVE  Stream(k, w \o sent, left, m \o b)
<1>1. k + Len(w) + Len(o) = Len(m) /\ Lies(w, m, k) /\ Lies(o, m, k + Len(w))
  BY DEF Stream
<1>2. PICK lw \in Nat : lw = Len(w)
  OBVIOUS
<1>3. PICK lo \in Nat : lo = Len(o)
  OBVIOUS
<1>4. PICK lb \in Nat : lb = Len(b)
  OBVIOUS
<1>5. PICK ls \in Nat : ls = Len(sent)
  OBVIOUS
<1>6. PICK ll \in Nat : ll = Len(left)
  OBVIOUS
<1>7. PICK lm \in Nat : lm = Len(m)
  OBVIOUS
<1>8. Len(sent \o left) = ls + ll /\ Len(o \o b) = lo + lb
  BY <1>3, <1>4, <1>5, <1>6, ConcatProperties
<1>9. ls + ll = lo + lb
  BY <1>8
<1>10. k + lw + lo = lm
  BY <1>1, <1>2, <1>3, <1>7
<1>11. Len(w \o sent) = lw + ls /\ Len(m \o b) = lm + lb
  BY <1>2, <1>4, <1>5, <1>7, ConcatProperties
<1>12. k + (lw + ls) + ll = lm + lb
  BY <1>9, <1>10
<1>13. Lies(w, m \o b, k)
  <2>1. k + Len(w) <= Len(m)
    BY <1>2, <1>7, <1>10
  <2> QED
    BY <1>1, <2>1, LiesStill
<1>14. Lies(o, m \o b, k + lw)
  <2>1. (k + lw) + Len(o) <= Len(m) /\ k + lw \in Nat
    BY <1>3, <1>7, <1>10
  <2>2. Lies(o, m, k + lw)
    BY <1>1, <1>2
  <2> QED
    BY <2>1, <2>2, LiesStill
<1>15. Lies(b, m \o b, (k + lw) + lo)
  BY <1>7, <1>10, NewBytesLie
<1>16. Lies(o \o b, m \o b, k + lw)
  <2>1. k + lw \in Nat
    OBVIOUS
  <2>2. Lies(o \o b, m \o b, k + lw) <=> Lies(o, m \o b, k + lw) /\ Lies(b, m \o b, (k + lw) + Len(o))
    BY <2>1, LiesInTwo
  <2> QED
    BY <1>3, <1>14, <1>15, <2>2
<1>17. Lies(sent, m \o b, k + lw) /\ Lies(left, m \o b, (k + lw) + ls)
  <2>1. k + lw \in Nat
    OBVIOUS
  <2>2. Lies(sent \o left, m \o b, k + lw) <=>
          Lies(sent, m \o b, k + lw) /\ Lies(left, m \o b, (k + lw) + Len(sent))
    BY <2>1, LiesInTwo
  <2> QED
    BY <1>5, <1>16, <2>2
<1>18. Lies(w \o sent, m \o b, k)
  <2>1. Lies(w \o sent, m \o b, k) <=> Lies(w, m \o b, k) /\ Lies(sent, m \o b, k + Len(w))
    BY LiesInTwo
  <2> QED
    BY <1>2, <1>13, <1>17, <2>1
<1>19. (k + lw) + ls = k + (lw + ls)
  OBVIOUS
<1> QED
  BY <1>6, <1>11, <1>12, <1>17, <1>18, <1>19 DEF Stream

-----------------------------------------------------------------------------
(* An engine that has come far has taken as many bytes, and its peer must  *)
(* have made them.                                                         *)
LEMMA FarMeansMade ==
  ASSUME NEW side \in Sides, NEW m \in Seq(Byte), NEW rd, NEW e, EngineOK(side, e, m, rd)
  PROVE  /\ e.taken \in Nat /\ Len(m) \in Nat /\ e.taken <= Len(m)
         /\ e.flight = 4 => e.taken >= FlightLen + FlightLen
         /\ e.flight = 3 => e.taken >= FlightLen
<1>1. e \in EngineType /\ Making(side, e) /\ Taking(side, e, m, rd)
  BY DEF EngineOK
<1>2. e.taken \in Nat /\ e.in \in Seq(Byte) /\ e.part \in Nat /\ e.flight \in Nat
  BY <1>1 DEF EngineType
<1>3. e.taken <= Len(m) /\ Len(m) \in Nat
  <2>1. e.taken + Len(e.in) <= Len(m)
    BY <1>1 DEF Taking
  <2>2. Len(e.in) \in Nat /\ Len(m) \in Nat
    BY <1>2
  <2> QED
    BY <1>2, <2>1, <2>2
<1>4. ASSUME e.flight = 4 PROVE e.taken >= FlightLen + FlightLen
  <2>1. PICK k \in Nat : e.taken = At(k) + e.part
    BY <1>1, <1>4 DEF Taking
  <2>2. At(k) \in Nat /\ At(k) >= FlightLen + FlightLen
    BY AtFacts
  <2> QED
    BY <1>2, <2>1, <2>2, SSLAssumption
<1>5. ASSUME e.flight = 3 PROVE e.taken >= FlightLen
  <2>1. ~e.failed
    BY <1>1, <1>5 DEF Making
  <2>2. e.taken = Got(3) + e.part
    BY <1>1, <1>5, <2>1 DEF Taking
  <2>3. Got(3) = FlightLen
    BY DEF Got
  <2> QED
    BY <1>2, <2>2, <2>3, SSLAssumption
<1> QED
  BY <1>2, <1>3, <1>4, <1>5

(* Only an engine that has failed has made an alert, and only a server. *)
LEMMA AlertMade ==
  ASSUME NEW side \in Sides, NEW e \in EngineType, Making(side, e), e.made = BytesOf(Alert)
  PROVE  side = "server" /\ e.failed
<1> SUFFICES ASSUME ~(e.failed /\ side = "server") PROVE FALSE
  OBVIOUS
<1>1. Script(side, e.made)
  BY DEF Making
<1>2. PICK m \in Seq(Byte) : m = e.made
  BY DEF EngineType
<1>3. Len(m) = 1 /\ m[1] = [record |-> Alert, place |-> 1]
  BY <1>2, WholeRecords
<1>4. 1 \in 1..Len(m) /\ 1 <= FlightLen
  BY <1>3, SSLAssumption
<1>5. m[1].record = Flight(FirstFlight(side))
  BY <1>1, <1>2, <1>4, ScriptFirst
<1>6. FirstFlight(side) \in Nat
  BY DEF FirstFlight
<1> QED
  BY <1>3, <1>5, <1>6, RecordsAre

(* What the peer f of an engine e may have made. *)
LEMMA IncomingIs ==
  ASSUME NEW side \in Sides, NEW e, NEW f, NEW rd, NEW rf,
         EngineOK(side, e, f.made, rd), EngineOK(Peer(side), f, e.made, rf)
  PROVE  Incoming(side, e, f.made)
<1>1. /\ e \in EngineType /\ Making(side, e)
      /\ f \in EngineType /\ Making(Peer(side), f) /\ Taking(Peer(side), f, e.made, rf)
  BY DEF EngineOK
<1>2. e.made \in Seq(Byte) /\ f.made \in Seq(Byte)
  BY <1>1 DEF EngineType
<1>3. Peer(side) \in Sides /\ (side = "client" <=> Peer(side) = "server")
                          /\ (side = "server" <=> Peer(side) = "client")
  BY DEF Sides, Peer
<1>4. /\ f.taken \in Nat /\ Len(e.made) \in Nat /\ f.taken <= Len(e.made)
      /\ f.flight = 4 => f.taken >= FlightLen + FlightLen
      /\ f.flight = 3 => f.taken >= FlightLen
  BY <1>2, <1>3, FarMeansMade
<1>5. FlightLen \in Nat /\ FlightLen >= 1
  BY SSLAssumption
<1>6. Script(Peer(side), f.made) \/ (side = "client" /\ f.made = BytesOf(Alert))
  BY <1>1, <1>3 DEF Making
<1>7. f.failed /\ Peer(side) = "server" => Len(f.made) = 1
  BY <1>1, WholeRecords DEF Making
<1>8. ASSUME side = "client" PROVE /\ e.flight \in {0, 1} => Len(f.made) <= FlightLen
                                   /\ e.flight # 2
  <2>1. e.flight # 2 /\ e.flight # 0
    BY <1>1, <1>8 DEF Making, Stages
  <2>2. ASSUME e.flight = 1 PROVE Len(f.made) <= FlightLen
    <3>1. Len(e.made) = FlightLen
      BY <1>1, <1>8, <2>2 DEF Making, Gave
    <3>2. f.flight # 4
      BY <1>4, <1>5, <3>1
    <3>3. CASE f.failed
      BY <1>3, <1>5, <1>7, <1>8, <3>3
    <3>4. CASE ~f.failed
      <4>1. Len(f.made) = Gave(f.flight) /\ f.flight \in {0, 2}
        BY <1>1, <1>3, <1>8, <3>2, <3>4 DEF Making, Stages
      <4> QED
        BY <1>5, <4>1 DEF Gave
    <3> QED
      BY <3>3, <3>4
  <2> QED
    BY <2>1, <2>2
<1>9. ASSUME side = "server" PROVE /\ e.flight \in {0, 1} => Len(f.made) <= FlightLen
                                   /\ e.flight = 2 => Len(f.made) <= FlightLen + FlightLen
  <2>1. e.flight \in {0, 2, 4} /\ f.flight \in {1, 3, 4}
    BY <1>1, <1>3, <1>9 DEF Making, Stages
  <2>2. f.flight # 4 => Len(f.made) = Gave(f.flight)
    BY <1>1, <1>3, <1>9 DEF Making
  <2>3. ASSUME e.flight = 0 PROVE f.flight = 1
    <3>1. CASE e.failed
      <4>1. e.made = BytesOf(Alert)
        BY <1>1, <1>9, <3>1 DEF Making
      <4> QED
        BY <1>1, <4>1 DEF Taking
    <3>2. CASE ~e.failed
      <4>1. Len(e.made) = 0
        BY <1>1, <1>9, <2>3, <3>2 DEF Making, Gave
      <4> QED
        BY <1>4, <1>5, <2>1, <4>1
    <3> QED
      BY <3>1, <3>2
  <2>4. ASSUME e.flight = 2 PROVE f.flight \in {1, 3}
    <3>1. ~e.failed
      BY <1>1, <2>4 DEF Making
    <3>2. Len(e.made) = FlightLen
      BY <1>1, <2>4, <3>1 DEF Making, Gave
    <3> QED
      BY <1>4, <1>5, <2>1, <3>2
  <2>5. e.flight \in {0, 1} => Len(f.made) <= FlightLen
    BY <1>5, <2>1, <2>2, <2>3 DEF Gave
  <2>6. e.flight = 2 => Len(f.made) <= FlightLen + FlightLen
    BY <1>5, <2>2, <2>4 DEF Gave
  <2> QED
    BY <2>5, <2>6
<1>10. side = "client" \/ side = "server"
  BY DEF Sides
<1> QED
  BY <1>6, <1>8, <1>9, <1>10 DEF Incoming

(* The engine f that takes what e makes is as good when e has gone on to t. *)
LEMMA EngineStays ==
  ASSUME NEW side \in Sides, NEW e \in EngineType, Making(side, e), NEW t \in EngineType,
         Making(side, t), NEW b \in Seq(Byte), t.made = e.made \o b,
         e.failed => t.made = e.made, NEW f, NEW rd, EngineOK(Peer(side), f, e.made, rd)
  PROVE  EngineOK(Peer(side), f, t.made, rd)
<1>1. /\ f \in EngineType /\ Making(Peer(side), f) /\ Taking(Peer(side), f, e.made, rd)
  BY DEF EngineOK
<1>2. /\ e.made \in Seq(Byte) /\ t.made \in Seq(Byte) /\ f.in \in Seq(Byte) /\ f.taken \in Nat
  BY <1>1 DEF EngineType
<1>3. Peer(side) \in Sides /\ (side = "client" <=> Peer(side) = "server")
                          /\ (side = "server" <=> Peer(side) = "client")
  BY DEF Sides, Peer
<1>4. PICK m \in Seq(Byte) : m = e.made
  BY <1>2
<1>5. t.made = m \o b /\ Len(m \o b) = Len(m) + Len(b)
  BY <1>4, ConcatProperties
<1>6. f.taken + Len(f.in) <= Len(m) /\ Lies(f.in, m, f.taken)
  BY <1>1, <1>4 DEF Taking, Lies
<1>7. f.taken + Len(f.in) <= Len(t.made)
  <2>1. Len(m) \in Nat /\ Len(b) \in Nat /\ Len(f.in) \in Nat
    BY <1>2
  <2> QED
    BY <1>2, <1>5, <1>6, <2>1
<1>8. Lies(f.in, t.made, f.taken)
  <2>1. PICK q \in Seq(Byte) : q = f.in
    BY <1>2
  <2>2. PICK k \in Nat : k = f.taken
    BY <1>2
  <2>3. k + Len(q) <= Len(m) /\ Lies(q, m, k)
    BY <1>6, <2>1, <2>2
  <2> QED
    BY <1>5, <2>1, <2>2, <2>3, LiesStill
<1>9. e.made = BytesOf(Alert) => t.made = e.made
  BY AlertMade
<1>10. f.failed => IF Peer(side) = "server" THEN f.taken = FlightLen ELSE t.made = BytesOf(Alert)
  BY <1>1, <1>9 DEF Taking
<1>11. ASSUME t.made = BytesOf(Alert), e.made # BytesOf(Alert)
       PROVE  f.flight = 1 /\ f.taken = 0
  <2>1. side = "server"
    BY <1>11, AlertMade
  <2>2. Len(m) = 0
    <3>3. Len(m \o b) = 1
      BY <1>5, <1>11, WholeRecords
    <3>1. Len(m) + Len(b) = 1 /\ Len(m) \in Nat /\ Len(b) \in Nat
      BY <1>5, <3>3
    <3>2. ASSUME Len(b) = 0 PROVE FALSE
      <4>1. b = << >>
        BY <3>2
      <4>2. m \o << >> = m
        BY ConcatEmptySeq
      <4> QED
        BY <1>4, <1>5, <1>11, <4>1, <4>2
    <3> QED
      BY <3>1, <3>2
  <2>3. f.taken = 0
    <3>1. Len(f.in) \in Nat
      BY <1>2
    <3> QED
      BY <1>2, <1>6, <2>2, <3>1
  <2>4. /\ f.flight = 4 => f.taken >= FlightLen + FlightLen
        /\ f.flight = 3 => f.taken >= FlightLen
    BY <1>2, <1>3, FarMeansMade
  <2>5. f.flight \in {1, 3, 4}
    BY <1>1, <1>3, <2>1 DEF Making, Stages
  <2>6. FlightLen \in Nat /\ FlightLen >= 1
    BY SSLAssumption
  <2> QED
    BY <2>3, <2>4, <2>5, <2>6
<1>12. t.made = BytesOf(Alert) => f.flight = 1 /\ (f.failed \/ f.taken = 0)
  BY <1>1, <1>11 DEF Taking
<1>13. Taking(Peer(side), f, t.made, rd)
  BY <1>1, <1>7, <1>8, <1>10, <1>12 DEF Taking, Lies
<1> QED
  BY <1>1, <1>13 DEF EngineOK

-----------------------------------------------------------------------------
(* One side of a connection: its engine e, that of its peer, f, the bytes  *)
(* on the way to it, what it has read and the payloads it was given.       *)
SideOK(side, e, f, w, rd, g) ==
  /\ EngineOK(side, e, f.made, rd)
  /\ OutputLeft(side, e)
  /\ Len(e.in) <= BufferSize
  /\ Flow(e, w, f.out, f.made)
  /\ e.writes <= g

(* The side that calls read_write. *)
LEMMA CallerStays ==
  ASSUME NEW side \in Sides, NEW e \in EngineType, NEW f \in EngineType, NEW w \in Seq(Byte),
         NEW rd, NEW g \in Nat, SideOK(side, e, f, w, rd, g),
         NEW n \in Nat, n <= Len(w), NEW writing \in BOOLEAN, NEW c,
         CallDone(side, e, c, f.made, rd, FirstBytes(w, n), writing)
  PROVE  /\ c.read_size \in Nat /\ c.read_size <= n
         /\ BytesBehind(w, c.read_size) \in Seq(Byte)
         /\ SideOK(side, c.s, f, BytesBehind(w, c.read_size), rd \o c.read_output,
                   g + (IF writing THEN 1 ELSE 0))
<1>1. /\ c.s \in EngineType
      /\ c.read_size \in Nat /\ c.read_size <= Len(FirstBytes(w, n))
      /\ EngineOK(side, c.s, f.made, rd \o c.read_output)
      /\ c.s.taken + Len(c.s.in) = e.taken + Len(e.in) + c.read_size
      /\ Len(c.s.in) <= BufferSize
      /\ OutputLeft(side, c.s)
      /\ c.s.writes <= e.writes + (IF writing THEN 1 ELSE 0)
  BY DEF CallDone
<1>2. PICK r \in Nat : r = c.read_size
  BY <1>1
<1>3. r <= n /\ r <= Len(w)
  <2>1. Len(FirstBytes(w, n)) = n
    BY InFront
  <2>2. r <= n
    BY <1>1, <1>2, <2>1
  <2>3. Len(w) \in Nat
    OBVIOUS
  <2> QED
    BY <2>2, <2>3
<1>4. BytesBehind(w, r) \in Seq(Byte)
  BY <1>3, Behind
<1>5. e.taken \in Nat /\ e.in \in Seq(Byte) /\ f.made \in Seq(Byte) /\ f.out \in Seq(Byte)
      /\ e.writes \in Nat /\ c.s.writes \in Nat
  BY <1>1 DEF EngineType
<1>6. PICK k \in Nat : k = e.taken + Len(e.in)
  BY <1>5
<1>7. Stream(k, w, f.out, f.made)
  BY <1>6, FlowIsStream DEF SideOK
<1>8. Stream(k + r, BytesBehind(w, r), f.out, f.made)
  BY <1>3, <1>5, <1>7, StreamReceived
<1>9. Flow(c.s, BytesBehind(w, r), f.out, f.made)
  <2>1. k + r = c.s.taken + Len(c.s.in)
    BY <1>1, <1>2, <1>6
  <2> QED
    BY <1>8, <2>1, FlowIsStream
<1>10. c.s.writes <= g + (IF writing THEN 1 ELSE 0)
  <2>1. e.writes <= g
    BY DEF SideOK
  <2>2. PICK p : p \in Nat /\ p = IF writing THEN 1 ELSE 0
    OBVIOUS
  <2>3. c.s.writes <= e.writes + p
    BY <1>1, <2>2
  <2>4. \A x, y, z, q \in Nat : x <= y + q /\ y <= z => x <= z + q
    OBVIOUS
  <2>5. c.s.writes <= g + p
    BY <1>5, <2>1, <2>2, <2>3, <2>4, Zenon
  <2> QED
    BY <2>2, <2>5
<1>11. PICK h : h = g + (IF writing THEN 1 ELSE 0)
  OBVIOUS
<1>12. PICK b : b = BytesBehind(w, r)
  OBVIOUS
<1>13. PICK t : t = rd \o c.read_output
  OBVIOUS
<1>14. SideOK(side, c.s, f, b, t, h)
  <2>1. EngineOK(side, c.s, f.made, t)
    BY <1>1, <1>13
  <2>2. OutputLeft(side, c.s) /\ Len(c.s.in) <= BufferSize
    BY <1>1
  <2>3. Flow(c.s, b, f.out, f.made)
    BY <1>9, <1>12
  <2>4. c.s.writes <= h
    BY <1>10, <1>11
  <2> QED
    BY <2>1, <2>2, <2>3, <2>4, Zenon DEF SideOK
<1>15. SideOK(side, c.s, f, BytesBehind(w, r), rd \o c.read_output,
              g + (IF writing THEN 1 ELSE 0))
  BY <1>11, <1>12, <1>13, <1>14
<1> QED
  BY <1>2, <1>3, <1>4, <1>15

(* Its peer. *)
LEMMA PeerStays ==
  ASSUME NEW side \in Sides, NEW e \in EngineType, NEW f \in EngineType, NEW v \in Seq(Byte),
         NEW rf, NEW h, SideOK(Peer(side), f, e, v, rf, h), Making(side, e),
         NEW writing, NEW c, NEW rd, NEW input,
         CallDone(side, e, c, f.made, rd, input, writing)
  PROVE  /\ v \o c.write_output \in Seq(Byte)
         /\ SideOK(Peer(side), f, c.s, v \o c.write_output, rf, h)
<1>1. /\ c.s \in EngineType /\ c.write_output \in Seq(Byte)
      /\ EngineOK(side, c.s, f.made, rd \o c.read_output)
      /\ e.failed => c.s.made = e.made
  BY DEF CallDone
<1>2. PICK b \in Seq(Byte) : c.s.made = e.made \o b /\ c.write_output \o c.s.out = e.out \o b
  BY DEF CallDone
<1>3. Making(side, c.s)
  BY <1>1 DEF EngineOK
<1>4. EngineOK(Peer(side), f, c.s.made, rf)
  <2>1. PICK t \in EngineType : t = c.s
    BY <1>1
  <2>2. Making(side, t) /\ t.made = e.made \o b /\ (e.failed => t.made = e.made)
    BY <1>1, <1>2, <1>3, <2>1
  <2>3. EngineOK(Peer(side), f, e.made, rf)
    BY DEF SideOK
  <2>4. EngineOK(Peer(side), f, t.made, rf)
    BY <2>2, <2>3, EngineStays
  <2> QED
    BY <2>1, <2>4
<1>5. /\ f.taken \in Nat /\ f.in \in Seq(Byte) /\ e.made \in Seq(Byte) /\ e.out \in Seq(Byte)
      /\ c.s.out \in Seq(Byte)
  BY <1>1 DEF EngineType
<1>6. PICK k \in Nat : k = f.taken + Len(f.in)
  BY <1>5
<1>7. Stream(k, v, e.out, e.made)
  BY <1>6, FlowIsStream DEF SideOK
<1>8. Stream(k, v \o c.write_output, c.s.out, e.made \o b)
  BY <1>1, <1>2, <1>5, <1>7, StreamGiven
<1>9. Flow(f, v \o c.write_output, c.s.out, c.s.made)
  BY <1>2, <1>6, <1>8, FlowIsStream
<1>10. v \o c.write_output \in Seq(Byte)
  BY <1>1, ConcatProperties
<1> QED
  BY <1>4, <1>9, <1>10 DEF SideOK

(* A call of read_write with the first n bytes that have come. *)
LEMMA CallIs ==
  ASSUME NEW side \in Sides, NEW e \in EngineType, NEW f \in EngineType,
         NEW w \in Seq(Byte), NEW v, NEW rd \in Seq(Byte), NEW rf, NEW g, NEW h,
         SideOK(side, e, f, w, rd, g), SideOK(Peer(side), f, e, v, rf, h),
         NEW n \in Nat, n <= Len(w), NEW writing \in BOOLEAN
  PROVE  LET c == read_write(e, FirstBytes(w, n), writing) IN
         /\ CallDone(side, e, c, f.made, rd, FirstBytes(w, n), writing)
         /\ ~writing => QuietCall(e, c, FirstBytes(w, n))
<1>1. /\ EngineOK(side, e, f.made, rd) /\ OutputLeft(side, e) /\ Len(e.in) <= BufferSize
      /\ Flow(e, w, f.out, f.made)
      /\ EngineOK(Peer(side), f, e.made, rf)
  BY DEF SideOK
<1>2. Incoming(side, e, f.made)
  BY <1>1, IncomingIs
<1>3. PICK m \in Seq(Byte) : m = f.made
  BY DEF EngineType
<1>4. PICK input : input = FirstBytes(w, n)
  OBVIOUS
<1>5. input \in Seq(Byte)
  BY <1>4, InFront
<1>6. Follows(e, m, input)
  <2>1. e.taken \in Nat /\ e.in \in Seq(Byte) /\ f.out \in Seq(Byte)
    BY DEF EngineType
  <2>2. PICK k \in Nat : k = e.taken + Len(e.in)
    BY <2>1
  <2>3. Stream(k, w, f.out, m)
    BY <1>1, <1>3, <2>2, FlowIsStream
  <2>4. k + Len(FirstBytes(w, n)) <= Len(m) /\ Lies(FirstBytes(w, n), m, k)
    BY <2>1, <2>3, PiecesFollow
  <2> QED
    BY <1>4, <2>2, <2>4 DEF Follows
<1>7. PICK c : c = read_write(e, input, writing)
  OBVIOUS
<1>8. EngineOK(side, e, m, rd) /\ Incoming(side, e, m)
  BY <1>1, <1>2, <1>3
<1>9. /\ CallDone(side, e, c, m, rd, input, writing)
      /\ ~writing => QuietCall(e, c, input)
  BY <1>1, <1>5, <1>6, <1>7, <1>8, ReadWrite
<1> QED
  BY <1>3, <1>4, <1>7, <1>9

-----------------------------------------------------------------------------
(* The loop of on_read where the first iteration is the last: all of the   *)
(* input was read.                                                         *)
LoopStart(input, state) ==
  [s |-> ssl["client"], input |-> input, sent |-> << >>, read |-> << >>,
   state_ |-> state, undefined |-> FALSE, ended |-> FALSE]

(* The call has read all of the n bytes, and what it gave is data or not. *)
WaitingDone(c, n) ==
  /\ c.read_size = n /\ c.read_output_size \in Int
  /\ c.read_output_size < 0 => c.read_output = << >>
  /\ c.read_output \in Seq(Byte) /\ c.write_output \in Seq(Byte)

(* What the loop comes to. *)
LoopEnd(input, state, c) ==
  [s |-> c.s, input |-> input, sent |-> c.write_output, read |-> c.read_output,
   state_ |-> state, undefined |-> IF c.read_output_size < 0 THEN TRUE ELSE FALSE, ended |-> TRUE]

(* One iteration of the loop, with a call that has read all of the input. *)
LEMMA OneIteration ==
  ASSUME NEW input \in Seq(Byte), NEW state, NEW c,
         c = read_write(ssl["client"], input, FALSE), WaitingDone(c, Len(input))
  PROVE  Iteration(LoopStart(input, state)) = LoopEnd(input, state, c)
<1>1. PICK l : l = LoopStart(input, state)
  OBVIOUS
<1>2. /\ l = [s |-> ssl["client"], input |-> input, sent |-> << >>, read |-> << >>,
              state_ |-> state, undefined |-> FALSE, ended |-> FALSE]
      /\ l.s = ssl["client"] /\ l.input = input
  BY <1>1 DEF LoopStart
<1>8. /\ c.read_size = Len(input) /\ c.read_output_size \in Int
      /\ c.read_output_size < 0 => c.read_output = << >>
      /\ c.read_output \in Seq(Byte) /\ c.write_output \in Seq(Byte)
  BY DEF WaitingDone
<1>3. << >> \o c.write_output = c.write_output /\ << >> \o c.read_output = c.read_output
  BY <1>8, ConcatEmptySeq
<1>4. PICK a : a = Sent(Consumed(l, c), c)
  OBVIOUS
<1>5. Iteration(l) = IF a.ended THEN a ELSE Rest(a, c)
  <2>1. Iteration(l) =
          Then(c, LAMBDA x : Then(Sent(Consumed(l, x), x),
                                  LAMBDA after : IF after.ended THEN after ELSE Rest(after, x)))
    BY <1>2 DEF Iteration
  <2> DEFINE Inner(x) == Then(Sent(Consumed(l, x), x),
                              LAMBDA after : IF after.ended THEN after ELSE Rest(after, x))
             Outer(x) == IF x.ended THEN x ELSE Rest(x, c)
  <2>2. Iteration(l) = Inner(c)
    <3>1. Iteration(l) = CHOOSE r \in {Inner(x) : x \in {c}} : TRUE
      BY <2>1, Zenon DEF Then
    <3> HIDE DEF Inner
    <3> QED
      BY <3>1
  <2>3. Inner(c) = Outer(a)
    <3>1. Inner(c) = CHOOSE r \in {Outer(x) : x \in {a}} : TRUE
      BY <1>4, Zenon DEF Then
    <3> HIDE DEF Inner, Outer
    <3> QED
      BY <3>1
  <2> HIDE DEF Inner
  <2> QED
    BY <2>2, <2>3
<1>6. CASE c.read_output_size < 0
  <2>1. Consumed(l, c) = [l EXCEPT !.undefined = TRUE, !.ended = TRUE]
    BY <1>6 DEF Consumed
  <2>2. a = [s |-> c.s, input |-> input, sent |-> c.write_output, read |-> << >>,
             state_ |-> state, undefined |-> TRUE, ended |-> TRUE]
    BY <1>2, <1>3, <1>4, <2>1 DEF Sent
  <2>3. Iteration(l) = a
    BY <1>5, <2>2
  <2> QED
    BY <1>1, <1>6, <1>8, <2>2, <2>3 DEF LoopEnd
<1>7. CASE ~(c.read_output_size < 0)
  <2>1. Consumed(l, c) = [l EXCEPT !.read = @ \o c.read_output]
    BY <1>7 DEF Consumed
  <2>2. a = [s |-> c.s, input |-> input, sent |-> c.write_output, read |-> c.read_output,
             state_ |-> state, undefined |-> FALSE, ended |-> FALSE]
    BY <1>2, <1>3, <1>4, <2>1 DEF Sent
  <2>3. Iteration(l) = Rest(a, c)
    BY <1>5, <2>2
  <2>4. ~(c.read_size < Len(a.input))
    <3>1. Len(input) \in Nat
      OBVIOUS
    <3>2. a.input = input
      BY <2>2
    <3>3. ~(Len(input) < Len(input))
      BY <3>1
    <3> QED
      BY <1>8, <3>2, <3>3
  <2>5. Rest(a, c) = [a EXCEPT !.ended = TRUE]
    BY <2>4 DEF Rest
  <2>6. Rest(a, c) = [s |-> c.s, input |-> input, sent |-> c.write_output, read |-> c.read_output,
                      state_ |-> state, undefined |-> FALSE, ended |-> TRUE]
    BY <2>2, <2>5
  <2> QED
    BY <1>1, <1>7, <2>3, <2>6 DEF LoopEnd
<1> QED
  BY <1>6, <1>7

(* A loop that has ended stays as it is: the value of the recursive        *)
(* function is that of the first iteration.                                *)
LEMMA LoopIs ==
  ASSUME NEW input \in Seq(Byte), NEW state, NEW r,
         Iteration(LoopStart(input, state)) = r, r.ended
  PROVE  on_read_loop(input, state) = r
<1>1. PICK n \in Nat : n = Len(input) + BufferSize
  BY SSLAssumption
<1> DEFINE Eq(f) == f = [i \in 0..n |->
                           IF i = 0
                             THEN Iteration(LoopStart(input, state))
                             ELSE Then(f[i - 1], LAMBDA l : IF l.ended THEN l ELSE Iteration(l))]
           e == CHOOSE f : Eq(f)
<1>2. on_read_loop(input, state) = e[n]
  BY <1>1, Zenon DEF on_read_loop, LoopStart
<1>3. Then(r, LAMBDA l : IF l.ended THEN l ELSE Iteration(l)) = r
  BY DEF Then
<1>4. Eq([i \in 0..n |-> r])
  <2>1. ASSUME NEW i \in 0..n, i # 0 PROVE i - 1 \in 0..n
    BY <2>1
  <2> QED
    BY <1>3, <2>1
<1>5. Eq(e)
  <2> HIDE DEF Eq
  <2> QED
    BY <1>4
<1>6. e[0] = r /\ \A i \in 1..n : e[i - 1] = r => e[i] = r
  <2> HIDE DEF e
  <2>1. e[0] = r
    BY <1>5
  <2>2. ASSUME NEW i \in 1..n, e[i - 1] = r PROVE e[i] = r
    <3>1. e[i] = Then(e[i - 1], LAMBDA l : IF l.ended THEN l ELSE Iteration(l))
      BY <1>5
    <3> QED
      BY <1>3, <2>2, <3>1
  <2> QED
    BY <2>1, <2>2
<1> HIDE DEF e
<1> DEFINE S == {i \in 0..n : e[i] = r}
<1>7. 0 \in S
  BY <1>6
<1>8. ASSUME NEW i \in 1..n, i - 1 \in S PROVE i \in S
  BY <1>6, <1>8
<1>9. \A i \in 0..n : i \in S
  <2> HIDE DEF S
  <2> QED
    BY <1>7, <1>8, UpTo
<1> QED
  BY <1>2, <1>9

-----------------------------------------------------------------------------
SSLTypes ==
  /\ ssl \in [Sides -> EngineType]
  /\ wire \in [Sides -> Seq(Byte)]
  /\ read \in [Sides -> Seq(Byte)]
  /\ given \in [Sides -> Nat]

BothOK ==
  \A side \in Sides :
    SideOK(side, ssl[side], ssl[Peer(side)], wire[side], read[side], given[side])

(* A ClientConnection whose behaviour is defined has not taken a byte of   *)
(* the server's answer from its input queue.                               *)
ConnectionWaits ==
  driver = "connection" =>
    /\ state_ = "CONNECTING" => ~undefined /\ ssl["client"].in = << >>
    /\ ~undefined => /\ ssl["client"].flight = 1
                     /\ ssl["client"].taken = 0
                     /\ ~ssl["client"].failed

(* The inductive invariant of the two sessions. *)
SSLInv == SSLTypes /\ BothOK /\ ConnectionWaits

(* The two sides. *)
LEMMA PeerOf ==
  /\ \A side \in Sides : Peer(side) \in Sides /\ Peer(side) # side /\ Peer(Peer(side)) = side
  /\ \A side \in Sides : \A other \in Sides : other = side \/ other = Peer(side)
  /\ Peer("client") = "server" /\ "client" \in Sides /\ "server" \in Sides
BY DEF Peer, Sides

(* Both sides, after a call of read_write by one of them. *)
LEMMA AfterCall ==
  ASSUME SSLTypes, BothOK, NEW side \in Sides, NEW n \in Nat, n <= Len(wire[side]),
         NEW writing \in BOOLEAN, NEW c,
         c = read_write(ssl[side], FirstBytes(wire[side], n), writing),
         ssl' = [ssl EXCEPT ![side] = c.s],
         wire' = [wire EXCEPT ![side] = BytesBehind(@, c.read_size),
                              ![Peer(side)] = @ \o c.write_output],
         read' = [read EXCEPT ![side] = @ \o c.read_output],
         given' = [given EXCEPT ![side] = @ + (IF writing THEN 1 ELSE 0)]
  PROVE  SSLTypes' /\ BothOK'
<1>1. Peer(side) \in Sides /\ Peer(side) # side /\ Peer(Peer(side)) = side
  BY PeerOf
<1>2. PICK e \in EngineType : e = ssl[side]
  BY DEF SSLTypes
<1>3. PICK f \in EngineType : f = ssl[Peer(side)]
  BY <1>1 DEF SSLTypes
<1>4. PICK w \in Seq(Byte) : w = wire[side]
  BY DEF SSLTypes
<1>5. PICK v \in Seq(Byte) : v = wire[Peer(side)]
  BY <1>1 DEF SSLTypes
<1>6. PICK rd \in Seq(Byte) : rd = read[side]
  BY DEF SSLTypes
<1>7. PICK rf \in Seq(Byte) : rf = read[Peer(side)]
  BY <1>1 DEF SSLTypes
<1>8. PICK g \in Nat : g = given[side]
  BY DEF SSLTypes
<1>9. PICK h \in Nat : h = given[Peer(side)]
  BY <1>1 DEF SSLTypes
<1>10. SideOK(side, e, f, w, rd, g) /\ SideOK(Peer(side), f, e, v, rf, h)
  <2>1. SideOK(side, e, f, w, rd, g)
    BY <1>2, <1>3, <1>4, <1>6, <1>8 DEF BothOK
  <2>2. SideOK(Peer(side), ssl[Peer(side)], ssl[Peer(Peer(side))], wire[Peer(side)],
               read[Peer(side)], given[Peer(side)])
    BY <1>1 DEF BothOK
  <2> QED
    BY <1>1, <1>2, <1>3, <1>5, <1>7, <1>9, <2>1, <2>2
<1>11. c = read_write(e, FirstBytes(w, n), writing) /\ n <= Len(w)
  BY <1>2, <1>4
<1>12. CallDone(side, e, c, f.made, rd, FirstBytes(w, n), writing)
  BY <1>10, <1>11, CallIs
<1>13. /\ BytesBehind(w, c.read_size) \in Seq(Byte)
       /\ SideOK(side, c.s, f, BytesBehind(w, c.read_size), rd \o c.read_output,
                 g + (IF writing THEN 1 ELSE 0))
  BY <1>10, <1>11, <1>12, CallerStays
<1>14. Making(side, e)
  BY <1>10 DEF SideOK, EngineOK
<1>15. /\ v \o c.write_output \in Seq(Byte)
       /\ SideOK(Peer(side), f, c.s, v \o c.write_output, rf, h)
  BY <1>10, <1>12, <1>14, PeerStays
<1>16. c.s \in EngineType /\ c.read_output \in Seq(Byte)
  BY <1>12 DEF CallDone
<1>17. PICK rd2 \in Seq(Byte) : rd2 = rd \o c.read_output
  BY <1>16, ConcatProperties
<1>18. PICK w2 \in Seq(Byte) : w2 = BytesBehind(w, c.read_size)
  BY <1>13
<1>19. PICK v2 \in Seq(Byte) : v2 = v \o c.write_output
  BY <1>15
<1>20. PICK g2 \in Nat : g2 = g + (IF writing THEN 1 ELSE 0)
  OBVIOUS
<1>21. /\ ssl' = [ssl EXCEPT ![side] = c.s]
       /\ wire' = [wire EXCEPT ![side] = w2, ![Peer(side)] = v2]
       /\ read' = [read EXCEPT ![side] = rd2]
       /\ given' = [given EXCEPT ![side] = g2]
  <2>1. wire' = [wire EXCEPT ![side] = w2, ![Peer(side)] = v2]
    <3>1. DOMAIN wire = Sides
      BY DEF SSLTypes
    <3> QED
      BY <1>1, <1>4, <1>5, <1>18, <1>19, <3>1
  <2>2. read' = [read EXCEPT ![side] = rd2]
    BY <1>6, <1>17
  <2>3. given' = [given EXCEPT ![side] = g2]
    BY <1>8, <1>20
  <2> QED
    BY <2>1, <2>2, <2>3
<1>22. SSLTypes'
  <2>1. /\ ssl \in [Sides -> EngineType] /\ wire \in [Sides -> Seq(Byte)]
        /\ read \in [Sides -> Seq(Byte)] /\ given \in [Sides -> Nat]
    BY DEF SSLTypes
  <2>2. ssl' \in [Sides -> EngineType]
    BY <1>16, <1>21, <2>1
  <2>3. wire' \in [Sides -> Seq(Byte)]
    BY <1>1, <1>21, <2>1, ZenonT(60)
  <2>4. read' \in [Sides -> Seq(Byte)]
    BY <1>21, <2>1
  <2>5. given' \in [Sides -> Nat]
    BY <1>21, <2>1
  <2> QED
    BY <2>2, <2>3, <2>4, <2>5 DEF SSLTypes
<1>23. /\ ssl'[side] = c.s /\ ssl'[Peer(side)] = f
       /\ wire'[side] = w2 /\ wire'[Peer(side)] = v2
       /\ read'[side] = rd2 /\ read'[Peer(side)] = rf
       /\ given'[side] = g2 /\ given'[Peer(side)] = h
  BY <1>1, <1>3, <1>7, <1>9, <1>21 DEF SSLTypes
<1>24. ASSUME NEW other \in Sides
       PROVE  SideOK(other, ssl'[other], ssl'[Peer(other)], wire'[other], read'[other], given'[other])
  <2>1. CASE other = side
    BY <1>13, <1>17, <1>18, <1>20, <1>23, <2>1
  <2>2. CASE other = Peer(side)
    BY <1>1, <1>15, <1>19, <1>23, <2>2
  <2> QED
    BY <2>1, <2>2, PeerOf
<1>25. BothOK'
  BY <1>24 DEF BothOK
<1> QED
  BY <1>22, <1>25

(* A step of a caller. *)
LEMMA CallStays ==
  ASSUME SSLInv, NEW side \in Sides, NEW n \in Nat, n <= Len(wire[side]),
         NEW writing \in BOOLEAN, Call(side, n, writing),
         given' = [given EXCEPT ![side] = @ + (IF writing THEN 1 ELSE 0)]
  PROVE  SSLInv'
<1>1. SSLTypes /\ BothOK /\ ConnectionWaits
  BY DEF SSLInv
<1>2. PICK c : /\ c = read_write(ssl[side], FirstBytes(wire[side], n), writing)
               /\ ssl' = [ssl EXCEPT ![side] = c.s]
               /\ wire' = [wire EXCEPT ![side] = BytesBehind(@, c.read_size),
                                       ![Peer(side)] = @ \o c.write_output]
               /\ read' = [read EXCEPT ![side] = @ \o c.read_output]
  BY DEF Call
<1>3. SSLTypes' /\ BothOK'
  BY <1>1, <1>2, AfterCall
<1>4. ConnectionWaits'
  <2>1. driver' = driver /\ state_' = state_ /\ undefined' = undefined
    BY DEF Call
  <2>2. driver = "connection" => side = "server"
    BY DEF Call, Drives
  <2>3. driver = "connection" => ssl'["client"] = ssl["client"]
    BY <1>1, <1>2, <2>2, PeerOf DEF SSLTypes
  <2> QED
    BY <1>1, <2>1, <2>3 DEF ConnectionWaits
<1> QED
  BY <1>3, <1>4 DEF SSLInv

(* The call of read_write that a ClientConnection whose engine waits for   *)
(* the server's first flight makes: the input is read to the end, and if   *)
(* the engine had bytes before then their decoding gives no data.          *)
LEMMA WaitingCall ==
  ASSUME NEW e \in EngineType, NEW f \in EngineType,
         NEW w \in Seq(Byte), NEW v, NEW rd \in Seq(Byte), NEW rf, NEW g, NEW h,
         SideOK("client", e, f, w, rd, g), SideOK("server", f, e, v, rf, h),
         e.flight = 1, e.taken = 0, ~e.failed,
         NEW n \in Nat, n <= Len(w)
  PROVE  LET c == read_write(e, FirstBytes(w, n), FALSE) IN
         /\ WaitingDone(c, n)
         /\ c.read_output_size < 0 \/ (c.s.flight = 1 /\ c.s.taken = 0 /\ ~c.s.failed)
<1>23. PICK c : c = read_write(e, FirstBytes(w, n), FALSE)
  OBVIOUS
<1>1. "client" \in Sides /\ Peer("client") = "server"
  BY PeerOf
<1>2. PICK input : input = FirstBytes(w, n)
  OBVIOUS
<1>3. Len(input) = n
  BY <1>2, InFront
<1>4. CallDone("client", e, c, f.made, rd, input, FALSE) /\ QuietCall(e, c, input)
  <2>1. /\ CallDone("client", e, c, f.made, rd, FirstBytes(w, n), FALSE)
        /\ ~FALSE => QuietCall(e, c, FirstBytes(w, n))
    BY <1>1, <1>23, CallIs
  <2> QED
    BY <1>2, <2>1
<1>20. c.s \in EngineType
  BY <1>4 DEF CallDone
<1>21. PICK t \in EngineType : t = c.s
  BY <1>20
<1>5. /\ c.read_size \in Nat /\ c.read_size <= Len(input)
      /\ c.read_output \in Seq(Byte) /\ c.write_output \in Seq(Byte)
      /\ EngineOK("client", t, f.made, rd \o c.read_output)
      /\ t.taken + Len(t.in) = e.taken + Len(e.in) + c.read_size
  BY <1>4, <1>21 DEF CallDone
<1>6. /\ c.read_output_size \in Int
      /\ c.read_output_size < 0 => c.read_output = << >>
      /\ c.read_size = Len(input) \/ t.failed \/ Len(t.in) = BufferSize
      /\ Pending(e) # 0 /\ t.flight # 4 => c.read_output_size = -1
      /\ Pending(e) = 0 => /\ c.read_output_size = 0
                           /\ t.taken = e.taken /\ t.flight = e.flight /\ t.failed = e.failed
  BY <1>4, <1>21 DEF QuietCall
<1>7. PICK lm \in Nat : lm = Len(f.made)
  BY DEF EngineType
<1>8. lm <= FlightLen /\ FlightLen \in Nat /\ FlightLen >= 1 /\ BufferSize \in Nat /\ FlightLen < BufferSize
  <2>1. Incoming("client", e, f.made)
    BY <1>1, IncomingIs DEF SideOK
  <2> QED
    BY <1>7, <2>1, SSLAssumption DEF Incoming
<1>9. /\ e.in \in Seq(Byte) /\ t.in \in Seq(Byte) /\ t.taken \in Nat
      /\ f.out \in Seq(Byte) /\ f.made \in Seq(Byte)
  BY DEF EngineType
<1>10. PICK l \in Nat : l = Len(e.in)
  BY <1>9
<1>11. PICK k \in Nat : k = Len(t.in)
  BY <1>9
<1>12. PICK r \in Nat : r = c.read_size
  BY <1>5
<1>22. PICK tk \in Nat : tk = t.taken
  BY <1>9
<1>13. r <= n /\ tk + k = l + r
  <2>1. r <= n
    BY <1>3, <1>5, <1>12
  <2>2. tk + k = 0 + l + r
    BY <1>5, <1>10, <1>11, <1>12, <1>22
  <2> QED
    BY <2>1, <2>2
<1>14. tk + k <= lm
  BY <1>5, <1>7, <1>11, <1>22 DEF EngineOK, Taking
<1>15. l + n <= lm
  <2>1. e.taken + Len(e.in) + Len(w) + Len(f.out) = Len(f.made)
    BY DEF SideOK, Flow
  <2>2. PICK lw \in Nat : lw = Len(w)
    OBVIOUS
  <2>3. PICK lo \in Nat : lo = Len(f.out)
    BY <1>9
  <2>4. 0 + l + lw + lo = lm
    BY <1>7, <1>10, <2>1, <2>2, <2>3
  <2> QED
    BY <2>2, <2>4
<1>16. l = 0 => Pending(e) = 0
  <2>1. e.plain = << >>
    BY DEF SideOK, EngineOK, Taking
  <2> QED
    BY <1>10, <2>1 DEF Pending
<1>17. r = n
  <2>1. CASE t.failed
    <3>1. f.made = BytesOf(Alert)
      BY <1>5, <2>1 DEF EngineOK, Taking
    <3>2. lm = 1
      BY <1>7, <3>1, WholeRecords
    <3>3. l # 0
      BY <1>6, <1>16, <2>1
    <3>4. n = 0
      BY <1>15, <3>2, <3>3
    <3> QED
      BY <1>13, <3>4
  <2>2. CASE Len(t.in) = BufferSize
    <3>1. k <= lm
      BY <1>14
    <3>2. k = BufferSize
      BY <1>11, <2>2
    <3>3. FALSE
      BY <1>8, <3>1, <3>2
    <3> QED
      BY <3>3
  <2> QED
    BY <1>3, <1>6, <1>12, <2>1, <2>2
<1>18. t.flight # 4
  <2>1. t.taken <= Len(f.made) /\ (t.flight = 4 => t.taken >= FlightLen + FlightLen)
    BY <1>1, <1>5, <1>9, FarMeansMade
  <2>2. tk <= lm /\ (t.flight = 4 => tk >= FlightLen + FlightLen)
    BY <1>7, <1>22, <2>1
  <2> QED
    BY <1>8, <2>2
<1>19. c.read_output_size < 0 \/ (t.flight = 1 /\ t.taken = 0 /\ ~t.failed)
  <2>1. CASE Pending(e) = 0
    BY <1>6, <2>1
  <2>2. CASE Pending(e) # 0
    <3>1. c.read_output_size = -1
      BY <1>6, <1>18, <2>2
    <3>2. -1 < 0
      OBVIOUS
    <3> QED
      BY <3>1, <3>2, Zenon
  <2> QED
    BY <2>1, <2>2
<1> QED
  BY <1>5, <1>6, <1>12, <1>17, <1>19, <1>21, <1>23 DEF WaitingDone

(* on_read of a ClientConnection, for whatever bytes. *)
LEMMA OnReadStays ==
  ASSUME SSLInv, driver = "connection", ~undefined, NEW n \in Nat, n <= Len(wire["client"]),
         NEW state, state # "CONNECTING", on_read(n, state)
  PROVE  SSLInv'
<1>1. SSLTypes /\ BothOK /\ ConnectionWaits
  BY DEF SSLInv
<1>2. /\ Peer("client") = "server" /\ Peer("server") = "client"
      /\ "client" \in Sides /\ "server" \in Sides
  BY DEF Peer, Sides
<1>3. PICK e \in EngineType : e = ssl["client"]
  BY <1>1, <1>2 DEF SSLTypes
<1>4. PICK f \in EngineType : f = ssl["server"]
  BY <1>1, <1>2 DEF SSLTypes
<1>5. PICK w \in Seq(Byte) : w = wire["client"]
  BY <1>1, <1>2 DEF SSLTypes
<1>6. PICK rd \in Seq(Byte) : rd = read["client"]
  BY <1>1, <1>2 DEF SSLTypes
<1>7. /\ SideOK("client", e, f, w, rd, given["client"])
      /\ SideOK("server", f, e, wire["server"], read["server"], given["server"])
  <2>1. SideOK("client", ssl["client"], ssl[Peer("client")], wire["client"], read["client"], given["client"])
    BY <1>1, <1>2 DEF BothOK
  <2>2. SideOK("server", ssl["server"], ssl[Peer("server")], wire["server"], read["server"], given["server"])
    BY <1>1, <1>2 DEF BothOK
  <2> QED
    BY <1>2, <1>3, <1>4, <1>5, <1>6, <2>1, <2>2
<1>8. e.flight = 1 /\ e.taken = 0 /\ ~e.failed
  BY <1>1, <1>3 DEF ConnectionWaits
<1>9. PICK c : c = read_write(e, FirstBytes(w, n), FALSE)
  OBVIOUS
<1>10. n <= Len(w)
  BY <1>5
<1>11. /\ WaitingDone(c, n) /\ c.read_size = n
       /\ c.read_output_size < 0 \/ (c.s.flight = 1 /\ c.s.taken = 0 /\ ~c.s.failed)
  <2>1. /\ WaitingDone(c, n)
        /\ c.read_output_size < 0 \/ (c.s.flight = 1 /\ c.s.taken = 0 /\ ~c.s.failed)
    BY <1>7, <1>8, <1>9, <1>10, WaitingCall
  <2> QED
    BY <2>1 DEF WaitingDone
<1>12. PICK input \in Seq(Byte) : input = FirstBytes(w, n) /\ Len(input) = n
  BY <1>10, InFront
<1>13. PICK l : l = LoopEnd(input, state, c)
  OBVIOUS
<1>14. /\ l.s = c.s /\ l.sent = c.write_output /\ l.read = c.read_output
       /\ l.state_ = state /\ l.ended
       /\ l.undefined = IF c.read_output_size < 0 THEN TRUE ELSE FALSE
  BY <1>13 DEF LoopEnd
<1>15. on_read_loop(input, state) = l
  <2>1. c = read_write(ssl["client"], input, FALSE) /\ WaitingDone(c, Len(input))
    BY <1>3, <1>9, <1>11, <1>12
  <2>2. Iteration(LoopStart(input, state)) = l
    BY <1>13, <2>1, OneIteration
  <2> QED
    BY <1>14, <2>2, LoopIs
<1>16. /\ ssl' = [ssl EXCEPT !["client"] = l.s]
       /\ wire' = [wire EXCEPT !["client"] = BytesBehind(@, n), !["server"] = @ \o l.sent]
       /\ read' = [read EXCEPT !["client"] = @ \o l.read]
       /\ undefined' = l.undefined
       /\ state_' = l.state_
       /\ driver' = driver /\ given' = given
  <2>1. on_read_loop(FirstBytes(wire["client"], n), state) = l
    BY <1>5, <1>12, <1>15
  <2> QED
    BY <2>1 DEF on_read
<1>17. SSLTypes' /\ BothOK'
  <2>1. c = read_write(ssl["client"], FirstBytes(wire["client"], n), FALSE)
    BY <1>3, <1>5, <1>9
  <2>2. /\ ssl' = [ssl EXCEPT !["client"] = c.s]
        /\ wire' = [wire EXCEPT !["client"] = BytesBehind(@, c.read_size),
                                ![Peer("client")] = @ \o c.write_output]
        /\ read' = [read EXCEPT !["client"] = @ \o c.read_output]
    BY <1>2, <1>11, <1>14, <1>16
  <2>3. given' = [given EXCEPT !["client"] = @ + (IF FALSE THEN 1 ELSE 0)]
    <3>1. given \in [Sides -> Nat]
      BY <1>1 DEF SSLTypes
    <3>2. given["client"] + 0 = given["client"]
      BY <1>2, <3>1
    <3> QED
      BY <1>16, <3>1, <3>2
  <2> QED
    BY <1>1, <1>2, <2>1, <2>2, <2>3, AfterCall
<1>18. ConnectionWaits'
  <2>1. ssl'["client"] = c.s
    BY <1>1, <1>2, <1>14, <1>16 DEF SSLTypes
  <2>2. state_' # "CONNECTING"
    BY <1>14, <1>16
  <2>3. ~undefined' => c.s.flight = 1 /\ c.s.taken = 0 /\ ~c.s.failed
    BY <1>11, <1>14, <1>16
  <2> QED
    BY <2>1, <2>2, <2>3 DEF ConnectionWaits
<1> QED
  BY <1>17, <1>18 DEF SSLInv

(* The client's engine when its handshake has begun. *)
LEMMA FirstClient ==
  LET e == handshake(TRUE, TRUE) IN
  /\ e \in EngineType
  /\ e.in = << >> /\ e.out = BytesOf(Flight(1)) /\ e.made = BytesOf(Flight(1)) /\ e.part = 0
  /\ e.plain = << >> /\ e.flight = 1 /\ e.usable /\ ~e.failed /\ e.writes = 0 /\ e.taken = 0
<1>1. PICK b \in Seq(Byte) : b = BytesOf(Flight(1))
  BY WholeRecords
<1>2. PICK u : u = Engine(TRUE)
  OBVIOUS
<1>3. << >> \in Seq(Byte) /\ << >> \o b = b
  BY EmptySeq, ConcatEmptySeq
<1>4. /\ u \in EngineType
      /\ u.in = << >> /\ u.out = << >> /\ u.made = << >> /\ u.part = 0 /\ u.plain = << >>
      /\ u.flight = 0 /\ u.usable = TRUE /\ u.failed = FALSE /\ u.writes = 0 /\ u.taken = 0
  BY <1>2, <1>3 DEF Engine, EngineType
<1>5. PICK t : t = Emit(u, b)
  OBVIOUS
<1>6. /\ t \in EngineType
      /\ t.in = u.in /\ t.out = u.out \o b /\ t.made = u.made \o b /\ t.part = u.part
      /\ t.plain = u.plain /\ t.usable = u.usable /\ t.failed = u.failed
      /\ t.writes = u.writes /\ t.taken = u.taken
  BY <1>4, <1>5, EmitIs
<1>7. PICK e : e = [t EXCEPT !.flight = 1]
  OBVIOUS
<1>8. /\ e \in EngineType
      /\ e.in = t.in /\ e.out = t.out /\ e.made = t.made /\ e.part = t.part
      /\ e.plain = t.plain /\ e.usable = t.usable /\ e.failed = t.failed
      /\ e.writes = t.writes /\ e.taken = t.taken /\ e.flight = 1
  BY <1>6, <1>7 DEF EngineType
<1>9. handshake(TRUE, TRUE) = e
  BY <1>1, <1>2, <1>5, <1>7 DEF handshake
<1> QED
  BY <1>1, <1>3, <1>4, <1>6, <1>8, <1>9

(* The server's. *)
LEMMA FirstServer ==
  ASSUME NEW usable \in BOOLEAN
  PROVE  LET e == handshake(FALSE, usable) IN
         /\ e \in EngineType
         /\ e.in = << >> /\ e.out = << >> /\ e.made = << >> /\ e.part = 0 /\ e.plain = << >>
         /\ e.flight = 0 /\ ~e.failed /\ e.writes = 0 /\ e.taken = 0
<1>1. << >> \in Seq(Byte)
  BY EmptySeq
<1> QED
  BY <1>1 DEF handshake, Engine, EngineType

(* The invariant holds when both handshakes have begun. *)
LEMMA InitInv ==
  ASSUME SSLInit
  PROVE  SSLInv
<1>1. PICK usable \in BOOLEAN :
        ssl = [side \in Sides |-> IF side = "client" THEN handshake(TRUE, TRUE)
                                                     ELSE handshake(FALSE, usable)]
  BY DEF SSLInit
<1>2. /\ Peer("client") = "server" /\ Peer("server") = "client"
      /\ "client" \in Sides /\ "server" \in Sides
      /\ \A side \in Sides : side = "client" \/ side = "server"
  BY DEF Peer, Sides
<1>3. PICK e : e = handshake(TRUE, TRUE)
  OBVIOUS
<1>4. /\ e \in EngineType
      /\ e.in = << >> /\ e.out = BytesOf(Flight(1)) /\ e.made = BytesOf(Flight(1)) /\ e.part = 0
      /\ e.plain = << >> /\ e.flight = 1 /\ e.usable /\ ~e.failed /\ e.writes = 0 /\ e.taken = 0
  BY <1>3, FirstClient
<1>5. PICK f : f = handshake(FALSE, usable)
  OBVIOUS
<1>6. /\ f \in EngineType
      /\ f.in = << >> /\ f.out = << >> /\ f.made = << >> /\ f.part = 0 /\ f.plain = << >>
      /\ f.flight = 0 /\ ~f.failed /\ f.writes = 0 /\ f.taken = 0
  BY <1>5, FirstServer
<1>7. ssl["client"] = e /\ ssl["server"] = f
  BY <1>1, <1>2, <1>3, <1>5
<1>8. << >> \in Seq(Byte) /\ Len(<< >>) = 0 /\ << >> \o << >> = << >>
  BY EmptySeq
<1>9. SSLTypes
  <2>1. ASSUME NEW side \in Sides PROVE ssl[side] \in EngineType
    BY <1>2, <1>4, <1>6, <1>7
  <2>2. ssl \in [Sides -> EngineType]
    BY <1>1, <2>1
  <2>3. wire \in [Sides -> Seq(Byte)] /\ read \in [Sides -> Seq(Byte)] /\ given \in [Sides -> Nat]
    BY <1>8 DEF SSLInit
  <2> QED
    BY <2>2, <2>3 DEF SSLTypes
<1>10. PICK m \in Seq(Byte) : /\ m = BytesOf(Flight(1)) /\ Len(m) = FlightLen
                              /\ \A i \in 1..FlightLen : m[i] = [record |-> Flight(1), place |-> i]
  BY WholeRecords
<1>11. FlightLen \in Nat /\ FlightLen >= 1 /\ BufferSize \in Nat
  BY SSLAssumption
<1>12. Script("client", m)
  <2>1. \A i \in 1..Len(m) : i <= FlightLen => m[i] = [record |-> Flight(FirstFlight("client")), place |-> i]
    BY <1>10 DEF FirstFlight
  <2>2. \A i \in 1..Len(m) : ~(i > FlightLen)
    BY <1>10, <1>11
  <2>3. \A k \in Nat : \A j \in 1..(PayloadLen + 1) : ~(At(k) + j <= Len(m))
    <3>1. ASSUME NEW k \in Nat, NEW j \in 1..(PayloadLen + 1) PROVE ~(At(k) + j <= Len(m))
      <4>1. At(k) \in Nat /\ At(k) >= FlightLen + FlightLen
        BY AtFacts
      <4>2. j \in Nat /\ j >= 1
        OBVIOUS
      <4> QED
        BY <1>10, <1>11, <4>1, <4>2
    <3> QED
      BY <3>1
  <2> QED
    BY <2>1, <2>2, <2>3 DEF Script
<1>13. Script("server", << >>)
  <2>1. \A k \in Nat : \A j \in 1..(PayloadLen + 1) : ~(At(k) + j <= 0)
    <3>1. ASSUME NEW k \in Nat, NEW j \in 1..(PayloadLen + 1) PROVE ~(At(k) + j <= 0)
      <4>1. At(k) \in Nat
        BY AtFacts
      <4>2. j \in Nat /\ j >= 1
        OBVIOUS
      <4> QED
        BY <4>1, <4>2
    <3> QED
      BY <3>1
  <2>2. 1..0 = {}
    OBVIOUS
  <2> QED
    BY <1>8, <2>1, <2>2 DEF Script
<1>14. Making("client", e)
  BY <1>4, <1>10, <1>12 DEF Making, Stages, Gave
<1>15. Making("server", f)
  BY <1>6, <1>8, <1>13 DEF Making, Stages, Gave
<1>16. m # BytesOf(Alert) /\ << >> # BytesOf(Alert)
  <2>1. Len(BytesOf(Alert)) = 1 /\ BytesOf(Alert)[1].record = Alert
    BY WholeRecords
  <2>2. 1 \in 1..FlightLen
    BY <1>11
  <2>3. m[1] = [record |-> Flight(1), place |-> 1]
    BY <1>10, <2>2
  <2>4. m[1].record = Flight(1)
    BY <2>3
  <2>5. Flight(1) # Alert
    BY RecordsAre
  <2>6. m # BytesOf(Alert)
    BY <2>1, <2>4, <2>5, Zenon
  <2>7. << >> # BytesOf(Alert)
    <3>1. 0 # 1
      OBVIOUS
    <3> QED
      BY <1>8, <2>1, <3>1, Zenon
  <2> QED
    BY <2>6, <2>7
<1>17. 1..0 = {} /\ 0 + 0 <= 0 /\ 0 + 0 <= FlightLen
  BY <1>11
<1>18. Taking("client", e, << >>, << >>)
  BY <1>4, <1>8, <1>11, <1>16, <1>17 DEF Taking, Got
<1>19. Taking("server", f, m, << >>)
  BY <1>6, <1>8, <1>10, <1>11, <1>16, <1>17 DEF Taking, Got
<1>20. Flow(e, << >>, << >>, << >>)
  BY <1>4, <1>8, <1>17 DEF Flow, Lies
<1>21. Flow(f, << >>, m, m)
  <2>1. 0 + 0 + 0 + FlightLen = FlightLen /\ 0 + 0 + 0 = 0 /\ \A i \in 1..FlightLen : 0 + i = i
    BY <1>11
  <2>2. Lies(m, m, 0)
    BY <1>10, <2>1 DEF Lies
  <2>3. Lies(<< >>, m, 0 + 0)
    BY <1>8, <1>17 DEF Lies
  <2> QED
    BY <1>6, <1>8, <1>10, <2>1, <2>2, <2>3 DEF Flow
<1>22. SideOK("client", e, f, << >>, << >>, 0)
  BY <1>4, <1>6, <1>8, <1>11, <1>14, <1>18, <1>20 DEF SideOK, EngineOK, OutputLeft
<1>23. SideOK("server", f, e, << >>, << >>, 0)
  BY <1>4, <1>6, <1>8, <1>10, <1>11, <1>15, <1>19, <1>21 DEF SideOK, EngineOK, OutputLeft
<1>24. BothOK
  <2>1. \A side \in Sides : wire[side] = << >> /\ read[side] = << >> /\ given[side] = 0
    BY DEF SSLInit
  <2>2. ASSUME NEW side \in Sides
        PROVE  SideOK(side, ssl[side], ssl[Peer(side)], wire[side], read[side], given[side])
    <3>1. CASE side = "client"
      BY <1>2, <1>7, <1>22, <2>1, <3>1
    <3>2. CASE side = "server"
      BY <1>2, <1>7, <1>23, <2>1, <3>2
    <3> QED
      BY <1>2, <3>1, <3>2
  <2> QED
    BY <2>2 DEF BothOK
<1>25. ConnectionWaits
  BY <1>4, <1>7 DEF ConnectionWaits, SSLInit
<1> QED
  BY <1>9, <1>24, <1>25 DEF SSLInv

(* Every step of the two sides preserves it. *)
LEMMA NextInv ==
  ASSUME SSLInv, [SSLNext]_sslVars
  PROVE  SSLInv'
<1>1. ASSUME NEW side \in Sides, pump(side) PROVE SSLInv'
  <2>1. PICK n \in 0..Len(wire[side]) : Call(side, n, FALSE)
    BY <1>1 DEF pump
  <2>2. wire[side] \in Seq(Byte) /\ given \in [Sides -> Nat]
    BY DEF SSLInv, SSLTypes
  <2>3. n \in Nat /\ n <= Len(wire[side])
    BY <2>1, <2>2
  <2>4. given' = [given EXCEPT ![side] = @ + (IF FALSE THEN 1 ELSE 0)]
    <3>1. given[side] + 0 = given[side]
      BY <2>2
    <3> QED
      BY <1>1, <2>2, <3>1 DEF pump
  <2> QED
    BY <2>1, <2>3, <2>4, CallStays
<1>2. ASSUME NEW side \in Sides, write(side) PROVE SSLInv'
  <2>1. PICK n \in {0, Len(wire[side])} : Call(side, n, TRUE)
    BY <1>2 DEF write
  <2>2. wire[side] \in Seq(Byte)
    BY DEF SSLInv, SSLTypes
  <2>3. n \in Nat /\ n <= Len(wire[side])
    <3>1. Len(wire[side]) \in Nat
      BY <2>2
    <3> QED
      BY <2>1, <3>1
  <2>4. given' = [given EXCEPT ![side] = @ + (IF TRUE THEN 1 ELSE 0)]
    BY <1>2 DEF write
  <2> QED
    BY <2>1, <2>3, <2>4, CallStays
<1>3. ASSUME NEW side \in Sides, shutdown(side) PROVE SSLInv'
  BY <1>3 DEF shutdown, SSLInv, SSLTypes, BothOK, ConnectionWaits
<1>4. ASSUME on_connect PROVE SSLInv'
  <2>1. driver = "connection" /\ state_ = "CONNECTING" /\ on_read(0, "CONNECTED")
    BY <1>4 DEF on_connect
  <2>2. ~undefined
    BY <2>1 DEF SSLInv, ConnectionWaits
  <2>3. 0 <= Len(wire["client"])
    <3>1. wire["client"] \in Seq(Byte)
      BY PeerOf DEF SSLInv, SSLTypes
    <3> QED
      BY <3>1
  <2>4. "CONNECTED" # "CONNECTING" /\ 0 \in Nat
    OBVIOUS
  <2> QED
    BY <2>1, <2>2, <2>3, <2>4, OnReadStays
<1>5. ASSUME on_read_event PROVE SSLInv'
  <2>1. driver = "connection" /\ state_ # "CONNECTING" /\ ~undefined
    BY <1>5 DEF on_read_event
  <2>2. PICK n \in 1..Len(wire["client"]) : on_read(n, state_)
    BY <1>5 DEF on_read_event
  <2>3. n \in Nat /\ n <= Len(wire["client"])
    <3>1. wire["client"] \in Seq(Byte)
      BY PeerOf DEF SSLInv, SSLTypes
    <3> QED
      BY <2>2, <3>1
  <2> QED
    BY <2>1, <2>2, <2>3, OnReadStays
<1>6. ASSUME connect_failed \/ read_failed PROVE SSLInv'
  BY <1>6 DEF connect_failed, read_failed, SSLInv, SSLTypes, BothOK, ConnectionWaits
<1>7. ASSUME UNCHANGED sslVars PROVE SSLInv'
  BY <1>7 DEF sslVars, SSLInv, SSLTypes, BothOK, ConnectionWaits
<1> QED
  BY <1>1, <1>2, <1>3, <1>4, <1>5, <1>6, <1>7 DEF SSLNext

(* Each session, whatever was done with it so far, has made and taken what *)
(* its flight, its part of a record and its count of payloads say, and the *)
(* bytes between the two are all there: the invariant behind the three     *)
(* properties of read_write's pipe.                                        *)
THEOREM SSLInvariant == SSLSpec => []SSLInv
<1>1. SSLInit => SSLInv
  BY InitInv
<1>2. SSLInv /\ [SSLNext]_sslVars => SSLInv'
  BY NextInv
<1> QED
  BY <1>1, <1>2, PTL DEF SSLSpec

-----------------------------------------------------------------------------
(* Whatever the pieces in which the bytes arrive and however little of     *)
(* them a call of read_write accepts, the bytes between the two engines    *)
(* are all there, once and in order, and the queues keep within            *)
(* BUFFER_SIZE: for flights, payloads and queues of any size.              *)
THEOREM PipeIsExact == SSLSpec => []PipeExact
<1>1. ASSUME SSLInv PROVE PipeExact
  <2> SUFFICES ASSUME NEW side \in Sides
               PROVE  /\ BytesBehind(ssl[Peer(side)].made, ssl[side].taken)
                           = ssl[side].in \o wire[side] \o ssl[Peer(side)].out
                      /\ Len(ssl[side].in) <= BufferSize
                      /\ Len(ssl[side].out) <= BufferSize
    BY DEF PipeExact
  <2>1. Peer(side) \in Sides
    BY PeerOf
  <2>2. PICK e \in EngineType : e = ssl[side]
    BY <1>1 DEF SSLInv, SSLTypes
  <2>3. PICK f \in EngineType : f = ssl[Peer(side)]
    BY <1>1, <2>1 DEF SSLInv, SSLTypes
  <2>4. PICK w \in Seq(Byte) : w = wire[side]
    BY <1>1 DEF SSLInv, SSLTypes
  <2>5. SideOK(side, e, f, w, read[side], given[side])
    BY <1>1, <2>2, <2>3, <2>4 DEF SSLInv, BothOK
  <2>6. PICK a \in Seq(Byte) : a = e.in
    BY DEF EngineType
  <2>7. PICK o \in Seq(Byte) : o = f.out
    BY DEF EngineType
  <2>8. PICK m \in Seq(Byte) : m = f.made
    BY DEF EngineType
  <2>9. PICK k \in Nat : k = e.taken
    BY DEF EngineType
  <2>10. /\ Len(a) <= BufferSize
         /\ k + Len(a) + Len(w) + Len(o) = Len(m)
         /\ Lies(a, m, k) /\ Lies(w, m, k + Len(a)) /\ Lies(o, m, k + Len(a) + Len(w))
    <3>1. Lies(e.in, f.made, e.taken)
      BY <2>5 DEF SideOK, EngineOK, Taking, Lies
    <3> QED
      BY <2>5, <2>6, <2>7, <2>8, <2>9, <3>1 DEF SideOK, Flow
  <2>11. PICK aw \in Seq(Byte) : aw = a \o w /\ Len(aw) = Len(a) + Len(w)
    BY ConcatProperties
  <2>12. PICK q \in Seq(Byte) : q = aw \o o /\ Len(q) = Len(aw) + Len(o)
    BY ConcatProperties
  <2>13. Lies(aw, m, k)
    <3>1. Lies(a \o w, m, k) <=> Lies(a, m, k) /\ Lies(w, m, k + Len(a))
      BY LiesInTwo
    <3> QED
      BY <2>10, <2>11, <3>1
  <2>14. PICK la \in Nat : la = Len(a)
    OBVIOUS
  <2>15. PICK lw \in Nat : lw = Len(w)
    OBVIOUS
  <2>16. PICK lo \in Nat : lo = Len(o)
    OBVIOUS
  <2>17. PICK lm \in Nat : lm = Len(m)
    OBVIOUS
  <2>18. k + la + lw + lo = lm /\ Len(aw) = la + lw /\ Len(q) = (la + lw) + lo
    BY <2>10, <2>11, <2>12, <2>14, <2>15, <2>16, <2>17
  <2>19. Lies(q, m, k)
    <3>1. Lies(aw \o o, m, k) <=> Lies(aw, m, k) /\ Lies(o, m, k + Len(aw))
      BY LiesInTwo
    <3>2. k + Len(aw) = k + la + lw
      BY <2>18
    <3>3. Lies(o, m, k + la + lw)
      BY <2>10, <2>14, <2>15
    <3> QED
      BY <2>12, <2>13, <3>1, <3>2, <3>3
  <2>20. k <= lm /\ lm - k = (la + lw) + lo
    BY <2>18
  <2>21. PICK z \in Seq(Byte) : /\ z = BytesBehind(m, k) /\ Len(z) = lm - k
                                /\ \A i \in 1..(lm - k) : z[i] = m[k + i]
    <3>1. k <= Len(m)
      BY <2>17, <2>20
    <3>2. /\ BytesBehind(m, k) \in Seq(Byte)
          /\ Len(BytesBehind(m, k)) = Len(m) - k
          /\ \A i \in 1..(Len(m) - k) : BytesBehind(m, k)[i] = m[k + i]
      BY <3>1, Behind
    <3> QED
      BY <2>17, <3>2
  <2>22. z = q
    <3>1. Len(z) = Len(q)
      BY <2>18, <2>20, <2>21
    <3>2. ASSUME NEW i \in 1..Len(z) PROVE z[i] = q[i]
      BY <2>19, <2>21, <3>1 DEF Lies
    <3> QED
      BY <3>1, <3>2, SeqEqual
  <2>23. Len(e.out) <= BufferSize
    <3>1. BufferSize \in Nat /\ FlightLen <= BufferSize /\ 1 <= BufferSize /\ 0 <= BufferSize
      BY SSLAssumption
    <3>2. CASE e.out = << >>
      BY <3>1, <3>2
    <3>3. CASE side = "client" /\ e.flight = 1 /\ ~e.failed /\ e.in = << >> /\ e.out = e.made
      <4>1. Len(e.made) = FlightLen
        BY <2>5, <3>3 DEF SideOK, EngineOK, Making, Gave
      <4> QED
        BY <3>1, <3>3, <4>1
    <3>4. CASE e.failed /\ Len(e.out) <= 1
      <4>1. e.out \in Seq(Byte)
        BY DEF EngineType
      <4>2. Len(e.out) \in Nat
        BY <4>1
      <4> QED
        BY <3>1, <3>4, <4>2
    <3> QED
      BY <2>5, <3>2, <3>3, <3>4 DEF SideOK, OutputLeft
  <2> QED
    BY <2>2, <2>3, <2>4, <2>6, <2>7, <2>8, <2>9, <2>10, <2>11, <2>12, <2>21, <2>22, <2>23
<1> QED
  BY <1>1, SSLInvariant, PTL

(* What a side reads from its session is what the other side's engine      *)
(* accepted, from the first byte on and without gaps, and an engine never  *)
(* accepts more payloads than read_write was given: whatever the           *)
(* interleaving of the calls and however much of them is handed out.       *)
THEOREM ReadIsExact == SSLSpec => []ReadExact
<1>1. ASSUME SSLInv PROVE ReadExact
  <2> SUFFICES ASSUME NEW side \in Sides
               PROVE  /\ IsPrefix(read[side] \o ssl[side].plain, Written(Peer(side)))
                      /\ ssl[side].writes <= given[side]
    BY DEF ReadExact
  <2>1. Peer(side) \in Sides
    BY PeerOf
  <2>2. PICK e \in EngineType : e = ssl[side]
    BY <1>1 DEF SSLInv, SSLTypes
  <2>3. PICK f \in EngineType : f = ssl[Peer(side)]
    BY <1>1, <2>1 DEF SSLInv, SSLTypes
  <2>4. SideOK(side, e, f, wire[side], read[side], given[side])
    BY <1>1, <2>2, <2>3 DEF SSLInv, BothOK
  <2>5. Making(Peer(side), f)
    <3>1. SideOK(Peer(side), ssl[Peer(side)], ssl[Peer(Peer(side))], wire[Peer(side)],
                 read[Peer(side)], given[Peer(side)])
      BY <1>1, <2>1 DEF SSLInv, BothOK
    <3> QED
      BY <2>3, <3>1 DEF SideOK, EngineOK
  <2>6. Written(Peer(side)) = Paid(f.writes)
    BY <2>3 DEF Written, Paid
  <2>7. f.writes \in Nat /\ f.made \in Seq(Byte) /\ e.part \in Nat /\ e.taken \in Nat
    BY DEF EngineType
  <2>8. Taking(side, e, f.made, read[side])
    BY <2>4 DEF SideOK, EngineOK
  <2>9. \E k \in Nat : k <= f.writes /\ read[side] \o e.plain = Paid(k)
    <3>1. CASE e.flight # 4
      <4>1. read[side] = << >> /\ e.plain = << >>
        BY <2>8, <3>1 DEF Taking
      <4>2. << >> \o << >> = << >>
        OBVIOUS
      <4>3. read[side] \o e.plain = Paid(0)
        BY <4>1, <4>2, PaidFacts
      <4>4. 0 \in Nat /\ 0 <= f.writes
        BY <2>7
      <4> QED
        BY <4>3, <4>4
    <3>2. CASE e.flight = 4
      <4>1. PICK k \in Nat : e.taken = At(k) + e.part /\ read[side] \o e.plain = Paid(k)
        BY <2>8, <3>2 DEF Taking
      <4>2. e.taken <= Len(f.made)
        BY <2>4, <2>7, FarMeansMade DEF SideOK
      <4>3. f.made # BytesOf(Alert) /\ e.part < PayloadLen + 1
        BY <2>8, <3>2 DEF Taking
      <4>4. Len(f.made) = IF f.flight = 4 THEN At(f.writes) ELSE Gave(f.flight)
        BY <2>5, <4>3 DEF Making
      <4>5. Len(f.made) <= At(f.writes)
        <5>1. At(f.writes) \in Nat /\ At(f.writes) >= FlightLen + FlightLen /\ FlightLen \in Nat
          BY <2>7, AtFacts, SSLAssumption
        <5>2. Gave(f.flight) <= FlightLen + FlightLen /\ Gave(f.flight) \in Nat
          BY <5>1 DEF Gave
        <5> QED
          BY <4>4, <5>1, <5>2
      <4>6. k <= f.writes
        <5>1. At(k) \in Nat /\ At(f.writes) \in Nat /\ PayloadLen \in Nat
          BY <2>7, AtFacts, SSLAssumption
        <5>2. PICK lm \in Nat : lm = Len(f.made)
          BY <2>7
        <5>3. At(k) + 0 <= At(f.writes) + 0
          <6>1. At(k) + e.part <= lm /\ lm <= At(f.writes)
            BY <4>1, <4>2, <4>5, <5>2
          <6> QED
            BY <2>7, <5>1, <6>1
        <5>4. 0 < PayloadLen + 1
          BY <5>1
        <5> QED
          BY <2>7, <5>3, <5>4, AtUnique
      <4> QED
        BY <4>1, <4>6
    <3> QED
      BY <3>1, <3>2
  <2>10. IsPrefix(read[side] \o e.plain, Paid(f.writes))
    BY <2>7, <2>9, PaidPrefix
  <2>11. e.writes <= given[side]
    BY <2>4 DEF SideOK
  <2> QED
    BY <2>2, <2>6, <2>10, <2>11
<1> QED
  BY <1>1, SSLInvariant, PTL

(* A ClientConnection with SSL never writes OPTIONS past its session: the  *)
(* loop of on_read always ends with its first iteration, before it looks   *)
(* for the end of the handshake, so nothing but records is ever on the     *)
(* way.                                                                    *)
THEOREM NothingGoesInTheClear == SSLSpec => []NothingInTheClear
<1>1. ASSUME SSLInv PROVE NothingInTheClear
  <2> SUFFICES ASSUME NEW side \in Sides, Contains(wire[side], OPTIONS[1])
               PROVE  FALSE
    BY DEF NothingInTheClear
  <2>1. PICK w \in Seq(Byte) : w = wire[side]
    BY <1>1 DEF SSLInv, SSLTypes
  <2>2. PICK i \in 1..Len(w) : w[i] = OPTIONS[1]
    BY <2>1 DEF Contains
  <2>3. w[i] \in Byte
    BY <2>2
  <2>4. OPTIONS[1].record = <<"OPTIONS", 0>>
    BY DEF OPTIONS
  <2>5. <<"OPTIONS", 0>> \in Records
    BY <2>2, <2>3, <2>4 DEF Byte
  <2>6. \A r \in Records : r[1] \in {"flight", "data", "alert"}
    BY DEF Records, Flight, Data, Alert
  <2>7. <<"OPTIONS", 0>>[1] \in {"flight", "data", "alert"}
    BY <2>5, <2>6
  <2> QED
    BY <2>7
<1> QED
  BY <1>1, SSLInvariant, PTL
=============================================================================
