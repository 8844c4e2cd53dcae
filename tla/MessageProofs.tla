---------------------------- MODULE MessageProofs ----------------------------
(***************************************************************************)
(* Proofs about the cutting of the byte stream into messages (module       *)
(* Message), for every header size, every stream of frames and every way   *)
(* to cut it into reads.                                                   *)
(*                                                                         *)
(* Where frame f starts is a recursive function of the lengths before it.  *)
(* That there is such a function, and that it increases, is proved by      *)
(* induction; the induction principle is derived for sets of natural       *)
(* numbers from the fact that < is well-founded on them.  The rest is the  *)
(* inductive invariant MessageInv.                                         *)
(***************************************************************************)
EXTENDS Message, Recursion, SequenceTheorems

(* What a byte of a buffer may hold.                                       *)
Byte == Nat \cup {Garbage}

(* The buffers of any size.                                                *)
Buffers == UNION {[0..n-1 -> Byte] : n \in Nat}

(* A message handed on.                                                    *)
MessageType == [length : Nat, split : BOOLEAN, body : Buffers]

(* The types of the variables. The buffers have the sizes they were        *)
(* allocated with: a copy never makes one longer.                          *)
MessageTypeOK ==
  /\ frames \in [1..Frames -> Nat]
  /\ pos \in Nat /\ remaining \in Nat /\ received \in Nat /\ length \in Nat
  /\ body_buffer_pos \in Nat
  /\ header_received \in BOOLEAN /\ split \in BOOLEAN /\ overflow \in BOOLEAN
  /\ header_buffer \in [0..HeaderSize-1 -> Byte]
  /\ body_buffer \in [0..length-1 -> Byte]
  /\ delivered \in Seq(MessageType)

(* A read brings no byte that was not sent.                                *)
InStream == pos + remaining <= Total

(* What is known of the message being received. The first byte of its      *)
(* header is the first byte of its frame, so that the length read from it  *)
(* is the one of that frame; the header is complete exactly when           *)
(* HeaderSize bytes have been counted; and a complete header with the body *)
(* still to come means that the read was split.                            *)
HeaderSoFar ==
  /\ received > 0 => header_buffer[0] = StartOf[Len(delivered) + 1]
  /\ ~header_received => received < HeaderSize /\ length = 0 /\ body_buffer_pos = 0 /\ ~split
  /\ header_received => /\ received >= HeaderSize
                        /\ received - HeaderSize < length
                        /\ length = frames[Len(delivered) + 1]
                        /\ split

(* The inductive invariant.                                                *)
MessageInv ==
  /\ MessageTypeOK
  /\ FramesExact
  /\ InStream
  /\ HeaderSoFar
  /\ BodyIntactUnlessSplit

-----------------------------------------------------------------------------
(* g satisfies the recursive equation of StartOf up to n, for body lengths *)
(* d.                                                                      *)
Sums(g, d, n) ==
  g = [f \in 0..n |-> IF f <= 1 THEN 0 ELSE g[f - 1] + HeaderSize + d[f - 1]]

(* Two functions that satisfy it agree where both are defined.             *)
LEMMA SumsAgree ==
  ASSUME NEW d, NEW n \in Nat, NEW g, Sums(g, d, n), NEW m \in Nat, NEW h, Sums(h, d, m)
  PROVE  \A k \in Nat : k <= n /\ k <= m => g[k] = h[k]
<1> DEFINE S == {k \in Nat : k <= n /\ k <= m => g[k] = h[k]}
<1>1. 0 \in S
  BY DEF Sums
<1>2. ASSUME NEW k \in S PROVE k + 1 \in S
  <2> SUFFICES ASSUME k + 1 <= n, k + 1 <= m PROVE g[k + 1] = h[k + 1]
    OBVIOUS
  <2>1. k \in Nat /\ k + 1 \in 0..n /\ k + 1 \in 0..m /\ (k + 1) - 1 = k /\ g[k] = h[k]
    BY <1>2
  <2>2. g[k + 1] = IF k + 1 <= 1 THEN 0 ELSE g[k] + HeaderSize + d[k]
    BY <2>1 DEF Sums
  <2>3. h[k + 1] = IF k + 1 <= 1 THEN 0 ELSE h[k] + HeaderSize + d[k]
    BY <2>1 DEF Sums
  <2> QED
    BY <2>1, <2>2, <2>3
<1>3. S = Nat
  <2> HIDE DEF S
  <2>1. S \in SUBSET Nat
    BY DEF S
  <2> QED
    BY <1>1, <1>2, <2>1, SetInduction
<1> QED
  BY <1>3

(* For every n some function satisfies it up to n.                         *)
LEMMA SumsExist ==
  ASSUME NEW d
  PROVE  \A n \in Nat : \E g : Sums(g, d, n)
<1> DEFINE S == {n \in Nat : \E g : Sums(g, d, n)}
<1>1. 0 \in S
  <2>1. Sums([f \in 0..0 |-> 0], d, 0)
    BY DEF Sums
  <2> QED
    BY <2>1
<1>2. ASSUME NEW n \in S PROVE n + 1 \in S
  <2>1. PICK g : Sums(g, d, n)
    BY <1>2
  <2> DEFINE h == [f \in 0..(n + 1) |->
                     IF f <= n THEN g[f]
                     ELSE IF f <= 1 THEN 0 ELSE g[f - 1] + HeaderSize + d[f - 1]]
  <2>2. ASSUME NEW f \in 0..(n + 1)
        PROVE  h[f] = IF f <= 1 THEN 0 ELSE h[f - 1] + HeaderSize + d[f - 1]
    <3>1. f > 1 => h[f - 1] = g[f - 1]
      OBVIOUS
    <3>2. CASE f <= n
      <4>1. g[f] = IF f <= 1 THEN 0 ELSE g[f - 1] + HeaderSize + d[f - 1]
        BY <2>1, <3>2 DEF Sums
      <4> QED
        BY <3>1, <3>2, <4>1
    <3>3. CASE ~(f <= n)
      BY <3>1, <3>3
    <3> QED
      BY <3>2, <3>3
  <2>3. Sums(h, d, n + 1)
    <3>1. h = [f \in 0..(n + 1) |-> h[f]]
      OBVIOUS
    <3> HIDE DEF h
    <3> QED
      BY <2>2, <3>1 DEF Sums
  <2> HIDE DEF h
  <2> QED
    BY <2>3
<1>3. S = Nat
  <2> HIDE DEF S
  <2>1. S \in SUBSET Nat
    BY DEF S
  <2> QED
    BY <1>1, <1>2, <2>1, SetInduction
<1> QED
  BY <1>3

(* Some function satisfies it for all natural numbers.                     *)
LEMMA SumExists ==
  ASSUME NEW d
  PROVE  \E g : g = [f \in Nat |-> IF f <= 1 THEN 0 ELSE g[f - 1] + HeaderSize + d[f - 1]]
<1> DEFINE up == [n \in Nat |-> CHOOSE g : Sums(g, d, n)]
           all == [f \in Nat |-> up[f][f]]
<1>1. ASSUME NEW n \in Nat PROVE Sums(up[n], d, n)
  BY SumsExist
<1> HIDE DEF up
<1>2. ASSUME NEW f \in Nat
      PROVE  all[f] = IF f <= 1 THEN 0 ELSE all[f - 1] + HeaderSize + d[f - 1]
  <2>1. f \in 0..f
    OBVIOUS
  <2>2. up[f][f] = IF f <= 1 THEN 0 ELSE up[f][f - 1] + HeaderSize + d[f - 1]
    BY <1>1, <2>1 DEF Sums
  <2>3. CASE f <= 1
    BY <2>2, <2>3
  <2>4. CASE ~(f <= 1)
    <3>1. f - 1 \in Nat /\ f - 1 <= f /\ f - 1 <= f - 1
      BY <2>4
    <3>2. PICK e \in Nat : e = f - 1
      BY <3>1
    <3>3. Sums(up[f], d, f) /\ Sums(up[e], d, e)
      BY <1>1
    <3>4. \A k \in Nat : k <= f /\ k <= e => up[f][k] = up[e][k]
      BY <3>3, SumsAgree
    <3>5. up[f][f - 1] = up[f - 1][f - 1]
      BY <3>1, <3>2, <3>4
    <3> QED
      BY <2>2, <2>4, <3>1, <3>5
  <2> QED
    BY <2>3, <2>4
<1>3. all = [f \in Nat |-> all[f]]
  OBVIOUS
<1> HIDE DEF all
<1>4. all = [f \in Nat |-> IF f <= 1 THEN 0 ELSE all[f - 1] + HeaderSize + d[f - 1]]
  BY <1>2, <1>3
<1> QED
  BY <1>4

(* StartOf satisfies its own equation.                                     *)
LEMMA StartOfIs ==
  \A f \in Nat : StartOf[f] = IF f <= 1 THEN 0 ELSE StartOf[f - 1] + HeaderSize + frames[f - 1]
<1>1. \E g : g = [f \in Nat |-> IF f <= 1 THEN 0 ELSE g[f - 1] + HeaderSize + frames[f - 1]]
  BY SumExists
<1>2. StartOf = [f \in Nat |-> IF f <= 1 THEN 0 ELSE StartOf[f - 1] + HeaderSize + frames[f - 1]]
  BY <1>1 DEF StartOf
<1> HIDE DEF StartOf
<1> QED
  BY <1>2

(* Where the frames start: the first at 0, the next behind the header and  *)
(* the body of the one before.                                             *)
LEMMA StartTypes ==
  ASSUME frames \in [1..Frames -> Nat]
  PROVE  /\ StartOf[1] = 0
         /\ \A f \in 1..(Frames + 1) : StartOf[f] \in Nat
         /\ \A f \in 1..Frames : StartOf[f + 1] = StartOf[f] + HeaderSize + frames[f]
<1> USE MessageAssumption
<1>1. \A f \in Nat : StartOf[f] = IF f <= 1 THEN 0 ELSE StartOf[f - 1] + HeaderSize + frames[f - 1]
  BY StartOfIs
<1>2. StartOf[1] = 0
  BY <1>1
<1>3. ASSUME NEW f \in 1..Frames
      PROVE  StartOf[f + 1] = StartOf[f] + HeaderSize + frames[f]
  <2>1. f + 1 \in Nat /\ ~(f + 1 <= 1) /\ (f + 1) - 1 = f
    OBVIOUS
  <2>2. StartOf[f + 1] = StartOf[(f + 1) - 1] + HeaderSize + frames[(f + 1) - 1]
    BY <1>1, <2>1
  <2> QED
    BY <2>1, <2>2
<1> DEFINE S == {f \in Nat : f <= Frames => StartOf[f + 1] \in Nat}
<1>4. 0 \in S
  BY <1>2
<1>5. ASSUME NEW f \in S PROVE f + 1 \in S
  <2> SUFFICES ASSUME f + 1 <= Frames PROVE StartOf[f + 2] \in Nat
    OBVIOUS
  <2>1. f + 1 \in 1..Frames /\ StartOf[f + 1] \in Nat /\ (f + 1) + 1 = f + 2
    BY <1>5
  <2>2. StartOf[f + 2] = StartOf[f + 1] + HeaderSize + frames[f + 1]
    BY <1>3, <2>1
  <2>3. frames[f + 1] \in Nat
    BY <2>1
  <2> QED
    BY <2>1, <2>2, <2>3
<1>6. S = Nat
  <2> HIDE DEF S
  <2>1. S \in SUBSET Nat
    BY DEF S
  <2> QED
    BY <1>4, <1>5, <2>1, SetInduction
<1>7. ASSUME NEW f \in 1..(Frames + 1) PROVE StartOf[f] \in Nat
  <2>1. f - 1 \in Nat /\ f - 1 <= Frames /\ (f - 1) + 1 = f
    OBVIOUS
  <2>2. f - 1 \in S
    BY <1>6, <2>1
  <2> QED
    BY <2>1, <2>2
<1> QED
  BY <1>2, <1>3, <1>7

(* A frame starts at least a header after every earlier one.               *)
LEMMA StartsApart ==
  ASSUME frames \in [1..Frames -> Nat]
  PROVE  \A f, g \in 1..(Frames + 1) : f < g => StartOf[f] + HeaderSize <= StartOf[g]
<1> USE MessageAssumption
<1> SUFFICES ASSUME NEW f \in 1..(Frames + 1)
             PROVE  \A g \in 1..(Frames + 1) : f < g => StartOf[f] + HeaderSize <= StartOf[g]
  OBVIOUS
<1> DEFINE S == {n \in Nat : f + n <= Frames => StartOf[f] + HeaderSize <= StartOf[f + n + 1]}
<1>0. StartOf[f] \in Nat
  BY StartTypes
<1>1. 0 \in S
  <2> SUFFICES ASSUME f <= Frames PROVE StartOf[f] + HeaderSize <= StartOf[f + 1]
    OBVIOUS
  <2>1. f \in 1..Frames
    OBVIOUS
  <2>2. frames[f] \in Nat /\ StartOf[f + 1] = StartOf[f] + HeaderSize + frames[f]
    BY <2>1, StartTypes
  <2> QED
    BY <1>0, <2>2
<1>2. ASSUME NEW n \in S PROVE n + 1 \in S
  <2> SUFFICES ASSUME f + (n + 1) <= Frames
               PROVE  StartOf[f] + HeaderSize <= StartOf[f + (n + 1) + 1]
    OBVIOUS
  <2>1. /\ n \in Nat /\ StartOf[f] + HeaderSize <= StartOf[f + n + 1]
    BY <1>2
  <2>2. PICK k \in 1..Frames : k = f + n + 1
    BY <2>1
  <2>3. /\ frames[k] \in Nat /\ StartOf[k + 1] = StartOf[k] + HeaderSize + frames[k]
        /\ StartOf[k] \in Nat
    <3>1. k \in 1..(Frames + 1)
      OBVIOUS
    <3> QED
      BY <3>1, StartTypes
  <2>4. f + (n + 1) + 1 = k + 1
    BY <2>1, <2>2
  <2> QED
    BY <1>0, <2>1, <2>2, <2>3, <2>4
<1>3. S = Nat
  <2> HIDE DEF S
  <2>1. S \in SUBSET Nat
    BY DEF S
  <2> QED
    BY <1>1, <1>2, <2>1, SetInduction
<1>4. ASSUME NEW g \in 1..(Frames + 1), f < g PROVE StartOf[f] + HeaderSize <= StartOf[g]
  <2>1. g - f - 1 \in Nat /\ f + (g - f - 1) <= Frames /\ f + (g - f - 1) + 1 = g
    BY <1>4
  <2>2. g - f - 1 \in S
    BY <1>3, <2>1
  <2> QED
    BY <2>1, <2>2
<1> QED
  BY <1>4

-----------------------------------------------------------------------------
(* memcpy leaves a buffer of the same size.                                *)
LEMMA CopiedType ==
  ASSUME NEW lo \in Int, NEW hi \in Int, NEW buffer \in [lo..hi -> Byte],
         NEW to \in Int, NEW from \in Nat, NEW n \in Int
  PROVE  Copied(buffer, to, from, n) \in [lo..hi -> Byte]
<1>1. ASSUME NEW i \in lo..hi
      PROVE  (IF i \in to..(to + n - 1) THEN from + (i - to) ELSE buffer[i]) \in Byte
  <2>1. CASE i \in to..(to + n - 1)
    <3>1. from + (i - to) \in Nat
      BY <2>1
    <3> QED
      BY <2>1, <3>1 DEF Byte
  <2>2. CASE i \notin to..(to + n - 1)
    BY <2>2
  <2> QED
    BY <2>1, <2>2
<1>2. DOMAIN buffer = lo..hi
  OBVIOUS
<1> QED
  BY <1>1, <1>2 DEF Copied

(* The length in a header that starts with the first byte of a frame is    *)
(* the length of that frame's body: no other frame starts there.           *)
LEMMA LengthInHeader ==
  ASSUME frames \in [1..Frames -> Nat], NEW f \in 1..Frames, NEW header, header[0] = StartOf[f]
  PROVE  LengthIn(header) = frames[f]
<1> USE MessageAssumption
<1>1. ASSUME NEW g \in 1..Frames, StartOf[g] = StartOf[f] PROVE g = f
  <2>1. f \in 1..(Frames + 1) /\ g \in 1..(Frames + 1)
    OBVIOUS
  <2>2. StartOf[f] \in Nat /\ StartOf[g] \in Nat
    BY <2>1, StartTypes
  <2>3. /\ f < g => StartOf[f] + HeaderSize <= StartOf[g]
        /\ g < f => StartOf[g] + HeaderSize <= StartOf[f]
    BY <2>1, StartsApart
  <2> QED
    BY <1>1, <2>2, <2>3
<1>2. (CHOOSE g \in 1..Frames : header[0] = StartOf[g]) = f
  BY <1>1
<1> QED
  BY <1>2 DEF LengthIn

(* The message being received is a frame of the stream whenever a byte of  *)
(* the current read is left.                                               *)
LEMMA Current ==
  ASSUME MessageInv, NEW k, k = Len(delivered) + 1
  PROVE  /\ k \in 1..(Frames + 1) /\ StartOf[k] \in Nat
         /\ pos = StartOf[k] + received
         /\ Total \in Nat /\ StartOf[k] <= Total
         /\ remaining > 0 => k \in 1..Frames
<1> USE MessageAssumption
<1>1. /\ frames \in [1..Frames -> Nat] /\ Len(delivered) \in Nat /\ Len(delivered) <= Frames
      /\ received \in Nat /\ remaining \in Nat
      /\ pos = StartOf[k] + received
  BY DEF MessageInv, MessageTypeOK, FramesExact
<1>2. k \in 1..(Frames + 1) /\ Frames + 1 \in 1..(Frames + 1)
  BY <1>1
<1>3. StartOf[k] \in Nat /\ StartOf[Frames + 1] \in Nat
  BY <1>1, <1>2, StartTypes
<1>4. k # Frames + 1 => StartOf[k] + HeaderSize <= StartOf[Frames + 1]
  BY <1>1, <1>2, StartsApart
<1>5. pos + remaining <= StartOf[Frames + 1]
  BY DEF MessageInv, InStream, Total
<1>6. remaining > 0 => k # Frames + 1
  BY <1>1, <1>3, <1>5
<1>7. k # Frames + 1 => k \in 1..Frames
  BY <1>2
<1>8. StartOf[k] <= StartOf[Frames + 1]
  BY <1>3, <1>4
<1> QED
  BY <1>1, <1>2, <1>3, <1>6, <1>7, <1>8 DEF Total

(* What consume works with once the header is complete.                    *)
LEMMA HeaderComplete ==
  ASSUME MessageInv, remaining > 0, received + remaining >= HeaderSize,
         NEW k, k = Len(delivered) + 1
  PROVE  /\ HeaderNeeded \in Nat /\ HeaderNeeded <= remaining
         /\ header_received => HeaderNeeded = 0
         /\ ~header_received => HeaderNeeded > 0 /\ received + HeaderNeeded = HeaderSize
         /\ Header \in [0..HeaderSize-1 -> Byte] /\ Header[0] = StartOf[k]
         /\ Length = frames[k] /\ Length \in Nat
         /\ Body \in [0..Length-1 -> Byte]
<1> USE MessageAssumption
<1>1. /\ k \in 1..Frames /\ StartOf[k] \in Nat /\ pos = StartOf[k] + received
  BY Current
<1>2. /\ received \in Nat /\ remaining \in Nat /\ pos \in Nat /\ length \in Nat
      /\ header_buffer \in [0..HeaderSize-1 -> Byte]
      /\ body_buffer \in [0..length-1 -> Byte]
      /\ frames \in [1..Frames -> Nat]
  BY DEF MessageInv, MessageTypeOK
<1>3. /\ received > 0 => header_buffer[0] = StartOf[k]
      /\ ~header_received => received < HeaderSize
      /\ header_received => received >= HeaderSize /\ length = frames[k]
  BY DEF MessageInv, HeaderSoFar
<1>4. /\ HeaderNeeded \in Nat /\ HeaderNeeded <= remaining
      /\ header_received => HeaderNeeded = 0
      /\ ~header_received => HeaderNeeded > 0 /\ received + HeaderNeeded = HeaderSize
  BY <1>2, <1>3 DEF HeaderNeeded
<1>5. Header \in [0..HeaderSize-1 -> Byte]
  <2>1. 0 \in Int /\ HeaderSize - 1 \in Int /\ received \in Int /\ HeaderNeeded \in Int
    BY <1>2, <1>4
  <2> QED
    BY <1>2, <2>1, CopiedType DEF Header
<1>6. Header[0] = StartOf[k]
  <2> DEFINE n == HeaderNeeded
  <2>1. n \in Nat /\ (received = 0 => n > 0)
    BY <1>2, <1>3, <1>4
  <2> HIDE DEF n
  <2>2. 0 \in DOMAIN header_buffer
    BY <1>2
  <2>3. Header[0] = IF 0 \in received..(received + n - 1) THEN pos + (0 - received)
                                                          ELSE header_buffer[0]
    BY <2>2 DEF Header, Copied, n
  <2>4. CASE received = 0
    BY <1>1, <2>1, <2>3, <2>4
  <2>5. CASE received > 0
    BY <1>2, <1>3, <2>1, <2>3, <2>5
  <2> QED
    BY <1>2, <2>4, <2>5
<1>7. Length = frames[k] /\ Length \in Nat
  <2>1. LengthIn(Header) = frames[k]
    BY <1>1, <1>2, <1>6, LengthInHeader
  <2> QED
    BY <1>1, <1>2, <1>3, <2>1 DEF Length
<1>8. Body \in [0..Length-1 -> Byte]
  <2>1. CASE header_received
    BY <1>2, <2>1 DEF Body, Length
  <2>2. CASE ~header_received
    <3>1. Garbage \in Byte
      BY DEF Byte
    <3> QED
      BY <2>2, <3>1 DEF Body
  <2> QED
    BY <2>1, <2>2
<1> QED
  BY <1>4, <1>5, <1>6, <1>7, <1>8

-----------------------------------------------------------------------------
(* The constructor establishes the invariant.                              *)
LEMMA MessageInitial == MsgInit => MessageInv
<1> SUFFICES ASSUME MsgInit PROVE MessageInv
  OBVIOUS
<1> USE MessageAssumption
<1>1. /\ frames \in [1..Frames -> 0..MaxLength]
      /\ pos = 0 /\ remaining = 0 /\ overflow = FALSE /\ delivered = << >>
      /\ received = 0 /\ header_received = FALSE /\ length = 0 /\ body_buffer = << >>
      /\ body_buffer_pos = 0 /\ split = FALSE
      /\ header_buffer = [i \in 0..HeaderSize-1 |-> Garbage]
  BY DEF MsgInit, MessageInit, NoHeader
<1>2. frames \in [1..Frames -> Nat]
  BY <1>1
<1>3. StartOf[1] = 0 /\ StartOf[Frames + 1] \in Nat
  <2>1. Frames + 1 \in 1..(Frames + 1)
    OBVIOUS
  <2> QED
    BY <1>2, <2>1, StartTypes
<1>4. MessageTypeOK
  <2>1. header_buffer \in [0..HeaderSize-1 -> Byte] /\ body_buffer \in [0..length-1 -> Byte]
    BY <1>1 DEF Byte
  <2>2. delivered \in Seq(MessageType)
    BY <1>1
  <2>3. pos \in Nat /\ remaining \in Nat /\ received \in Nat /\ length \in Nat
        /\ body_buffer_pos \in Nat
    BY <1>1
  <2>4. header_received \in BOOLEAN /\ split \in BOOLEAN /\ overflow \in BOOLEAN
    BY <1>1
  <2> QED
    BY <1>2, <2>1, <2>2, <2>3, <2>4 DEF MessageTypeOK
<1>5. FramesExact /\ InStream
  BY <1>1, <1>3 DEF FramesExact, InStream, Total
<1>6. HeaderSoFar /\ BodyIntactUnlessSplit
  BY <1>1 DEF HeaderSoFar, BodyIntactUnlessSplit
<1> QED
  BY <1>4, <1>5, <1>6 DEF MessageInv

(* The stream does not change.                                             *)
LEMMA StartsStay ==
  ASSUME UNCHANGED frames
  PROVE  /\ StartOf' = StartOf /\ Total' = Total
         /\ \A f : BodyOf(f)' = BodyOf(f)
<1>1. StartOf' = StartOf
  BY DEF StartOf
<1> QED
  BY <1>1 DEF Total, BodyOf

(* on_read keeps the invariant.                                            *)
LEMMA OnReadKeeps ==
  ASSUME MessageInv, NEW size \in 1..MaxRead, on_read(size)
  PROVE  MessageInv'
<1> USE MessageAssumption
<1>1. /\ size <= Total - pos /\ remaining' = size
      /\ UNCHANGED <<frames, pos, received, header_received, header_buffer, length, body_buffer,
                     body_buffer_pos, split, overflow, delivered>>
  BY DEF on_read, incomming, headerVars, bodyVars
<1>2. StartOf' = StartOf /\ Total' = Total /\ \A f : BodyOf(f)' = BodyOf(f)
  BY <1>1, StartsStay
<1>3. Total \in Nat /\ pos \in Nat /\ size \in Nat
  BY Current DEF MessageInv, MessageTypeOK
<1>4. MessageTypeOK' /\ InStream'
  BY <1>1, <1>2, <1>3 DEF MessageInv, MessageTypeOK, InStream
<1>5. FramesExact' /\ HeaderSoFar'
  BY <1>1, <1>2 DEF MessageInv, FramesExact, HeaderSoFar
<1>6. BodyIntactUnlessSplit'
  BY <1>1, <1>2 DEF MessageInv, BodyIntactUnlessSplit
<1> QED
  BY <1>4, <1>5, <1>6 DEF MessageInv

(* consume keeps the invariant while the header is incomplete.             *)
LEMMA ConsumeHeaderKeeps ==
  ASSUME MessageInv, consume_header
  PROVE  MessageInv'
<1> USE MessageAssumption
<1>0. PICK k : k = Len(delivered) + 1
  OBVIOUS
<1>1. /\ remaining > 0 /\ ~header_received /\ received + remaining < HeaderSize
      /\ header_buffer' = Copied(header_buffer, received, pos, remaining)
      /\ received' = received + remaining /\ pos' = pos + remaining /\ remaining' = 0
      /\ UNCHANGED <<frames, header_received, length, body_buffer, body_buffer_pos, split,
                     overflow, delivered>>
  BY DEF consume_header, bodyVars
<1>2. StartOf' = StartOf /\ Total' = Total /\ \A f : BodyOf(f)' = BodyOf(f)
  BY <1>1, StartsStay
<1>3. StartOf[k] \in Nat /\ pos = StartOf[k] + received /\ Total \in Nat
  BY <1>0, Current
<1>4. /\ received \in Nat /\ remaining \in Nat /\ pos \in Nat
      /\ header_buffer \in [0..HeaderSize-1 -> Byte]
  BY DEF MessageInv, MessageTypeOK
<1>5. /\ header_buffer' \in [0..HeaderSize-1 -> Byte]
  <2>1. 0 \in Int /\ HeaderSize - 1 \in Int /\ received \in Int /\ remaining \in Int
    BY <1>4
  <2> QED
    BY <1>1, <1>4, <2>1, CopiedType
<1>6. header_buffer'[0] = StartOf[k]
  <2>1. 0 \in DOMAIN header_buffer
    BY <1>4
  <2>2. header_buffer'[0] = IF 0 \in received..(received + remaining - 1)
                              THEN pos + (0 - received) ELSE header_buffer[0]
    BY <1>1, <2>1 DEF Copied
  <2>3. CASE received = 0
    BY <1>1, <1>3, <1>4, <2>2, <2>3
  <2>4. CASE received > 0
    BY <1>0, <1>4, <2>2, <2>4 DEF MessageInv, HeaderSoFar
  <2> QED
    BY <1>4, <2>3, <2>4
<1>7. MessageTypeOK'
  <2>1. received' \in Nat /\ pos' \in Nat /\ remaining' \in Nat
    BY <1>1, <1>4
  <2> QED
    BY <1>1, <1>5, <2>1 DEF MessageInv, MessageTypeOK
<1>8. FramesExact' /\ InStream'
  <2>1. pos' = StartOf[k] + received' /\ pos' + remaining' = pos + remaining
    BY <1>1, <1>3, <1>4
  <2> QED
    BY <1>0, <1>1, <1>2, <2>1 DEF MessageInv, FramesExact, InStream
<1>9. HeaderSoFar'
  <2>1. received' < HeaderSize
    BY <1>1
  <2> QED
    BY <1>0, <1>1, <1>2, <1>6, <2>1 DEF MessageInv, HeaderSoFar
<1>10. BodyIntactUnlessSplit'
  BY <1>1, <1>2 DEF MessageInv, BodyIntactUnlessSplit
<1> QED
  BY <1>7, <1>8, <1>9, <1>10 DEF MessageInv

(* consume keeps the invariant while the body is incomplete. The position  *)
(* in the body may be wrong from here on, and so may what is written       *)
(* there.                                                                  *)
LEMMA ConsumePartialKeeps ==
  ASSUME MessageInv, consume_partial
  PROVE  MessageInv'
<1> USE MessageAssumption
<1>0. PICK k : k = Len(delivered) + 1
  OBVIOUS
<1>1. /\ remaining > 0 /\ received + remaining >= HeaderSize
      /\ ~(received + remaining - HeaderSize >= Length)
      /\ header_received' = TRUE /\ header_buffer' = Header /\ length' = Length
      /\ body_buffer' = Copied(Body, body_buffer_pos, InputPos, remaining - HeaderNeeded)
      /\ overflow' = (overflow \/ body_buffer_pos + remaining - HeaderNeeded > Length)
      /\ body_buffer_pos' = body_buffer_pos + remaining
      /\ split' = (split \/ HeaderNeeded > 0)
      /\ received' = received + remaining /\ pos' = pos + remaining /\ remaining' = 0
      /\ UNCHANGED <<frames, delivered>>
  BY DEF consume_partial, BodyComplete
<1>2. StartOf' = StartOf /\ Total' = Total /\ \A f : BodyOf(f)' = BodyOf(f)
  BY <1>1, StartsStay
<1>3. StartOf[k] \in Nat /\ pos = StartOf[k] + received /\ Total \in Nat
  BY <1>0, Current
<1>4. /\ received \in Nat /\ remaining \in Nat /\ pos \in Nat /\ body_buffer_pos \in Nat
      /\ split \in BOOLEAN /\ overflow \in BOOLEAN
  BY DEF MessageInv, MessageTypeOK
<1>5. /\ HeaderNeeded \in Nat
      /\ ~header_received => HeaderNeeded > 0
      /\ Header \in [0..HeaderSize-1 -> Byte] /\ Header[0] = StartOf[k]
      /\ Length = frames[k] /\ Length \in Nat
      /\ Body \in [0..Length-1 -> Byte]
  BY <1>0, <1>1, HeaderComplete
<1>6. body_buffer' \in [0..Length-1 -> Byte]
  <2>1. /\ 0 \in Int /\ Length - 1 \in Int /\ body_buffer_pos \in Int
        /\ InputPos \in Nat /\ remaining - HeaderNeeded \in Int
    BY <1>4, <1>5 DEF InputPos
  <2> QED
    BY <1>1, <1>5, <2>1, CopiedType
<1>7. split' = TRUE /\ overflow' \in BOOLEAN
  <2>1. split \/ HeaderNeeded > 0
    BY <1>5 DEF MessageInv, HeaderSoFar
  <2> QED
    BY <1>1, <2>1
<1>8. MessageTypeOK'
  <2>1. received' \in Nat /\ pos' \in Nat /\ remaining' \in Nat /\ body_buffer_pos' \in Nat
    BY <1>1, <1>4
  <2> QED
    BY <1>1, <1>5, <1>6, <1>7, <2>1 DEF MessageInv, MessageTypeOK
<1>9. FramesExact' /\ InStream'
  <2>1. pos' = StartOf[k] + received' /\ pos' + remaining' = pos + remaining
    BY <1>1, <1>3, <1>4
  <2> QED
    BY <1>0, <1>1, <1>2, <2>1 DEF MessageInv, FramesExact, InStream
<1>10. HeaderSoFar'
  <2>1. received' >= HeaderSize /\ received' - HeaderSize < Length
    BY <1>1, <1>4, <1>5
  <2> QED
    BY <1>0, <1>1, <1>2, <1>5, <1>7, <2>1 DEF HeaderSoFar
<1>11. BodyIntactUnlessSplit'
  BY <1>1, <1>2, <1>7 DEF MessageInv, BodyIntactUnlessSplit
<1> QED
  BY <1>8, <1>9, <1>10, <1>11 DEF MessageInv

(* consume keeps the invariant when it completes a body: what is left of   *)
(* the read starts at the next frame.                                      *)
LEMMA ConsumeBodyKeeps ==
  ASSUME MessageInv, consume_body
  PROVE  MessageInv'
<1> USE MessageAssumption
<1>0. PICK k : k = Len(delivered) + 1
  OBVIOUS
<1> DEFINE body == Copied(Body, body_buffer_pos, InputPos, BodyNeeded)
           m == [length |-> Length, split |-> split, body |-> body]
<1>1. /\ remaining > 0 /\ received + remaining >= HeaderSize
      /\ received + remaining - HeaderSize >= Length
      /\ delivered' = Append(delivered, m)
      /\ overflow' = (overflow \/ (BodyNeeded > 0 /\ body_buffer_pos + BodyNeeded > Length))
      /\ pos' = pos + HeaderNeeded + BodyNeeded
      /\ remaining' = remaining - (HeaderNeeded + BodyNeeded)
      /\ received' = 0 /\ header_received' = FALSE /\ header_buffer' = NoHeader
      /\ length' = 0 /\ body_buffer' = << >> /\ body_buffer_pos' = 0 /\ split' = FALSE
      /\ UNCHANGED frames
  BY DEF consume_body, BodyComplete
<1>2. StartOf' = StartOf /\ Total' = Total /\ \A f : BodyOf(f)' = BodyOf(f)
  BY <1>1, StartsStay
<1>3. /\ StartOf[k] \in Nat /\ pos = StartOf[k] + received /\ Total \in Nat
      /\ k \in 1..Frames
  BY <1>0, <1>1, Current
<1>4. /\ received \in Nat /\ remaining \in Nat /\ pos \in Nat /\ body_buffer_pos \in Nat
      /\ split \in BOOLEAN /\ overflow \in BOOLEAN
      /\ frames \in [1..Frames -> Nat] /\ delivered \in Seq(MessageType)
  BY DEF MessageInv, MessageTypeOK
<1>5. /\ HeaderNeeded \in Nat /\ HeaderNeeded <= remaining
      /\ header_received => HeaderNeeded = 0
      /\ ~header_received => HeaderNeeded > 0 /\ received + HeaderNeeded = HeaderSize
      /\ Length = frames[k] /\ Length \in Nat
      /\ Body \in [0..Length-1 -> Byte]
  BY <1>0, <1>1, HeaderComplete
<1>6. /\ header_received => received >= HeaderSize /\ received - HeaderSize < Length /\ split
      /\ ~header_received => body_buffer_pos = 0 /\ ~split
  BY <1>0, <1>5 DEF MessageInv, HeaderSoFar
<1>sizes. /\ received \in Nat /\ remaining \in Nat /\ pos \in Nat
      /\ HeaderNeeded \in Nat /\ HeaderNeeded <= remaining /\ Length \in Nat
      /\ received + remaining - HeaderSize >= Length
  BY <1>1, <1>4, <1>5
<1>7. /\ BodyNeeded \in Nat
      /\ received + HeaderNeeded + BodyNeeded = HeaderSize + Length
      /\ HeaderNeeded + BodyNeeded <= remaining
      /\ ~header_received => BodyNeeded = Length
  <2>1. BodyNeeded = (remaining - HeaderNeeded) - (received + remaining - Length - HeaderSize)
    BY DEF BodyNeeded
  <2>2. CASE header_received
    <3>1. HeaderNeeded = 0 /\ received >= HeaderSize /\ received - HeaderSize < Length
      BY <1>5, <1>6, <2>2
    <3> QED
      BY <1>sizes, <2>1, <2>2, <3>1
  <2>3. CASE ~header_received
    <3>1. received + HeaderNeeded = HeaderSize
      BY <1>5, <2>3
    <3> QED
      BY <1>sizes, <2>1, <3>1
  <2> QED
    BY <2>2, <2>3
<1>8. body \in [0..Length-1 -> Byte]
  <2>1. /\ 0 \in Int /\ Length - 1 \in Int /\ body_buffer_pos \in Int
        /\ InputPos \in Nat /\ BodyNeeded \in Int
    BY <1>4, <1>5, <1>7 DEF InputPos
  <2> QED
    BY <1>5, <2>1, CopiedType
<1>9. ~split => body = BodyOf(k) /\ overflow' = overflow
  <2> SUFFICES ASSUME ~split PROVE body = BodyOf(k) /\ overflow' = overflow
    OBVIOUS
  <2>1. /\ ~header_received /\ body_buffer_pos = 0 /\ BodyNeeded = Length
        /\ InputPos = StartOf[k] + HeaderSize
    <3>1. ~header_received
      BY <1>6
    <3>2. received + HeaderNeeded = HeaderSize /\ body_buffer_pos = 0 /\ BodyNeeded = Length
      BY <1>5, <1>6, <1>7, <3>1
    <3>3. InputPos = StartOf[k] + HeaderSize
      BY <1>3, <1>sizes, <3>2 DEF InputPos
    <3> QED
      BY <3>1, <3>2, <3>3
  <2>2. DOMAIN Body = 0..Length-1
    BY <1>5
  <2>3. body = [i \in 0..Length-1 |->
                  IF i \in 0..(0 + Length - 1) THEN (StartOf[k] + HeaderSize) + (i - 0)
                                               ELSE Body[i]]
    BY <2>1, <2>2 DEF Copied
  <2>4. body = [i \in 0..Length-1 |-> StartOf[k] + HeaderSize + i]
    BY <1>3, <1>5, <2>3
  <2>5. overflow' = overflow
    <3>1. ~(body_buffer_pos + BodyNeeded > Length)
      BY <1>sizes, <2>1
    <3> QED
      BY <1>1, <1>4, <3>1
  <2> QED
    BY <1>5, <2>4, <2>5 DEF BodyOf
<1> HIDE DEF body
<1>10. m \in MessageType
  <2>1. body \in Buffers
    BY <1>5, <1>8 DEF Buffers
  <2> QED
    BY <1>4, <1>5, <2>1 DEF MessageType
<1>11. m.length = Length /\ m.split = split /\ m.body = body
  OBVIOUS
<1> HIDE DEF m
<1>12. /\ delivered' \in Seq(MessageType) /\ Len(delivered') = k /\ DOMAIN delivered' = 1..k
       /\ DOMAIN delivered = 1..(k - 1) /\ k \in Nat
       /\ \A i \in 1..(k - 1) : delivered'[i] = delivered[i]
       /\ delivered'[k] = m
  <2>1. Len(delivered) \in Nat /\ DOMAIN delivered = 1..Len(delivered)
    BY <1>4
  <2> QED
    BY <1>0, <1>1, <1>4, <1>10, <2>1, AppendProperties
<1>13. /\ k + 1 \in 1..(Frames + 1) /\ StartOf[k + 1] = StartOf[k] + HeaderSize + Length
  BY <1>3, <1>4, <1>5, StartTypes
<1>14. MessageTypeOK'
  <2>1. pos' \in Nat /\ remaining' \in Nat /\ received' \in Nat /\ length' \in Nat
        /\ body_buffer_pos' \in Nat
    BY <1>1, <1>4, <1>5, <1>7
  <2>2. header_received' \in BOOLEAN /\ split' \in BOOLEAN /\ overflow' \in BOOLEAN
    BY <1>1, <1>4
  <2>3. header_buffer' \in [0..HeaderSize-1 -> Byte] /\ body_buffer' \in [0..length'-1 -> Byte]
    BY <1>1 DEF NoHeader, Byte
  <2>4. frames' \in [1..Frames -> Nat]
    BY <1>1, <1>4
  <2> QED
    BY <1>12, <2>1, <2>2, <2>3, <2>4 DEF MessageTypeOK
<1>15. FramesExact'
  <2>1. ASSUME NEW i \in 1..k PROVE delivered'[i].length = frames[i]
    <3>1. CASE i = k
      BY <1>5, <1>11, <1>12, <3>1
    <3>2. CASE i # k
      <4>1. i \in 1..(k - 1)
        BY <1>12, <3>2
      <4> QED
        BY <1>12, <4>1 DEF MessageInv, FramesExact
    <3> QED
      BY <3>1, <3>2
  <2>2. k <= Frames /\ pos' = StartOf[k + 1] + received'
    <3>1. pos' = pos + HeaderNeeded + BodyNeeded /\ received' = 0
      BY <1>1
    <3> QED
      BY <1>3, <1>sizes, <1>7, <1>13, <3>1
  <2> QED
    BY <1>1, <1>2, <1>12, <2>1, <2>2 DEF FramesExact
<1>16. InStream'
  <2>1. pos' + remaining' = pos + remaining
    BY <1>1, <1>4, <1>5, <1>7
  <2> QED
    BY <1>2, <2>1 DEF MessageInv, InStream
<1>17. HeaderSoFar'
  BY <1>1 DEF HeaderSoFar
<1>18. BodyIntactUnlessSplit'
  <2>1. ASSUME NEW i \in 1..k, ~delivered'[i].split PROVE delivered'[i].body = BodyOf(i)
    <3>1. CASE i = k
      BY <1>9, <1>11, <1>12, <2>1, <3>1
    <3>2. CASE i # k
      <4>1. i \in 1..(k - 1)
        BY <1>12, <3>2
      <4> QED
        BY <1>12, <2>1, <4>1 DEF MessageInv, BodyIntactUnlessSplit
    <3> QED
      BY <3>1, <3>2
  <2>2. ASSUME overflow' PROVE \E i \in 1..k : delivered'[i].split
    <3>1. CASE split
      <4>1. k \in 1..k
        BY <1>3
      <4> QED
        BY <1>11, <1>12, <3>1, <4>1
    <3>2. CASE ~split
      <4>1. PICK i \in 1..(k - 1) : delivered[i].split
        BY <1>9, <1>12, <2>2, <3>2 DEF MessageInv, BodyIntactUnlessSplit
      <4> QED
        BY <1>12, <4>1
    <3> QED
      BY <3>1, <3>2
  <2> QED
    BY <1>2, <1>12, <2>1, <2>2 DEF BodyIntactUnlessSplit
<1> QED
  BY <1>14, <1>15, <1>16, <1>17, <1>18 DEF MessageInv

(* Every step keeps the invariant.                                         *)
LEMMA MessageStep ==
  ASSUME MessageInv, [MsgNext]_msgVars
  PROVE  MessageInv'
<1>1. CASE UNCHANGED msgVars
  <2>1. UNCHANGED <<frames, pos, remaining, received, header_received, header_buffer, length,
                    body_buffer, body_buffer_pos, split, overflow, delivered>>
    BY <1>1 DEF msgVars, incomming, headerVars, bodyVars
  <2>2. StartOf' = StartOf /\ Total' = Total /\ \A f : BodyOf(f)' = BodyOf(f)
    BY <2>1, StartsStay
  <2>3. MessageTypeOK' /\ InStream' /\ FramesExact' /\ HeaderSoFar'
    BY <2>1, <2>2 DEF MessageInv, MessageTypeOK, InStream, FramesExact, HeaderSoFar
  <2>4. BodyIntactUnlessSplit'
    BY <2>1, <2>2 DEF MessageInv, BodyIntactUnlessSplit
  <2> QED
    BY <2>3, <2>4 DEF MessageInv
<1>2. CASE \E size \in 1..MaxRead : on_read(size)
  BY <1>2, OnReadKeeps
<1>3. CASE consume_header
  BY <1>3, ConsumeHeaderKeeps
<1>4. CASE consume_body
  BY <1>4, ConsumeBodyKeeps
<1>5. CASE consume_partial
  BY <1>5, ConsumePartialKeeps
<1> QED
  BY <1>1, <1>2, <1>3, <1>4, <1>5 DEF MsgNext

(* The invariant holds for every header size, every number of frames, all  *)
(* lengths of their bodies and all ways to cut the stream into reads.      *)
THEOREM MessageInvariant == MsgSpec => []MessageInv
<1>1. MessageInv /\ [MsgNext]_msgVars => MessageInv'
  BY MessageStep
<1> QED
  BY <1>1, MessageInitial, PTL DEF MsgSpec

(* Wherever the reads cut the stream, Message::consume and the loop around *)
(* it find the frames that were sent, with their lengths and in order, and *)
(* lose or repeat no byte between two of them.                             *)
THEOREM FramesAreExact == MsgSpec => []FramesExact
BY MessageInvariant, PTL DEF MessageInv

(* A body comes out as it was sent, and nothing is written behind its      *)
(* buffer, unless the read that completed its header ended within it: no   *)
(* other way to cut the stream does harm.                                  *)
THEOREM BodiesIntactUnlessSplit == MsgSpec => []BodyIntactUnlessSplit
BY MessageInvariant, PTL DEF MessageInv
=============================================================================
