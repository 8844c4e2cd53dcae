---------------------------- MODULE ExchangeProofs ---------------------------
(***************************************************************************)
(* Proofs about message bodies (modules Serialization, MessagePrepare,     *)
(* BodyResult and Exchange), for texts of any size and any number of them: *)
(* prepare fills the frame it announces, a server reads from it what was   *)
(* set, the answers of a server reach the client, a RESULT is parsed as it *)
(* was sent, and the iterator yields its rows.                             *)
(*                                                                         *)
(* A buffer is a sequence of fields, and what was written in it stays when *)
(* it goes on (Goes).  At the size of a buffer, whatever it goes on to, a  *)
(* reader finds the field that was written next: a number has at least one *)
(* byte and the bytes of a text are empty only if the text is, so no other *)
(* field of that kind and width starts at the same offset (NumberFound,    *)
(* BytesFound).  From this follows for every encoder that its decoder is   *)
(* its inverse.  The encoders and decoders of lists and maps are recursive *)
(* functions; that they exist, and what they are after each step, is       *)
(* proved with the lemmas of Recursion.                                    *)
(***************************************************************************)
EXTENDS Exchange, Recursion, SequenceTheorems

(* The texts there are: those of the users, those of the servers and those *)
(* of the code.                                                            *)
UserTexts == Queries \cup ParamValues \cup PagingStates

EntryTexts(entry) == {entry.key} \cup {entry.value[j] : j \in DOMAIN entry.value}

SupportedTexts(entries) == UNION {EntryTexts(entries[i]) : i \in DOMAIN entries}

ServerTexts ==
  {error.message : error \in Errors}
    \cup UNION {SupportedTexts(entries) : entries \in Supported}

ResultTexts ==
  {ClassName, Keyspace, Table, PageState, PreparedId, Change}
    \cup {column.name : column \in Columns}
    \cup {CellText(n) : n \in Nat}

Texts ==
  UserTexts \cup ServerTexts \cup ResultTexts
    \cup {EmptyText, Text("3.0.0", 5), COMPRESSION, CQL_VERSION}

(* The flags of a query.                                                   *)
Bits == {"VALUES", "PAGE_SIZE", "PAGING_STATE", "SERIAL_CONSISTENCY"}

(* The kinds of results and their flags.                                   *)
Kinds == {"VOID", "SET_KEYSPACE", "SCHEMA_CHANGE", "PREPARED", "ROWS"}

(* What a field may hold: a number, an opcode, flags, a kind of result, or *)
(* a text.                                                                 *)
Contents == Int \cup Opcodes \cup (SUBSET Bits) \cup Kinds \cup Flags \cup Texts

(* The fields. A number has at least one byte; no bytes are the empty      *)
(* text.                                                                   *)
Field ==
  {f \in [width : Nat, number : BOOLEAN, content : Contents] :
     /\ f.number => f.width > 0
     /\ ~f.number /\ f.width = 0 => f.content = EmptyText}

Buffers == Seq(Field)

(* c goes on where b ends.                                                 *)
Goes(b, c) == Len(b) <= Len(c) /\ \A i \in 1..Len(b) : c[i] = b[i]

-----------------------------------------------------------------------------
(* A number of at least one byte is a field.                               *)
LEMMA NumberField ==
  ASSUME NEW w \in Nat, w > 0, NEW x \in Contents
  PROVE  /\ Number(w, x) \in Field
         /\ Number(w, x).width = w
         /\ Number(w, x).number
         /\ Number(w, x).content = x
<1>1. Number(w, x) \in [width : Nat, number : BOOLEAN, content : Contents]
  BY DEF Number
<1>2. Number(w, x).width = w /\ Number(w, x).number = TRUE /\ Number(w, x).content = x
  BY DEF Number
<1> HIDE DEF Number
<1> QED
  BY <1>1, <1>2 DEF Field

(* A text of a server fits a short.                                        *)
LEMMA ServerText ==
  ASSUME NEW t \in ServerTexts
  PROVE  IsShortText(t)
<1>1. CASE \E error \in Errors : t = error.message
  BY <1>1, ExchangeAssumption
<1>2. CASE \E entries \in Supported : t \in SupportedTexts(entries)
  <2>1. PICK entries \in Supported : t \in SupportedTexts(entries)
    BY <1>2
  <2>2. PICK i \in DOMAIN entries : t \in EntryTexts(entries[i])
    BY <2>1 DEF SupportedTexts
  <2>3. IsShortText(entries[i].key)
        /\ \A j \in DOMAIN entries[i].value : IsShortText(entries[i].value[j])
    BY ExchangeAssumption
  <2> QED
    BY <2>2, <2>3 DEF EntryTexts
<1> QED
  BY <1>1, <1>2 DEF ServerTexts

(* A text in a result.                                                     *)
LEMMA ResultText ==
  ASSUME NEW t \in ResultTexts
  PROVE  t.size \in Nat /\ (t.size = 0 => t = EmptyText)
<1>1. CASE t \in {ClassName, Keyspace, Table, PageState, PreparedId, Change}
  <2>1. t.size \in {5, 2, 3, 6, 4, 7}
    BY <1>1 DEF ClassName, Keyspace, Table, PageState, PreparedId, Change, Text
  <2> QED
    BY <2>1
<1>2. CASE \E column \in Columns : t = column.name
  <2>1. IsShortText(t)
    BY <1>2, ResultAssumption, Zenon
  <2> QED
    BY <2>1 DEF IsShortText, IsText
<1>3. CASE \E n \in Nat : t = CellText(n)
  <2>1. PICK n \in Nat : t = CellText(n)
    BY <1>3
  <2>2. t.size = n /\ (n = 0 => t = EmptyText)
    BY <2>1 DEF CellText, EmptyText, Text
  <2> QED
    BY <2>2
<1> QED
  BY <1>1, <1>2, <1>3 DEF ResultTexts

(* A text has a size, and only one text is empty.                          *)
LEMMA TextType ==
  ASSUME NEW t \in Texts
  PROVE  t.size \in Nat /\ (t.size = 0 => t = EmptyText)
<1>1. CASE t \in UserTexts
  BY <1>1, PrepareAssumption DEF UserTexts, IsText
<1>4. CASE t \in ServerTexts
  BY <1>4, ServerText DEF IsShortText, IsText
<1>5. CASE t \in ResultTexts
  BY <1>5, ResultText
<1>2. CASE t = EmptyText
  BY <1>2 DEF EmptyText, Text
<1>3. CASE t \in {Text("3.0.0", 5), COMPRESSION, CQL_VERSION}
  <2>1. t.size \in {5, 11}
    BY <1>3 DEF COMPRESSION, CQL_VERSION, Text
  <2> QED
    BY <2>1
<1> QED
  BY <1>1, <1>2, <1>3, <1>4, <1>5 DEF Texts

(* The bytes of a text are a field.                                        *)
LEMMA BytesField ==
  ASSUME NEW t \in Texts
  PROVE  /\ Bytes(t) \in Field
         /\ Bytes(t).width = t.size
         /\ ~Bytes(t).number
         /\ Bytes(t).content = t
<1>1. t.size \in Nat /\ t \in Contents /\ (t.size = 0 => t = EmptyText)
  BY TextType DEF Contents
<1>2. Bytes(t) \in [width : Nat, number : BOOLEAN, content : Contents]
  BY <1>1 DEF Bytes
<1>3. Bytes(t).width = t.size /\ Bytes(t).number = FALSE /\ Bytes(t).content = t
  BY DEF Bytes
<1> HIDE DEF Bytes
<1> QED
  BY <1>1, <1>2, <1>3 DEF Field

(* What is known of every field.                                           *)
LEMMA FieldType ==
  ASSUME NEW f \in Field
  PROVE  /\ f.width \in Nat /\ f.number \in BOOLEAN
         /\ f.number => f.width > 0
         /\ ~f.number /\ f.width = 0 => f.content = EmptyText
BY DEF Field

(* The offsets of the fields of a buffer.                                  *)
LEMMA OffsetStep ==
  ASSUME NEW b \in Buffers
  PROVE  /\ Offset(b, 1) = 0
         /\ \A i \in 1..(Len(b) + 1) : Offset(b, i) \in Nat
         /\ \A i \in 1..Len(b) : Offset(b, i + 1) = Offset(b, i) + b[i].width
<1> DEFINE n == Len(b)
           Eq(f) == f = [k \in 0..n |-> IF k = 0 THEN 0 ELSE f[k - 1] + b[k].width]
           e == CHOOSE f : Eq(f)
           step == [k \in 1..n |-> [x \in Nat |-> x + b[k].width]]
<1>0. n \in Nat /\ \A k \in 1..n : b[k].width \in Nat
  BY FieldType DEF Buffers
<1>1. \A i : Offset(b, i) = e[i - 1]
  BY Zenon DEF Offset
<1>2. PICK f \in [0..n -> Nat] : f[0] = 0 /\ \A k \in 1..n : f[k] = step[k][f[k - 1]]
  <2>1. step \in [1..n -> [Nat -> Nat]]
    BY <1>0
  <2> HIDE DEF step, n
  <2>2. n \in Nat /\ 0 \in Nat
    BY <1>0
  <2>3. \E f : Iterated(f, Nat, 0, n, step)
    BY <2>1, <2>2, Iterates
  <2> QED
    BY <2>3 DEF Iterated
<1>3. ASSUME NEW k \in 1..n PROVE f[k] = f[k - 1] + b[k].width
  <2>1. f[k - 1] \in Nat
    BY <1>0
  <2> QED
    BY <1>2, <2>1
<1>4. Eq(f)
  <2>1. \A k \in 0..n : f[k] = IF k = 0 THEN 0 ELSE f[k - 1] + b[k].width
    BY <1>0, <1>2, <1>3
  <2> QED
    BY <2>1
<1>5. Eq(e)
  <2> HIDE DEF Eq
  <2> QED
    BY <1>4
<1> HIDE DEF e
<1>6. e[0] = 0 /\ \A k \in 1..n : e[k] = e[k - 1] + b[k].width
  BY <1>0, <1>5
<1>7. \A k \in 0..n : k \in {j \in 0..n : e[j] \in Nat}
  <2> DEFINE S == {j \in 0..n : e[j] \in Nat}
  <2>1. 0 \in S
    BY <1>0, <1>6
  <2>2. ASSUME NEW k \in 1..n, k - 1 \in S PROVE k \in S
    BY <1>0, <1>6, <2>2, SMTT(30)
  <2> HIDE DEF S
  <2>3. \A k \in 0..n : k \in S
    BY <1>0, <2>1, <2>2, UpTo
  <2> QED
    BY <2>3 DEF S
<1>8. ASSUME NEW i \in 1..(n + 1) PROVE Offset(b, i) \in Nat
  <2>1. i - 1 \in 0..n
    BY <1>0
  <2> QED
    BY <1>1, <1>7, <2>1
<1>9. ASSUME NEW i \in 1..n PROVE Offset(b, i + 1) = Offset(b, i) + b[i].width
  <2>1. (i + 1) - 1 = i
    BY <1>0
  <2> QED
    BY <1>1, <1>6, <2>1
<1>10. Offset(b, 1) = 0
  BY <1>1, <1>6
<1> QED
  BY <1>8, <1>9, <1>10

(* The offsets do not decrease.                                            *)
LEMMA OffsetUpward ==
  ASSUME NEW b \in Buffers, NEW i \in 1..Len(b), NEW j \in 1..(Len(b) + 1), i < j
  PROVE  Offset(b, i) + b[i].width <= Offset(b, j)
<1> DEFINE n == Len(b)
           S == {k \in Nat : i + 1 + k <= n + 1 =>
                               Offset(b, i) + b[i].width <= Offset(b, i + 1 + k)}
<1>0. n \in Nat /\ \A k \in 1..n : b[k].width \in Nat
  BY FieldType DEF Buffers
<1>1. \A k \in 1..(n + 1) : Offset(b, k) \in Nat
  BY OffsetStep
<1>2. \A k \in 1..n : Offset(b, k + 1) = Offset(b, k) + b[k].width
  BY OffsetStep
<1> HIDE DEF n
<1>3. i \in 1..n /\ j \in 1..(n + 1)
  BY DEF n
<1>4. 0 \in S
  BY <1>0, <1>1, <1>2, <1>3
<1>5. ASSUME NEW k \in S PROVE k + 1 \in S
  <2> SUFFICES ASSUME i + 1 + (k + 1) <= n + 1
               PROVE  Offset(b, i) + b[i].width <= Offset(b, i + 1 + (k + 1))
    OBVIOUS
  <2>1. PICK m \in 1..n : m = i + 1 + k
    BY <1>0, <1>3
  <2>2. m + 1 = i + 1 + (k + 1) /\ m \in 1..(n + 1) /\ m + 1 \in 1..(n + 1) /\ i \in 1..(n + 1)
    BY <1>0, <1>3, <2>1
  <2>3. Offset(b, i) + b[i].width <= Offset(b, m)
    BY <1>0, <1>5, <2>1, <2>2
  <2>4. /\ Offset(b, m + 1) = Offset(b, m) + b[m].width
        /\ b[m].width \in Nat /\ b[i].width \in Nat
        /\ Offset(b, m) \in Nat /\ Offset(b, i) \in Nat
    BY <1>0, <1>1, <1>2, <1>3, <2>2
  <2> HIDE DEF S
  <2>5. ASSUME NEW x \in Nat, NEW y \in Nat, NEW v \in Nat, NEW w \in Nat, x + v <= y
        PROVE  x + v <= y + w
    BY <2>5
  <2>6. Offset(b, i) + b[i].width <= Offset(b, m + 1)
    BY <2>3, <2>4, <2>5
  <2> QED
    BY <2>2, <2>6
<1>6. S = Nat
  <2> HIDE DEF S
  <2>1. S \in SUBSET Nat
    BY DEF S
  <2> QED
    BY <1>4, <1>5, <2>1, SetInduction
<1>7. PICK k \in Nat : k = j - (i + 1)
  BY <1>0, <1>3
<1>8. i + 1 + k = j /\ i + 1 + k <= n + 1
  <2>1. n \in Nat
    BY <1>0
  <2> QED
    BY <1>3, <1>7, <2>1
<1> QED
  BY <1>6, <1>8

(* What is written behind a buffer leaves its offsets alone.               *)
LEMMA OffsetGoes ==
  ASSUME NEW b \in Buffers, NEW c \in Buffers, Goes(b, c)
  PROVE  \A i \in 1..(Len(b) + 1) : Offset(c, i) = Offset(b, i)
<1> DEFINE n == Len(b)
           S == {i \in 0..n : Offset(c, i + 1) = Offset(b, i + 1)}
<1>0. n \in Nat /\ Len(c) \in Nat /\ n <= Len(c) /\ \A i \in 1..n : c[i] = b[i]
  BY DEF Goes, Buffers
<1>1. 0 \in S
  BY <1>0, OffsetStep
<1>2. ASSUME NEW i \in 1..n, i - 1 \in S PROVE i \in S
  <2>1. (i - 1) + 1 = i /\ i \in 1..Len(c) /\ i \in 0..n
    BY <1>0
  <2>2. Offset(c, i) = Offset(b, i) /\ c[i] = b[i]
    BY <1>0, <1>2, <2>1
  <2>3. Offset(c, i + 1) = Offset(c, i) + c[i].width
    BY <2>1, OffsetStep
  <2>4. Offset(b, i + 1) = Offset(b, i) + b[i].width
    BY <2>1, OffsetStep
  <2> QED
    BY <2>1, <2>2, <2>3, <2>4
<1>3. \A i \in 0..n : i \in S
  <2> HIDE DEF S, n
  <2> QED
    BY <1>0, <1>1, <1>2, UpTo
<1>4. ASSUME NEW i \in 1..(n + 1) PROVE Offset(c, i) = Offset(b, i)
  <2>1. i - 1 \in 0..n /\ (i - 1) + 1 = i
    BY <1>0
  <2> QED
    BY <1>3, <2>1
<1> QED
  BY <1>4

(* A buffer has a size, the offset behind its last field.                  *)
LEMMA SizeIs ==
  ASSUME NEW b \in Buffers
  PROVE  /\ Size(b) = Offset(b, Len(b) + 1)
         /\ Size(b) \in Nat
         /\ Len(b) \in Nat
<1>1. Len(b) \in Nat
  BY DEF Buffers
<1>2. Len(b) + 1 \in 1..(Len(b) + 1)
  BY <1>1
<1> QED
  BY <1>1, <1>2, OffsetStep DEF Size

(* Going on is reflexive and transitive.                                   *)
LEMMA GoesOn ==
  ASSUME NEW b \in Buffers, NEW c \in Buffers, NEW d \in Buffers
  PROVE  /\ Goes(b, b)
         /\ Goes(b, c) /\ Goes(c, d) => Goes(b, d)
<1>1. Len(b) \in Nat /\ Len(c) \in Nat /\ Len(d) \in Nat
  BY DEF Buffers
<1> QED
  BY <1>1 DEF Goes

(* A field more.                                                           *)
LEMMA AppendField ==
  ASSUME NEW b \in Buffers, NEW f \in Field
  PROVE  /\ Append(b, f) \in Buffers
         /\ Goes(b, Append(b, f))
         /\ Len(Append(b, f)) = Len(b) + 1
         /\ Append(b, f)[Len(b) + 1] = f
         /\ Size(Append(b, f)) = Size(b) + f.width
         /\ Offset(Append(b, f), Len(b) + 1) = Size(b)
<1> DEFINE c == Append(b, f)
<1>0. Len(b) \in Nat /\ Len(b) + 1 \in 1..(Len(b) + 1)
  BY SizeIs
<1>1. c \in Buffers /\ Len(c) = Len(b) + 1 /\ c[Len(b) + 1] = f
      /\ \A i \in 1..Len(b) : c[i] = b[i]
  BY <1>0 DEF Buffers
<1> HIDE DEF c
<1>2. Goes(b, c)
  BY <1>0, <1>1 DEF Goes
<1>3. Offset(c, Len(b) + 1) = Size(b)
  BY <1>0, <1>1, <1>2, OffsetGoes, SizeIs
<1>4. Offset(c, (Len(b) + 1) + 1) = Offset(c, Len(b) + 1) + c[Len(b) + 1].width
  BY <1>0, <1>1, OffsetStep
<1>5. Size(c) = Offset(c, (Len(b) + 1) + 1)
  BY <1>1, SizeIs
<1> QED
  BY <1>1, <1>2, <1>3, <1>4, <1>5 DEF c

(* A number is found at its offset.                                        *)
LEMMA NumberFound ==
  ASSUME NEW b \in Buffers, NEW i \in 1..Len(b), b[i].number
  PROVE  NumberAt(b, Offset(b, i), b[i].width) = b[i].content
<1> DEFINE At == {j \in DOMAIN b : /\ b[j].number
                                   /\ b[j].width = b[i].width
                                   /\ Offset(b, j) = Offset(b, i)}
<1>0. Len(b) \in Nat /\ DOMAIN b = 1..Len(b) /\ \A j \in 1..Len(b) : b[j] \in Field
  BY DEF Buffers
<1>1. i \in At
  BY <1>0
<1>2. ASSUME NEW j \in At PROVE j = i
  <2>0. j \in 1..Len(b) /\ b[j].number /\ b[j].width = b[i].width /\ Offset(b, j) = Offset(b, i)
    BY <1>0
  <2>1. b[i].width \in Nat /\ b[i].width > 0
    BY <1>0, FieldType
  <2>2. i \in 1..(Len(b) + 1) /\ j \in 1..(Len(b) + 1)
    BY <1>0, <2>0
  <2>3. Offset(b, i) \in Nat
    BY <2>2, OffsetStep
  <2>4. CASE i < j
    <3>1. Offset(b, i) + b[i].width <= Offset(b, j)
      BY <2>2, <2>4, OffsetUpward
    <3>2. Offset(b, i) + b[i].width <= Offset(b, i)
      BY <2>0, <3>1
    <3> QED
      BY <2>1, <2>3, <3>2
  <2>5. CASE j < i
    <3>1. Offset(b, j) + b[j].width <= Offset(b, i)
      BY <2>0, <2>2, <2>5, OffsetUpward
    <3>2. Offset(b, i) + b[i].width <= Offset(b, i)
      BY <2>0, <3>1
    <3> QED
      BY <2>1, <2>3, <3>2
  <2> QED
    BY <1>0, <2>0, <2>4, <2>5
<1>3. NumberAt(b, Offset(b, i), b[i].width)
        = IF At = {} THEN Garbage ELSE b[CHOOSE j \in At : TRUE].content
  BY DEF NumberAt
<1> HIDE DEF At
<1>4. (CHOOSE j \in At : TRUE) = i
  BY <1>1, <1>2
<1> QED
  BY <1>1, <1>3, <1>4

(* So are bytes.  Where there are none, all there is to find is the empty  *)
(* text.                                                                   *)
LEMMA BytesFound ==
  ASSUME NEW b \in Buffers, NEW i \in 1..Len(b), ~b[i].number
  PROVE  BytesAt(b, Offset(b, i), b[i].width) = b[i].content
<1> DEFINE At == {j \in DOMAIN b : /\ ~b[j].number
                                   /\ b[j].width = b[i].width
                                   /\ Offset(b, j) = Offset(b, i)}
<1>0. Len(b) \in Nat /\ DOMAIN b = 1..Len(b) /\ \A j \in 1..Len(b) : b[j] \in Field
  BY DEF Buffers
<1>1. i \in At
  BY <1>0
<1>2. ASSUME NEW j \in At PROVE b[j].content = b[i].content
  <2>0. j \in 1..Len(b) /\ ~b[j].number /\ b[j].width = b[i].width /\ Offset(b, j) = Offset(b, i)
    BY <1>0
  <2>1. b[i].width \in Nat
    BY <1>0, FieldType
  <2>2. i \in 1..(Len(b) + 1) /\ j \in 1..(Len(b) + 1)
    BY <1>0, <2>0
  <2>3. Offset(b, i) \in Nat
    BY <2>2, OffsetStep
  <2>4. CASE b[i].width = 0
    BY <1>0, <2>0, <2>4, FieldType
  <2>5. CASE b[i].width # 0 /\ i < j
    <3>1. Offset(b, i) + b[i].width <= Offset(b, j)
      BY <2>2, <2>5, OffsetUpward
    <3>2. Offset(b, i) + b[i].width <= Offset(b, i)
      BY <2>0, <3>1
    <3> QED
      BY <2>1, <2>3, <2>5, <3>2
  <2>6. CASE b[i].width # 0 /\ j < i
    <3>1. Offset(b, j) + b[j].width <= Offset(b, i)
      BY <2>0, <2>2, <2>6, OffsetUpward
    <3>2. Offset(b, i) + b[i].width <= Offset(b, i)
      BY <2>0, <3>1
    <3> QED
      BY <2>1, <2>3, <2>6, <3>2
  <2> QED
    BY <1>0, <2>0, <2>4, <2>5, <2>6
<1>3. BytesAt(b, Offset(b, i), b[i].width)
        = IF At = {} THEN Garbage ELSE b[CHOOSE j \in At : TRUE].content
  BY DEF BytesAt
<1> HIDE DEF At
<1>4. (CHOOSE j \in At : TRUE) \in At
  BY <1>1
<1> QED
  BY <1>1, <1>2, <1>3, <1>4

(* A field that was appended to b is found at the size of b, whatever      *)
(* comes behind it.                                                        *)
LEMMA WrittenNumber ==
  ASSUME NEW b \in Buffers, NEW w \in Nat, w > 0, NEW x \in Contents,
         NEW c \in Buffers, Goes(Append(b, Number(w, x)), c)
  PROVE  NumberAt(c, Size(b), w) = x
<1> DEFINE f == Number(w, x)
           d == Append(b, f)
           i == Len(b) + 1
<1>1. f \in Field /\ f.width = w /\ f.number /\ f.content = x
  BY NumberField
<1> HIDE DEF f
<1>2. d \in Buffers /\ Len(d) = i /\ d[i] = f /\ Offset(d, i) = Size(b)
  BY <1>1, AppendField
<1>3. Goes(d, c)
  BY DEF f
<1> HIDE DEF d
<1>4. Len(c) \in Nat /\ i \in Nat /\ i \in 1..i
  <2>1. Len(b) \in Nat /\ Len(c) \in Nat
    BY SizeIs
  <2> QED
    BY <2>1
<1>5. c[i] = f /\ i \in 1..Len(c) /\ i \in 1..(Len(d) + 1)
  BY <1>2, <1>3, <1>4 DEF Goes
<1>6. Offset(c, i) = Size(b)
  BY <1>2, <1>3, <1>5, OffsetGoes
<1> HIDE DEF i
<1>7. NumberAt(c, Offset(c, i), c[i].width) = c[i].content
  BY <1>1, <1>5, NumberFound
<1> QED
  BY <1>1, <1>5, <1>6, <1>7

(* Bytes that were written behind b are found at the size of b.            *)
LEMMA WrittenBytes ==
  ASSUME NEW b \in Buffers, NEW t \in Texts, NEW c \in Buffers, Goes(Append(b, Bytes(t)), c)
  PROVE  BytesAt(c, Size(b), t.size) = t
<1> DEFINE f == Bytes(t)
           d == Append(b, f)
           i == Len(b) + 1
<1>1. f \in Field /\ f.width = t.size /\ ~f.number /\ f.content = t
  BY BytesField
<1> HIDE DEF f
<1>2. d \in Buffers /\ Len(d) = i /\ d[i] = f /\ Offset(d, i) = Size(b)
  BY <1>1, AppendField
<1>3. Goes(d, c)
  BY DEF f
<1> HIDE DEF d
<1>4. Len(c) \in Nat /\ i \in Nat /\ i \in 1..i
  <2>1. Len(b) \in Nat /\ Len(c) \in Nat
    BY SizeIs
  <2> QED
    BY <2>1
<1>5. c[i] = f /\ i \in 1..Len(c) /\ i \in 1..(Len(d) + 1)
  BY <1>2, <1>3, <1>4 DEF Goes
<1>6. Offset(c, i) = Size(b)
  BY <1>2, <1>3, <1>5, OffsetGoes
<1> HIDE DEF i
<1>7. BytesAt(c, Offset(c, i), c[i].width) = c[i].content
  BY <1>1, <1>5, BytesFound
<1> QED
  BY <1>1, <1>5, <1>6, <1>7

-----------------------------------------------------------------------------
(* The numbers that two bytes can hold, and those without the sign bit.    *)
Short == {n \in Nat : n < ShortValues}
Counts == {n \in Nat : n < SignBit}

(* The values of a short are positive in number.                           *)
LEMMA ShortsType ==
  ShortValues \in Nat /\ ShortValues >= 70 /\ SignBit \in Nat /\ SignBit < ShortValues
BY SerializationAssumption DEF ShortValues

(* What is below their number of values fits two bytes; so does what is  *)
(* below 70.                                                               *)
LEMMA ShortNumber ==
  /\ \A n \in Nat : n < ShortValues => n \in Short
  /\ \A n \in Nat : n < 70 => n \in Short
<1>1. \A n \in Nat : n < 70 => n < ShortValues
  BY ShortsType
<1> QED
  BY <1>1 DEF Short

(* The two low bytes of a number that two bytes can hold are the number.   *)
LEMMA ShortFits ==
  ASSUME NEW n \in Short
  PROVE  n % ShortValues = n /\ n \in Nat /\ n \in Int
<1>1. n \in Nat /\ n \in Int /\ n < ShortValues
  BY DEF Short
<1>2. ASSUME NEW b \in Nat, b > 0, NEW m \in Nat, m < b PROVE m % b = m
  BY <1>2
<1>3. ShortValues \in Nat /\ ShortValues > 0
  BY ShortsType
<1> QED
  BY <1>1, <1>2, <1>3

(* Numbers, and their two low bytes, are contents of fields.               *)
LEMMA NumberContents ==
  /\ \A n \in Int : n \in Contents
  /\ \A n \in Int : n % ShortValues \in Contents
<1>1. ASSUME NEW b \in Nat, b > 0, NEW n \in Int PROVE n % b \in Int
  BY <1>1
<1>2. ShortValues \in Nat /\ ShortValues > 0
  BY ShortsType
<1>3. \A n \in Int : n % ShortValues \in Int
  BY <1>1, <1>2
<1> QED
  BY <1>3 DEF Contents

(* Without the sign bit a number is read as it is, and counts the rounds   *)
(* of a loop; with it there is no round.                                   *)
LEMMA CountIs ==
  ASSUME NEW n \in Counts
  PROVE  n \in Short /\ Signed(n) = n /\ Rounds(n) = n
<1>1. n \in Nat /\ n < SignBit
  BY DEF Counts
<1>2. n \in Int /\ n # Garbage /\ ~(n >= SignBit) /\ ~(n < 0) /\ n < ShortValues
  BY <1>1, ShortsType, SerializationAssumption
<1> QED
  BY <1>1, <1>2 DEF Short, Signed, Rounds

(* With the sign bit.                                                      *)
LEMMA NoRounds ==
  ASSUME NEW n \in Short, n \notin Counts
  PROVE  Rounds(Signed(n)) = 0
<1>1. n \in Nat /\ n < ShortValues /\ n >= SignBit
  BY ShortsType DEF Short, Counts
<1>2. n # Garbage /\ n - ShortValues \in Int /\ n - ShortValues < 0
  BY <1>1, ShortsType, SerializationAssumption
<1>3. Signed(n) = n - ShortValues
  BY <1>1, <1>2 DEF Signed
<1> QED
  BY <1>2, <1>3 DEF Rounds

(* What each encoder of a number does to a buffer.                         *)
LEMMA EncodeByte ==
  ASSUME NEW b \in Buffers, NEW x \in Contents
  PROVE  /\ encode_byte(b, x) \in Buffers
         /\ Goes(b, encode_byte(b, x))
         /\ Size(encode_byte(b, x)) = Size(b) + 1
<1>1. Number(1, x) \in Field /\ Number(1, x).width = 1
  BY NumberField
<1> QED
  BY <1>1, AppendField DEF encode_byte

(* encode_short adds two bytes.                                            *)
LEMMA EncodeShort ==
  ASSUME NEW b \in Buffers, NEW x \in Int
  PROVE  /\ encode_short(b, x) \in Buffers
         /\ Goes(b, encode_short(b, x))
         /\ Size(encode_short(b, x)) = Size(b) + 2
<1>0. x % ShortValues \in Contents
  BY NumberContents
<1>1. Number(2, x % ShortValues) \in Field /\ Number(2, x % ShortValues).width = 2
  BY <1>0, NumberField
<1> QED
  BY <1>1, AppendField DEF encode_short

(* encode_int adds four bytes.                                             *)
LEMMA EncodeInt ==
  ASSUME NEW b \in Buffers, NEW x \in Contents
  PROVE  /\ encode_int(b, x) \in Buffers
         /\ Goes(b, encode_int(b, x))
         /\ Size(encode_int(b, x)) = Size(b) + 4
<1>1. Number(4, x) \in Field /\ Number(4, x).width = 4
  BY NumberField
<1> QED
  BY <1>1, AppendField DEF encode_int

(* What each encoder of a text does, with the number before the text.      *)
LEMMA EncodeBytes ==
  ASSUME NEW b \in Buffers, NEW t \in Texts
  PROVE  /\ Append(b, Bytes(t)) \in Buffers
         /\ Goes(b, Append(b, Bytes(t)))
         /\ Size(Append(b, Bytes(t))) = Size(b) + t.size
<1>1. Bytes(t) \in Field /\ Bytes(t).width = t.size
  BY BytesField
<1> QED
  BY <1>1, AppendField

(* encode_string adds a short and the bytes of the text, all of them,      *)
(* whatever of its length fits the short.                                  *)
LEMMA EncodeString ==
  ASSUME NEW b \in Buffers, NEW t \in Texts
  PROVE  /\ encode_string(b, t) \in Buffers
         /\ Goes(b, encode_string(b, t))
         /\ Goes(encode_short(b, t.size), encode_string(b, t))
         /\ Size(encode_string(b, t)) = Size(b) + 2 + t.size
<1> DEFINE c == encode_short(b, t.size)
<1>1. t.size \in Nat
  BY TextType
<1>2. c \in Buffers /\ Goes(b, c) /\ Size(c) = Size(b) + 2
  BY <1>1, EncodeShort
<1>3. encode_string(b, t) = Append(c, Bytes(t))
  BY DEF encode_string
<1> HIDE DEF c
<1>4. /\ encode_string(b, t) \in Buffers /\ Goes(c, encode_string(b, t))
      /\ Size(encode_string(b, t)) = Size(c) + t.size
  BY <1>2, <1>3, EncodeBytes
<1>5. Goes(b, encode_string(b, t))
  BY <1>2, <1>4, GoesOn
<1> QED
  BY <1>2, <1>4, <1>5 DEF c

(* encode_long_string adds four bytes and those of the text.               *)
LEMMA EncodeLong ==
  ASSUME NEW b \in Buffers, NEW t \in Texts
  PROVE  /\ encode_long_string(b, t) \in Buffers
         /\ Goes(b, encode_long_string(b, t))
         /\ Goes(encode_int(b, t.size), encode_long_string(b, t))
         /\ Size(encode_long_string(b, t)) = Size(b) + 4 + t.size
<1> DEFINE c == encode_int(b, t.size)
<1>1. t.size \in Nat /\ t.size \in Contents
  BY TextType, NumberContents
<1>2. c \in Buffers /\ Goes(b, c) /\ Size(c) = Size(b) + 4
  BY <1>1, EncodeInt
<1>3. encode_long_string(b, t) = Append(c, Bytes(t))
  BY DEF encode_long_string
<1> HIDE DEF c
<1>4. /\ encode_long_string(b, t) \in Buffers /\ Goes(c, encode_long_string(b, t))
      /\ Size(encode_long_string(b, t)) = Size(c) + t.size
  BY <1>2, <1>3, EncodeBytes
<1>5. Goes(b, encode_long_string(b, t))
  BY <1>2, <1>4, GoesOn
<1> QED
  BY <1>2, <1>4, <1>5 DEF c

-----------------------------------------------------------------------------
(* What was written at the end of b is read from there, and the position   *)
(* behind it is the end of what was written: whatever c goes on with.      *)
LEMMA TwoBytesRead ==
  ASSUME NEW b \in Buffers, NEW x \in Short, NEW c \in Buffers, Goes(encode_short(b, x), c)
  PROVE  TwoBytes(c, Size(b)) = [value |-> x, next |-> Size(b) + 2]
<1>1. x % ShortValues = x /\ x \in Int /\ x \in Contents
  BY ShortFits, NumberContents
<1>2. Goes(Append(b, Number(2, x)), c)
  BY <1>1 DEF encode_short
<1>3. NumberAt(c, Size(b), 2) = x
  BY <1>1, <1>2, WrittenNumber
<1>4. Plus(Size(b), 2) = Size(b) + 2
  BY SizeIs, SerializationAssumption DEF Plus
<1> QED
  BY <1>3, <1>4 DEF TwoBytes

(* decode_short takes the highest bit for the sign.                        *)
LEMMA DecodeShort ==
  ASSUME NEW b \in Buffers, NEW x \in Short, NEW c \in Buffers, Goes(encode_short(b, x), c)
  PROVE  decode_short(c, Size(b)) = [value |-> Signed(x), next |-> Size(b) + 2]
<1>1. PICK bytes : bytes = TwoBytes(c, Size(b))
  OBVIOUS
<1>2. bytes.value = x /\ bytes.next = Size(b) + 2
  BY <1>1, TwoBytesRead
<1> QED
  BY <1>1, <1>2 DEF decode_short

(* decode_int reads what encode_int wrote.                                 *)
LEMMA DecodeInt ==
  ASSUME NEW b \in Buffers, NEW x \in Contents, NEW c \in Buffers, Goes(encode_int(b, x), c)
  PROVE  decode_int(c, Size(b)) = [value |-> x, next |-> Size(b) + 4]
<1>2. Goes(Append(b, Number(4, x)), c)
  BY DEF encode_int
<1>3. NumberAt(c, Size(b), 4) = x
  BY <1>2, WrittenNumber
<1>4. Plus(Size(b), 4) = Size(b) + 4
  BY SizeIs, SerializationAssumption DEF Plus
<1> QED
  BY <1>3, <1>4 DEF decode_int

(* decode_string reads what encode_string wrote, if the length fits a      *)
(* short.                                                                  *)
LEMMA DecodeString ==
  ASSUME NEW b \in Buffers, NEW t \in Texts, t.size \in Short,
         NEW c \in Buffers, Goes(encode_string(b, t), c)
  PROVE  decode_string(c, Size(b)) = [value |-> t, next |-> Size(encode_string(b, t))]
<1> DEFINE d == encode_short(b, t.size)
<1>1. t.size \in Nat /\ Size(b) \in Nat
  BY TextType, SizeIs
<1>2. d \in Buffers /\ Size(d) = Size(b) + 2
  BY <1>1, EncodeShort
<1>3. /\ encode_string(b, t) \in Buffers
      /\ Goes(d, encode_string(b, t))
      /\ Size(encode_string(b, t)) = Size(b) + 2 + t.size
  BY EncodeString
<1>4. Goes(d, c)
  BY <1>2, <1>3, GoesOn
<1>5. TwoBytes(c, Size(b)) = [value |-> t.size, next |-> Size(b) + 2]
  BY <1>4, TwoBytesRead
<1>6. BytesAt(c, Size(d), t.size) = t
  BY <1>2, WrittenBytes DEF encode_string
<1>7. Plus(Size(b) + 2, t.size) = Size(b) + 2 + t.size
  BY <1>1, SerializationAssumption DEF Plus
<1> QED
  BY <1>2, <1>3, <1>5, <1>6, <1>7 DEF decode_string, Counted

(* decode_long_string reads what encode_long_string wrote.                 *)
LEMMA DecodeLong ==
  ASSUME NEW b \in Buffers, NEW t \in Texts,
         NEW c \in Buffers, Goes(encode_long_string(b, t), c)
  PROVE  decode_long_string(c, Size(b)) = [value |-> t, next |-> Size(encode_long_string(b, t))]
<1> DEFINE d == encode_int(b, t.size)
<1>1. t.size \in Nat /\ Size(b) \in Nat /\ t.size \in Contents
  BY TextType, SizeIs, NumberContents
<1>2. d \in Buffers /\ Size(d) = Size(b) + 4
  BY <1>1, EncodeInt
<1>3. /\ encode_long_string(b, t) \in Buffers
      /\ Goes(d, encode_long_string(b, t))
      /\ Size(encode_long_string(b, t)) = Size(b) + 4 + t.size
  BY EncodeLong
<1>4. Goes(d, c)
  BY <1>2, <1>3, GoesOn
<1>5. decode_int(c, Size(b)) = [value |-> t.size, next |-> Size(b) + 4]
  BY <1>1, <1>4, DecodeInt
<1>6. BytesAt(c, Size(d), t.size) = t
  BY <1>2, WrittenBytes DEF encode_long_string
<1>7. Plus(Size(b) + 4, t.size) = Size(b) + 4 + t.size
  BY <1>1, SerializationAssumption DEF Plus
<1> QED
  BY <1>2, <1>3, <1>5, <1>6, <1>7 DEF decode_long_string, Counted

-----------------------------------------------------------------------------
(* The bound values. The buffers that ValueFields goes through: each goes  *)
(* on where the one before ends, and their sizes are the sums that         *)
(* ValuesSize goes through.                                                *)
ValueSteps(b, after) ==
  /\ after[0] = encode_short(b, Len(body.values_))
  /\ \A i \in 0..Len(body.values_) : after[i] \in Buffers
  /\ \A i \in 1..Len(body.values_) :
       after[i] = encode_long_string(after[i - 1], body.values_[i])
  /\ after[Len(body.values_)] = ValueFields(b)

(* ValueFields goes through such buffers.                                  *)
LEMMA ValuesWritten ==
  ASSUME NEW b \in Buffers, body.values_ \in Seq(Texts)
  PROVE  \E after : ValueSteps(b, after)
<1> DEFINE n == Len(body.values_)
           v == body.values_
           Eq(f) == f = [i \in 0..n |-> IF i = 0 THEN encode_short(b, n)
                                                 ELSE encode_long_string(f[i - 1], v[i])]
           e == CHOOSE f : Eq(f)
           step == [i \in 1..n |-> [c \in Buffers |-> encode_long_string(c, v[i])]]
<1>0. n \in Nat /\ n \in Int /\ \A i \in 1..n : v[i] \in Texts
  OBVIOUS
<1>1. ValueFields(b) = e[n]
  BY Zenon DEF ValueFields
<1>2. encode_short(b, n) \in Buffers
  BY <1>0, EncodeShort
<1>3. step \in [1..n -> [Buffers -> Buffers]]
  BY <1>0, EncodeLong
<1>4. PICK f \in [0..n -> Buffers] :
        f[0] = encode_short(b, n) /\ \A i \in 1..n : f[i] = step[i][f[i - 1]]
  <2> HIDE DEF step, n
  <2>1. n \in Nat
    BY <1>0
  <2>2. \E f : Iterated(f, Buffers, encode_short(b, n), n, step)
    BY <1>2, <1>3, <2>1, Iterates
  <2> QED
    BY <2>2 DEF Iterated
<1> HIDE DEF v
<1>5. Eq(f)
  <2> HIDE DEF n
  <2>1. ASSUME NEW i \in 1..n PROVE f[i] = encode_long_string(f[i - 1], v[i])
    <3>1. f[i - 1] \in Buffers
      BY <1>0
    <3> QED
      BY <1>4, <3>1
  <2>2. \A i \in 0..n : f[i] = IF i = 0 THEN encode_short(b, n)
                                        ELSE encode_long_string(f[i - 1], v[i])
    BY <1>0, <1>4, <2>1
  <2> QED
    BY <2>2
<1>6. Eq(e)
  <2> HIDE DEF Eq
  <2> QED
    BY <1>5
<1> HIDE DEF e, n
<1>7. /\ e[0] = encode_short(b, n)
      /\ \A i \in 1..n : e[i] = encode_long_string(e[i - 1], v[i])
  BY <1>0, <1>6
<1>8. \A i \in 0..n : i \in {j \in 0..n : e[j] \in Buffers}
  <2> DEFINE S == {j \in 0..n : e[j] \in Buffers}
  <2>1. 0 \in S
    BY <1>0, <1>2, <1>7
  <2>2. ASSUME NEW i \in 1..n, i - 1 \in S PROVE i \in S
    <3>1. e[i - 1] \in Buffers /\ v[i] \in Texts /\ i \in 0..n
      BY <1>0, <2>2
    <3>2. e[i] \in Buffers
      BY <1>7, <3>1, EncodeLong
    <3> QED
      BY <3>1, <3>2
  <2> HIDE DEF S
  <2>3. \A i \in 0..n : i \in S
    BY <1>0, <2>1, <2>2, UpTo
  <2> QED
    BY <2>3 DEF S
<1>9. ValueSteps(b, e)
  BY <1>1, <1>7, <1>8 DEF ValueSteps, n, v
<1> QED
  BY <1>9

(* BodyQuery::prepare computes the size of the values as it writes them:   *)
(* the number of values, and what ValuesSize counts.                       *)
LEMMA ValuesSizeIs ==
  ASSUME NEW b \in Buffers, body.values_ \in Seq(Texts)
  PROVE  /\ ValueFields(b) \in Buffers
         /\ ValuesSize \in Nat
         /\ Size(ValueFields(b)) = Size(b) + 2 + ValuesSize
<1> DEFINE n == Len(body.values_)
           v == body.values_
           Eq(f) == f = [i \in 0..n |-> IF i = 0 THEN 0 ELSE f[i - 1] + 4 + v[i].size]
           e == CHOOSE f : Eq(f)
<1>0. n \in Nat /\ n \in Int /\ \A i \in 1..n : v[i] \in Texts
  OBVIOUS
<1>1. ValuesSize = e[n]
  BY Zenon DEF ValuesSize
<1>2. PICK after : ValueSteps(b, after)
  BY ValuesWritten
<1>3. /\ after[0] = encode_short(b, n) /\ after[n] = ValueFields(b)
      /\ \A i \in 0..n : after[i] \in Buffers
      /\ \A i \in 1..n : after[i] = encode_long_string(after[i - 1], v[i])
  BY <1>2 DEF ValueSteps
<1> HIDE DEF v
<1>4. \A i \in 1..n : v[i].size \in Nat
  BY <1>0, TextType
<1>5. \A i \in 0..n : Size(after[i]) \in Nat
  BY <1>3, SizeIs
<1>6. Size(after[0]) = Size(b) + 2
  BY <1>0, <1>3, EncodeShort
<1> HIDE DEF n
<1>7. ASSUME NEW i \in 1..n PROVE Size(after[i]) = Size(after[i - 1]) + 4 + v[i].size
  <2>1. after[i - 1] \in Buffers
    BY <1>0, <1>3
  <2> QED
    BY <1>0, <1>3, <2>1, EncodeLong
<1>8. Size(b) \in Nat
  BY SizeIs
<1> DEFINE g == [i \in 0..n |-> Size(after[i]) - Size(after[0])]
<1>9. Eq(g)
  <2>0. n \in Nat
    BY <1>0
  <2>1. ASSUME NEW i \in 1..n PROVE g[i] = g[i - 1] + 4 + v[i].size
    <3>1. i - 1 \in 0..n /\ i \in 0..n /\ 0 \in 0..n
      BY <2>0
    <3>2. /\ v[i].size \in Nat /\ Size(after[i - 1]) \in Nat /\ Size(after[0]) \in Nat
          /\ Size(after[i]) = Size(after[i - 1]) + 4 + v[i].size
      BY <1>4, <1>5, <1>7, <3>1
    <3> QED
      BY <3>1, <3>2, SMTT(30)
  <2>2. g[0] = 0
    BY <1>5, <2>0
  <2>3. \A i \in 0..n : g[i] = IF i = 0 THEN 0 ELSE g[i - 1] + 4 + v[i].size
    <3> HIDE DEF g
    <3> QED
      BY <2>0, <2>1, <2>2
  <2> QED
    BY <2>3
<1>10. Eq(e)
  <2> HIDE DEF Eq, g
  <2> QED
    BY <1>9
<1> HIDE DEF e, g
<1>11. e[0] = 0 /\ \A i \in 1..n : e[i] = e[i - 1] + 4 + v[i].size
  BY <1>0, <1>10
<1>12. \A i \in 0..n : i \in {j \in 0..n : e[j] \in Nat /\ Size(after[j]) = Size(b) + 2 + e[j]}
  <2> DEFINE S == {j \in 0..n : e[j] \in Nat /\ Size(after[j]) = Size(b) + 2 + e[j]}
  <2>0. n \in Nat
    BY <1>0
  <2>1. 0 \in S
    BY <2>0, <1>6, <1>8, <1>11
  <2>2. ASSUME NEW i \in 1..n, i - 1 \in S PROVE i \in S
    <3>1. /\ e[i - 1] \in Nat /\ Size(after[i - 1]) = Size(b) + 2 + e[i - 1]
          /\ v[i].size \in Nat /\ i \in 0..n
      BY <1>4, <2>0, <2>2
    <3>2. e[i] = e[i - 1] + 4 + v[i].size /\ Size(after[i]) = Size(after[i - 1]) + 4 + v[i].size
      BY <1>7, <1>11
    <3> QED
      BY <1>8, <3>1, <3>2, SMTT(30)
  <2> HIDE DEF S
  <2>3. \A i \in 0..n : i \in S
    BY <2>0, <2>1, <2>2, UpTo
  <2> QED
    BY <2>3 DEF S
<1>13. n \in 0..n
  BY <1>0
<1> QED
  BY <1>1, <1>3, <1>12, <1>13

-----------------------------------------------------------------------------
(* The entries of a map of strings.                                        *)
Entry == [key : Texts, value : Texts]

WithEntryWritten(b, entry) == encode_string(encode_string(b, entry.key), entry.value)

MapSteps(b, entries, after) ==
  /\ after[0] = encode_short(b, Len(entries))
  /\ \A i \in 0..Len(entries) : after[i] \in Buffers
  /\ \A i \in 1..Len(entries) : after[i] = WithEntryWritten(after[i - 1], entries[i])
  /\ after[Len(entries)] = encode_string_map(b, entries)

(* An entry adds two strings.                                              *)
LEMMA EntryWritten ==
  ASSUME NEW b \in Buffers, NEW entry \in Entry
  PROVE  /\ WithEntryWritten(b, entry) \in Buffers
         /\ encode_string(b, entry.key) \in Buffers
         /\ Goes(b, WithEntryWritten(b, entry))
         /\ Goes(encode_string(b, entry.key), WithEntryWritten(b, entry))
         /\ Size(WithEntryWritten(b, entry)) = Size(b) + 2 + entry.key.size + 2 + entry.value.size
<1> DEFINE c == encode_string(b, entry.key)
           d == encode_string(c, entry.value)
<1>0. entry.key \in Texts /\ entry.value \in Texts
  BY DEF Entry
<1>1. c \in Buffers /\ Goes(b, c) /\ Size(c) = Size(b) + 2 + entry.key.size
  BY <1>0, EncodeString
<1> HIDE DEF c
<1>2. d \in Buffers /\ Goes(c, d) /\ Size(d) = Size(c) + 2 + entry.value.size
  BY <1>0, <1>1, EncodeString
<1>3. d = WithEntryWritten(b, entry)
  BY DEF WithEntryWritten, c
<1> HIDE DEF d
<1>4. Goes(b, d)
  BY <1>1, <1>2, GoesOn
<1> QED
  BY <1>1, <1>2, <1>3, <1>4 DEF c

(* encode_string_map goes through such buffers.                            *)
LEMMA MapWritten ==
  ASSUME NEW b \in Buffers, NEW entries \in Seq(Entry)
  PROVE  \E after : MapSteps(b, entries, after)
<1> DEFINE n == Len(entries)
           Eq(f) == f = [i \in 0..n |->
                           IF i = 0 THEN encode_short(b, n)
                           ELSE encode_string(encode_string(f[i - 1], entries[i].key),
                                              entries[i].value)]
           e == CHOOSE f : Eq(f)
           step == [i \in 1..n |-> [c \in Buffers |-> WithEntryWritten(c, entries[i])]]
<1>0. n \in Nat /\ n \in Int /\ \A i \in 1..n : entries[i] \in Entry
  OBVIOUS
<1>1. encode_string_map(b, entries) = e[n]
  BY Zenon DEF encode_string_map
<1>2. encode_short(b, n) \in Buffers
  BY <1>0, EncodeShort
<1>3. step \in [1..n -> [Buffers -> Buffers]]
  BY <1>0, EntryWritten
<1>4. PICK f \in [0..n -> Buffers] :
        f[0] = encode_short(b, n) /\ \A i \in 1..n : f[i] = step[i][f[i - 1]]
  <2> HIDE DEF step, n
  <2>1. n \in Nat
    BY <1>0
  <2>2. \E f : Iterated(f, Buffers, encode_short(b, n), n, step)
    BY <1>2, <1>3, <2>1, Iterates
  <2> QED
    BY <2>2 DEF Iterated
<1>5. Eq(f)
  <2> HIDE DEF n
  <2>1. ASSUME NEW i \in 1..n PROVE f[i] = WithEntryWritten(f[i - 1], entries[i])
    <3>1. f[i - 1] \in Buffers
      BY <1>0
    <3> QED
      BY <1>4, <3>1
  <2>2. \A i \in 0..n : f[i] = IF i = 0 THEN encode_short(b, n)
                                        ELSE encode_string(encode_string(f[i - 1], entries[i].key),
                                                           entries[i].value)
    BY <1>0, <1>4, <2>1 DEF WithEntryWritten
  <2> QED
    BY <2>2
<1>6. Eq(e)
  <2> HIDE DEF Eq
  <2> QED
    BY <1>5
<1> HIDE DEF e, n
<1>7. /\ e[0] = encode_short(b, n)
      /\ \A i \in 1..n : e[i] = WithEntryWritten(e[i - 1], entries[i])
  BY <1>0, <1>6 DEF WithEntryWritten
<1>8. \A i \in 0..n : i \in {j \in 0..n : e[j] \in Buffers}
  <2> DEFINE S == {j \in 0..n : e[j] \in Buffers}
  <2>1. 0 \in S
    BY <1>0, <1>2, <1>7
  <2>2. ASSUME NEW i \in 1..n, i - 1 \in S PROVE i \in S
    <3>1. e[i - 1] \in Buffers /\ entries[i] \in Entry /\ i \in 0..n
      BY <1>0, <2>2
    <3>2. e[i] \in Buffers
      BY <1>7, <3>1, EntryWritten
    <3> QED
      BY <3>1, <3>2
  <2> HIDE DEF S
  <2>3. \A i \in 0..n : i \in S
    BY <1>0, <2>1, <2>2, UpTo
  <2> QED
    BY <2>3 DEF S
<1>9. MapSteps(b, entries, e)
  BY <1>1, <1>7, <1>8 DEF MapSteps, n
<1> QED
  BY <1>9

(* Buffers that grow step by step all go on to the last one.               *)
LEMMA StepsGo ==
  ASSUME NEW n \in Nat, NEW after, \A i \in 0..n : after[i] \in Buffers,
         \A i \in 1..n : Goes(after[i - 1], after[i])
  PROVE  \A i \in 0..n : Goes(after[i], after[n])
<1> DEFINE S == {k \in 0..n : Goes(after[n - k], after[n])}
<1>1. 0 \in S
  BY GoesOn
<1>2. ASSUME NEW k \in 1..n, k - 1 \in S PROVE k \in S
  <2>1. PICK i \in 1..n : i = n - (k - 1)
    OBVIOUS
  <2>2. i - 1 = n - k /\ i - 1 \in 0..n /\ i \in 0..n /\ n \in 0..n /\ k \in 0..n
    BY <2>1
  <2>3. Goes(after[i], after[n])
    BY <1>2, <2>1
  <2>4. Goes(after[i - 1], after[i])
    OBVIOUS
  <2>5. after[i - 1] \in Buffers /\ after[i] \in Buffers /\ after[n] \in Buffers
    BY <2>2
  <2>6. Goes(after[i - 1], after[n])
    BY <2>3, <2>4, <2>5, GoesOn
  <2> QED
    BY <2>2, <2>6
<1>3. \A k \in 0..n : k \in S
  <2> HIDE DEF S
  <2> QED
    BY <1>1, <1>2, UpTo
<1>4. ASSUME NEW i \in 0..n PROVE Goes(after[i], after[n])
  <2>1. n - i \in 0..n /\ n - (n - i) = i
    OBVIOUS
  <2> QED
    BY <1>3, <2>1
<1> QED
  BY <1>4

-----------------------------------------------------------------------------
(* The bodies that a user can build.                                       *)
QueryBody ==
  [query_ : Texts, consistency_ : Short, page_size_ : Int, paging_state_ : Texts,
   serial_consistency_ : {NoConsistency} \cup Short, values_ : Seq(Texts)]

(* The texts of a STARTUP and of an ERROR.                                 *)
Options == Queries \cup {EmptyText, Text("3.0.0", 5)}

StartupBody == [cql_version : Options, compression : Options]

ErrorBody == [code : Int, message : Options]

BodyTypeOK ==
  /\ opcode \in Opcodes
  /\ opcode = "QUERY" => body \in QueryBody /\ Len(body.values_) <= MaxValues
  /\ opcode = "PREPARE" => body \in [prepare_ : Texts]
  /\ opcode = "STARTUP" => body \in StartupBody
  /\ opcode = "ERROR" => body \in ErrorBody

(* What prepare returns for the body as it is.                             *)
FrameHeader(size) == encode_int(encode_byte(<<Number(3, 0)>>, opcode), size - Reserved)

FrameSize == IF BodySize = 0 THEN Reserved ELSE BodySize

Framed ==
  [size |-> FrameSize,
   allocated |-> IF BodySize = 0 THEN Reserved ELSE BodyAllocated,
   fields |-> BodyFields(FrameHeader(FrameSize))]

(* The texts of a STARTUP and of an ERROR are texts.                       *)
LEMMA OptionTexts == \A t \in Options : t \in Texts
BY DEF Options, Texts, UserTexts

(* The empty sequence is a buffer of no bytes.                             *)
LEMMA EmptyBuffer == << >> \in Buffers /\ Size(<< >>) = 0
<1>1. << >> \in Buffers /\ Len(<< >>) = 0
  BY DEF Buffers
<1>2. Size(<< >>) = Offset(<< >>, 0 + 1)
  BY <1>1 DEF Size
<1> QED
  BY <1>1, <1>2, OffsetStep

(* The header has the reserved bytes.                                      *)
LEMMA HeaderWritten ==
  ASSUME opcode \in Opcodes, NEW n \in Int
  PROVE  FrameHeader(n) \in Buffers /\ Size(FrameHeader(n)) = Reserved
<1> DEFINE a == <<Number(3, 0)>>
           b == encode_byte(a, opcode)
<1>1. opcode \in Contents /\ 0 \in Contents /\ n - Reserved \in Contents
  <2>1. n - Reserved \in Int /\ 0 \in Int
    BY PrepareAssumption
  <2> QED
    BY <2>1 DEF Contents
<1>2. Number(3, 0) \in Field /\ Number(3, 0).width = 3
  BY <1>1, NumberField
<1>3. a = Append(<< >>, Number(3, 0))
  OBVIOUS
<1> HIDE DEF a
<1>4. a \in Buffers /\ Size(a) = 0 + 3
  <2>1. << >> \in Buffers /\ Size(<< >>) = 0
    BY EmptyBuffer
  <2>2. a \in Buffers /\ Size(a) = Size(<< >>) + Number(3, 0).width
    BY <1>2, <1>3, <2>1, AppendField
  <2> QED
    BY <1>2, <2>1, <2>2
<1>5. b \in Buffers /\ Size(b) = Size(a) + 1
  BY <1>1, <1>4, EncodeByte
<1> HIDE DEF b
<1>6. encode_int(b, n - Reserved) \in Buffers /\ Size(encode_int(b, n - Reserved)) = Size(b) + 4
  BY <1>1, <1>5, EncodeInt
<1>7. FrameHeader(n) = encode_int(b, n - Reserved)
  BY DEF FrameHeader, a, b
<1> QED
  BY <1>4, <1>5, <1>6, <1>7, PrepareAssumption

(* The buffers that QueryFields goes through.                              *)
Written1(h) == encode_long_string(h, body.query_)
Written2(h) == encode_short(Written1(h), body.consistency_)
Written3(h) == encode_byte(Written2(h), QueryFlags)
Written4(h) == IF HasValues THEN ValueFields(Written3(h)) ELSE Written3(h)
Written5(h) == IF HasPageSize THEN encode_int(Written4(h), body.page_size_) ELSE Written4(h)
Written6(h) == IF HasPagingState THEN encode_string(Written5(h), body.paging_state_)
                                 ELSE Written5(h)

(* Each of these buffers has the size of the one before and of the part    *)
(* that is added to it, if it is.                                          *)
LEMMA QueryWritten ==
  ASSUME NEW h \in Buffers, body \in QueryBody
  PROVE  /\ Written1(h) \in Buffers /\ Size(Written1(h)) = Size(h) + 4 + body.query_.size
         /\ Written2(h) \in Buffers /\ Size(Written2(h)) = Size(Written1(h)) + 2
         /\ Written3(h) \in Buffers /\ Size(Written3(h)) = Size(Written2(h)) + 1
         /\ Written4(h) \in Buffers
         /\ Size(Written4(h)) = Size(Written3(h)) + When(HasValues, 2 + ValuesSize)
         /\ Written5(h) \in Buffers
         /\ Size(Written5(h)) = Size(Written4(h)) + When(HasPageSize, 4)
         /\ Written6(h) \in Buffers
         /\ Size(Written6(h)) = Size(Written5(h))
                                  + When(HasPagingState, 2 + body.paging_state_.size)
         /\ QueryFields(h) \in Buffers
         /\ Size(QueryFields(h)) = Size(Written6(h)) + When(SerialConsistent, 2)
<1>0. /\ body.query_ \in Texts /\ body.paging_state_ \in Texts
      /\ body.values_ \in Seq(Texts)
  BY DEF QueryBody
<1>n. /\ body.consistency_ \in Int /\ body.page_size_ \in Int
      /\ body.serial_consistency_ \in Int
  <2>1. /\ body.consistency_ \in Short /\ body.page_size_ \in Int
        /\ body.serial_consistency_ \in {NoConsistency} \cup Short
    BY DEF QueryBody
  <2>2. NoConsistency \in Int /\ \A n \in Short : n \in Int
    BY DEF Short, NoConsistency
  <2> QED
    BY <2>1, <2>2
<1>1. Written1(h) \in Buffers /\ Size(Written1(h)) = Size(h) + 4 + body.query_.size
  BY <1>0, EncodeLong DEF Written1
<1>2. Written2(h) \in Buffers /\ Size(Written2(h)) = Size(Written1(h)) + 2
  BY <1>n, <1>1, EncodeShort DEF Written2
<1>3. Written3(h) \in Buffers /\ Size(Written3(h)) = Size(Written2(h)) + 1
  <2>1. QueryFlags \in Contents
    <3>1. QueryFlags \subseteq Bits
      BY Zenon DEF QueryFlags, Bits
    <3> QED
      BY <3>1 DEF Contents
  <2> QED
    BY <1>2, <2>1, EncodeByte DEF Written3
<1>4. /\ Written4(h) \in Buffers
      /\ Size(Written4(h)) = Size(Written3(h)) + When(HasValues, 2 + ValuesSize)
  <2>0. Size(Written3(h)) \in Nat
    BY <1>3, SizeIs
  <2>1. /\ ValueFields(Written3(h)) \in Buffers /\ ValuesSize \in Nat
        /\ Size(ValueFields(Written3(h))) = Size(Written3(h)) + 2 + ValuesSize
    BY <1>0, <1>3, ValuesSizeIs
  <2> QED
    BY <1>3, <2>0, <2>1 DEF Written4, When
<1>5. Written5(h) \in Buffers /\ Size(Written5(h)) = Size(Written4(h)) + When(HasPageSize, 4)
  <2>0. Size(Written4(h)) \in Nat /\ body.page_size_ \in Contents
    BY <1>n, <1>4, SizeIs, NumberContents
  <2> QED
    BY <1>4, <2>0, EncodeInt DEF Written5, When
<1>6. /\ Written6(h) \in Buffers
      /\ Size(Written6(h)) = Size(Written5(h)) + When(HasPagingState, 2 + body.paging_state_.size)
  <2>0. Size(Written5(h)) \in Nat /\ body.paging_state_.size \in Nat
    BY <1>0, <1>5, SizeIs, TextType
  <2>1. /\ encode_string(Written5(h), body.paging_state_) \in Buffers
        /\ Size(encode_string(Written5(h), body.paging_state_))
             = Size(Written5(h)) + 2 + body.paging_state_.size
    BY <1>0, <1>5, EncodeString
  <2> QED
    BY <1>5, <2>0, <2>1 DEF Written6, When
<1>7. /\ QueryFields(h) \in Buffers
      /\ Size(QueryFields(h)) = Size(Written6(h)) + When(SerialConsistent, 2)
  <2>0. Size(Written6(h)) \in Nat
    BY <1>6, SizeIs
  <2>1. QueryFields(h) = IF SerialConsistent THEN encode_short(Written6(h), body.serial_consistency_)
                                             ELSE Written6(h)
    BY DEF QueryFields, Written1, Written2, Written3, Written4, Written5, Written6
  <2> QED
    BY <1>n, <1>6, <2>0, <2>1, EncodeShort, SMTT(30) DEF When
<1> QED
  BY <1>1, <1>2, <1>3, <1>4, <1>5, <1>6, <1>7

(* Two sequences of one element each.                                      *)
LEMMA Pair ==
  ASSUME NEW E, NEW a \in E, NEW b \in E
  PROVE  <<a>> \o <<b>> = <<a, b>>
<1>1. <<a>> \in Seq(E) /\ <<b>> \in Seq(E) /\ Len(<<a>>) = 1 /\ Len(<<b>>) = 1
  OBVIOUS
<1>2. /\ <<a>> \o <<b>> \in Seq(E) /\ Len(<<a>> \o <<b>>) = 2
      /\ (<<a>> \o <<b>>)[1] = a /\ (<<a>> \o <<b>>)[2] = b
  BY <1>1
<1>3. PICK s \in Seq(E) : s = <<a>> \o <<b>>
  BY <1>2
<1>4. Len(s) = 2 /\ s[1] = a /\ s[2] = b
  BY <1>2, <1>3
<1>5. s = <<a, b>>
  BY <1>4
<1> QED
  BY <1>3, <1>5

(* The options of a STARTUP are the two members that are not empty.        *)
LEMMA OptionsAre ==
  ASSUME body \in StartupBody
  PROVE  LET one == [key |-> COMPRESSION, value |-> body.compression]
             two == [key |-> CQL_VERSION, value |-> body.cql_version]
         IN  /\ one \in Entry /\ two \in Entry
             /\ one.key.size = 11 /\ two.key.size = 11
             /\ body.compression.size \in Nat /\ body.cql_version.size \in Nat
             /\ StartupOptions \in Seq(Entry)
             /\ StartupOptions =
                  IF body.compression.size > 0
                    THEN IF body.cql_version.size > 0 THEN <<one, two>> ELSE <<one>>
                    ELSE IF body.cql_version.size > 0 THEN <<two>> ELSE << >>
<1> DEFINE one == [key |-> COMPRESSION, value |-> body.compression]
           two == [key |-> CQL_VERSION, value |-> body.cql_version]
<1>1. body.compression \in Texts /\ body.cql_version \in Texts
  BY OptionTexts DEF StartupBody
<1>2. COMPRESSION \in Texts /\ CQL_VERSION \in Texts
  BY DEF Texts
<1>3. one \in Entry /\ two \in Entry
  BY <1>1, <1>2 DEF Entry
<1>4. one.key.size = 11 /\ two.key.size = 11
  BY DEF COMPRESSION, CQL_VERSION, Text
<1>5. body.compression.size \in Nat /\ body.cql_version.size \in Nat
  BY <1>1, TextType
<1>6. StartupOptions = (IF body.compression.size > 0 THEN <<one>> ELSE << >>)
                         \o (IF body.cql_version.size > 0 THEN <<two>> ELSE << >>)
  BY DEF StartupOptions, StartupOption
<1> HIDE DEF one, two
<1>7. <<one>> \o <<two>> = <<one, two>> /\ <<one>> \o << >> = <<one>>
      /\ << >> \o <<two>> = <<two>> /\ << >> \o << >> = << >>
  BY <1>3, Pair
<1>8. StartupOptions =
        IF body.compression.size > 0
          THEN IF body.cql_version.size > 0 THEN <<one, two>> ELSE <<one>>
          ELSE IF body.cql_version.size > 0 THEN <<two>> ELSE << >>
  BY <1>6, <1>7
<1>9. StartupOptions \in Seq(Entry)
  <2>1. <<one, two>> \in Seq(Entry) /\ <<one>> \in Seq(Entry) /\ <<two>> \in Seq(Entry)
        /\ << >> \in Seq(Entry)
    BY <1>3
  <2> QED
    BY <1>8, <2>1
<1> QED
  BY <1>3, <1>4, <1>5, <1>8, <1>9 DEF one, two

(* BodyStartup::prepare writes as many bytes as it computes.               *)
LEMMA StartupWritten ==
  ASSUME NEW h \in Buffers, Size(h) = Reserved, body \in StartupBody
  PROVE  /\ encode_string_map(h, StartupOptions) \in Buffers
         /\ Size(encode_string_map(h, StartupOptions)) = StartupSize
         /\ StartupSize \in Nat
<1> DEFINE one == [key |-> COMPRESSION, value |-> body.compression]
           two == [key |-> CQL_VERSION, value |-> body.cql_version]
           s1 == body.compression.size
           s2 == body.cql_version.size
<1>1. one \in Entry /\ two \in Entry /\ one.key.size = 11 /\ two.key.size = 11
      /\ one.value.size = s1 /\ two.value.size = s2
  BY OptionsAre
<1>2. s1 \in Nat /\ s2 \in Nat /\ StartupOptions \in Seq(Entry)
  BY OptionsAre
<1>3. StartupOptions = IF s1 > 0 THEN IF s2 > 0 THEN <<one, two>> ELSE <<one>>
                                 ELSE IF s2 > 0 THEN <<two>> ELSE << >>
  BY OptionsAre
<1>4. PICK after : MapSteps(h, StartupOptions, after)
  BY <1>2, MapWritten
<1>5. StartupSize = Reserved + 2 + (IF s1 > 0 THEN 2 + 11 + 2 + s1 ELSE 0)
                                 + (IF s2 > 0 THEN 2 + 11 + 2 + s2 ELSE 0)
  BY DEF StartupSize, When
<1> HIDE DEF one, two, s1, s2
<1> DEFINE n == Len(StartupOptions)
<1>6. n \in 0..2
  <2>1. Len(<<one, two>>) = 2 /\ Len(<<one>>) = 1 /\ Len(<<two>>) = 1 /\ Len(<< >>) = 0
    OBVIOUS
  <2> QED
    BY <1>3, <2>1
<1>7. /\ after[0] = encode_short(h, n) /\ after[n] = encode_string_map(h, StartupOptions)
      /\ \A i \in 0..n : after[i] \in Buffers
      /\ \A i \in 1..n : after[i] = WithEntryWritten(after[i - 1], StartupOptions[i])
  BY <1>4 DEF MapSteps
<1>8. Size(after[0]) = Reserved + 2
  BY <1>6, <1>7, EncodeShort
<1>9. ASSUME NEW i \in 1..n
      PROVE  Size(after[i]) = Size(after[i - 1]) + 2 + StartupOptions[i].key.size
                                + 2 + StartupOptions[i].value.size
  <2>1. after[i - 1] \in Buffers /\ StartupOptions[i] \in Entry
    BY <1>2, <1>6, <1>7
  <2> QED
    BY <1>7, <2>1, EntryWritten
<1>10. after[n] \in Buffers
  BY <1>6, <1>7
<1>11. CASE s1 > 0 /\ s2 > 0
  <2>1. n = 2 /\ StartupOptions[1] = one /\ StartupOptions[2] = two
    BY <1>3, <1>11
  <2>2. Size(after[2]) = Size(after[1]) + 2 + 11 + 2 + s2
        /\ Size(after[1]) = Size(after[0]) + 2 + 11 + 2 + s1
    BY <1>1, <1>9, <2>1
  <2> QED
    BY <1>2, <1>5, <1>7, <1>8, <1>10, <1>11, <2>1, <2>2, PrepareAssumption
<1>12. CASE s1 > 0 /\ ~(s2 > 0)
  <2>1. n = 1 /\ StartupOptions[1] = one
    BY <1>3, <1>12
  <2>2. Size(after[1]) = Size(after[0]) + 2 + 11 + 2 + s1
    BY <1>1, <1>9, <2>1
  <2> QED
    BY <1>2, <1>5, <1>7, <1>8, <1>10, <1>12, <2>1, <2>2, PrepareAssumption
<1>13. CASE ~(s1 > 0) /\ s2 > 0
  <2>1. n = 1 /\ StartupOptions[1] = two
    BY <1>3, <1>13
  <2>2. Size(after[1]) = Size(after[0]) + 2 + 11 + 2 + s2
    BY <1>1, <1>9, <2>1
  <2> QED
    BY <1>2, <1>5, <1>7, <1>8, <1>10, <1>13, <2>1, <2>2, PrepareAssumption
<1>14. CASE ~(s1 > 0) /\ ~(s2 > 0)
  <2>1. n = 0
    BY <1>3, <1>14
  <2> QED
    BY <1>2, <1>5, <1>7, <1>8, <1>10, <1>14, <2>1, PrepareAssumption
<1> QED
  BY <1>11, <1>12, <1>13, <1>14

(* The size of a frame is that of what is written, but for the serial      *)
(* consistency of a query.                                                 *)
LEMMA FramedFilled ==
  ASSUME BodyTypeOK
  PROVE  /\ Framed.fields \in Buffers
         /\ Framed.size = Size(Framed.fields) + When(opcode = "QUERY" /\ SerialConsistent, 2)
         /\ opcode \notin {"OPTIONS", "READY"} => Size(Framed.fields) <= Framed.allocated
<1> DEFINE h == FrameHeader(FrameSize)
<1>0. opcode \in Opcodes /\ Reserved = 8
  BY PrepareAssumption DEF BodyTypeOK
<1>f. /\ Framed.fields = BodyFields(h) /\ Framed.size = FrameSize
      /\ Framed.allocated = IF BodySize = 0 THEN Reserved ELSE BodyAllocated
  BY DEF Framed
<1>h. FrameSize \in Int => h \in Buffers /\ Size(h) = 8
  BY <1>0, HeaderWritten
<1> HIDE DEF h
<1>1. CASE opcode = "QUERY"
  <2>1. body \in QueryBody
    BY <1>1 DEF BodyTypeOK
  <2>2. body.query_.size \in Nat /\ body.paging_state_.size \in Nat
    <3>1. body.query_ \in Texts /\ body.paging_state_ \in Texts
      BY <2>1 DEF QueryBody
    <3> QED
      BY <3>1, TextType
  <2>3. ValuesSize \in Nat
    <3>1. body.values_ \in Seq(Texts)
      BY <2>1 DEF QueryBody
    <3> QED
      BY <3>1, EmptyBuffer, ValuesSizeIs
  <2>4. PICK v, p, z, c \in Nat : /\ v = When(HasValues, 2 + ValuesSize)
                                  /\ p = When(HasPagingState, 2 + body.paging_state_.size)
                                  /\ z = When(HasPageSize, 4)
                                  /\ c = When(SerialConsistent, 2)
    BY <2>2, <2>3 DEF When
  <2>5. BodySize = 8 + 4 + body.query_.size + 2 + 1 + c + p + v + z + c
    BY <1>0, <1>1, <2>4 DEF BodySize, QuerySize
  <2>6. BodySize \in Nat /\ BodySize # 0 /\ BodySize \in Int
    BY <2>2, <2>5
  <2>7. FrameSize = BodySize
    BY <2>6 DEF FrameSize
  <2>8. h \in Buffers /\ Size(h) = 8
    BY <1>h, <2>6, <2>7
  <2>9. BodyFields(h) = QueryFields(h)
    BY <1>1 DEF BodyFields
  <2>10. /\ QueryFields(h) \in Buffers
         /\ Size(QueryFields(h)) = 8 + 4 + body.query_.size + 2 + 1 + v + z + p + c
    <3> DEFINE q == body.query_.size
    <3>1. /\ QueryFields(h) \in Buffers
          /\ Size(QueryFields(h)) = Size(Written6(h)) + c
          /\ Size(Written6(h)) = Size(Written5(h)) + p
          /\ Size(Written5(h)) = Size(Written4(h)) + z
          /\ Size(Written4(h)) = Size(Written3(h)) + v
          /\ Size(Written3(h)) = Size(Written2(h)) + 1
          /\ Size(Written2(h)) = Size(Written1(h)) + 2
          /\ Size(Written1(h)) = 8 + 4 + q
      BY <2>1, <2>4, <2>8, QueryWritten
    <3>2. q \in Nat
      BY <2>2
    <3> HIDE DEF q
    <3>3. Size(QueryFields(h)) = 8 + 4 + q + 2 + 1 + v + z + p + c
      BY <3>1, <3>2
    <3> QED
      BY <3>1, <3>3 DEF q
  <2>11. When(opcode = "QUERY" /\ SerialConsistent, 2) = c
    BY <1>1, <2>4 DEF When
  <2>12. BodyAllocated = BodySize
    BY <1>1 DEF BodyAllocated
  <2> DEFINE q == body.query_.size
             w == Size(QueryFields(h))
  <2>13. /\ BodySize = 8 + 4 + q + 2 + 1 + c + p + v + z + c
         /\ w = 8 + 4 + q + 2 + 1 + v + z + p + c
         /\ q \in Nat
    BY <2>2, <2>5, <2>10
  <2> HIDE DEF q, w
  <2>14. BodySize = w + c /\ w <= BodySize
    BY <2>13
  <2> QED
    BY <1>f, <2>6, <2>7, <2>9, <2>10, <2>11, <2>12, <2>14 DEF w
<1>2. CASE opcode = "PREPARE"
  <2>1. body.prepare_ \in Texts /\ body.prepare_.size \in Nat
    <3>1. body \in [prepare_ : Texts]
      BY <1>2 DEF BodyTypeOK
    <3>2. body.prepare_ \in Texts
      BY <3>1
    <3> QED
      BY <3>2, TextType
  <2>2. BodySize = 8 + 4 + body.prepare_.size
    BY <1>0, <1>2 DEF BodySize
  <2>3. BodySize \in Nat /\ BodySize # 0 /\ BodySize \in Int
    BY <2>1, <2>2
  <2>4. FrameSize = BodySize
    BY <2>3 DEF FrameSize
  <2>5. h \in Buffers /\ Size(h) = 8
    BY <1>h, <2>3, <2>4
  <2>6. BodyFields(h) = encode_long_string(h, body.prepare_)
    BY <1>2 DEF BodyFields
  <2>7. BodyFields(h) \in Buffers /\ Size(BodyFields(h)) = BodySize
    BY <2>1, <2>2, <2>5, <2>6, EncodeLong
  <2>8. When(opcode = "QUERY" /\ SerialConsistent, 2) = 0 /\ BodyAllocated = BodySize
    BY <1>2 DEF When, BodyAllocated
  <2> QED
    BY <1>f, <2>3, <2>4, <2>7, <2>8
<1>3. CASE opcode = "STARTUP"
  <2>1. body \in StartupBody
    BY <1>3 DEF BodyTypeOK
  <2>2. BodySize = StartupSize
    BY <1>3 DEF BodySize
  <2>3. BodySize \in Nat /\ BodySize # 0 /\ BodySize \in Int
    <3>1. body.compression.size \in Nat /\ body.cql_version.size \in Nat
      BY <2>1, OptionsAre
    <3>2. PICK x, y \in Nat : /\ x = When(body.compression.size > 0, 2 + 11 + 2 + body.compression.size)
                              /\ y = When(body.cql_version.size > 0, 2 + 11 + 2 + body.cql_version.size)
      BY <3>1 DEF When
    <3>3. StartupSize = 8 + 2 + x + y
      BY <1>0, <3>2 DEF StartupSize
    <3> QED
      BY <2>2, <3>3
  <2>4. FrameSize = BodySize
    BY <2>3 DEF FrameSize
  <2>5. h \in Buffers /\ Size(h) = Reserved
    BY <1>0, <1>h, <2>3, <2>4
  <2>6. BodyFields(h) = encode_string_map(h, StartupOptions)
    BY <1>3 DEF BodyFields
  <2>7. BodyFields(h) \in Buffers /\ Size(BodyFields(h)) = BodySize
    BY <2>1, <2>2, <2>5, <2>6, StartupWritten
  <2>8. When(opcode = "QUERY" /\ SerialConsistent, 2) = 0 /\ BodyAllocated = BodySize
    BY <1>3 DEF When, BodyAllocated
  <2> QED
    BY <1>f, <2>3, <2>4, <2>7, <2>8
<1>4. CASE opcode = "ERROR"
  <2>1. body.message \in Texts /\ body.message.size \in Nat /\ body.code \in Contents
    <3>1. body \in ErrorBody
      BY <1>4 DEF BodyTypeOK
    <3>2. body.message \in Texts /\ body.code \in Int
      BY <3>1, OptionTexts DEF ErrorBody
    <3> QED
      BY <3>2, TextType, NumberContents
  <2>2. BodySize = 8 + 4 + 2 + body.message.size
    BY <1>0, <1>4 DEF BodySize
  <2>3. BodySize \in Nat /\ BodySize # 0 /\ BodySize \in Int
    BY <2>1, <2>2
  <2>4. FrameSize = BodySize
    BY <2>3 DEF FrameSize
  <2>5. h \in Buffers /\ Size(h) = 8
    BY <1>h, <2>3, <2>4
  <2>6. BodyFields(h) = encode_string(encode_int(h, body.code), body.message)
    BY <1>4 DEF BodyFields
  <2>7. encode_int(h, body.code) \in Buffers /\ Size(encode_int(h, body.code)) = 8 + 4
    BY <2>1, <2>5, EncodeInt
  <2>8. BodyFields(h) \in Buffers /\ Size(BodyFields(h)) = BodySize
    BY <2>1, <2>2, <2>6, <2>7, EncodeString
  <2>9. When(opcode = "QUERY" /\ SerialConsistent, 2) = 0 /\ BodyAllocated = BodySize
    BY <1>4 DEF When, BodyAllocated
  <2> QED
    BY <1>f, <2>3, <2>4, <2>8, <2>9
<1>5. CASE opcode \notin {"QUERY", "PREPARE", "STARTUP", "ERROR"}
  <2>1. BodySize \in {0, 8}
    BY <1>0, <1>5 DEF BodySize
  <2>2. FrameSize = 8
    BY <1>0, <2>1 DEF FrameSize
  <2>3. h \in Buffers /\ Size(h) = 8
    BY <1>h, <2>2
  <2>4. BodyFields(h) = h
    BY <1>5 DEF BodyFields
  <2>5. When(opcode = "QUERY" /\ SerialConsistent, 2) = 0
    BY <1>5 DEF When
  <2>6. opcode \notin {"OPTIONS", "READY"} => BodySize = 0
    BY <1>5 DEF BodySize
  <2> QED
    BY <1>0, <1>f, <2>2, <2>3, <2>4, <2>5, <2>6
<1> QED
  BY <1>1, <1>2, <1>3, <1>4, <1>5

-----------------------------------------------------------------------------
(* The inductive invariant for the request. While the message is being     *)
(* built, its body has the type its opcode says, and the frame, if there   *)
(* is one, is the frame of the body as it is now: whatever changes the     *)
(* body forgets the frame.                                                 *)
RequestInv ==
  /\ phase = "building" => BodyTypeOK
  /\ frame # NoFrame => phase = "building" /\ frame = Framed

(* A new body has the type of its opcode.                                  *)
LEMMA NewBody ==
  ASSUME opcode \in Opcodes, body = allocate_body(opcode)
  PROVE  BodyTypeOK
<1>1. /\ EmptyText \in Texts
      /\ EmptyText \in Options /\ Text("3.0.0", 5) \in Options
  BY DEF Texts, Options
<1>2. CASE opcode = "QUERY"
  <2>1. body = [query_ |-> EmptyText, consistency_ |-> 0, page_size_ |-> NoPageSize,
                paging_state_ |-> EmptyText, serial_consistency_ |-> NoConsistency,
                values_ |-> << >>]
    BY <1>2 DEF allocate_body
  <2>2. 0 \in Short /\ NoPageSize \in Int /\ << >> \in Seq(Texts)
    BY ShortNumber DEF NoPageSize
  <2>3. body \in QueryBody
    BY <1>1, <2>1, <2>2 DEF QueryBody
  <2>4. Len(body.values_) <= MaxValues
    <3>1. body.values_ = << >>
      BY <2>1
    <3> QED
      BY <3>1, PrepareAssumption
  <2> QED
    BY <1>2, <2>3, <2>4 DEF BodyTypeOK
<1>3. CASE opcode = "PREPARE"
  <2>1. body \in [prepare_ : Texts]
    BY <1>1, <1>3 DEF allocate_body
  <2> QED
    BY <1>3, <2>1 DEF BodyTypeOK
<1>4. CASE opcode = "STARTUP"
  <2>1. body \in StartupBody
    BY <1>1, <1>4 DEF allocate_body, StartupBody
  <2> QED
    BY <1>4, <2>1 DEF BodyTypeOK
<1>5. CASE opcode = "ERROR"
  <2>1. body = [code |-> -1, message |-> EmptyText]
    BY <1>5 DEF allocate_body
  <2>2. body \in ErrorBody
    BY <1>1, <2>1 DEF ErrorBody
  <2> QED
    BY <1>5, <2>2 DEF BodyTypeOK
<1>6. CASE opcode \notin {"QUERY", "PREPARE", "STARTUP", "ERROR"}
  BY <1>6 DEF BodyTypeOK
<1> QED
  BY <1>2, <1>3, <1>4, <1>5, <1>6

(* What a user passes is a text, and fits where it is set.                 *)
LEMMA UserInput ==
  /\ \A t \in Queries : t \in Texts /\ t \in Options
  /\ \A t \in ParamValues : t \in Texts
  /\ \A t \in PagingStates : t \in Texts
BY DEF Texts, UserTexts, Options

(* Every setter keeps the type and forgets the frame.                      *)
LEMMA SetterKeeps ==
  ASSUME BodyTypeOK, PrepareNext, ~prepare
  PROVE  BodyTypeOK' /\ frame' = NoFrame
<1>0. opcode \in Opcodes
  BY DEF BodyTypeOK
<1>1. ASSUME NEW field, NEW value, Set("QUERY", field, value),
             body \in QueryBody => [body EXCEPT ![field] = value] \in QueryBody,
             Len([body EXCEPT ![field] = value].values_) <= MaxValues
      PROVE  BodyTypeOK' /\ frame' = NoFrame
  <2>1. opcode = "QUERY" /\ opcode' = opcode /\ body' = [body EXCEPT ![field] = value]
        /\ frame' = NoFrame
    BY <1>1 DEF Set
  <2>2. body' \in QueryBody /\ Len(body'.values_) <= MaxValues
    BY <1>1, <2>1 DEF BodyTypeOK
  <2> QED
    BY <1>0, <2>1, <2>2 DEF BodyTypeOK
<1>2. CASE \E input \in Queries : query_string(input)
  <2>1. PICK input \in Queries : Set("QUERY", "query_", input)
    BY <1>2 DEF query_string
  <2>2. body \in QueryBody /\ Len(body.values_) <= MaxValues
    BY <2>1 DEF Set, BodyTypeOK
  <2>3. [body EXCEPT !["query_"] = input] \in QueryBody
        /\ [body EXCEPT !["query_"] = input].values_ = body.values_
    BY <2>2, UserInput DEF QueryBody
  <2> QED
    BY <1>1, <2>1, <2>2, <2>3
<1>3. CASE \E c \in {0, 1} : consistency(c)
  <2>1. PICK c \in {0, 1} : Set("QUERY", "consistency_", c)
    BY <1>3 DEF consistency
  <2>2. body \in QueryBody /\ Len(body.values_) <= MaxValues
    BY <2>1 DEF Set, BodyTypeOK
  <2>3. c \in Short
    BY ShortNumber
  <2>4. [body EXCEPT !["consistency_"] = c] \in QueryBody
        /\ [body EXCEPT !["consistency_"] = c].values_ = body.values_
    BY <2>2, <2>3 DEF QueryBody
  <2> QED
    BY <1>1, <2>1, <2>2, <2>4
<1>4. CASE \E c \in {8, 9} : serial_consistency(c)
  <2>1. PICK c \in {8, 9} : Set("QUERY", "serial_consistency_", c)
    BY <1>4 DEF serial_consistency
  <2>2. body \in QueryBody /\ Len(body.values_) <= MaxValues
    BY <2>1 DEF Set, BodyTypeOK
  <2>3. c \in {NoConsistency} \cup Short
    BY ShortNumber
  <2>4. [body EXCEPT !["serial_consistency_"] = c] \in QueryBody
        /\ [body EXCEPT !["serial_consistency_"] = c].values_ = body.values_
    BY <2>2, <2>3 DEF QueryBody
  <2> QED
    BY <1>1, <2>1, <2>2, <2>4
<1>5. CASE \E size \in PageSizes : page_size(size)
  <2>1. PICK size \in PageSizes : Set("QUERY", "page_size_", size)
    BY <1>5 DEF page_size
  <2>2. body \in QueryBody /\ Len(body.values_) <= MaxValues
    BY <2>1 DEF Set, BodyTypeOK
  <2>3. size \in Int
    BY PrepareAssumption
  <2>4. [body EXCEPT !["page_size_"] = size] \in QueryBody
        /\ [body EXCEPT !["page_size_"] = size].values_ = body.values_
    BY <2>2, <2>3 DEF QueryBody
  <2> QED
    BY <1>1, <2>1, <2>2, <2>4
<1>6. CASE \E state \in PagingStates : paging_state(state)
  <2>1. PICK state \in PagingStates : Set("QUERY", "paging_state_", state)
    BY <1>6 DEF paging_state
  <2>2. body \in QueryBody /\ Len(body.values_) <= MaxValues
    BY <2>1 DEF Set, BodyTypeOK
  <2>3. [body EXCEPT !["paging_state_"] = state] \in QueryBody
        /\ [body EXCEPT !["paging_state_"] = state].values_ = body.values_
    BY <2>2, UserInput DEF QueryBody
  <2> QED
    BY <1>1, <2>1, <2>2, <2>3
<1>7. CASE \E value \in ParamValues : add_value(value)
  <2>1. PICK value \in ParamValues : /\ Len(body.values_) < MaxValues
                                     /\ Set("QUERY", "values_", Append(body.values_, value))
    BY <1>7 DEF add_value
  <2>2. body \in QueryBody
    BY <2>1 DEF Set, BodyTypeOK
  <2>3. body.values_ \in Seq(Texts) /\ value \in Texts
    BY <2>2, UserInput DEF QueryBody
  <2>4. /\ Append(body.values_, value) \in Seq(Texts)
        /\ Len(Append(body.values_, value)) = Len(body.values_) + 1
        /\ Len(body.values_) \in Nat
    BY <2>3
  <2>5. Len(Append(body.values_, value)) <= MaxValues
    BY <2>1, <2>4, PrepareAssumption
  <2>6. [body EXCEPT !["values_"] = Append(body.values_, value)] \in QueryBody
        /\ [body EXCEPT !["values_"] = Append(body.values_, value)].values_
             = Append(body.values_, value)
    BY <2>2, <2>4 DEF QueryBody
  <2> QED
    BY <1>1, <2>1, <2>5, <2>6
<1>8. CASE \E input \in Queries : prepare_string(input)
  <2>1. PICK input \in Queries : Set("PREPARE", "prepare_", input)
    BY <1>8 DEF prepare_string
  <2>2. /\ opcode = "PREPARE" /\ opcode' = opcode /\ frame' = NoFrame
        /\ body' = [body EXCEPT !["prepare_"] = input]
    BY <2>1 DEF Set
  <2>3. body \in [prepare_ : Texts]
    BY <2>2 DEF BodyTypeOK
  <2>4. body' \in [prepare_ : Texts]
    BY <2>2, <2>3, UserInput
  <2> QED
    BY <1>0, <2>2, <2>4 DEF BodyTypeOK
<1>9. CASE \E input \in Queries : error_message(input)
  <2>1. PICK input \in Queries : Set("ERROR", "message", input)
    BY <1>9 DEF error_message
  <2>2. /\ opcode = "ERROR" /\ opcode' = opcode /\ frame' = NoFrame
        /\ body' = [body EXCEPT !["message"] = input]
    BY <2>1 DEF Set
  <2>3. body \in ErrorBody
    BY <2>2 DEF BodyTypeOK
  <2>4. body' \in ErrorBody
    BY <2>2, <2>3, UserInput DEF ErrorBody
  <2> QED
    BY <1>0, <2>2, <2>4 DEF BodyTypeOK
<1>10. CASE \E field \in {"cql_version", "compression"}, value \in Queries :
               startup_option(field, value)
  <2>1. PICK field \in {"cql_version", "compression"}, value \in Queries :
               Set("STARTUP", field, value)
    BY <1>10 DEF startup_option
  <2>2. /\ opcode = "STARTUP" /\ opcode' = opcode /\ frame' = NoFrame
        /\ body' = [body EXCEPT ![field] = value]
    BY <2>1 DEF Set
  <2>3. body \in StartupBody
    BY <2>2 DEF BodyTypeOK
  <2>4. body' \in StartupBody
    BY <2>2, <2>3, UserInput DEF StartupBody
  <2> QED
    BY <1>0, <2>2, <2>4 DEF BodyTypeOK
<1> QED
  BY <1>2, <1>3, <1>4, <1>5, <1>6, <1>7, <1>8, <1>9, <1>10 DEF PrepareNext

(* RequestInv holds of a new message.                                      *)
LEMMA RequestInitial == ExchangeInit => RequestInv
<1> SUFFICES ASSUME ExchangeInit PROVE RequestInv
  OBVIOUS
<1>1. opcode \in Opcodes /\ body = allocate_body(opcode) /\ frame = NoFrame
  BY DEF ExchangeInit, MessageInit
<1> QED
  BY <1>1, NewBody DEF RequestInv

(* The frame of the same body is the same.                                 *)
LEMMA FramedStays ==
  ASSUME opcode' = opcode, body' = body
  PROVE  Framed' = Framed
BY DEF Framed, FrameHeader, FrameSize, BodySize, BodyAllocated, BodyFields, QuerySize,
       QueryFields, StartupSize, StartupOptions, StartupOption, ValuesSize, HasValues,
       HasPageSize, HasPagingState, SerialConsistent, QueryFlags, ValueFields

(* Every step keeps RequestInv: a setter forgets the frame, prepare makes  *)
(* the frame of the body, and from the moment it is sent there is none.    *)
LEMMA RequestStep == RequestInv /\ [ExchangeNext]_vars => RequestInv'
<1> SUFFICES ASSUME RequestInv, [ExchangeNext]_vars PROVE RequestInv'
  OBVIOUS
<1>1. CASE build
  <2>1. /\ phase = "building" /\ phase' = "building" /\ PrepareNext /\ BodyTypeOK
    BY <1>1 DEF build, exchangeVars, RequestInv
  <2>2. CASE prepare
    <3>1. opcode' = opcode /\ body' = body /\ frame' = Framed
      BY <2>2 DEF prepare, Framed, FrameHeader, FrameSize
    <3>2. BodyTypeOK'
      BY <2>1, <3>1 DEF BodyTypeOK
    <3>3. Framed' = Framed
      BY <3>1, FramedStays
    <3> QED
      BY <2>1, <3>1, <3>2, <3>3 DEF RequestInv
  <2>3. CASE ~prepare
    BY <2>1, <2>3, SetterKeeps DEF RequestInv
  <2> QED
    BY <2>2, <2>3
<1>2. CASE send
  BY <1>2 DEF send, RequestInv
<1>3. ASSUME NEW op, incoming(op) PROVE RequestInv'
  BY <1>3 DEF incoming, RequestInv
<1>4. CASE \E error \in Errors : receive_error(error)
  BY <1>3, <1>4 DEF receive_error
<1>5. CASE \E entries \in Supported : receive_supported(entries)
  BY <1>3, <1>5 DEF receive_supported
<1>6. CASE receive_ready
  BY <1>3, <1>6 DEF receive_ready
<1>7. CASE receive
  BY <1>3, <1>7 DEF receive
<1>8. CASE consume_body
  <2>1. phase = "received" /\ phase' = "consumed" /\ frame' = frame
    BY <1>8 DEF consume_body
  <2>2. frame = NoFrame
    BY <2>1 DEF RequestInv
  <2> QED
    BY <2>1, <2>2 DEF RequestInv
<1>9. CASE iterate
  <2>1. phase = "consumed" /\ phase' = "consumed" /\ frame' = frame
    BY <1>9 DEF iterate, prepareVars, exchangeVars
  <2>2. frame = NoFrame
    BY <2>1 DEF RequestInv
  <2> QED
    BY <2>1, <2>2 DEF RequestInv
<1>10. CASE UNCHANGED vars
  <2>1. opcode' = opcode /\ body' = body /\ frame' = frame /\ phase' = phase
    BY <1>10 DEF vars, prepareVars, exchangeVars
  <2>2. Framed' = Framed
    BY <2>1, FramedStays
  <2>3. phase = "building" => BodyTypeOK'
    BY <2>1 DEF RequestInv, BodyTypeOK
  <2> QED
    BY <2>1, <2>2, <2>3 DEF RequestInv
<1> QED
  BY <1>1, <1>2, <1>4, <1>5, <1>6, <1>7, <1>8, <1>9, <1>10 DEF ExchangeNext

(* While a message is built its body has the type of its opcode, and what  *)
(* the last prepare returned is the frame of the body as it is (the        *)
(* setters of the bodies, Message::prepare).                               *)
THEOREM RequestInvariant == ExchangeSpec => []RequestInv
<1>1. RequestInv /\ [ExchangeNext]_vars => RequestInv'
  BY RequestStep
<1> QED
  BY <1>1, RequestInitial, PTL DEF ExchangeSpec

(* The size that prepare computes before it allocates is the number of     *)
(* bytes it writes afterwards, a serial consistency apart, and it writes   *)
(* no byte behind the buffer, the header of OPTIONS and READY apart        *)
(* (Message::prepare, BodyQuery::prepare, BodyStartup::prepare,            *)
(* BodyError::prepare, BodyPrepare::prepare), for texts and values of any  *)
(* number and size.                                                        *)
THEOREM FramesAreFilled == ExchangeSpec => []FrameFilled
<1>1. RequestInv => FrameFilled
  <2> SUFFICES ASSUME RequestInv, frame # NoFrame
               PROVE  /\ frame.size = Size(frame.fields)
                                        + When(Prepared("QUERY") /\ SerialConsistent, 2)
                      /\ opcode \notin {"OPTIONS", "READY"} =>
                           Size(frame.fields) <= frame.allocated
    BY DEF FrameFilled
  <2>1. BodyTypeOK /\ frame = Framed
    BY DEF RequestInv
  <2>2. Prepared("QUERY") <=> opcode = "QUERY"
    BY DEF Prepared
  <2>3. /\ Framed.size = Size(Framed.fields) + When(opcode = "QUERY" /\ SerialConsistent, 2)
        /\ opcode \notin {"OPTIONS", "READY"} => Size(Framed.fields) <= Framed.allocated
    BY <2>1, FramedFilled
  <2>4. When(Prepared("QUERY") /\ SerialConsistent, 2)
          = When(opcode = "QUERY" /\ SerialConsistent, 2)
    BY <2>2 DEF When
  <2> QED
    BY <2>1, <2>3, <2>4
<1> QED
  BY <1>1, RequestInvariant, PTL

-----------------------------------------------------------------------------
(* Reading back.  Each buffer of QueryFields goes on to the next.          *)
LEMMA ValuesGo ==
  ASSUME NEW b \in Buffers, body.values_ \in Seq(Texts), NEW after, ValueSteps(b, after)
  PROVE  /\ \A i \in 0..Len(body.values_) : Goes(after[i], ValueFields(b))
         /\ Goes(b, ValueFields(b))
<1> DEFINE n == Len(body.values_)
<1>0. n \in Nat /\ n \in Int /\ 0 \in 0..n /\ \A i \in 1..n : body.values_[i] \in Texts
  OBVIOUS
<1>1. /\ after[0] = encode_short(b, n) /\ after[n] = ValueFields(b)
      /\ \A i \in 0..n : after[i] \in Buffers
      /\ \A i \in 1..n : after[i] = encode_long_string(after[i - 1], body.values_[i])
  BY DEF ValueSteps
<1> HIDE DEF n
<1>2. ASSUME NEW i \in 1..n PROVE Goes(after[i - 1], after[i])
  <2>1. i - 1 \in 0..n
    BY <1>0
  <2>2. after[i - 1] \in Buffers /\ body.values_[i] \in Texts
    BY <1>0, <1>1, <2>1
  <2> QED
    BY <1>1, <2>2, EncodeLong
<1>3. \A i \in 0..n : Goes(after[i], after[n])
  BY <1>0, <1>1, <1>2, StepsGo
<1>4. Goes(b, after[0]) /\ after[0] \in Buffers /\ after[n] \in Buffers /\ Goes(after[0], after[n])
  BY <1>0, <1>1, <1>3, EncodeShort
<1>5. Goes(b, after[n])
  BY <1>4, GoesOn
<1> QED
  BY <1>1, <1>3, <1>5 DEF n

(* Each of the buffers of QueryFields goes on to the last.                 *)
LEMMA QueryGoes ==
  ASSUME NEW h \in Buffers, body \in QueryBody
  PROVE  /\ Goes(Written1(h), QueryFields(h))
         /\ Goes(Written2(h), QueryFields(h))
         /\ Goes(Written3(h), QueryFields(h))
         /\ Goes(Written4(h), QueryFields(h))
         /\ Goes(Written5(h), QueryFields(h))
         /\ Goes(Written6(h), QueryFields(h))
<1>0. /\ body.query_ \in Texts /\ body.paging_state_ \in Texts
      /\ body.values_ \in Seq(Texts)
  BY DEF QueryBody
<1>n. /\ body.consistency_ \in Int /\ body.page_size_ \in Contents
      /\ body.serial_consistency_ \in Int
  <2>1. /\ body.consistency_ \in Short /\ body.page_size_ \in Int
        /\ body.serial_consistency_ \in {NoConsistency} \cup Short
    BY DEF QueryBody
  <2>2. NoConsistency \in Int /\ \A n \in Short : n \in Int
    BY DEF Short, NoConsistency
  <2> QED
    BY <2>1, <2>2, NumberContents
<1>b. /\ Written1(h) \in Buffers /\ Written2(h) \in Buffers /\ Written3(h) \in Buffers
      /\ Written4(h) \in Buffers /\ Written5(h) \in Buffers /\ Written6(h) \in Buffers
      /\ QueryFields(h) \in Buffers
  BY QueryWritten
<1>1. Goes(Written1(h), Written2(h))
  BY <1>b, <1>n, EncodeShort DEF Written2
<1>2. Goes(Written2(h), Written3(h))
  <2>1. QueryFlags \in Contents
    <3>1. QueryFlags \subseteq Bits
      BY Zenon DEF QueryFlags, Bits
    <3> QED
      BY <3>1 DEF Contents
  <2> QED
    BY <1>b, <2>1, EncodeByte DEF Written3
<1>3. Goes(Written3(h), Written4(h))
  <2>1. PICK after : ValueSteps(Written3(h), after)
    BY <1>0, <1>b, ValuesWritten
  <2>2. Goes(Written3(h), ValueFields(Written3(h)))
    BY <1>0, <1>b, <2>1, ValuesGo
  <2>3. Goes(Written3(h), Written3(h))
    BY <1>b, GoesOn
  <2> QED
    BY <2>2, <2>3 DEF Written4
<1>4. Goes(Written4(h), Written5(h))
  BY <1>b, <1>n, EncodeInt, GoesOn DEF Written5
<1>5. Goes(Written5(h), Written6(h))
  BY <1>b, <1>0, EncodeString, GoesOn DEF Written6
<1>6. Goes(Written6(h), QueryFields(h))
  <2>1. QueryFields(h) = IF SerialConsistent THEN encode_short(Written6(h), body.serial_consistency_)
                                             ELSE Written6(h)
    BY DEF QueryFields, Written1, Written2, Written3, Written4, Written5, Written6
  <2> QED
    BY <1>b, <1>n, <2>1, EncodeShort, GoesOn, ZenonT(60)
<1>7. Goes(Written5(h), QueryFields(h))
  BY <1>b, <1>5, <1>6, GoesOn
<1>8. Goes(Written4(h), QueryFields(h))
  BY <1>b, <1>4, <1>7, GoesOn
<1>9. Goes(Written3(h), QueryFields(h))
  BY <1>b, <1>3, <1>8, GoesOn
<1>10. Goes(Written2(h), QueryFields(h))
  BY <1>b, <1>2, <1>9, GoesOn
<1>11. Goes(Written1(h), QueryFields(h))
  BY <1>b, <1>1, <1>10, GoesOn
<1> QED
  BY <1>6, <1>7, <1>8, <1>9, <1>10, <1>11

(* One value more.                                                         *)
LEMMA OneMore ==
  ASSUME NEW T, NEW s \in Seq(T), NEW i \in 1..Len(s)
  PROVE  Append(SubSeq(s, 1, i - 1), s[i]) = SubSeq(s, 1, i)
<1>1. Len(s) \in Nat /\ 1 \in 1..Len(s) /\ i \in 1..Len(s)
  OBVIOUS
<1>2. SubSeq(s, 1, i) = SubSeq(s, 1, i - 1) \o <<s[i]>>
  BY <1>1, SubSeqRecursiveSecond
<1>3. SubSeq(s, 1, i - 1) \in Seq(T) /\ s[i] \in T
  BY <1>1
<1>4. Append(SubSeq(s, 1, i - 1), s[i]) = SubSeq(s, 1, i - 1) \o <<s[i]>>
  BY <1>3, AppendIsConcat
<1> QED
  BY <1>2, <1>4

(* The server reads the values of a query as they were bound: for the      *)
(* position behind value i, it has the first i of them.                    *)
LEMMA ValuesReadBack ==
  ASSUME NEW b \in Buffers, body.values_ \in Seq(Texts), Len(body.values_) \in Short,
         NEW F \in Buffers, Goes(ValueFields(b), F),
         NEW first, first = Size(b) + 2
  PROVE  ValuesRead(F, Len(body.values_), first)
           = [value |-> body.values_, next |-> Size(ValueFields(b))]
<1> DEFINE n == Len(body.values_)
           s == body.values_
           Eq(f) == f = [i \in 0..n |->
                           IF i = 0
                             THEN [value |-> << >>, next |-> first]
                             ELSE NextValue(F, f[i - 1])]
           values == CHOOSE f : Eq(f)
<1>6. ValuesRead(F, n, first) = values[n]
  BY Zenon DEF ValuesRead
<1> HIDE DEF values
<1>0. n \in Nat /\ n \in Int /\ 0 \in 0..n /\ n \in 0..n /\ \A i \in 1..n : s[i] \in Texts
  OBVIOUS
<1>1. PICK after : ValueSteps(b, after)
  BY ValuesWritten
<1>2. /\ after[0] = encode_short(b, n) /\ after[n] = ValueFields(b)
      /\ \A i \in 0..n : after[i] \in Buffers
      /\ \A i \in 1..n : after[i] = encode_long_string(after[i - 1], s[i])
  BY <1>1 DEF ValueSteps
<1>3. \A i \in 0..n : Goes(after[i], ValueFields(b))
  BY <1>1, ValuesGo
<1>4. ASSUME NEW i \in 1..n PROVE Append(SubSeq(s, 1, i - 1), s[i]) = SubSeq(s, 1, i)
  BY OneMore
<1>5. SubSeq(s, 1, 0) = << >> /\ SubSeq(s, 1, n) = s
  BY SubSeqFull
<1> HIDE DEF s, n
<1>7. \A i \in 0..n : Goes(after[i], F)
  <2>1. ValueFields(b) \in Buffers
    BY <1>0, <1>2
  <2> QED
    BY <1>2, <1>3, <2>1, GoesOn
<1>8. ASSUME NEW i \in 1..n
      PROVE  decode_long_string(F, Size(after[i - 1])) = [value |-> s[i], next |-> Size(after[i])]
  <2>1. i - 1 \in 0..n /\ i \in 0..n
    BY <1>0
  <2>2. /\ after[i - 1] \in Buffers /\ s[i] \in Texts
        /\ after[i] = encode_long_string(after[i - 1], s[i]) /\ Goes(after[i], F)
    BY <1>0, <1>2, <1>7, <2>1
  <2> QED
    BY <2>2, DecodeLong
<1>a. ASSUME NEW i \in 1..n, NEW p, p = [value |-> SubSeq(s, 1, i - 1), next |-> Size(after[i - 1])]
      PROVE  NextValue(F, p) = [value |-> SubSeq(s, 1, i), next |-> Size(after[i])]
  <2>1. p.next = Size(after[i - 1]) /\ p.value = SubSeq(s, 1, i - 1)
    BY <1>a
  <2>2. PICK v : v = decode_long_string(F, p.next)
    OBVIOUS
  <2>3. v = [value |-> s[i], next |-> Size(after[i])]
    BY <1>8, <2>1, <2>2
  <2>4. NextValue(F, p) = [value |-> Append(p.value, v.value), next |-> v.next]
    BY <2>2 DEF NextValue
  <2>5. v.value = s[i] /\ v.next = Size(after[i])
    BY <2>3
  <2> QED
    BY <1>4, <2>1, <2>4, <2>5
<1>9. first = Size(after[0])
  BY <1>0, <1>2, EncodeShort
<1> DEFINE g == [i \in 0..n |-> [value |-> SubSeq(s, 1, i), next |-> Size(after[i])]]
<1>10. Eq(g)
  <2>1. ASSUME NEW i \in 1..n PROVE g[i] = NextValue(F, g[i - 1])
    <3>1. i - 1 \in 0..n /\ i \in 0..n
      BY <1>0
    <3>2. g[i] = [value |-> SubSeq(s, 1, i), next |-> Size(after[i])]
          /\ g[i - 1] = [value |-> SubSeq(s, 1, i - 1), next |-> Size(after[i - 1])]
      BY <3>1
    <3> HIDE DEF g
    <3> QED
      BY <1>a, <3>2
  <2>2. g[0] = [value |-> << >>, next |-> first]
    BY <1>0, <1>5, <1>9
  <2>3. \A i \in 0..n : g[i] =
          IF i = 0
            THEN [value |-> << >>, next |-> first]
            ELSE NextValue(F, g[i - 1])
    <3> HIDE DEF g
    <3> QED
      BY <1>0, <2>1, <2>2
  <2> QED
    BY <2>3
<1>11. Eq(values)
  <2> HIDE DEF Eq, g
  <2> QED
    BY <1>10 DEF values
<1>12. /\ values[0] = [value |-> << >>, next |-> first]
       /\ \A i \in 1..n : values[i] = NextValue(F, values[i - 1])
  BY <1>0, <1>11
<1> DEFINE S == {i \in 0..n : values[i] = [value |-> SubSeq(s, 1, i), next |-> Size(after[i])]}
<1>13. 0 \in S
  BY <1>0, <1>5, <1>9, <1>12
<1>14. ASSUME NEW i \in 1..n, i - 1 \in S PROVE i \in S
  <2>1. i \in 0..n /\ values[i - 1] = [value |-> SubSeq(s, 1, i - 1), next |-> Size(after[i - 1])]
    BY <1>0, <1>14
  <2>2. values[i] = [value |-> SubSeq(s, 1, i), next |-> Size(after[i])]
    BY <1>a, <1>12, <2>1
  <2> QED
    BY <2>1, <2>2
<1>15. \A i \in 0..n : i \in S
  <2> HIDE DEF S
  <2> QED
    BY <1>0, <1>13, <1>14, UpTo
<1>16. values[n] = [value |-> SubSeq(s, 1, n), next |-> Size(after[n])]
  BY <1>0, <1>15
<1> QED
  BY <1>2, <1>5, <1>6, <1>16 DEF n, s

(* The flags announce what is there.                                       *)
LEMMA FlagsAre ==
  /\ "VALUES" \in QueryFlags <=> HasValues
  /\ "PAGE_SIZE" \in QueryFlags <=> HasPageSize
  /\ "PAGING_STATE" \in QueryFlags <=> HasPagingState
  /\ "SERIAL_CONSISTENCY" \in QueryFlags <=> SerialConsistent
BY DEF QueryFlags

(* The flags are contents of a field.                                      *)
LEMMA FlagsType == QueryFlags \in Contents
<1>1. QueryFlags \subseteq Bits
  BY Zenon DEF QueryFlags, Bits
<1> QED
  BY <1>1 DEF Contents

(* A QUERY is read as it was written, up to a paging state.  The reader    *)
(* goes from part to part as QueryFields does; where an option is absent   *)
(* both leave it out.                                                      *)
LEMMA QueryReadBack ==
  ASSUME NEW h \in Buffers, Size(h) = Reserved, body \in QueryBody,
         Len(body.values_) \in Short, NEW read, read = QueryRead(QueryFields(h))
  PROVE  /\ read.query_ = body.query_ /\ read.consistency_ = body.consistency_
         /\ read.values_ = body.values_ /\ read.page_size_ = body.page_size_
         /\ ~HasPagingState => read = body
<1> DEFINE F == QueryFields(h)
           query == decode_long_string(F, Reserved)
           level == TwoBytes(F, query.next)
           flags == NumberAt(F, level.next, 1)
           start == Plus(level.next, 1)
           count == TwoBytes(F, start)
           values == IF "VALUES" \in flags
                       THEN ValuesRead(F, count.value, count.next)
                       ELSE [value |-> << >>, next |-> start]
           page == IF "PAGE_SIZE" \in flags
                     THEN decode_int(F, values.next)
                     ELSE [value |-> NoPageSize, next |-> values.next]
           paging == IF "PAGING_STATE" \in flags
                       THEN decode_long_string(F, page.next)
                       ELSE [value |-> EmptyText, next |-> page.next]
           serial == IF "SERIAL_CONSISTENCY" \in flags
                       THEN TwoBytes(F, paging.next)
                       ELSE [value |-> NoConsistency, next |-> paging.next]
<1>1. QueryRead(F) =
        [query_ |-> query.value, consistency_ |-> level.value,
         page_size_ |-> page.value, paging_state_ |-> paging.value,
         serial_consistency_ |-> serial.value, values_ |-> values.value]
  BY Zenon DEF QueryRead
<1>t. /\ body.query_ \in Texts /\ body.paging_state_ \in Texts
      /\ body.values_ \in Seq(Texts)
      /\ body.consistency_ \in Short /\ body.page_size_ \in Int
      /\ body.serial_consistency_ \in {NoConsistency} \cup Short
  BY DEF QueryBody
<1>c. body.page_size_ \in Contents /\ QueryFlags \in Contents
  BY <1>t, FlagsType, NumberContents
<1>b. /\ Written1(h) \in Buffers /\ Written2(h) \in Buffers /\ Written3(h) \in Buffers
      /\ Written4(h) \in Buffers /\ Written5(h) \in Buffers /\ Written6(h) \in Buffers
      /\ F \in Buffers
  BY QueryWritten
<1>s. /\ Size(Written2(h)) = Size(Written1(h)) + 2
      /\ Size(Written3(h)) = Size(Written2(h)) + 1
  BY QueryWritten
<1>g. /\ Goes(Written1(h), F) /\ Goes(Written2(h), F) /\ Goes(Written3(h), F)
      /\ Goes(Written4(h), F) /\ Goes(Written5(h), F) /\ Goes(Written6(h), F)
  BY QueryGoes
<1>f. F = IF SerialConsistent THEN encode_short(Written6(h), body.serial_consistency_)
                              ELSE Written6(h)
  BY DEF QueryFields, Written1, Written2, Written3, Written4, Written5, Written6
<1> HIDE DEF F
<1>3. query = [value |-> body.query_, next |-> Size(Written1(h))]
  BY <1>t, <1>b, <1>g, DecodeLong DEF Written1
<1>4. query.value = body.query_ /\ query.next = Size(Written1(h))
  BY <1>3
<1> HIDE DEF query
<1>5. level = [value |-> body.consistency_, next |-> Size(Written2(h))]
  <2>1. Goes(encode_short(Written1(h), body.consistency_), F)
    BY <1>g DEF Written2
  <2> QED
    BY <1>t, <1>b, <1>s, <1>4, <2>1, TwoBytesRead
<1>6. level.value = body.consistency_ /\ level.next = Size(Written2(h))
  BY <1>5
<1> HIDE DEF level
<1>7. flags = QueryFlags
  <2>1. Goes(Append(Written2(h), Number(1, QueryFlags)), F)
    BY <1>g DEF Written3, encode_byte
  <2>2. 1 \in Nat /\ 1 > 0
    OBVIOUS
  <2>3. NumberAt(F, Size(Written2(h)), 1) = QueryFlags
    BY <1>b, <1>c, <2>1, <2>2, WrittenNumber
  <2> QED
    BY <1>6, <2>3
<1>8. start = Size(Written3(h))
  <2>1. Size(Written2(h)) \in Nat
    BY <1>b, SizeIs
  <2> QED
    BY <1>6, <1>s, <2>1, SerializationAssumption DEF Plus
<1> HIDE DEF flags, start
<1>9. values.value = body.values_ /\ values.next = Size(Written4(h))
  <2>1. CASE HasValues
    <3>0. Written4(h) = ValueFields(Written3(h))
      BY <2>1 DEF Written4
    <3>1. PICK after : ValueSteps(Written3(h), after)
      BY <1>b, <1>t, ValuesWritten
    <3>2. Len(body.values_) \in Nat /\ 0 \in 0..Len(body.values_) /\ Len(body.values_) # 0
      BY <1>t, <2>1 DEF HasValues
    <3>3. /\ after[0] = encode_short(Written3(h), Len(body.values_)) /\ after[0] \in Buffers
          /\ Goes(after[0], Written4(h))
      BY <1>b, <1>t, <3>0, <3>1, <3>2, ValuesGo DEF ValueSteps
    <3>4. Goes(encode_short(Written3(h), Len(body.values_)), F)
      BY <1>b, <1>g, <3>3, GoesOn
    <3>5. count = [value |-> Len(body.values_), next |-> Size(Written3(h)) + 2]
      BY <1>b, <1>8, <3>4, TwoBytesRead
    <3>6. count.value = Len(body.values_) /\ count.next = Size(Written3(h)) + 2
      BY <3>5
    <3> HIDE DEF count
    <3>7. "VALUES" \in flags
      BY <1>7, <2>1, FlagsAre
    <3>8. ValuesRead(F, Len(body.values_), Size(Written3(h)) + 2)
            = [value |-> body.values_, next |-> Size(ValueFields(Written3(h)))]
      <4>1. Goes(ValueFields(Written3(h)), F)
        BY <1>g, <3>0
      <4> QED
        BY <1>b, <1>t, <4>1, ValuesReadBack
    <3> QED
      BY <3>0, <3>6, <3>7, <3>8
  <2>2. CASE ~HasValues
    <3>1. "VALUES" \notin flags
      BY <1>7, <2>2, FlagsAre
    <3>2. Written4(h) = Written3(h) /\ body.values_ = << >>
      BY <2>2 DEF Written4, HasValues
    <3> QED
      BY <1>8, <3>1, <3>2
  <2> QED
    BY <2>1, <2>2
<1> HIDE DEF values, count
<1>10. page.value = body.page_size_ /\ page.next = Size(Written5(h))
  <2>1. CASE HasPageSize
    <3>1. "PAGE_SIZE" \in flags
      BY <1>7, <2>1, FlagsAre
    <3>2. Written5(h) = encode_int(Written4(h), body.page_size_)
      BY <2>1 DEF Written5
    <3>3. decode_int(F, Size(Written4(h)))
            = [value |-> body.page_size_, next |-> Size(Written4(h)) + 4]
      BY <1>b, <1>c, <1>g, <3>2, DecodeInt
    <3>4. Size(Written5(h)) = Size(Written4(h)) + 4
      BY <1>b, <1>c, <3>2, EncodeInt
    <3> QED
      BY <1>9, <3>1, <3>3, <3>4
  <2>2. CASE ~HasPageSize
    <3>1. "PAGE_SIZE" \notin flags
      BY <1>7, <2>2, FlagsAre
    <3>2. body.page_size_ = NoPageSize /\ Written5(h) = Written4(h)
      BY <2>2 DEF HasPageSize, Written5
    <3> QED
      BY <1>9, <3>1, <3>2
  <2> QED
    BY <2>1, <2>2
<1> HIDE DEF page
<1>11. ASSUME ~HasPagingState
       PROVE  paging.value = body.paging_state_ /\ paging.next = Size(Written6(h))
  <2>0. body.paging_state_.size \in Nat
    BY <1>t, TextType
  <2>1. "PAGING_STATE" \notin flags
    BY <1>7, <1>11, FlagsAre
  <2>2. body.paging_state_.size = 0
    BY <2>0, <1>11 DEF HasPagingState
  <2>3. body.paging_state_ = EmptyText /\ Written6(h) = Written5(h)
    BY <1>t, <1>11, <2>2, TextType DEF Written6
  <2> QED
    BY <1>10, <2>1, <2>3
<1> HIDE DEF paging
<1>12. ASSUME ~HasPagingState PROVE serial.value = body.serial_consistency_
  <2>1. CASE SerialConsistent
    <3>1. "SERIAL_CONSISTENCY" \in flags
      BY <1>7, <2>1, FlagsAre
    <3>2. body.serial_consistency_ \in Short
      BY <1>t, <2>1 DEF SerialConsistent
    <3>3. Goes(encode_short(Written6(h), body.serial_consistency_), F)
      BY <1>b, <1>f, <2>1, GoesOn
    <3>4. TwoBytes(F, Size(Written6(h)))
            = [value |-> body.serial_consistency_, next |-> Size(Written6(h)) + 2]
      BY <1>b, <3>2, <3>3, TwoBytesRead
    <3> QED
      BY <1>11, <1>12, <3>1, <3>4
  <2>2. CASE ~SerialConsistent
    <3>1. "SERIAL_CONSISTENCY" \notin flags
      BY <1>7, <2>2, FlagsAre
    <3>2. body.serial_consistency_ = NoConsistency
      BY <2>2 DEF SerialConsistent
    <3> QED
      BY <3>1, <3>2
  <2> QED
    BY <2>1, <2>2
<1> HIDE DEF serial
<1>13. body = [query_ |-> body.query_, consistency_ |-> body.consistency_,
               page_size_ |-> body.page_size_, paging_state_ |-> body.paging_state_,
               serial_consistency_ |-> body.serial_consistency_, values_ |-> body.values_]
  BY DEF QueryBody
<1>14. read = [query_ |-> query.value, consistency_ |-> level.value,
               page_size_ |-> page.value, paging_state_ |-> paging.value,
               serial_consistency_ |-> serial.value, values_ |-> values.value]
  BY <1>1 DEF F
<1>15. /\ read.query_ = body.query_ /\ read.consistency_ = body.consistency_
       /\ read.values_ = body.values_ /\ read.page_size_ = body.page_size_
  BY <1>4, <1>6, <1>9, <1>10, <1>14
<1>16. ~HasPagingState => read = body
  BY <1>4, <1>6, <1>9, <1>10, <1>11, <1>12, <1>13, <1>14
<1> QED
  BY <1>15, <1>16

-----------------------------------------------------------------------------
(* An ERROR is read as it was written.                                     *)
LEMMA ErrorReadBack ==
  ASSUME NEW h \in Buffers, NEW code \in Int, NEW message \in Texts, message.size < ShortValues
  PROVE  ErrorConsumed(encode_string(encode_int(h, code), message), Size(h))
           = [code |-> code, message |-> message]
<1> DEFINE b == encode_int(h, code)
           F == encode_string(b, message)
<1>1. code \in Contents /\ message.size \in Short
  BY TextType, NumberContents, ShortNumber
<1>2. b \in Buffers /\ Size(b) = Size(h) + 4
  BY <1>1, EncodeInt
<1>3. F \in Buffers /\ Goes(b, F)
  BY <1>2, EncodeString
<1>4. decode_int(F, Size(h)) = [value |-> code, next |-> Size(b)]
  BY <1>1, <1>2, <1>3, DecodeInt
<1>5. Goes(F, F)
  BY <1>3, GoesOn
<1> HIDE DEF b
<1>6. decode_string(F, Size(b)) = [value |-> message, next |-> Size(F)]
  BY <1>1, <1>2, <1>3, <1>5, DecodeString
<1> HIDE DEF F
<1>7. ErrorConsumed(F, Size(h)) = [code |-> code, message |-> message]
  BY <1>4, <1>6 DEF ErrorConsumed
<1> QED
  BY <1>7 DEF b, F

(* Entries that encode_string can announce, each with a key of its own.    *)
ShortEntries ==
  {entries \in Seq(Entry) :
     /\ Len(entries) \in Counts
     /\ \A i \in 1..Len(entries) :
          entries[i].key.size \in Short /\ entries[i].value.size \in Short
     /\ \A i, j \in 1..Len(entries) : entries[i].key = entries[j].key => i = j}

(* A new key is added.                                                     *)
LEMMA EntryAdded ==
  ASSUME NEW entries \in ShortEntries, NEW i \in 1..Len(entries)
  PROVE  WithEntry({entries[j] : j \in 1..(i - 1)}, entries[i].key, entries[i].value)
           = {entries[j] : j \in 1..i}
<1>1. /\ entries \in Seq(Entry) /\ Len(entries) \in Nat
      /\ \A j \in 1..Len(entries) : entries[j].key = entries[i].key => j = i
  BY DEF ShortEntries
<1>2. \A j \in 1..(i - 1) : j \in 1..Len(entries) /\ j # i
  BY <1>1
<1>3. ~\E e \in {entries[j] : j \in 1..(i - 1)} : e.key = entries[i].key
  BY <1>1, <1>2
<1>4. entries[i] \in Entry
  BY <1>1
<1>5. entries[i] = [key |-> entries[i].key, value |-> entries[i].value]
  BY <1>4 DEF Entry
<1>6. WithEntry({entries[j] : j \in 1..(i - 1)}, entries[i].key, entries[i].value)
        = {entries[j] : j \in 1..(i - 1)} \cup {entries[i]}
  BY <1>3, <1>5 DEF WithEntry
<1>7. \A j : j \in 1..i <=> j \in 1..(i - 1) \/ j = i
  BY <1>1
<1>8. {entries[j] : j \in 1..(i - 1)} \cup {entries[i]} = {entries[j] : j \in 1..i}
  BY <1>7, Zenon
<1> QED
  BY <1>6, <1>8

(* A map is read as it was written: for the position behind entry i, the   *)
(* reader has the first i of them.                                         *)
LEMMA MapReadBack ==
  ASSUME NEW b \in Buffers, NEW entries \in ShortEntries,
         NEW F \in Buffers, Goes(encode_string_map(b, entries), F)
  PROVE  decode_string_map(F, Size(b)).value = {entries[j] : j \in 1..Len(entries)}
<1> DEFINE n == Len(entries)
           len == decode_short(F, Size(b))
           N == Rounds(len.value)
           Eq(f) == f = [i \in 0..N |->
                           IF i = 0
                             THEN [entries |-> {}, next |-> len.next]
                             ELSE NextEntry(F, f[i - 1])]
           e == CHOOSE f : Eq(f)
           First(i) == {entries[j] : j \in 1..i}
<1>1. decode_string_map(F, Size(b)) = [value |-> e[N].entries, next |-> e[N].next]
  BY Zenon DEF decode_string_map
<1> HIDE DEF e
<1>2. /\ n \in Nat /\ n \in Int /\ 0 \in 0..n /\ n \in 0..n /\ n \in Counts
      /\ entries \in Seq(Entry)
      /\ \A i \in 1..n : /\ entries[i] \in Entry
                         /\ entries[i].key \in Texts /\ entries[i].value \in Texts
                         /\ entries[i].key.size \in Short /\ entries[i].value.size \in Short
  <2>1. /\ entries \in Seq(Entry) /\ n \in Counts
        /\ \A i \in 1..n : entries[i].key.size \in Short /\ entries[i].value.size \in Short
    BY DEF ShortEntries
  <2>2. n \in Nat
    BY <2>1 DEF Counts
  <2>3. n \in Int /\ 0 \in 0..n /\ n \in 0..n
    BY <2>2
  <2>4. \A i \in 1..n : entries[i] \in Entry
    BY <2>1
  <2>5. \A i \in 1..n : entries[i].key \in Texts /\ entries[i].value \in Texts
    BY <2>4 DEF Entry
  <2> QED
    BY <2>1, <2>2, <2>3, <2>4, <2>5
<1>3. PICK after : MapSteps(b, entries, after)
  BY <1>2, MapWritten
<1>4. /\ after[0] = encode_short(b, n) /\ after[n] = encode_string_map(b, entries)
      /\ \A i \in 0..n : after[i] \in Buffers
      /\ \A i \in 1..n : after[i] = WithEntryWritten(after[i - 1], entries[i])
  BY <1>3 DEF MapSteps
<1>5. \A i \in 1..n : WithEntry(First(i - 1), entries[i].key, entries[i].value) = First(i)
  BY EntryAdded
<1>6. First(0) = {}
  OBVIOUS
<1> HIDE DEF n, First
<1>7. ASSUME NEW i \in 1..n
      PROVE  /\ after[i - 1] \in Buffers /\ after[i] \in Buffers
             /\ encode_string(after[i - 1], entries[i].key) \in Buffers
             /\ Goes(after[i - 1], after[i])
             /\ Goes(encode_string(after[i - 1], entries[i].key), after[i])
  <2>1. after[i - 1] \in Buffers /\ entries[i] \in Entry
    BY <1>2, <1>4
  <2> QED
    BY <1>4, <2>1, EntryWritten
<1>8. \A i \in 0..n : Goes(after[i], F)
  <2>1. \A i \in 0..n : Goes(after[i], after[n])
    BY <1>2, <1>4, <1>7, StepsGo
  <2>2. Goes(after[n], F) /\ after[n] \in Buffers
    BY <1>2, <1>4
  <2> QED
    BY <1>4, <2>1, <2>2, GoesOn
<1>9. len = [value |-> n, next |-> Size(after[0])]
  <2>1. Goes(encode_short(b, n), F)
    BY <1>2, <1>4, <1>8
  <2>2. Size(after[0]) = Size(b) + 2
    BY <1>2, <1>4, EncodeShort
  <2> QED
    BY <1>2, <2>1, <2>2, DecodeShort, CountIs
<1>10. N = n /\ len.next = Size(after[0])
  BY <1>2, <1>9, CountIs
<1> HIDE DEF N, len
<1>11. ASSUME NEW i \in 1..n, NEW p,
              p = [entries |-> First(i - 1), next |-> Size(after[i - 1])]
       PROVE  NextEntry(F, p) = [entries |-> First(i), next |-> Size(after[i])]
  <2> DEFINE key == entries[i].key
             value == entries[i].value
             c == encode_string(after[i - 1], key)
  <2>1. /\ after[i - 1] \in Buffers /\ after[i] \in Buffers /\ c \in Buffers
        /\ Goes(c, after[i]) /\ Goes(after[i], F)
    BY <1>2, <1>7, <1>8
  <2>2. after[i] = encode_string(c, value)
    BY <1>4 DEF WithEntryWritten
  <2>3. key \in Texts /\ value \in Texts /\ key.size \in Short /\ value.size \in Short
    BY <1>2
  <2>4. Goes(c, F)
    BY <2>1, GoesOn
  <2>5. decode_string(F, Size(after[i - 1])) = [value |-> key, next |-> Size(c)]
    BY <2>1, <2>3, <2>4, DecodeString
  <2> HIDE DEF c
  <2>6. decode_string(F, Size(c)) = [value |-> value, next |-> Size(after[i])]
    BY <2>1, <2>2, <2>3, DecodeString
  <2>7. WithEntry(First(i - 1), key, value) = First(i)
    BY <1>5
  <2> HIDE DEF key, value
  <2>8. p.entries = First(i - 1) /\ p.next = Size(after[i - 1])
    BY <1>11
  <2> QED
    BY <2>5, <2>6, <2>7, <2>8 DEF NextEntry
<1> DEFINE g == [i \in 0..n |-> [entries |-> First(i), next |-> Size(after[i])]]
<1>12. Eq(g)
  <2>1. ASSUME NEW i \in 1..n PROVE g[i] = NextEntry(F, g[i - 1])
    <3>1. i - 1 \in 0..n /\ i \in 0..n
      BY <1>2
    <3>2. g[i] = [entries |-> First(i), next |-> Size(after[i])]
          /\ g[i - 1] = [entries |-> First(i - 1), next |-> Size(after[i - 1])]
      BY <3>1
    <3> HIDE DEF g
    <3> QED
      BY <1>11, <3>2
  <2>2. g[0] = [entries |-> {}, next |-> len.next]
    BY <1>2, <1>6, <1>10
  <2>3. \A i \in 0..n : g[i] = IF i = 0 THEN [entries |-> {}, next |-> len.next]
                                        ELSE NextEntry(F, g[i - 1])
    <3> HIDE DEF g
    <3> QED
      BY <1>2, <2>1, <2>2
  <2> QED
    BY <1>10, <2>3
<1>13. Eq(e)
  <2> HIDE DEF Eq, g
  <2> QED
    BY <1>12 DEF e
<1>14. /\ e[0] = [entries |-> {}, next |-> len.next]
       /\ \A i \in 1..n : e[i] = NextEntry(F, e[i - 1])
  <2>1. e = [i \in 0..n |-> IF i = 0 THEN [entries |-> {}, next |-> len.next]
                                     ELSE NextEntry(F, e[i - 1])]
    BY <1>10, <1>13
  <2> HIDE DEF Eq
  <2>2. \A i \in 0..n : e[i] = IF i = 0 THEN [entries |-> {}, next |-> len.next]
                                        ELSE NextEntry(F, e[i - 1])
    BY <2>1
  <2>3. \A i \in 1..n : i \in 0..n /\ i # 0
    BY <1>2
  <2> QED
    BY <1>2, <2>2, <2>3
<1> DEFINE S == {i \in 0..n : e[i] = [entries |-> First(i), next |-> Size(after[i])]}
<1>15. 0 \in S
  BY <1>2, <1>6, <1>10, <1>14
<1>16. ASSUME NEW i \in 1..n, i - 1 \in S PROVE i \in S
  <2>1. i \in 0..n /\ e[i - 1] = [entries |-> First(i - 1), next |-> Size(after[i - 1])]
    BY <1>2, <1>16
  <2>2. e[i] = [entries |-> First(i), next |-> Size(after[i])]
    BY <1>11, <1>14, <2>1
  <2> QED
    BY <2>1, <2>2
<1>17. \A i \in 0..n : i \in S
  <2> HIDE DEF S
  <2> QED
    BY <1>2, <1>15, <1>16, UpTo
<1>18. e[n].entries = First(n)
  <2>1. e[n] = [entries |-> First(n), next |-> Size(after[n])]
    BY <1>2, <1>17
  <2> QED
    BY <2>1
<1> QED
  BY <1>1, <1>10, <1>18 DEF n, First

(* A STARTUP is read as it was written, the version being there.           *)
LEMMA StartupReadBack ==
  ASSUME NEW h \in Buffers, Size(h) = Reserved, body \in StartupBody,
         body.cql_version.size > 0, body.cql_version.size < ShortValues,
         body.compression.size < ShortValues
  PROVE  StartupConsumed(encode_string_map(h, StartupOptions)) = body
<1> DEFINE one == [key |-> COMPRESSION, value |-> body.compression]
           two == [key |-> CQL_VERSION, value |-> body.cql_version]
           F == encode_string_map(h, StartupOptions)
<1>1. /\ one \in Entry /\ two \in Entry
      /\ body.compression.size \in Nat /\ body.cql_version.size \in Nat
      /\ StartupOptions \in Seq(Entry)
      /\ StartupOptions = IF body.compression.size > 0 THEN <<one, two>> ELSE <<two>>
  BY OptionsAre
<1>2. body.compression.size \in Short /\ body.cql_version.size \in Short
  BY <1>1, ShortNumber
<1>3. one.key.size \in Short /\ two.key.size \in Short
  <2>1. one.key.size = 11 /\ two.key.size = 11 /\ 11 \in Nat /\ 11 < 70
    BY OptionsAre
  <2> QED
    BY <2>1, ShortNumber
<1>4. COMPRESSION # CQL_VERSION
  <2>1. COMPRESSION.id = "COMPRESSION" /\ CQL_VERSION.id = "CQL_VERSION"
    BY DEF COMPRESSION, CQL_VERSION, Text
  <2> QED
    BY <2>1
<1>5. /\ one.key = COMPRESSION /\ one.value = body.compression
      /\ two.key = CQL_VERSION /\ two.value = body.cql_version
  OBVIOUS
<1> HIDE DEF one, two
<1>6. StartupOptions \in ShortEntries
  <2>1. CASE body.compression.size > 0
    <3>1. Len(StartupOptions) = 2 /\ StartupOptions[1] = one /\ StartupOptions[2] = two
      BY <1>1, <2>1
    <3>2. \A i \in 1..2 : i = 1 \/ i = 2
      OBVIOUS
    <3>3. 2 \in Counts
      BY SerializationAssumption DEF Counts
    <3> QED
      BY <1>1, <1>2, <1>3, <1>4, <1>5, <3>1, <3>2, <3>3 DEF ShortEntries
  <2>2. CASE ~(body.compression.size > 0)
    <3>1. Len(StartupOptions) = 1 /\ StartupOptions[1] = two
      BY <1>1, <2>2
    <3>2. \A i \in 1..1 : i = 1
      OBVIOUS
    <3>3. 1 \in Counts
      BY SerializationAssumption DEF Counts
    <3> QED
      BY <1>1, <1>2, <1>3, <1>5, <3>1, <3>2, <3>3 DEF ShortEntries
  <2> QED
    BY <2>1, <2>2
<1> DEFINE written == {StartupOptions[j] : j \in 1..Len(StartupOptions)}
<1>7. written = IF body.compression.size > 0 THEN {one, two} ELSE {two}
  <2>1. CASE body.compression.size > 0
    <3>1. Len(StartupOptions) = 2 /\ StartupOptions[1] = one /\ StartupOptions[2] = two
      BY <1>1, <2>1
    <3>2. \A i : i \in 1..2 <=> i = 1 \/ i = 2
      OBVIOUS
    <3> QED
      BY <2>1, <3>1, <3>2
  <2>2. CASE ~(body.compression.size > 0)
    <3>1. Len(StartupOptions) = 1 /\ StartupOptions[1] = two
      BY <1>1, <2>2
    <3>2. \A i : i \in 1..1 <=> i = 1
      OBVIOUS
    <3> QED
      BY <2>2, <3>1, <3>2
  <2> HIDE DEF written
  <2> QED
    BY <2>1, <2>2
<1>8. F \in Buffers
  BY StartupWritten
<1>9. Goes(F, F)
  BY <1>8, GoesOn
<1> DEFINE options == decode_string_map(F, Reserved).value
           option(key, default) == IF \E e \in options : e.key = key
                                     THEN (CHOOSE e \in options : e.key = key).value
                                     ELSE default
<1>10. options = IF body.compression.size > 0 THEN {one, two} ELSE {two}
  <2>1. decode_string_map(F, Size(h)).value = written
    BY <1>6, <1>8, <1>9, MapReadBack
  <2> HIDE DEF written, F
  <2> QED
    BY <1>7, <2>1
<1>11. StartupConsumed(F) = [cql_version |-> option(CQL_VERSION, Text("3.0.0", 5)),
                             compression |-> option(COMPRESSION, EmptyText)]
  BY DEF StartupConsumed
<1> HIDE DEF options, F
<1>12. option(CQL_VERSION, Text("3.0.0", 5)) = body.cql_version
  <2>1. two \in options /\ \A e \in options : e.key = CQL_VERSION => e = two
    BY <1>4, <1>5, <1>10
  <2>2. (CHOOSE e \in options : e.key = CQL_VERSION) = two
    BY <1>5, <2>1
  <2> QED
    BY <1>5, <2>1, <2>2
<1>13. option(COMPRESSION, EmptyText) = body.compression
  <2>1. CASE body.compression.size > 0
    <3>1. one \in options /\ \A e \in options : e.key = COMPRESSION => e = one
      BY <1>4, <1>5, <1>10, <2>1
    <3>2. (CHOOSE e \in options : e.key = COMPRESSION) = one
      BY <1>5, <3>1
    <3> QED
      BY <1>5, <3>1, <3>2
  <2>2. CASE ~(body.compression.size > 0)
    <3>1. ~\E e \in options : e.key = COMPRESSION
      BY <1>4, <1>5, <1>10, <2>2
    <3>2. body.compression.size = 0
      BY <1>1, <2>2
    <3>3. body.compression \in Texts
      BY OptionTexts DEF StartupBody
    <3>4. body.compression = EmptyText
      BY <3>2, <3>3, TextType
    <3> QED
      BY <3>1, <3>4
  <2> QED
    BY <2>1, <2>2
<1> HIDE DEF option
<1>14. body = [cql_version |-> body.cql_version, compression |-> body.compression]
  BY DEF StartupBody
<1> QED
  BY <1>11, <1>12, <1>13, <1>14 DEF F

-----------------------------------------------------------------------------
(* What prepare writes of a request, a server reads as it was set: query   *)
(* text, consistency, values and page size of a QUERY, and its serial      *)
(* consistency unless a paging state comes before it; the options of a     *)
(* STARTUP; the code and the message of an ERROR (BodyQuery::prepare,      *)
(* BodyStartup::prepare and consume, BodyError::prepare and consume).      *)
THEOREM RequestsReadBack == ExchangeSpec => []ReadBack
<1>1. RequestInv => ReadBack
  <2> SUFFICES ASSUME RequestInv, frame # NoFrame PROVE ReadBack
    BY DEF ReadBack, Prepared
  <2>1. BodyTypeOK /\ frame = Framed
    BY DEF RequestInv
  <2> DEFINE h == FrameHeader(FrameSize)
  <2>2. h \in Buffers /\ Size(h) = Reserved
    <3>1. /\ Framed.fields \in Buffers
          /\ Framed.size = Size(Framed.fields) + When(opcode = "QUERY" /\ SerialConsistent, 2)
      BY <2>1, FramedFilled
    <3>2. Size(Framed.fields) \in Nat /\ When(opcode = "QUERY" /\ SerialConsistent, 2) \in Nat
      BY <3>1, SizeIs DEF When
    <3>3. Framed.size \in Int
      BY <3>1, <3>2
    <3>4. FrameSize \in Int
      BY <3>3 DEF Framed
    <3> QED
      BY <2>1, <3>4, HeaderWritten DEF BodyTypeOK
  <2>3. frame.fields = BodyFields(h)
    BY <2>1 DEF Framed
  <2> HIDE DEF h
  <2>4. ASSUME opcode = "QUERY", Len(body.values_) < ShortValues,
               NEW read, read = QueryRead(frame.fields)
        PROVE  /\ \A part \in {"query_", "consistency_", "values_", "page_size_"} :
                    read[part] = body[part]
               /\ ~HasPagingState => read = body
    <3>1. frame.fields = QueryFields(h)
      BY <2>3, <2>4 DEF BodyFields
    <3>2. body \in QueryBody
      BY <2>1, <2>4 DEF BodyTypeOK
    <3>3. Len(body.values_) \in Nat
      BY <3>2 DEF QueryBody
    <3>4. Len(body.values_) \in Short
      BY <2>4, <3>3, ShortNumber
    <3>5. /\ read.query_ = body.query_ /\ read.consistency_ = body.consistency_
          /\ read.values_ = body.values_ /\ read.page_size_ = body.page_size_
          /\ ~HasPagingState => read = body
      BY <2>2, <2>4, <3>1, <3>2, <3>4, QueryReadBack
    <3> QED
      BY <3>5
  <2>5. ASSUME opcode = "STARTUP", body.cql_version.size > 0,
               body.cql_version.size < ShortValues,
               body.compression.size < ShortValues
        PROVE  StartupConsumed(frame.fields) = body
    <3>1. frame.fields = encode_string_map(h, StartupOptions)
      BY <2>3, <2>5 DEF BodyFields
    <3>2. body \in StartupBody
      BY <2>1, <2>5 DEF BodyTypeOK
    <3> QED
      BY <2>2, <2>5, <3>1, <3>2, StartupReadBack
  <2>6. ASSUME opcode = "ERROR", body.message.size < ShortValues
        PROVE  ErrorConsumed(frame.fields, Reserved) = body
    <3>1. frame.fields = encode_string(encode_int(h, body.code), body.message)
      BY <2>3, <2>6 DEF BodyFields
    <3>2. /\ body.code \in Int /\ body.message \in Texts
          /\ body = [code |-> body.code, message |-> body.message]
      BY <2>1, <2>6, OptionTexts DEF BodyTypeOK, ErrorBody
    <3> QED
      BY <2>2, <2>6, <3>1, <3>2, ErrorReadBack
  <2> QED
    BY <2>4, <2>5, <2>6 DEF ReadBack, Prepared
<1> QED
  BY <1>1, RequestInvariant, PTL

-----------------------------------------------------------------------------
(* The answers of a server.  The buffers that ListFields goes through.     *)
ListSteps(b, list, after) ==
  /\ after[0] = encode_short(b, Len(list))
  /\ \A i \in 0..Len(list) : after[i] \in Buffers
  /\ \A i \in 1..Len(list) : after[i] = encode_string(after[i - 1], list[i])
  /\ after[Len(list)] = ListFields(b, list)

(* ListFields goes through such buffers.                                   *)
LEMMA ListWritten ==
  ASSUME NEW b \in Buffers, NEW list \in Seq(Texts)
  PROVE  \E after : ListSteps(b, list, after)
<1> DEFINE n == Len(list)
           Eq(f) == f = [i \in 0..n |-> IF i = 0 THEN encode_short(b, n)
                                                 ELSE encode_string(f[i - 1], list[i])]
           e == CHOOSE f : Eq(f)
           step == [i \in 1..n |-> [c \in Buffers |-> encode_string(c, list[i])]]
<1>0. n \in Nat /\ n \in Int /\ \A i \in 1..n : list[i] \in Texts
  OBVIOUS
<1>1. ListFields(b, list) = e[n]
  BY Zenon DEF ListFields
<1>2. encode_short(b, n) \in Buffers
  BY <1>0, EncodeShort
<1>3. step \in [1..n -> [Buffers -> Buffers]]
  BY <1>0, EncodeString
<1>4. PICK f \in [0..n -> Buffers] :
        f[0] = encode_short(b, n) /\ \A i \in 1..n : f[i] = step[i][f[i - 1]]
  <2> HIDE DEF step, n
  <2>1. n \in Nat
    BY <1>0
  <2>2. \E f : Iterated(f, Buffers, encode_short(b, n), n, step)
    BY <1>2, <1>3, <2>1, Iterates
  <2> QED
    BY <2>2 DEF Iterated
<1>5. Eq(f)
  <2> HIDE DEF n
  <2>1. ASSUME NEW i \in 1..n PROVE f[i] = encode_string(f[i - 1], list[i])
    <3>1. f[i - 1] \in Buffers
      BY <1>0
    <3> QED
      BY <1>4, <3>1
  <2>2. \A i \in 0..n : f[i] = IF i = 0 THEN encode_short(b, n)
                                        ELSE encode_string(f[i - 1], list[i])
    BY <1>0, <1>4, <2>1
  <2> QED
    BY <2>2
<1>6. Eq(e)
  <2> HIDE DEF Eq
  <2> QED
    BY <1>5
<1> HIDE DEF e, n
<1>7. /\ e[0] = encode_short(b, n)
      /\ \A i \in 1..n : e[i] = encode_string(e[i - 1], list[i])
  BY <1>0, <1>6
<1>8. \A i \in 0..n : i \in {j \in 0..n : e[j] \in Buffers}
  <2> DEFINE S == {j \in 0..n : e[j] \in Buffers}
  <2>1. 0 \in S
    BY <1>0, <1>2, <1>7
  <2>2. ASSUME NEW i \in 1..n, i - 1 \in S PROVE i \in S
    <3>1. e[i - 1] \in Buffers /\ list[i] \in Texts /\ i \in 0..n
      BY <1>0, <2>2
    <3>2. e[i] \in Buffers
      BY <1>7, <3>1, EncodeString
    <3> QED
      BY <3>1, <3>2
  <2> HIDE DEF S
  <2>3. \A i \in 0..n : i \in S
    BY <1>0, <2>1, <2>2, UpTo
  <2> QED
    BY <2>3 DEF S
<1>9. ListSteps(b, list, e)
  BY <1>1, <1>7, <1>8 DEF ListSteps, n
<1> QED
  BY <1>9

(* Each of them goes on to the next.                                       *)
LEMMA ListGoes ==
  ASSUME NEW b \in Buffers, NEW list \in Seq(Texts), NEW after, ListSteps(b, list, after)
  PROVE  /\ ListFields(b, list) \in Buffers
         /\ \A i \in 0..Len(list) : Goes(after[i], ListFields(b, list))
         /\ Goes(b, ListFields(b, list))
<1> DEFINE n == Len(list)
<1>0. n \in Nat /\ n \in Int /\ 0 \in 0..n /\ n \in 0..n /\ \A i \in 1..n : list[i] \in Texts
  OBVIOUS
<1>1. /\ after[0] = encode_short(b, n) /\ after[n] = ListFields(b, list)
      /\ \A i \in 0..n : after[i] \in Buffers
      /\ \A i \in 1..n : after[i] = encode_string(after[i - 1], list[i])
  BY DEF ListSteps
<1> HIDE DEF n
<1>2. ASSUME NEW i \in 1..n PROVE Goes(after[i - 1], after[i])
  <2>1. i - 1 \in 0..n
    BY <1>0
  <2>2. after[i - 1] \in Buffers /\ list[i] \in Texts
    BY <1>0, <1>1, <2>1
  <2> QED
    BY <1>1, <2>2, EncodeString
<1>3. \A i \in 0..n : Goes(after[i], after[n])
  BY <1>0, <1>1, <1>2, StepsGo
<1>4. Goes(b, after[0]) /\ after[0] \in Buffers /\ after[n] \in Buffers /\ Goes(after[0], after[n])
  BY <1>0, <1>1, <1>3, EncodeShort
<1>5. Goes(b, after[n])
  BY <1>4, GoesOn
<1> QED
  BY <1>1, <1>3, <1>4, <1>5 DEF n

(* Lists that two bytes can announce, and those that the client can count. *)
ShortLists ==
  {list \in Seq(Texts) :
     Len(list) \in Short /\ \A i \in 1..Len(list) : list[i].size \in Short}

CountedLists == {list \in ShortLists : Len(list) \in Counts}

(* A list of strings is read as it was written.                            *)
LEMMA ListReadBack ==
  ASSUME NEW b \in Buffers, NEW list \in CountedLists,
         NEW F \in Buffers, Goes(ListFields(b, list), F)
  PROVE  decode_stringlist(F, Size(b)) = [value |-> list, next |-> Size(ListFields(b, list))]
<1> DEFINE n == Len(list)
           len == decode_short(F, Size(b))
           N == Rounds(len.value)
           Eq(f) == f = [i \in 0..N |->
                           IF i = 0
                             THEN [strings |-> << >>, next |-> len.next]
                             ELSE NextString(F, f[i - 1])]
           e == CHOOSE f : Eq(f)
           First(i) == SubSeq(list, 1, i)
<1>1. decode_stringlist(F, Size(b)) = [value |-> e[N].strings, next |-> e[N].next]
  BY Zenon DEF decode_stringlist
<1> HIDE DEF e
<1>2. /\ n \in Nat /\ n \in Int /\ 0 \in 0..n /\ n \in 0..n /\ n \in Counts
      /\ list \in Seq(Texts)
      /\ \A i \in 1..n : list[i] \in Texts /\ list[i].size \in Short
  <2>1. /\ list \in Seq(Texts) /\ n \in Counts
        /\ \A i \in 1..n : list[i].size \in Short
    BY DEF CountedLists, ShortLists
  <2>2. n \in Nat
    BY <2>1 DEF Counts
  <2>3. n \in Int /\ 0 \in 0..n /\ n \in 0..n
    BY <2>2
  <2>4. \A i \in 1..n : list[i] \in Texts
    BY <2>1
  <2> QED
    BY <2>1, <2>2, <2>3, <2>4
<1>3. PICK after : ListSteps(b, list, after)
  BY <1>2, ListWritten
<1>4. /\ after[0] = encode_short(b, n) /\ after[n] = ListFields(b, list)
      /\ \A i \in 0..n : after[i] \in Buffers
      /\ \A i \in 1..n : after[i] = encode_string(after[i - 1], list[i])
  BY <1>3 DEF ListSteps
<1>5. \A i \in 1..n : Append(First(i - 1), list[i]) = First(i)
  BY <1>2, OneMore
<1>6. First(0) = << >> /\ First(n) = list
  BY <1>2, SubSeqFull
<1>7. ListFields(b, list) \in Buffers /\ \A i \in 0..n : Goes(after[i], ListFields(b, list))
  BY <1>2, <1>3, ListGoes
<1> HIDE DEF n, First
<1>8. \A i \in 0..n : Goes(after[i], F)
  BY <1>4, <1>7, GoesOn
<1>9. len = [value |-> n, next |-> Size(after[0])]
  <2>1. Goes(encode_short(b, n), F)
    BY <1>2, <1>4, <1>8
  <2>2. Size(after[0]) = Size(b) + 2
    BY <1>2, <1>4, EncodeShort
  <2> QED
    BY <1>2, <2>1, <2>2, DecodeShort, CountIs
<1>10. N = n /\ len.next = Size(after[0])
  BY <1>2, <1>9, CountIs
<1> HIDE DEF N, len
<1>11. ASSUME NEW i \in 1..n, NEW p,
              p = [strings |-> First(i - 1), next |-> Size(after[i - 1])]
       PROVE  NextString(F, p) = [strings |-> First(i), next |-> Size(after[i])]
  <2>1. i - 1 \in 0..n /\ i \in 0..n
    BY <1>2
  <2>2. /\ after[i - 1] \in Buffers /\ list[i] \in Texts /\ list[i].size \in Short
        /\ after[i] = encode_string(after[i - 1], list[i]) /\ Goes(after[i], F)
    BY <1>2, <1>4, <1>8, <2>1
  <2>3. decode_string(F, Size(after[i - 1])) = [value |-> list[i], next |-> Size(after[i])]
    BY <2>2, DecodeString
  <2>4. Append(First(i - 1), list[i]) = First(i)
    BY <1>5
  <2>5. p.strings = First(i - 1) /\ p.next = Size(after[i - 1])
    BY <1>11
  <2> QED
    BY <2>3, <2>4, <2>5 DEF NextString
<1> DEFINE g == [i \in 0..n |-> [strings |-> First(i), next |-> Size(after[i])]]
<1>12. Eq(g)
  <2>1. ASSUME NEW i \in 1..n PROVE g[i] = NextString(F, g[i - 1])
    <3>1. i - 1 \in 0..n /\ i \in 0..n
      BY <1>2
    <3>2. g[i] = [strings |-> First(i), next |-> Size(after[i])]
          /\ g[i - 1] = [strings |-> First(i - 1), next |-> Size(after[i - 1])]
      BY <3>1
    <3> HIDE DEF g
    <3> QED
      BY <1>11, <3>2
  <2>2. g[0] = [strings |-> << >>, next |-> len.next]
    BY <1>2, <1>6, <1>10
  <2>3. \A i \in 0..n : g[i] = IF i = 0 THEN [strings |-> << >>, next |-> len.next]
                                        ELSE NextString(F, g[i - 1])
    <3> HIDE DEF g
    <3> QED
      BY <1>2, <2>1, <2>2
  <2> QED
    BY <1>10, <2>3
<1>13. Eq(e)
  <2> HIDE DEF Eq, g
  <2> QED
    BY <1>12 DEF e
<1>14. /\ e[0] = [strings |-> << >>, next |-> len.next]
       /\ \A i \in 1..n : e[i] = NextString(F, e[i - 1])
  <2>1. e = [i \in 0..n |-> IF i = 0 THEN [strings |-> << >>, next |-> len.next]
                                     ELSE NextString(F, e[i - 1])]
    BY <1>10, <1>13
  <2> HIDE DEF Eq
  <2>2. \A i \in 0..n : e[i] = IF i = 0 THEN [strings |-> << >>, next |-> len.next]
                                        ELSE NextString(F, e[i - 1])
    BY <2>1
  <2>3. \A i \in 1..n : i \in 0..n /\ i # 0
    BY <1>2
  <2> QED
    BY <1>2, <2>2, <2>3
<1> DEFINE S == {i \in 0..n : e[i] = [strings |-> First(i), next |-> Size(after[i])]}
<1>15. 0 \in S
  BY <1>2, <1>6, <1>10, <1>14
<1>16. ASSUME NEW i \in 1..n, i - 1 \in S PROVE i \in S
  <2>1. i \in 0..n /\ e[i - 1] = [strings |-> First(i - 1), next |-> Size(after[i - 1])]
    BY <1>2, <1>16
  <2>2. e[i] = [strings |-> First(i), next |-> Size(after[i])]
    BY <1>11, <1>14, <2>1
  <2> QED
    BY <2>1, <2>2
<1>17. \A i \in 0..n : i \in S
  <2> HIDE DEF S
  <2> QED
    BY <1>2, <1>15, <1>16, UpTo
<1>18. e[n].strings = list /\ e[n].next = Size(ListFields(b, list))
  <2>1. e[n] = [strings |-> First(n), next |-> Size(after[n])]
    BY <1>2, <1>17
  <2> QED
    BY <1>4, <1>6, <2>1
<1> QED
  BY <1>1, <1>10, <1>18

(* A list that the client cannot count is read as an empty one.            *)
LEMMA LongListRead ==
  ASSUME NEW b \in Buffers, NEW list \in ShortLists, list \notin CountedLists,
         NEW F \in Buffers, Goes(ListFields(b, list), F)
  PROVE  decode_stringlist(F, Size(b)).value = << >>
<1> DEFINE n == Len(list)
           len == decode_short(F, Size(b))
           N == Rounds(len.value)
           Eq(f) == f = [i \in 0..N |->
                           IF i = 0
                             THEN [strings |-> << >>, next |-> len.next]
                             ELSE NextString(F, f[i - 1])]
           e == CHOOSE f : Eq(f)
<1>1. decode_stringlist(F, Size(b)) = [value |-> e[N].strings, next |-> e[N].next]
  BY Zenon DEF decode_stringlist
<1> HIDE DEF e
<1>2. list \in Seq(Texts) /\ n \in Nat /\ n \in Short /\ n \notin Counts /\ 0 \in 0..n
  BY DEF CountedLists, ShortLists
<1>3. PICK after : ListSteps(b, list, after)
  BY <1>2, ListWritten
<1>4. Goes(encode_short(b, n), F)
  <2>1. /\ after[0] = encode_short(b, n) /\ after[0] \in Buffers
        /\ ListFields(b, list) \in Buffers /\ Goes(after[0], ListFields(b, list))
    BY <1>2, <1>3, ListGoes DEF ListSteps
  <2> QED
    BY <2>1, GoesOn
<1> HIDE DEF n
<1>5. N = 0
  <2>1. len = [value |-> Signed(n), next |-> Size(b) + 2]
    BY <1>2, <1>4, DecodeShort
  <2> QED
    BY <1>2, <2>1, NoRounds
<1> HIDE DEF N, len
<1> DEFINE g == [i \in 0..0 |-> [strings |-> << >>, next |-> len.next]]
<1>6. Eq(g)
  BY <1>5
<1>7. Eq(e)
  <2> HIDE DEF Eq, g
  <2> QED
    BY <1>6 DEF e
<1>8. e[0] = [strings |-> << >>, next |-> len.next]
  BY <1>5, <1>7
<1> QED
  BY <1>1, <1>5, <1>8

(* What is known of a SUPPORTED.                                           *)
LEMMA SupportedType ==
  ASSUME NEW entries \in Supported
  PROVE  /\ Len(entries) \in Nat /\ Len(entries) \in Short
         /\ DOMAIN entries = 1..Len(entries)
         /\ \A i \in 1..Len(entries) : /\ entries[i].key \in Texts
                                       /\ entries[i].key.size \in Short
                                       /\ entries[i].value \in ShortLists
<1>1. /\ IsShortSeq(entries)
      /\ \A i \in DOMAIN entries :
           /\ IsShortText(entries[i].key)
           /\ IsShortSeq(entries[i].value)
           /\ \A j \in DOMAIN entries[i].value : IsShortText(entries[i].value[j])
  BY ExchangeAssumption
<1>2. Len(entries) \in Nat /\ Len(entries) < ShortValues /\ DOMAIN entries = 1..Len(entries)
  BY <1>1 DEF IsShortSeq
<1>3. Len(entries) \in Short
  BY <1>2, ShortNumber
<1>4. ASSUME NEW i \in 1..Len(entries)
      PROVE  /\ entries[i].key \in Texts /\ entries[i].key.size \in Short
             /\ entries[i].value \in ShortLists
  <2> DEFINE key == entries[i].key
             list == entries[i].value
  <2>1. i \in DOMAIN entries
    BY <1>2
  <2>2. IsShortText(key) /\ IsShortSeq(list) /\ \A j \in DOMAIN list : IsShortText(list[j])
    BY <1>1, <2>1
  <2>3. EntryTexts(entries[i]) \subseteq Texts
    <3>1. EntryTexts(entries[i]) \subseteq SupportedTexts(entries)
      BY <2>1 DEF SupportedTexts
    <3>2. SupportedTexts(entries) \subseteq ServerTexts
      BY DEF ServerTexts
    <3> QED
      BY <3>1, <3>2 DEF Texts
  <2>4. key \in Texts /\ \A j \in DOMAIN list : list[j] \in Texts
    BY <2>3 DEF EntryTexts
  <2> HIDE DEF key, list
  <2>5. key.size \in Short
    BY <2>2, ShortNumber DEF IsShortText, IsText
  <2>6. /\ list \in Seq({list[j] : j \in DOMAIN list})
        /\ Len(list) \in Nat /\ Len(list) < ShortValues /\ DOMAIN list = 1..Len(list)
    BY <2>2 DEF IsShortSeq
  <2>7. list \in Seq(Texts)
    BY <2>4, <2>6
  <2>8. Len(list) \in Short
    BY <2>6, ShortNumber
  <2>9. \A j \in 1..Len(list) : list[j].size \in Short
    BY <2>2, <2>6, ShortNumber DEF IsShortText, IsText
  <2>10. list \in ShortLists
    BY <2>7, <2>8, <2>9 DEF ShortLists
  <2> QED
    BY <2>4, <2>5, <2>10 DEF key, list
<1> QED
  BY <1>2, <1>3, <1>4

(* An option of a SUPPORTED, written; and the buffers that SupportedFields *)
(* goes through.                                                           *)
OptionWritten(b, entry) == ListFields(encode_string(b, entry.key), entry.value)

SupportedSteps(entries, after) ==
  /\ after[0] = encode_short(<< >>, Len(entries))
  /\ \A i \in 0..Len(entries) : after[i] \in Buffers
  /\ \A i \in 1..Len(entries) : after[i] = OptionWritten(after[i - 1], entries[i])
  /\ after[Len(entries)] = SupportedFields(entries)

(* An option goes on from what was written before.                         *)
LEMMA OptionGoes ==
  ASSUME NEW b \in Buffers, NEW entry, entry.key \in Texts, entry.value \in ShortLists
  PROVE  /\ encode_string(b, entry.key) \in Buffers
         /\ OptionWritten(b, entry) \in Buffers
         /\ Goes(b, OptionWritten(b, entry))
         /\ Goes(encode_string(b, entry.key), OptionWritten(b, entry))
<1> DEFINE c == encode_string(b, entry.key)
           d == ListFields(c, entry.value)
<1>1. c \in Buffers /\ Goes(b, c)
  BY EncodeString
<1>2. entry.value \in Seq(Texts)
  BY DEF ShortLists
<1> HIDE DEF c
<1>3. PICK after : ListSteps(c, entry.value, after)
  BY <1>1, <1>2, ListWritten
<1>4. d \in Buffers /\ Goes(c, d)
  BY <1>1, <1>2, <1>3, ListGoes
<1>5. Goes(b, d)
  BY <1>1, <1>4, GoesOn
<1> QED
  BY <1>1, <1>4, <1>5 DEF OptionWritten, c

(* SupportedFields goes through such buffers.                              *)
LEMMA SupportedWritten ==
  ASSUME NEW entries \in Supported
  PROVE  \E after : SupportedSteps(entries, after)
<1> DEFINE n == Len(entries)
           Eq(f) == f = [i \in 0..n |->
                           IF i = 0
                             THEN encode_short(<< >>, n)
                             ELSE ListFields(encode_string(f[i - 1], entries[i].key),
                                             entries[i].value)]
           e == CHOOSE f : Eq(f)
           step == [i \in 1..n |-> [c \in Buffers |-> OptionWritten(c, entries[i])]]
<1>0. /\ n \in Nat
      /\ \A i \in 1..n : entries[i].key \in Texts /\ entries[i].value \in ShortLists
  BY SupportedType
<1>1. SupportedFields(entries) = e[n]
  BY Zenon DEF SupportedFields
<1>2. encode_short(<< >>, n) \in Buffers
  BY <1>0, EmptyBuffer, EncodeShort
<1>3. step \in [1..n -> [Buffers -> Buffers]]
  BY <1>0, OptionGoes
<1> HIDE DEF n
<1>4. PICK f \in [0..n -> Buffers] :
        f[0] = encode_short(<< >>, n) /\ \A i \in 1..n : f[i] = step[i][f[i - 1]]
  <2> HIDE DEF step
  <2>2. \E f : Iterated(f, Buffers, encode_short(<< >>, n), n, step)
    BY <1>0, <1>2, <1>3, Iterates
  <2> QED
    BY <2>2 DEF Iterated
<1>5. Eq(f)
  <2>1. ASSUME NEW i \in 1..n PROVE f[i] = OptionWritten(f[i - 1], entries[i])
    <3>1. f[i - 1] \in Buffers
      BY <1>0
    <3> QED
      BY <1>4, <3>1
  <2>2. \A i \in 0..n : f[i] = IF i = 0
                                 THEN encode_short(<< >>, n)
                                 ELSE ListFields(encode_string(f[i - 1], entries[i].key),
                                                 entries[i].value)
    BY <1>0, <1>4, <2>1 DEF OptionWritten
  <2> QED
    BY <2>2
<1>6. Eq(e)
  <2> HIDE DEF Eq
  <2> QED
    BY <1>5
<1> HIDE DEF e
<1>7. /\ e[0] = encode_short(<< >>, n)
      /\ \A i \in 1..n : e[i] = OptionWritten(e[i - 1], entries[i])
  BY <1>0, <1>6 DEF OptionWritten
<1>8. \A i \in 0..n : i \in {j \in 0..n : e[j] \in Buffers}
  <2> DEFINE S == {j \in 0..n : e[j] \in Buffers}
  <2>1. 0 \in S
    BY <1>0, <1>2, <1>7
  <2>2. ASSUME NEW i \in 1..n, i - 1 \in S PROVE i \in S
    <3>1. e[i - 1] \in Buffers /\ i \in 0..n
          /\ entries[i].key \in Texts /\ entries[i].value \in ShortLists
      BY <1>0, <2>2
    <3>2. e[i] \in Buffers
      BY <1>7, <3>1, OptionGoes
    <3> QED
      BY <3>1, <3>2
  <2> HIDE DEF S
  <2>3. \A i \in 0..n : i \in S
    BY <1>0, <2>1, <2>2, UpTo
  <2> QED
    BY <2>3 DEF S
<1>9. SupportedSteps(entries, e)
  BY <1>1, <1>7, <1>8 DEF SupportedSteps, n
<1> QED
  BY <1>9

(* What the client reads of a list; the first option of every key among    *)
(* the first i, and the entries that a map has of them.                    *)
ReadOf(list) == IF list \in CountedLists THEN list ELSE << >>

Firsts(entries, i) == {j \in 1..i : \A k \in 1..(j - 1) : entries[k].key # entries[j].key}

FirstEntries(entries, i) ==
  {[key |-> entries[j].key, value |-> ReadOf(entries[j].value)] : j \in Firsts(entries, i)}

(* A key has a first option.                                               *)
LEMMA FirstOfKey ==
  ASSUME NEW entries, NEW n \in Nat, NEW i \in 1..n
  PROVE  \E j \in Firsts(entries, n) : j <= i /\ entries[j].key = entries[i].key
<1> DEFINE S == {j \in 1..n : entries[j].key = entries[i].key}
<1>1. S \in SUBSET Nat /\ i \in S
  OBVIOUS
<1>2. PICK j \in S : \A m \in S : j <= m
  BY <1>1, Smallest
<1>3. \A k \in 1..(j - 1) : k \in 1..n /\ ~(j <= k)
  OBVIOUS
<1>4. \A k \in 1..(j - 1) : entries[k].key # entries[j].key
  BY <1>2, <1>3
<1> QED
  BY <1>1, <1>2, <1>4 DEF Firsts

(* insert keeps the first option of every key.                             *)
LEMMA FirstEntriesStep ==
  ASSUME NEW entries, NEW i \in Nat, i > 0
  PROVE  WithEntry(FirstEntries(entries, i - 1), entries[i].key, ReadOf(entries[i].value))
           = FirstEntries(entries, i)
<1> DEFINE new == [key |-> entries[i].key, value |-> ReadOf(entries[i].value)]
<1>1. \A j \in Nat : j \in 1..i <=> j \in 1..(i - 1) \/ j = i
  OBVIOUS
<1>2. CASE \E k \in 1..(i - 1) : entries[k].key = entries[i].key
  <2>1. PICK k \in 1..(i - 1) : entries[k].key = entries[i].key
    BY <1>2
  <2>2. i - 1 \in Nat
    OBVIOUS
  <2>3. PICK j \in Firsts(entries, i - 1) : entries[j].key = entries[k].key
    BY <2>2, FirstOfKey
  <2>4. \E e \in FirstEntries(entries, i - 1) : e.key = entries[i].key
    <3>1. PICK e : e = [key |-> entries[j].key, value |-> ReadOf(entries[j].value)]
      OBVIOUS
    <3>2. e \in FirstEntries(entries, i - 1)
      BY <2>3, <3>1 DEF FirstEntries
    <3>3. e.key = entries[i].key
      BY <2>1, <2>3, <3>1
    <3> QED
      BY <3>2, <3>3
  <2>5. Firsts(entries, i) = Firsts(entries, i - 1)
    BY <1>2 DEF Firsts
  <2> QED
    BY <2>4, <2>5 DEF WithEntry, FirstEntries
<1>3. CASE ~\E k \in 1..(i - 1) : entries[k].key = entries[i].key
  <2>1. \A j \in Firsts(entries, i - 1) : j \in 1..(i - 1)
    BY DEF Firsts
  <2>2. ~\E e \in FirstEntries(entries, i - 1) : e.key = entries[i].key
    BY <1>3, <2>1 DEF FirstEntries
  <2>3. Firsts(entries, i) = Firsts(entries, i - 1) \cup {i}
    BY <1>3 DEF Firsts
  <2>4. FirstEntries(entries, i) = FirstEntries(entries, i - 1) \cup {new}
    BY <2>3 DEF FirstEntries
  <2> QED
    BY <2>2, <2>4 DEF WithEntry
<1> QED
  BY <1>2, <1>3

(* D has the entries of E, and no other ones for their keys.               *)
Kept(E, D) == \A x : x \in E => x \in D /\ \A d \in D : d.key = x.key => d = x

(* insert changes no entry.                                                *)
LEMMA EntriesKept ==
  ASSUME NEW E, NEW D, Kept(E, D), NEW key, NEW value
  PROVE  Kept(E, WithEntry(D, key, value))
<1> DEFINE new == [key |-> key, value |-> value]
<1>1. CASE \E e \in D : e.key = key
  BY <1>1 DEF WithEntry
<1>2. CASE ~\E e \in D : e.key = key
  <2>1. WithEntry(D, key, value) = D \cup {new}
    BY <1>2 DEF WithEntry
  <2>2. new.key = key
    OBVIOUS
  <2> HIDE DEF new
  <2>3. ASSUME NEW x \in E
        PROVE  x \in D /\ x.key # key /\ \A d \in D : d.key = x.key => d = x
    BY <1>2 DEF Kept
  <2> QED
    BY <2>1, <2>2, <2>3 DEF Kept
<1> QED
  BY <1>1, <1>2

(* What the first i entries leave is kept.                                 *)
LEMMA FirstsKept ==
  ASSUME NEW entries, NEW i \in Nat
  PROVE  Kept(FirstEntries(entries, i), FirstEntries(entries, i))
<1>1. SUFFICES ASSUME NEW x \in FirstEntries(entries, i), NEW d \in FirstEntries(entries, i),
                      d.key = x.key
               PROVE  d = x
  BY DEF Kept
<1>2. PICK j \in Firsts(entries, i) :
        x = [key |-> entries[j].key, value |-> ReadOf(entries[j].value)]
  BY DEF FirstEntries
<1>3. PICK k \in Firsts(entries, i) :
        d = [key |-> entries[k].key, value |-> ReadOf(entries[k].value)]
  BY DEF FirstEntries
<1>4. entries[j].key = entries[k].key
  <2>1. x.key = entries[j].key
    BY <1>2
  <2>2. d.key = entries[k].key
    BY <1>3
  <2> QED
    BY <1>1, <2>1, <2>2
<1>5. j \in 1..i /\ k \in 1..i /\ ~(j \in 1..(k - 1)) /\ ~(k \in 1..(j - 1))
  BY <1>4 DEF Firsts
<1>6. j = k
  BY <1>5
<1> QED
  BY <1>2, <1>3, <1>6

(* The loop of decode_string_multimap over n entries, from first on, goes  *)
(* through f.                                                              *)
ListsFrom(f, F, first, n) ==
  f = [i \in 0..n |-> IF i = 0 THEN first ELSE NextList(F, f[i - 1])]

(* There is such a function, whatever is read.                             *)
LEMMA ListsGo ==
  ASSUME NEW F, NEW first, NEW n \in Nat
  PROVE  \E f : ListsFrom(f, F, first, n)
<1> DEFINE S == {k \in 0..n : \E f : ListsFrom(f, F, first, k)}
<1>1. 0 \in S
  <2> DEFINE f == [i \in 0..0 |-> first]
  <2>1. \A i \in 0..0 : i = 0
    OBVIOUS
  <2>2. f = [i \in 0..0 |-> IF i = 0 THEN first ELSE NextList(F, f[i - 1])]
    BY <2>1
  <2> HIDE DEF f
  <2>3. ListsFrom(f, F, first, 0)
    BY <2>2 DEF ListsFrom
  <2> QED
    BY <2>3
<1>2. ASSUME NEW k \in 1..n, k - 1 \in S PROVE k \in S
  <2>1. PICK f : ListsFrom(f, F, first, k - 1)
    BY <1>2
  <2>2. PICK w : w = NextList(F, f[k - 1])
    OBVIOUS
  <2> DEFINE g == [i \in 0..k |-> IF i = k THEN w ELSE f[i]]
  <2>3. ASSUME NEW i \in 0..k
        PROVE  g[i] = IF i = 0 THEN first ELSE NextList(F, g[i - 1])
    <3>1. ASSUME i # 0 PROVE i - 1 \in 0..k /\ i - 1 # k /\ g[i - 1] = f[i - 1]
      BY <3>1
    <3>2. CASE i = k
      <4>1. i # 0 /\ g[i] = w
        BY <3>2
      <4> HIDE DEF g
      <4> QED
        BY <2>2, <3>1, <3>2, <4>1
    <3>3. CASE i # k
      <4>1. i \in 0..(k - 1) /\ g[i] = f[i]
        BY <3>3
      <4> HIDE DEF g
      <4>2. f[i] = IF i = 0 THEN first ELSE NextList(F, f[i - 1])
        BY <2>1, <4>1 DEF ListsFrom
      <4> QED
        BY <3>1, <4>1, <4>2
    <3> QED
      BY <3>2, <3>3
  <2>4. g = [i \in 0..k |-> g[i]]
    OBVIOUS
  <2> HIDE DEF g
  <2>5. g = [i \in 0..k |-> IF i = 0 THEN first ELSE NextList(F, g[i - 1])]
    BY <2>3, <2>4
  <2>6. ListsFrom(g, F, first, k)
    BY <2>5 DEF ListsFrom
  <2> QED
    BY <2>6
<1> HIDE DEF S
<1>3. \A i \in 0..n : i \in S
  BY <1>1, <1>2, UpTo
<1> QED
  BY <1>3 DEF S

(* The options of a SUPPORTED are read one by one as they were written, up *)
(* to the first list that the client cannot count, itself included; what   *)
(* they leave in the map stays there.                                      *)
LEMMA SupportedReadBack ==
  ASSUME NEW entries \in Supported, Len(entries) \in Counts,
         NEW k \in 0..Len(entries),
         \A i \in 1..(k - 1) : entries[i].value \in CountedLists,
         NEW options, options = decode_string_multimap(SupportedFields(entries), 0).value
  PROVE  /\ Kept(FirstEntries(entries, k), options)
         /\ k = Len(entries) => options = FirstEntries(entries, k)
<1> DEFINE F == SupportedFields(entries)
           n == Len(entries)
           len == decode_short(F, 0)
           N == Rounds(len.value)
           Eq(f) == f = [i \in 0..N |->
                           IF i = 0
                             THEN [entries |-> {}, next |-> len.next]
                             ELSE NextList(F, f[i - 1])]
           e == CHOOSE f : Eq(f)
           First(i) == FirstEntries(entries, i)
<1>1. decode_string_multimap(F, 0) = [value |-> e[N].entries, next |-> e[N].next]
  BY Zenon DEF decode_string_multimap
<1> HIDE DEF e
<1>2. /\ n \in Nat /\ n \in Counts /\ n \in Short
      /\ \A i \in 1..n : /\ entries[i].key \in Texts /\ entries[i].key.size \in Short
                         /\ entries[i].value \in ShortLists
  BY SupportedType
<1>z. n \in Int /\ 0 \in 0..n /\ n \in 0..n /\ \A i \in 1..n : i - 1 \in 0..n /\ i \in 0..n
  BY <1>2
<1>k. k \in 0..n /\ \A i \in 1..n : i < k => entries[i].value \in CountedLists
  OBVIOUS
<1>3. PICK after : SupportedSteps(entries, after)
  BY SupportedWritten
<1>4. /\ after[0] = encode_short(<< >>, n) /\ after[n] = F
      /\ \A i \in 0..n : after[i] \in Buffers
      /\ \A i \in 1..n : after[i] = OptionWritten(after[i - 1], entries[i])
  BY <1>3 DEF SupportedSteps
<1>5. \A i \in 1..n : WithEntry(First(i - 1), entries[i].key, ReadOf(entries[i].value)) = First(i)
  BY <1>2, FirstEntriesStep
<1>6. First(0) = {}
  BY DEF FirstEntries, Firsts
<1> HIDE DEF n, First, F
<1>7. ASSUME NEW i \in 1..n
      PROVE  /\ after[i - 1] \in Buffers /\ after[i] \in Buffers
             /\ encode_string(after[i - 1], entries[i].key) \in Buffers
             /\ Goes(after[i - 1], after[i])
             /\ Goes(encode_string(after[i - 1], entries[i].key), after[i])
  <2>1. after[i - 1] \in Buffers /\ entries[i].key \in Texts /\ entries[i].value \in ShortLists
    BY <1>2, <1>z, <1>4
  <2> QED
    BY <1>4, <2>1, OptionGoes
<1>8. F \in Buffers /\ \A i \in 0..n : Goes(after[i], F)
  BY <1>2, <1>z, <1>4, <1>7, StepsGo
<1>9. len = [value |-> n, next |-> Size(after[0])] /\ Rounds(n) = n
  <2>1. Goes(encode_short(<< >>, n), F)
    BY <1>z, <1>4, <1>8
  <2>2. << >> \in Buffers /\ Size(<< >>) = 0
    BY EmptyBuffer
  <2>3. Size(after[0]) = 0 + 2
    BY <1>2, <1>4, <2>2, EncodeShort
  <2>4. decode_short(F, Size(<< >>)) = [value |-> n, next |-> Size(<< >>) + 2]
    BY <1>2, <1>8, <2>1, <2>2, DecodeShort, CountIs
  <2>5. Rounds(n) = n
    BY <1>2, CountIs
  <2> QED
    BY <2>2, <2>3, <2>4, <2>5
<1>10. N = n /\ len.next = Size(after[0])
  BY <1>9
<1> HIDE DEF N, len
<1>11. ASSUME NEW i \in 1..n, NEW p,
              p.entries = First(i - 1) /\ p.next = Size(after[i - 1])
       PROVE  /\ NextList(F, p).entries = First(i)
              /\ entries[i].value \in CountedLists => NextList(F, p).next = Size(after[i])
  <2> DEFINE key == entries[i].key
             list == entries[i].value
             c == encode_string(after[i - 1], key)
  <2>1. /\ after[i - 1] \in Buffers /\ after[i] \in Buffers /\ c \in Buffers
        /\ Goes(c, after[i]) /\ Goes(after[i], F)
    BY <1>z, <1>7, <1>8
  <2>2. after[i] = ListFields(c, list)
    BY <1>4 DEF OptionWritten
  <2>3. key \in Texts /\ key.size \in Short /\ list \in ShortLists
    BY <1>2
  <2>4. Goes(c, F)
    BY <1>8, <2>1, GoesOn
  <2>5. decode_string(F, Size(after[i - 1])) = [value |-> key, next |-> Size(c)]
    BY <1>8, <2>1, <2>3, <2>4, DecodeString
  <2> HIDE DEF c
  <2>6. PICK d : d = decode_stringlist(F, Size(c))
    OBVIOUS
  <2>7. /\ d.value = ReadOf(list)
        /\ list \in CountedLists => d.next = Size(after[i])
    <3>1. CASE list \in CountedLists
      <4>1. d = [value |-> list, next |-> Size(after[i])]
        BY <1>8, <2>1, <2>2, <2>6, <3>1, ListReadBack
      <4> QED
        BY <3>1, <4>1 DEF ReadOf
    <3>2. CASE list \notin CountedLists
      <4>1. d.value = << >>
        BY <1>8, <2>1, <2>2, <2>3, <2>6, <3>2, LongListRead
      <4> QED
        BY <3>2, <4>1 DEF ReadOf
    <3> QED
      BY <3>1, <3>2
  <2>8. WithEntry(First(i - 1), key, ReadOf(list)) = First(i)
    BY <1>5
  <2>9. NextList(F, p) = [entries |-> WithEntry(First(i - 1), key, d.value), next |-> d.next]
    <3> HIDE DEF key, list
    <3> QED
      BY <1>11, <2>5, <2>6 DEF NextList
  <2> HIDE DEF key
  <2> QED
    BY <2>7, <2>8, <2>9
<1>12. Eq(e)
  <2>1. \E g : ListsFrom(g, F, [entries |-> {}, next |-> len.next], n)
    BY <1>2, ListsGo
  <2>2. \E g : Eq(g)
    BY <1>10, <2>1 DEF ListsFrom
  <2> HIDE DEF Eq
  <2> QED
    BY <2>2 DEF e
<1>13. /\ e[0] = [entries |-> {}, next |-> len.next]
       /\ \A i \in 1..n : e[i] = NextList(F, e[i - 1])
  <2>1. e = [i \in 0..n |-> IF i = 0 THEN [entries |-> {}, next |-> len.next]
                                     ELSE NextList(F, e[i - 1])]
    BY <1>10, <1>12
  <2> HIDE DEF Eq
  <2>2. \A i \in 0..n : e[i] = IF i = 0 THEN [entries |-> {}, next |-> len.next]
                                        ELSE NextList(F, e[i - 1])
    BY <2>1
  <2>3. \A i \in 1..n : i \in 0..n /\ i # 0
    BY <1>2
  <2> QED
    BY <1>z, <2>2, <2>3
<1> HIDE DEF Eq
<1> DEFINE Reached(i) == /\ e[i].entries = First(i)
                         /\ i < k => e[i].next = Size(after[i])
           S == {i \in 0..n : i <= k => Reached(i)}
<1>14. 0 \in S
  <2>1. e[0].entries = {} /\ e[0].next = Size(after[0])
    BY <1>10, <1>13
  <2>2. Reached(0)
    BY <1>6, <2>1
  <2> QED
    BY <1>z, <2>2
<1>15. ASSUME NEW i \in 1..n, i - 1 \in S PROVE i \in S
  <2> SUFFICES ASSUME i <= k PROVE Reached(i)
    BY <1>z
  <2>0. PICK j : j = i - 1
    OBVIOUS
  <2>1. j <= k /\ j < k
    BY <1>k, <1>2, <2>0
  <2>2. e[j].entries = First(j) /\ e[j].next = Size(after[j])
    <3>1. j \in S
      BY <1>15, <2>0
    <3> QED
      BY <2>1, <3>1, Zenon
  <2>3. e[i] = NextList(F, e[i - 1])
    BY <1>13
  <2>4. i < k => entries[i].value \in CountedLists
    BY <1>k
  <2> QED
    BY <1>11, <2>0, <2>2, <2>3, <2>4
<1>16. \A i \in 0..n : i \in S
  <2> HIDE DEF S
  <2> QED
    BY <1>2, <1>14, <1>15, UpTo
<1>17. e[k].entries = First(k)
  <2>1. k \in S /\ k <= k
    BY <1>2, <1>k, <1>16
  <2> QED
    BY <2>1, Zenon
<1> DEFINE T == {i \in 0..n : k <= i => Kept(First(k), e[i].entries)}
<1>18. ASSUME NEW i \in 0..n, i = k PROVE Kept(First(k), e[i].entries)
  <2>1. k \in Nat
    BY <1>k, <1>2
  <2> QED
    BY <1>17, <1>18, <2>1, FirstsKept DEF First
<1>19. 0 \in T
  <2>1. k <= 0 => k = 0
    BY <1>k, <1>2
  <2> HIDE DEF First
  <2> QED
    BY <1>z, <1>18, <2>1
<1>20. ASSUME NEW i \in 1..n, i - 1 \in T PROVE i \in T
  <2> SUFFICES ASSUME k <= i PROVE Kept(First(k), e[i].entries)
    BY <1>z
  <2>1. CASE k = i
    BY <1>z, <1>18, <2>1
  <2>2. CASE k # i
    <3>1. k <= i - 1
      BY <1>2, <1>k, <2>2
    <3>2. Kept(First(k), e[i - 1].entries)
      BY <1>20, <3>1
    <3>3. e[i] = NextList(F, e[i - 1])
      BY <1>13
    <3>4. PICK key, list : e[i].entries = WithEntry(e[i - 1].entries, key, list)
      BY <3>3 DEF NextList
    <3> QED
      BY <3>2, <3>4, EntriesKept
  <2> QED
    BY <2>1, <2>2
<1>21. \A i \in 0..n : i \in T
  <2> HIDE DEF T
  <2> QED
    BY <1>2, <1>19, <1>20, UpTo
<1>22. Kept(First(k), e[n].entries)
  <2>1. k <= n
    BY <1>k, <1>2
  <2> QED
    BY <1>z, <1>21, <2>1
<1>23. options = e[n].entries
  BY <1>1, <1>10 DEF F
<1> QED
  BY <1>17, <1>22, <1>23 DEF n, First

(* Options that the client cannot count are not read.                      *)
LEMMA ManyOptionsRead ==
  ASSUME NEW entries \in Supported, Len(entries) \notin Counts
  PROVE  decode_string_multimap(SupportedFields(entries), 0).value = {}
<1> DEFINE F == SupportedFields(entries)
           n == Len(entries)
           len == decode_short(F, 0)
           N == Rounds(len.value)
           Eq(f) == f = [i \in 0..N |->
                           IF i = 0
                             THEN [entries |-> {}, next |-> len.next]
                             ELSE NextList(F, f[i - 1])]
           e == CHOOSE f : Eq(f)
<1>1. decode_string_multimap(F, 0) = [value |-> e[N].entries, next |-> e[N].next]
  BY Zenon DEF decode_string_multimap
<1> HIDE DEF e
<1>2. /\ n \in Nat /\ n \in Short /\ n \notin Counts /\ n \in Int
      /\ \A i \in 1..n : entries[i].key \in Texts /\ entries[i].value \in ShortLists
  BY SupportedType
<1>3. PICK after : SupportedSteps(entries, after)
  BY SupportedWritten
<1>4. /\ after[0] = encode_short(<< >>, n) /\ after[n] = F
      /\ \A i \in 0..n : after[i] \in Buffers
      /\ \A i \in 1..n : after[i] = OptionWritten(after[i - 1], entries[i])
  BY <1>3 DEF SupportedSteps
<1> HIDE DEF n, F
<1>z. 0 \in 0..n /\ n \in 0..n /\ \A i \in 1..n : i - 1 \in 0..n
  BY <1>2
<1>5. ASSUME NEW i \in 1..n PROVE Goes(after[i - 1], after[i])
  <2>1. after[i - 1] \in Buffers /\ entries[i].key \in Texts /\ entries[i].value \in ShortLists
    BY <1>2, <1>z, <1>4
  <2> QED
    BY <1>4, <2>1, OptionGoes
<1>6. F \in Buffers /\ Goes(encode_short(<< >>, n), F)
  BY <1>2, <1>z, <1>4, <1>5, StepsGo
<1>7. N = 0
  <2>1. << >> \in Buffers /\ Size(<< >>) = 0
    BY EmptyBuffer
  <2>2. decode_short(F, Size(<< >>)) = [value |-> Signed(n), next |-> Size(<< >>) + 2]
    BY <1>2, <1>6, <2>1, DecodeShort
  <2>3. len.value = Signed(n)
    BY <2>1, <2>2
  <2> QED
    BY <1>2, <2>3, NoRounds
<1> HIDE DEF N, len
<1> DEFINE g == [i \in 0..0 |-> [entries |-> {}, next |-> len.next]]
<1>8. Eq(g)
  BY <1>7
<1>9. Eq(e)
  <2> HIDE DEF Eq, g
  <2> QED
    BY <1>8 DEF e
<1>10. e[0] = [entries |-> {}, next |-> len.next]
  BY <1>7, <1>9
<1> QED
  BY <1>1, <1>7, <1>10 DEF F

(* Of the entries that a map has, the one for a key is the list that the   *)
(* server gave for it first, as far as the client can count; without one   *)
(* there is no entry.                                                      *)
LEMMA OptionIsGiven ==
  ASSUME answer \in Supported, NEW key, InReach(key),
         NEW options, options = decode_string_multimap(SupportedFields(answer), 0).value
  PROVE  Given(key) = IF \E e \in options : e.key = key
                        THEN (CHOOSE e \in options : e.key = key).value
                        ELSE << >>
<1> DEFINE n == Len(answer)
<1>1. /\ n \in Nat /\ n \in Short /\ DOMAIN answer = 1..n
      /\ \A i \in 1..n : answer[i].value \in ShortLists
  BY SupportedType
<1>2. Countable(answer) <=> n \in Counts
  BY <1>1 DEF Countable, Counts
<1>3. ASSUME NEW i \in 1..n
      PROVE  Countable(answer[i].value) <=> answer[i].value \in CountedLists
  <2>1. answer[i].value \in ShortLists /\ Len(answer[i].value) \in Nat
    BY <1>1 DEF ShortLists
  <2> QED
    BY <2>1 DEF Countable, CountedLists, Counts
<1>4. Of(key) \in SUBSET Nat /\ \A i : i \in Of(key) <=> i \in 1..n /\ answer[i].key = key
  BY <1>1 DEF Of
<1>5. CASE ~Countable(answer)
  <2>1. options = {}
    BY <1>2, <1>5, ManyOptionsRead
  <2>2. Given(key) = << >>
    BY <1>5 DEF Given
  <2> QED
    BY <2>1, <2>2
<1>6. CASE Countable(answer) /\ Of(key) = {}
  <2>1. \A i \in 1..n : answer[i].value \in CountedLists
    BY <1>1, <1>3, <1>6 DEF InReach, Ahead
  <2>2. n \in 0..n /\ \A i \in 1..(n - 1) : i \in 1..n
    BY <1>1
  <2>3. options = FirstEntries(answer, n)
    BY <1>2, <1>6, <2>1, <2>2, SupportedReadBack
  <2>4. ASSUME NEW e \in options PROVE e.key # key
    <3>1. PICK i \in Firsts(answer, n) :
            e = [key |-> answer[i].key, value |-> ReadOf(answer[i].value)]
      BY <2>3, <2>4 DEF FirstEntries
    <3>2. e.key = answer[i].key /\ i \in 1..n
      BY <3>1 DEF Firsts
    <3> QED
      BY <1>4, <1>6, <3>2
  <2>5. Given(key) = << >>
    BY <1>6 DEF Given
  <2> QED
    BY <2>4, <2>5
<1>7. CASE Countable(answer) /\ Of(key) # {}
  <2>1. PICK j \in Of(key) : \A m \in Of(key) : j <= m
    BY <1>4, <1>7, Smallest
  <2>2. j \in 1..n /\ answer[j].key = key /\ j \in Nat
    BY <1>4, <2>1
  <2>3. Min(Of(key)) = j
    <3>1. \A x \in Of(key) : (\A y \in Of(key) : x <= y) => x = j
      <4> SUFFICES ASSUME NEW x \in Of(key), \A y \in Of(key) : x <= y PROVE x = j
        OBVIOUS
      <4>1. x <= j /\ j <= x /\ x \in Nat
        BY <1>4, <2>1
      <4> QED
        BY <2>2, <4>1
    <3> QED
      BY <2>1, <3>1 DEF Min
  <2>4. \A i \in 1..(j - 1) : answer[i].key # key /\ answer[i].value \in CountedLists
    <3> SUFFICES ASSUME NEW i \in 1..(j - 1)
                 PROVE  answer[i].key # key /\ answer[i].value \in CountedLists
      OBVIOUS
    <3>1. i \in 1..n /\ i < j /\ i \in Nat
      BY <1>1, <2>2
    <3>2. \A m \in Of(key) : m \in Nat /\ i < m
      BY <1>4, <2>1, <2>2, <3>1
    <3>3. i \notin Of(key)
      BY <3>1, <3>2
    <3>4. i \in Ahead(key)
      BY <1>1, <3>1, <3>2 DEF Ahead
    <3> QED
      BY <1>3, <1>4, <1>7, <3>1, <3>3, <3>4 DEF InReach
  <2>5. Kept(FirstEntries(answer, j), options)
    <3>1. j \in 0..n
      BY <2>2
    <3> QED
      BY <1>2, <1>7, <2>4, <3>1, SupportedReadBack
  <2>6. PICK x : x = [key |-> answer[j].key, value |-> ReadOf(answer[j].value)]
    OBVIOUS
  <2>7. x.key = key /\ x.value = ReadOf(answer[j].value)
    BY <2>2, <2>6
  <2>8. x \in FirstEntries(answer, j)
    <3>1. j \in Firsts(answer, j)
      BY <2>2, <2>4 DEF Firsts
    <3> QED
      BY <2>6, <3>1 DEF FirstEntries
  <2>9. x \in options /\ \A d \in options : d.key = key => d = x
    BY <2>5, <2>7, <2>8 DEF Kept
  <2>10. (CHOOSE e \in options : e.key = key) = x
    BY <2>7, <2>9
  <2>11. Given(key) = ReadOf(answer[j].value)
    BY <1>3, <1>7, <2>2, <2>3 DEF Given, ReadOf
  <2> QED
    BY <2>7, <2>9, <2>10, <2>11
<1> QED
  BY <1>5, <1>6, <1>7

(* What is known of an answer that has arrived, and AnswerAsSent of one    *)
(* that was consumed.                                                      *)
AnswerInv ==
  /\ phase = "received" =>
       /\ opcode = "ERROR" => answer \in Errors /\ buffer = ErrorFields(answer)
       /\ opcode = "SUPPORTED" => /\ answer \in Supported
                                  /\ buffer = SupportedFields(answer)
                                  /\ body = allocate_body("SUPPORTED")
  /\ AnswerAsSent

(* BodyError::consume and BodySupported::consume, of what a server wrote.  *)
LEMMA ErrorArrives ==
  ASSUME NEW error \in Errors
  PROVE  ErrorConsumed(ErrorFields(error), 0) = error
<1>1. /\ error = [code |-> error.code, message |-> error.message]
      /\ error.code \in Int /\ IsShortText(error.message)
  BY ExchangeAssumption
<1>2. error.message \in Texts
  BY DEF Texts, ServerTexts
<1>3. error.message.size < ShortValues
  BY <1>1 DEF IsShortText
<1>4. << >> \in Buffers /\ Size(<< >>) = 0
  BY EmptyBuffer
<1>5. ErrorConsumed(encode_string(encode_int(<< >>, error.code), error.message), Size(<< >>))
        = [code |-> error.code, message |-> error.message]
  BY <1>1, <1>2, <1>3, <1>4, ErrorReadBack
<1> QED
  BY <1>1, <1>4, <1>5 DEF ErrorFields

(* What AnswerAsSent says of a SUPPORTED that was consumed into b.         *)
ListsAsSent(b) ==
  /\ InReach(COMPRESSION) => b.compression = Given(COMPRESSION)
  /\ InReach(CQL_VERSION) => b.cql_versions = Given(CQL_VERSION)

(* BodySupported::consume gets the lists of its two options.               *)
LEMMA SupportedArrives ==
  ASSUME answer \in Supported, buffer = SupportedFields(answer),
         body = allocate_body("SUPPORTED")
  PROVE  ListsAsSent(SupportedConsumed)
<1> DEFINE options == decode_string_multimap(buffer, 0).value
           option(key, default) == IF \E e \in options : e.key = key
                                     THEN (CHOOSE e \in options : e.key = key).value
                                     ELSE default
<1>1. SupportedConsumed = [compression |-> option(COMPRESSION, body.compression),
                           cql_versions |-> option(CQL_VERSION, body.cql_versions)]
  BY DEF SupportedConsumed
<1>2. body.compression = << >> /\ body.cql_versions = << >>
  BY DEF allocate_body
<1>3. options = decode_string_multimap(SupportedFields(answer), 0).value
  OBVIOUS
<1> HIDE DEF options
<1>4. ASSUME NEW key, InReach(key) PROVE option(key, << >>) = Given(key)
  BY <1>3, <1>4, OptionIsGiven
<1> HIDE DEF option
<1>5. /\ SupportedConsumed.compression = option(COMPRESSION, << >>)
      /\ SupportedConsumed.cql_versions = option(CQL_VERSION, << >>)
  BY <1>1, <1>2
<1> QED
  BY <1>4, <1>5 DEF ListsAsSent

(* Every step keeps AnswerInv.                                             *)
LEMMA AnswerStep == AnswerInv /\ [ExchangeNext]_vars => AnswerInv'
<1> SUFFICES ASSUME AnswerInv, [ExchangeNext]_vars PROVE AnswerInv'
  OBVIOUS
<1>1. CASE build
  BY <1>1 DEF build, exchangeVars, AnswerInv, AnswerAsSent
<1>2. CASE send
  BY <1>2 DEF send, AnswerInv, AnswerAsSent
<1>3. ASSUME NEW error \in Errors, receive_error(error) PROVE AnswerInv'
  <2>1. /\ phase' = "received" /\ opcode' = "ERROR" /\ answer' = error
        /\ buffer' = ErrorFields(error)
    BY <1>3 DEF receive_error, incoming
  <2>2. ErrorFields(answer)' = ErrorFields(error)
    BY <2>1 DEF ErrorFields
  <2> QED
    BY <2>1, <2>2 DEF AnswerInv, AnswerAsSent
<1>4. ASSUME NEW entries \in Supported, receive_supported(entries) PROVE AnswerInv'
  <2>1. /\ phase' = "received" /\ opcode' = "SUPPORTED" /\ answer' = entries
        /\ buffer' = SupportedFields(entries) /\ body' = allocate_body("SUPPORTED")
    BY <1>4 DEF receive_supported, incoming
  <2>2. SupportedFields(answer)' = SupportedFields(entries)
    BY <2>1 DEF SupportedFields
  <2> QED
    BY <2>1, <2>2 DEF AnswerInv, AnswerAsSent
<1>5. CASE receive_ready
  BY <1>5 DEF receive_ready, incoming, AnswerInv, AnswerAsSent
<1>6. CASE receive
  BY <1>6 DEF receive, incoming, AnswerInv, AnswerAsSent
<1>7. CASE consume_body
  <2>1. phase = "received" /\ phase' = "consumed" /\ opcode' = opcode /\ answer' = answer
    BY <1>7 DEF consume_body
  <2>2. ASSUME opcode = "ERROR" PROVE body' = answer'
    <3>1. body' = ErrorConsumed(buffer, 0)
      BY <1>7, <2>2 DEF consume_body
    <3>2. answer \in Errors /\ buffer = ErrorFields(answer)
      BY <2>1, <2>2 DEF AnswerInv
    <3> QED
      BY <2>1, <3>1, <3>2, ErrorArrives
  <2>3. ASSUME opcode = "SUPPORTED"
        PROVE  ListsAsSent(body')
    <3>1. body' = SupportedConsumed
      BY <1>7, <2>3 DEF consume_body
    <3>2. /\ answer \in Supported /\ buffer = SupportedFields(answer)
          /\ body = allocate_body("SUPPORTED")
      BY <2>1, <2>3 DEF AnswerInv
    <3> QED
      BY <3>1, <3>2, SupportedArrives
  <2>4. /\ Given(COMPRESSION)' = Given(COMPRESSION) /\ Given(CQL_VERSION)' = Given(CQL_VERSION)
        /\ InReach(COMPRESSION)' = InReach(COMPRESSION)
        /\ InReach(CQL_VERSION)' = InReach(CQL_VERSION)
    BY <2>1 DEF Given, InReach, Of, Ahead, Countable, COMPRESSION, CQL_VERSION
  <2> QED
    BY <2>1, <2>2, <2>3, <2>4 DEF AnswerInv, AnswerAsSent, ListsAsSent
<1>8. CASE iterate
  <2>1. phase = "consumed" /\ phase' = phase /\ opcode' = opcode /\ body' = body
        /\ answer' = answer
    BY <1>8 DEF iterate, prepareVars, exchangeVars
  <2>2. /\ Given(COMPRESSION)' = Given(COMPRESSION) /\ Given(CQL_VERSION)' = Given(CQL_VERSION)
        /\ InReach(COMPRESSION)' = InReach(COMPRESSION)
        /\ InReach(CQL_VERSION)' = InReach(CQL_VERSION)
    BY <2>1 DEF Given, InReach, Of, Ahead, Countable, COMPRESSION, CQL_VERSION
  <2> QED
    BY <2>1, <2>2 DEF AnswerInv, AnswerAsSent
<1>9. CASE UNCHANGED vars
  <2>1. phase' = phase /\ opcode' = opcode /\ body' = body /\ answer' = answer /\ buffer' = buffer
    BY <1>9 DEF vars, prepareVars, exchangeVars, resultVars
  <2>2. /\ Given(COMPRESSION)' = Given(COMPRESSION) /\ Given(CQL_VERSION)' = Given(CQL_VERSION)
        /\ InReach(COMPRESSION)' = InReach(COMPRESSION)
        /\ InReach(CQL_VERSION)' = InReach(CQL_VERSION)
    BY <2>1 DEF Given, InReach, Of, Ahead, Countable, COMPRESSION, CQL_VERSION
  <2>3. /\ SupportedFields(answer)' = SupportedFields(answer)
        /\ ErrorFields(answer)' = ErrorFields(answer)
        /\ allocate_body("SUPPORTED")' = allocate_body("SUPPORTED")
    BY <2>1 DEF SupportedFields, ErrorFields, allocate_body
  <2> QED
    BY <2>1, <2>2, <2>3 DEF AnswerInv, AnswerAsSent
<1> QED
  BY <1>1, <1>2, <1>3, <1>4, <1>5, <1>6, <1>7, <1>8, <1>9 DEF ExchangeNext

(* An ERROR reaches the client as the server reported it, and of a         *)
(* SUPPORTED the client has exactly the strings that the server gave first *)
(* for COMPRESSION and for CQL_VERSION, whatever options there are; it has *)
(* none where decode_short takes their number for a negative one, and      *)
(* nothing is said of an option behind such a list (BodyError::consume,    *)
(* BodySupported::consume, decode_string_multimap, decode_stringlist).     *)
THEOREM AnswersArriveAsSent == ExchangeSpec => []AnswerAsSent
<1>1. ExchangeInit => AnswerInv
  BY DEF ExchangeInit, AnswerInv, AnswerAsSent
<1>2. AnswerInv /\ [ExchangeNext]_vars => AnswerInv'
  BY AnswerStep
<1>3. AnswerInv => AnswerAsSent
  BY DEF AnswerInv
<1> QED
  BY <1>1, <1>2, <1>3, PTL DEF ExchangeSpec

-----------------------------------------------------------------------------
(* A parser that has filled in r and stands at position n.                 *)
Reading(r, n) == [into |-> r, next |-> n]

(* Reading a member sets it and moves the position.                        *)
LEMMA ReadIs ==
  ASSUME NEW r, NEW n, NEW field, NEW d
  PROVE  Read(Reading(r, n), field, d) = Reading([r EXCEPT ![field] = d.value], d.next)
<1>1. Read(Reading(r, n), field, d)
        = [Reading(r, n) EXCEPT !.into[field] = d.value, !.next = d.next]
  BY DEF Read
<1> QED
  BY <1>1 DEF Reading

(* What is known of the position.                                          *)
LEMMA ReadingIs ==
  ASSUME NEW r, NEW n
  PROVE  Reading(r, n).into = r /\ Reading(r, n).next = n
BY DEF Reading

(* The texts of a result that shorts announce.                             *)
LEMMA ShortResultTexts ==
  /\ \A t \in {ClassName, Keyspace, Table, PreparedId, Change} : t \in Texts /\ t.size \in Short
  /\ \A column \in Columns : column.name \in Texts /\ column.name.size \in Short
  /\ PageState \in Texts
<1>1. \A t \in {ClassName, Keyspace, Table, PageState, PreparedId, Change} : t \in Texts
  BY DEF Texts, ResultTexts
<1>2. ASSUME NEW t \in {ClassName, Keyspace, Table, PreparedId, Change} PROVE t.size \in Short
  <2>1. t.size \in {5, 2, 3, 4, 7}
    BY <1>2 DEF ClassName, Keyspace, Table, PreparedId, Change, Text
  <2> QED
    BY <2>1, ShortNumber
<1>3. ASSUME NEW column \in Columns PROVE column.name \in Texts /\ column.name.size \in Short
  <2>1. IsShortText(column.name)
    BY ResultAssumption
  <2>2. column.name.size \in Short
    BY <2>1, ShortNumber DEF IsShortText, IsText
  <2> QED
    BY <2>2 DEF Texts, ResultTexts
<1> QED
  BY <1>1, <1>2, <1>3

(* A string, a long string, or a number that was written next is the one   *)
(* that is read.                                                           *)
LEMMA StringRead ==
  ASSUME buffer \in Buffers, NEW b \in Buffers, NEW t \in Texts, t.size \in Short,
         Goes(encode_string(b, t), buffer), NEW r, NEW field
  PROVE  String(Reading(r, Size(b)), field)
           = Reading([r EXCEPT ![field] = t], Size(encode_string(b, t)))
<1>1. decode_string(buffer, Size(b)) = [value |-> t, next |-> Size(encode_string(b, t))]
  BY DecodeString
<1>2. PICK d : d = decode_string(buffer, Size(b))
  OBVIOUS
<1>3. d.value = t /\ d.next = Size(encode_string(b, t))
  BY <1>1, <1>2
<1>4. String(Reading(r, Size(b)), field) = Read(Reading(r, Size(b)), field, d)
  BY <1>2, ReadingIs DEF String
<1> QED
  BY <1>3, <1>4, ReadIs

(* A long string.                                                          *)
LEMMA LongStringRead ==
  ASSUME buffer \in Buffers, NEW b \in Buffers, NEW t \in Texts,
         Goes(encode_long_string(b, t), buffer), NEW r, NEW field
  PROVE  LongString(Reading(r, Size(b)), field)
           = Reading([r EXCEPT ![field] = t], Size(encode_long_string(b, t)))
<1>1. decode_long_string(buffer, Size(b))
        = [value |-> t, next |-> Size(encode_long_string(b, t))]
  BY DecodeLong
<1>2. PICK d : d = decode_long_string(buffer, Size(b))
  OBVIOUS
<1>3. d.value = t /\ d.next = Size(encode_long_string(b, t))
  BY <1>1, <1>2
<1>4. LongString(Reading(r, Size(b)), field) = Read(Reading(r, Size(b)), field, d)
  BY <1>2, ReadingIs DEF LongString
<1> QED
  BY <1>3, <1>4, ReadIs

(* A number.                                                               *)
LEMMA IntRead ==
  ASSUME buffer \in Buffers, NEW b \in Buffers, NEW x \in Contents,
         Goes(encode_int(b, x), buffer), NEW r, NEW field
  PROVE  Int32(Reading(r, Size(b)), field)
           = Reading([r EXCEPT ![field] = x], Size(encode_int(b, x)))
<1>1. decode_int(buffer, Size(b)) = [value |-> x, next |-> Size(encode_int(b, x))]
  BY DecodeInt, EncodeInt
<1>2. PICK d : d = decode_int(buffer, Size(b))
  OBVIOUS
<1>3. d.value = x /\ d.next = Size(encode_int(b, x))
  BY <1>1, <1>2
<1>4. Int32(Reading(r, Size(b)), field) = Read(Reading(r, Size(b)), field, d)
  BY <1>2, ReadingIs DEF Int32
<1> QED
  BY <1>3, <1>4, ReadIs

(* A type, with the class name of a custom one, goes on from where it is   *)
(* written.                                                                *)
LEMMA OptionEncoded ==
  ASSUME NEW b \in Buffers, NEW type, IsShort(type)
  PROVE  OptionFields(b, type) \in Buffers /\ Goes(b, OptionFields(b, type))
<1>1. type \in Int
  BY SerializationAssumption DEF IsShort
<1>2. PICK c \in Buffers : c = encode_short(b, type) /\ Goes(b, c)
  BY <1>1, EncodeShort
<1>3. encode_string(c, ClassName) \in Buffers /\ Goes(c, encode_string(c, ClassName))
  BY ShortResultTexts, EncodeString
<1>4. Goes(b, encode_string(c, ClassName))
  BY <1>2, <1>3, GoesOn
<1> QED
  BY <1>2, <1>3, <1>4 DEF OptionFields

(* A type is read as it was written.                                       *)
LEMMA OptionRead ==
  ASSUME buffer \in Buffers, NEW b \in Buffers, NEW type, IsShort(type),
         Goes(OptionFields(b, type), buffer), NEW r, NEW f, NEW g
  PROVE  Option(Reading(r, Size(b)), f, g)
           = Reading([[r EXCEPT ![f] = type] EXCEPT ![g] = ClassOf(type)],
                     Size(OptionFields(b, type)))
<1>1. type \in Int /\ type \in Short /\ Signed(type) = type
  <2>1. type \in Counts
    BY SerializationAssumption DEF IsShort, Counts
  <2> QED
    BY <2>1, CountIs DEF Short
<1>2. PICK c \in Buffers : c = encode_short(b, type) /\ Goes(b, c) /\ Size(c) = Size(b) + 2
  BY <1>1, EncodeShort
<1>3. OptionFields(b, type) \in Buffers
  BY OptionEncoded
<1>4. Goes(c, OptionFields(b, type))
  <2>1. Goes(c, encode_string(c, ClassName)) /\ Goes(c, c)
    BY ShortResultTexts, EncodeString, GoesOn
  <2> QED
    BY <1>2, <2>1 DEF OptionFields
<1>5. Goes(c, buffer)
  BY <1>3, <1>4, GoesOn
<1>6. PICK d : d = decode_short(buffer, Size(b))
  OBVIOUS
<1>7. d.value = type /\ d.next = Size(c)
  BY <1>1, <1>2, <1>5, <1>6, DecodeShort
<1>8. PICK o : o = decode_option(buffer, Size(b))
  OBVIOUS
<1>9. o.type = type /\ o.class = ClassOf(type) /\ o.next = Size(OptionFields(b, type))
  <2>1. CASE type = CQL_COLUMN_TYPE_CUSTOM
    <3>1. OptionFields(b, type) = encode_string(c, ClassName)
      BY <1>2, <2>1 DEF OptionFields
    <3>2. decode_string(buffer, Size(c))
            = [value |-> ClassName, next |-> Size(encode_string(c, ClassName))]
      BY <3>1, ShortResultTexts, DecodeString
    <3>3. PICK x : x = decode_string(buffer, Size(c))
      OBVIOUS
    <3>4. x.value = ClassName /\ x.next = Size(encode_string(c, ClassName))
      BY <3>2, <3>3
    <3>5. o = [type |-> type, class |-> x.value, next |-> x.next]
      BY <1>6, <1>7, <1>8, <2>1, <3>3 DEF decode_option
    <3> QED
      BY <2>1, <3>1, <3>4, <3>5 DEF ClassOf
  <2>2. CASE type # CQL_COLUMN_TYPE_CUSTOM
    <3>1. OptionFields(b, type) = c
      BY <1>2, <2>2 DEF OptionFields
    <3>2. o = [type |-> type, class |-> EmptyText, next |-> Size(c)]
      BY <1>6, <1>7, <1>8, <2>2 DEF decode_option
    <3> QED
      BY <2>2, <3>1, <3>2 DEF ClassOf
  <2> QED
    BY <2>1, <2>2
<1>10. Option(Reading(r, Size(b)), f, g)
         = Reading([[r EXCEPT ![f] = o.type] EXCEPT ![g] = o.class], o.next)
  <2>1. Reading(r, Size(b)).next = Size(b)
    BY ReadingIs
  <2>2. Option(Reading(r, Size(b)), f, g)
          = [Reading(r, Size(b)) EXCEPT !.into[f] = o.type, !.into[g] = o.class, !.next = o.next]
    BY <1>8, <2>1 DEF Option
  <2> QED
    BY <2>2 DEF Reading
<1> QED
  BY <1>9, <1>10

-----------------------------------------------------------------------------
(* The metadata of a column, in the order of ColumnMetaData.               *)
Metadata(ks, tb, nm, ty, cl, pt, pc, st, sc) ==
  [keyspace |-> ks, table |-> tb, name |-> nm, type |-> ty, class_name |-> cl,
   collection_primary_type |-> pt, collection_primary_class |-> pc,
   collection_secondary_type |-> st, collection_secondary_class |-> sc]

(* What the server says of a column.                                       *)
PrimaryOf(type) == IF type.type \in Collections THEN type.primary ELSE CQL_COLUMN_TYPE_UNKNOWN

SecondaryOf(type) ==
  IF type.type = CQL_COLUMN_TYPE_MAP THEN type.secondary ELSE CQL_COLUMN_TYPE_UNKNOWN

DescriptionOf(column, global) ==
  Metadata(IF global THEN EmptyText ELSE Keyspace, IF global THEN EmptyText ELSE Table,
           column.name, column.type.type, ClassOf(column.type.type),
           PrimaryOf(column.type), ClassOf(PrimaryOf(column.type)),
           SecondaryOf(column.type), ClassOf(SecondaryOf(column.type)))

(* It is what ParsedAsSent expects.                                        *)
LEMMA DescribedIs ==
  ASSUME NEW i
  PROVE  Described(i) = DescriptionOf(sent.columns[i], "GLOBAL_TABLESPEC" \in sent.flags)
BY DEF Described, DescriptionOf, Metadata, PrimaryOf, SecondaryOf

(* An unknown type has no class.                                           *)
LEMMA UnknownClass == ClassOf(CQL_COLUMN_TYPE_UNKNOWN) = EmptyText
BY DEF ClassOf, CQL_COLUMN_TYPE_UNKNOWN, CQL_COLUMN_TYPE_CUSTOM

(* The types of a column fit shorts.                                       *)
LEMMA ColumnTypes ==
  ASSUME NEW column \in Columns
  PROVE  /\ IsShort(column.type.type)
         /\ column.type.type \in Collections => IsShort(column.type.primary)
         /\ column.type.type = CQL_COLUMN_TYPE_MAP => IsShort(column.type.secondary)
BY ResultAssumption

(* The buffers a column goes through: its table, its name, its type, and   *)
(* the types of its elements.                                              *)
TableWritten(b, global) == IF global THEN b ELSE SpecFields(b)

ColumnSteps(b, column, global, f, g, h, i, j) ==
  /\ f = TableWritten(b, global)
  /\ g = encode_string(f, column.name)
  /\ h = OptionFields(g, column.type.type)
  /\ i = PrimaryFields(h, column.type)
  /\ j = SecondaryFields(i, column.type)
  /\ j = ColumnFields(b, column, global)

ColumnBuffers(b, column, global) ==
  \E f, g, h, i, j \in Buffers :
    /\ ColumnSteps(b, column, global, f, g, h, i, j)
    /\ Goes(b, f) /\ Goes(f, g) /\ Goes(g, h) /\ Goes(h, i) /\ Goes(i, j)

(* The names of keyspace and table.                                        *)
LEMMA SpecEncoded ==
  ASSUME NEW b \in Buffers
  PROVE  /\ SpecFields(b) \in Buffers /\ Goes(b, SpecFields(b))
         /\ encode_string(b, Keyspace) \in Buffers
         /\ Goes(encode_string(b, Keyspace), SpecFields(b))
<1>1. PICK c \in Buffers : c = encode_string(b, Keyspace) /\ Goes(b, c)
  BY ShortResultTexts, EncodeString
<1>2. PICK d \in Buffers : d = encode_string(c, Table) /\ Goes(c, d)
  BY ShortResultTexts, EncodeString
<1>3. SpecFields(b) = d /\ Goes(b, d)
  BY <1>1, <1>2, GoesOn DEF SpecFields
<1> QED
  BY <1>1, <1>2, <1>3

(* Each goes on from the one before.                                       *)
LEMMA ColumnEncoded ==
  ASSUME NEW b \in Buffers, NEW column \in Columns, NEW global \in BOOLEAN
  PROVE  ColumnBuffers(b, column, global)
<1>1. PICK f \in Buffers : f = TableWritten(b, global) /\ Goes(b, f)
  BY SpecEncoded, GoesOn DEF TableWritten
<1>2. PICK g \in Buffers : g = encode_string(f, column.name) /\ Goes(f, g)
  BY ShortResultTexts, EncodeString
<1>3. PICK h \in Buffers : h = OptionFields(g, column.type.type) /\ Goes(g, h)
  BY ColumnTypes, OptionEncoded
<1>4. PICK i \in Buffers : i = PrimaryFields(h, column.type) /\ Goes(h, i)
  BY ColumnTypes, OptionEncoded, GoesOn DEF PrimaryFields
<1>5. PICK j \in Buffers : j = SecondaryFields(i, column.type) /\ Goes(i, j)
  BY ColumnTypes, OptionEncoded, GoesOn DEF SecondaryFields
<1>6. j = ColumnFields(b, column, global)
  BY <1>1, <1>2, <1>3, <1>4, <1>5 DEF ColumnFields, TypeFields, TableWritten
<1> QED
  BY <1>1, <1>2, <1>3, <1>4, <1>5, <1>6 DEF ColumnSteps, ColumnBuffers

(* So the column does.                                                     *)
LEMMA ColumnGoes ==
  ASSUME NEW b \in Buffers, NEW column \in Columns, NEW global \in BOOLEAN
  PROVE  ColumnFields(b, column, global) \in Buffers /\ Goes(b, ColumnFields(b, column, global))
<1>1. PICK f, g, h, i, j \in Buffers :
           /\ ColumnSteps(b, column, global, f, g, h, i, j)
           /\ Goes(b, f) /\ Goes(f, g) /\ Goes(g, h) /\ Goes(h, i) /\ Goes(i, j)
  <2>1. ColumnBuffers(b, column, global)
    BY ColumnEncoded
  <2> QED
    BY <2>1, Zenon DEF ColumnBuffers
<1>2. Goes(b, g)
  BY <1>1, GoesOn
<1>3. Goes(b, h)
  BY <1>1, <1>2, GoesOn
<1>4. Goes(b, i)
  BY <1>1, <1>3, GoesOn
<1>5. Goes(b, j)
  BY <1>1, <1>4, GoesOn
<1> QED
  BY <1>1, <1>5 DEF ColumnSteps

(* parse_metadata reads a column as the server wrote it, and stops behind  *)
(* it.                                                                     *)
LEMMA ColumnRead ==
  ASSUME buffer \in Buffers, NEW b \in Buffers, NEW column \in Columns, NEW global \in BOOLEAN,
         Goes(ColumnFields(b, column, global), buffer)
  PROVE  parse_column(Size(b), global)
           = Reading(DescriptionOf(column, global), Size(ColumnFields(b, column, global)))
<1> DEFINE E == EmptyText
           U == CQL_COLUMN_TYPE_UNKNOWN
           ks == IF global THEN EmptyText ELSE Keyspace
           tb == IF global THEN EmptyText ELSE Table
           ty == column.type.type
           pt == PrimaryOf(column.type)
           st == SecondaryOf(column.type)
<1>1. PICK f, g, h, i, j \in Buffers :
           /\ ColumnSteps(b, column, global, f, g, h, i, j)
           /\ Goes(b, f) /\ Goes(f, g) /\ Goes(g, h) /\ Goes(h, i) /\ Goes(i, j)
  <2>1. ColumnBuffers(b, column, global)
    BY ColumnEncoded
  <2> QED
    BY <2>1, Zenon DEF ColumnBuffers
<1>2. /\ f = TableWritten(b, global) /\ g = encode_string(f, column.name)
      /\ h = OptionFields(g, ty) /\ i = PrimaryFields(h, column.type)
      /\ j = SecondaryFields(i, column.type) /\ j = ColumnFields(b, column, global)
  BY <1>1 DEF ColumnSteps
<1>3. Goes(j, buffer) /\ Goes(i, buffer)
  BY <1>1, <1>2, GoesOn
<1>4. Goes(h, buffer)
  BY <1>1, <1>3, GoesOn
<1>5. Goes(g, buffer)
  BY <1>1, <1>4, GoesOn
<1>6. Goes(f, buffer)
  BY <1>1, <1>5, GoesOn
<1>7. ColumnMetaData = Metadata(E, E, E, U, E, U, E, U, E)
  BY DEF ColumnMetaData, Metadata
<1>8. TableOfColumn(Reading(ColumnMetaData, Size(b)), global)
        = Reading(Metadata(ks, tb, E, U, E, U, E, U, E), Size(f))
  <2>1. CASE global
    BY <1>2, <1>7, <2>1 DEF TableOfColumn, TableWritten
  <2>2. CASE ~global
    <3>1. f = SpecFields(b)
      BY <1>2, <2>2 DEF TableWritten
    <3>2. PICK c \in Buffers : c = encode_string(b, Keyspace) /\ Goes(c, f)
      BY <3>1, SpecEncoded
    <3>3. Goes(c, buffer)
      BY <1>6, <3>2, GoesOn
    <3>4. f = encode_string(c, Table)
      BY <3>1, <3>2 DEF SpecFields
    <3>5. String(Reading(ColumnMetaData, Size(b)), "keyspace")
            = Reading([ColumnMetaData EXCEPT !["keyspace"] = Keyspace], Size(c))
      BY <3>2, <3>3, ShortResultTexts, StringRead
    <3>6. PICK m : m = [ColumnMetaData EXCEPT !["keyspace"] = Keyspace]
      OBVIOUS
    <3>7. m = Metadata(Keyspace, E, E, U, E, U, E, U, E)
      BY <1>7, <3>6 DEF Metadata
    <3>8. String(Reading(m, Size(c)), "table")
            = Reading([m EXCEPT !["table"] = Table], Size(f))
      BY <1>6, <3>4, ShortResultTexts, StringRead
    <3>9. [m EXCEPT !["table"] = Table] = Metadata(Keyspace, Table, E, U, E, U, E, U, E)
      BY <3>7 DEF Metadata
    <3> QED
      BY <2>2, <3>5, <3>6, <3>8, <3>9 DEF TableOfColumn
  <2> QED
    BY <2>1, <2>2
<1> HIDE DEF E, U, ks, tb, pt, st, ty
<1>9. PICK m : m = Metadata(ks, tb, E, U, E, U, E, U, E)
  OBVIOUS
<1>10. String(Reading(m, Size(f)), "name")
         = Reading(Metadata(ks, tb, column.name, U, E, U, E, U, E), Size(g))
  <2>1. String(Reading(m, Size(f)), "name") = Reading([m EXCEPT !["name"] = column.name], Size(g))
    <3>1. column.name \in Texts /\ column.name.size \in Short
      BY ShortResultTexts
    <3>2. Goes(encode_string(f, column.name), buffer)
      BY <1>2, <1>5
    <3> QED
      BY <1>2, <3>1, <3>2, StringRead
  <2>2. [m EXCEPT !["name"] = column.name] = Metadata(ks, tb, column.name, U, E, U, E, U, E)
    BY <1>9 DEF Metadata
  <2> QED
    BY <2>1, <2>2
<1>11. PICK m1 : m1 = Metadata(ks, tb, column.name, U, E, U, E, U, E)
  OBVIOUS
<1>12. PICK m2 : m2 = Metadata(ks, tb, column.name, ty, ClassOf(ty), U, E, U, E)
  OBVIOUS
<1>13. Option(Reading(m1, Size(g)), "type", "class_name") = Reading(m2, Size(h))
  <2>1. IsShort(ty)
    BY ColumnTypes DEF ty
  <2>2. Option(Reading(m1, Size(g)), "type", "class_name")
          = Reading([[m1 EXCEPT !["type"] = ty] EXCEPT !["class_name"] = ClassOf(ty)], Size(h))
    BY <1>2, <1>4, <2>1, OptionRead
  <2>3. [[m1 EXCEPT !["type"] = ty] EXCEPT !["class_name"] = ClassOf(ty)] = m2
    BY <1>11, <1>12 DEF Metadata
  <2> QED
    BY <2>2, <2>3
<1>14. PICK m3 : m3 = Metadata(ks, tb, column.name, ty, ClassOf(ty), pt, ClassOf(pt), U, E)
  OBVIOUS
<1>15. m2.type = ty /\ m3.type = ty
  BY <1>12, <1>14 DEF Metadata
<1>16. PrimaryType(Reading(m2, Size(h))) = Reading(m3, Size(i))
  <2>1. CASE ty \in Collections
    <3>1. pt = column.type.primary /\ IsShort(pt)
      BY <2>1, ColumnTypes DEF ty, pt, PrimaryOf
    <3>2. i = OptionFields(h, pt)
      BY <1>2, <2>1, <3>1 DEF PrimaryFields, ty
    <3>3. Option(Reading(m2, Size(h)), "collection_primary_type", "collection_primary_class")
            = Reading([[m2 EXCEPT !["collection_primary_type"] = pt]
                         EXCEPT !["collection_primary_class"] = ClassOf(pt)], Size(i))
      BY <1>3, <3>1, <3>2, OptionRead
    <3>4. [[m2 EXCEPT !["collection_primary_type"] = pt]
             EXCEPT !["collection_primary_class"] = ClassOf(pt)] = m3
      BY <1>12, <1>14 DEF Metadata
    <3> QED
      BY <1>15, <2>1, <3>3, <3>4, ReadingIs DEF PrimaryType
  <2>2. CASE ty \notin Collections
    <3>1. pt = U /\ ClassOf(pt) = E /\ i = h
      BY <1>2, <2>2, UnknownClass DEF ty, pt, PrimaryOf, U, E, PrimaryFields
    <3> QED
      BY <1>12, <1>14, <1>15, <2>2, <3>1, ReadingIs DEF PrimaryType
  <2> QED
    BY <2>1, <2>2
<1>17. PICK m4 : m4 = Metadata(ks, tb, column.name, ty, ClassOf(ty), pt, ClassOf(pt),
                               st, ClassOf(st))
  OBVIOUS
<1>18. SecondaryType(Reading(m3, Size(i))) = Reading(m4, Size(j))
  <2>1. CASE ty = CQL_COLUMN_TYPE_MAP
    <3>1. st = column.type.secondary /\ IsShort(st)
      BY <2>1, ColumnTypes DEF ty, st, SecondaryOf
    <3>2. j = OptionFields(i, st)
      BY <1>2, <2>1, <3>1 DEF SecondaryFields, ty
    <3>3. Option(Reading(m3, Size(i)), "collection_secondary_type", "collection_secondary_class")
            = Reading([[m3 EXCEPT !["collection_secondary_type"] = st]
                         EXCEPT !["collection_secondary_class"] = ClassOf(st)], Size(j))
      BY <1>3, <3>1, <3>2, OptionRead
    <3>4. [[m3 EXCEPT !["collection_secondary_type"] = st]
             EXCEPT !["collection_secondary_class"] = ClassOf(st)] = m4
      BY <1>14, <1>17 DEF Metadata
    <3> QED
      BY <1>15, <2>1, <3>3, <3>4, ReadingIs DEF SecondaryType
  <2>2. CASE ty # CQL_COLUMN_TYPE_MAP
    <3>1. st = U /\ ClassOf(st) = E /\ j = i
      BY <1>2, <2>2, UnknownClass DEF ty, st, SecondaryOf, U, E, SecondaryFields
    <3> QED
      BY <1>14, <1>15, <1>17, <2>2, <3>1, ReadingIs DEF SecondaryType
  <2> QED
    BY <2>1, <2>2
<1>19. TypeOfColumn(Reading(m, Size(f))) = Reading(m2, Size(h))
  BY <1>10, <1>11, <1>13 DEF TypeOfColumn
<1>20. parse_column(Size(b), global)
         = SecondaryType(PrimaryType(TypeOfColumn(
             TableOfColumn(Reading(ColumnMetaData, Size(b)), global))))
  BY DEF parse_column, Reading
<1>21. m4 = DescriptionOf(column, global)
  BY <1>17 DEF DescriptionOf, ks, tb, ty, pt, st
<1> QED
  BY <1>2, <1>8, <1>9, <1>16, <1>18, <1>19, <1>20, <1>21

-----------------------------------------------------------------------------
(* The columns that are the first of their name, and the index of them.    *)
FirstNames(columns, i) ==
  {j \in 1..i : \A k \in 1..(j - 1) : columns[k].name # columns[j].name}

IndexOf(columns, i) ==
  {[name |-> columns[j].name, column |-> j - 1] : j \in FirstNames(columns, i)}

(* A name has a first column.                                              *)
LEMMA FirstOfName ==
  ASSUME NEW columns, NEW n \in Nat, NEW i \in 1..n
  PROVE  \E j \in FirstNames(columns, n) : j <= i /\ columns[j].name = columns[i].name
<1> DEFINE S == {j \in 1..n : columns[j].name = columns[i].name}
<1>1. S \in SUBSET Nat /\ i \in S
  OBVIOUS
<1>2. PICK j \in S : \A m \in S : j <= m
  BY <1>1, Smallest
<1>3. \A k \in 1..(j - 1) : k \in 1..n /\ ~(j <= k)
  OBVIOUS
<1>4. \A k \in 1..(j - 1) : columns[k].name # columns[j].name
  BY <1>2, <1>3
<1> QED
  BY <1>1, <1>2, <1>4 DEF FirstNames

(* insert keeps the first column of every name.                            *)
LEMMA IndexStep ==
  ASSUME NEW columns, NEW i \in Nat, i > 0
  PROVE  Inserted(IndexOf(columns, i - 1), columns[i].name, i - 1) = IndexOf(columns, i)
<1> DEFINE new == [name |-> columns[i].name, column |-> i - 1]
<1>1. \A j \in Nat : j \in 1..i <=> j \in 1..(i - 1) \/ j = i
  OBVIOUS
<1>2. CASE \E k \in 1..(i - 1) : columns[k].name = columns[i].name
  <2>1. PICK k \in 1..(i - 1) : columns[k].name = columns[i].name
    BY <1>2
  <2>2. i - 1 \in Nat
    OBVIOUS
  <2>3. PICK j \in FirstNames(columns, i - 1) : columns[j].name = columns[k].name
    BY <2>2, FirstOfName
  <2>4. \E e \in IndexOf(columns, i - 1) : e.name = columns[i].name
    <3>1. PICK e : e = [name |-> columns[j].name, column |-> j - 1]
      OBVIOUS
    <3>2. e \in IndexOf(columns, i - 1)
      BY <2>3, <3>1 DEF IndexOf
    <3>3. e.name = columns[i].name
      BY <2>1, <2>3, <3>1
    <3> QED
      BY <3>2, <3>3
  <2>5. FirstNames(columns, i) = FirstNames(columns, i - 1)
    BY <1>2 DEF FirstNames
  <2> QED
    BY <2>4, <2>5 DEF Inserted, IndexOf
<1>3. CASE ~\E k \in 1..(i - 1) : columns[k].name = columns[i].name
  <2>1. \A j \in FirstNames(columns, i - 1) : j \in 1..(i - 1)
    BY DEF FirstNames
  <2>2. ~\E e \in IndexOf(columns, i - 1) : e.name = columns[i].name
    BY <1>3, <2>1 DEF IndexOf
  <2>3. FirstNames(columns, i) = FirstNames(columns, i - 1) \cup {i}
    BY <1>3 DEF FirstNames
  <2>4. IndexOf(columns, i) = IndexOf(columns, i - 1) \cup {new}
    BY <2>3 DEF IndexOf
  <2> QED
    BY <2>2, <2>4 DEF Inserted
<1> QED
  BY <1>2, <1>3

(* An index leads to the first column of a name.                           *)
Leads(index, columns, n, name) ==
  {e.column + 1 : e \in {x \in index : x.name = name}}
    = {Min({j \in 1..n : columns[j].name = name})}

(* IndexOf does.                                                           *)
LEMMA IndexLeads ==
  ASSUME NEW columns, NEW n \in Nat, NEW i \in 1..n
  PROVE  Leads(IndexOf(columns, n), columns, n, columns[i].name)
<1> SUFFICES {e.column + 1 : e \in {x \in IndexOf(columns, n) : x.name = columns[i].name}}
               = {Min({j \in 1..n : columns[j].name = columns[i].name})}
  BY Zenon DEF Leads
<1> DEFINE Same == {j \in 1..n : columns[j].name = columns[i].name}
           Es == {x \in IndexOf(columns, n) : x.name = columns[i].name}
<1>1. PICK f \in FirstNames(columns, n) : columns[f].name = columns[i].name
  BY FirstOfName
<1>2. f \in 1..n /\ \A k \in 1..(f - 1) : columns[k].name # columns[f].name
  BY DEF FirstNames
<1>3. f \in Same
  BY <1>1, <1>2
<1>4. ASSUME NEW k \in Same PROVE f <= k /\ k \in Nat
  <2>1. k \in 1..n /\ columns[k].name = columns[i].name
    OBVIOUS
  <2>2. ~(k \in 1..(f - 1))
    BY <1>1, <1>2, <2>1
  <2> QED
    BY <1>2, <2>1, <2>2
<1>5. Min(Same) = f
  <2>1. \A x \in Same : (\A y \in Same : x <= y) => x = f
    BY <1>2, <1>3, <1>4
  <2> HIDE DEF Same
  <2> QED
    BY <1>3, <1>4, <2>1 DEF Min
<1>6. PICK e : e = [name |-> columns[f].name, column |-> f - 1]
  OBVIOUS
<1>7. e.name = columns[i].name /\ e.column + 1 = f
  <2>1. e.name = columns[f].name /\ e.column = f - 1
    BY <1>6
  <2> QED
    BY <1>1, <1>2, <2>1
<1>8. e \in Es
  BY <1>6, <1>7 DEF IndexOf
<1>9. ASSUME NEW x \in Es PROVE x = e
  <2>1. PICK j \in FirstNames(columns, n) : x = [name |-> columns[j].name, column |-> j - 1]
    BY DEF IndexOf
  <2>2. j \in 1..n /\ \A k \in 1..(j - 1) : columns[k].name # columns[j].name
    BY DEF FirstNames
  <2>3. x.name = columns[j].name
    BY <2>1
  <2>4. columns[j].name = columns[f].name
    BY <1>1, <2>3
  <2>5. ~(f \in 1..(j - 1)) /\ ~(j \in 1..(f - 1))
    BY <1>2, <2>2, <2>4
  <2>6. j = f
    BY <1>2, <2>2, <2>5
  <2> QED
    BY <1>6, <2>1, <2>6
<1> HIDE DEF Es, Same
<1>10. {x.column + 1 : x \in Es} = {f}
  BY <1>7, <1>8, <1>9
<1> QED
  BY <1>5, <1>10 DEF Es, Same

-----------------------------------------------------------------------------
(* The buffers that ColumnsFields goes through.                            *)
ColumnsSteps(b, columns, global, after) ==
  /\ after[0] = b
  /\ \A i \in 0..Len(columns) : after[i] \in Buffers
  /\ \A i \in 1..Len(columns) : after[i] = ColumnFields(after[i - 1], columns[i], global)
  /\ after[Len(columns)] = ColumnsFields(b, columns, global)

(* ColumnsFields goes through such buffers.                                *)
LEMMA ColumnsWritten ==
  ASSUME NEW b \in Buffers, NEW columns \in Seq(Columns), NEW global \in BOOLEAN
  PROVE  \E after : ColumnsSteps(b, columns, global, after)
<1> DEFINE n == Len(columns)
           Eq(f) == f = [i \in 0..n |-> IF i = 0 THEN b
                                                 ELSE ColumnFields(f[i - 1], columns[i], global)]
           e == CHOOSE f : Eq(f)
           step == [i \in 1..n |-> [c \in Buffers |-> ColumnFields(c, columns[i], global)]]
<1>0. n \in Nat /\ n \in Int /\ \A i \in 1..n : columns[i] \in Columns
  OBVIOUS
<1>1. ColumnsFields(b, columns, global) = e[n]
  BY Zenon DEF ColumnsFields
<1>3. step \in [1..n -> [Buffers -> Buffers]]
  <2>1. \A i \in 1..n : \A c \in Buffers : ColumnFields(c, columns[i], global) \in Buffers
    BY <1>0, ColumnGoes
  <2> QED
    BY <2>1
<1>4. PICK f \in [0..n -> Buffers] :
        f[0] = b /\ \A i \in 1..n : f[i] = step[i][f[i - 1]]
  <2> HIDE DEF step, n
  <2>1. n \in Nat
    BY <1>0
  <2>2. \E f : Iterated(f, Buffers, b, n, step)
    BY <1>3, <2>1, Iterates
  <2> QED
    BY <2>2 DEF Iterated
<1>5. Eq(f)
  <2> HIDE DEF n
  <2>1. ASSUME NEW i \in 1..n PROVE f[i] = ColumnFields(f[i - 1], columns[i], global)
    <3>1. f[i - 1] \in Buffers
      BY <1>0
    <3> QED
      BY <1>4, <3>1
  <2>2. \A i \in 0..n : f[i] = IF i = 0 THEN b ELSE ColumnFields(f[i - 1], columns[i], global)
    BY <1>0, <1>4, <2>1
  <2> QED
    BY <2>2
<1>6. Eq(e)
  <2> HIDE DEF Eq
  <2> QED
    BY <1>5
<1> HIDE DEF e, n
<1>7. /\ e[0] = b
      /\ \A i \in 1..n : e[i] = ColumnFields(e[i - 1], columns[i], global)
  BY <1>0, <1>6
<1>8. \A i \in 0..n : i \in {j \in 0..n : e[j] \in Buffers}
  <2> DEFINE S == {j \in 0..n : e[j] \in Buffers}
  <2>1. 0 \in S
    BY <1>0, <1>7
  <2>2. ASSUME NEW i \in 1..n, i - 1 \in S PROVE i \in S
    <3>1. e[i - 1] \in Buffers /\ columns[i] \in Columns /\ i \in 0..n
      BY <1>0, <2>2
    <3>2. e[i] \in Buffers
      BY <1>7, <3>1, ColumnGoes
    <3> QED
      BY <3>1, <3>2
  <2> HIDE DEF S
  <2>3. \A i \in 0..n : i \in S
    BY <1>0, <2>1, <2>2, UpTo
  <2> QED
    BY <2>3 DEF S
<1>9. ColumnsSteps(b, columns, global, e)
  BY <1>1, <1>7, <1>8 DEF ColumnsSteps, n
<1> QED
  BY <1>9

(* Each of them goes on to the next.                                       *)
LEMMA ColumnsGo ==
  ASSUME NEW b \in Buffers, NEW columns \in Seq(Columns), NEW global \in BOOLEAN,
         NEW after, ColumnsSteps(b, columns, global, after)
  PROVE  /\ ColumnsFields(b, columns, global) \in Buffers
         /\ \A i \in 0..Len(columns) : Goes(after[i], ColumnsFields(b, columns, global))
         /\ Goes(b, ColumnsFields(b, columns, global))
<1> DEFINE n == Len(columns)
<1>0. n \in Nat /\ 0 \in 0..n /\ n \in 0..n /\ \A i \in 1..n : columns[i] \in Columns
  OBVIOUS
<1>1. /\ after[0] = b /\ after[n] = ColumnsFields(b, columns, global)
      /\ \A i \in 0..n : after[i] \in Buffers
      /\ \A i \in 1..n : after[i] = ColumnFields(after[i - 1], columns[i], global)
  BY DEF ColumnsSteps
<1> HIDE DEF n
<1>2. ASSUME NEW i \in 1..n PROVE Goes(after[i - 1], after[i])
  <2>1. i - 1 \in 0..n
    BY <1>0
  <2>2. after[i - 1] \in Buffers /\ columns[i] \in Columns
    BY <1>0, <1>1, <2>1
  <2> QED
    BY <1>1, <2>2, ColumnGoes
<1>3. \A i \in 0..n : Goes(after[i], after[n])
  BY <1>0, <1>1, <1>2, StepsGo
<1> QED
  BY <1>0, <1>1, <1>3 DEF n

-----------------------------------------------------------------------------
(* The members of BodyResult, as a function.                               *)
Members ==
  {"kind", "more_pages", "no_metadata", "global_table_spec", "column_count",
   "column_metadata", "column_index", "page_state", "prepared", "change", "keyspace", "table",
   "row_count", "rows"}

IsResult(r) == r = [f \in Members |-> r[f]]

(* Setting a member.                                                       *)
LEMMA MemberSet ==
  ASSUME NEW r, IsResult(r), NEW field \in Members, NEW x
  PROVE  /\ IsResult([r EXCEPT ![field] = x])
         /\ [r EXCEPT ![field] = x][field] = x
         /\ \A f \in Members : f # field => [r EXCEPT ![field] = x][f] = r[f]
BY DEF IsResult

(* A sequence with one element more.                                       *)
LEMMA AppendOne ==
  ASSUME NEW n \in Nat, NEW s, s = [k \in 1..n |-> s[k]], NEW x
  PROVE  /\ Append(s, x) = [k \in 1..(n + 1) |-> IF k <= n THEN s[k] ELSE x]
         /\ Append(s, x) = [k \in 1..(n + 1) |-> Append(s, x)[k]]
<1> DEFINE S == {s[k] : k \in 1..n} \cup {x}
<1>1. s \in [1..n -> S]
  OBVIOUS
<1>2. s \in Seq(S) /\ Len(s) = n /\ x \in S
  BY <1>1
<1> HIDE DEF S
<1>3. /\ Append(s, x) \in Seq(S) /\ Len(Append(s, x)) = n + 1
      /\ \A k \in 1..n : Append(s, x)[k] = s[k]
      /\ Append(s, x)[n + 1] = x
  BY <1>2
<1>4. Append(s, x) = [k \in 1..(n + 1) |-> Append(s, x)[k]]
  BY <1>3
<1>5. \A k \in 1..(n + 1) : Append(s, x)[k] = IF k <= n THEN s[k] ELSE x
  BY <1>3
<1> QED
  BY <1>4, <1>5

(* column_metadata after i columns, behind the count of them that resize   *)
(* made.                                                                   *)
MetadataUpTo(columns, global, i) ==
  [k \in 1..(Len(columns) + i) |->
     IF k <= Len(columns) THEN ColumnMetaData
                          ELSE DescriptionOf(columns[k - Len(columns)], global)]

(* One column more.                                                        *)
LEMMA MetadataStep ==
  ASSUME NEW columns \in Seq(Columns), NEW global, NEW i \in 1..Len(columns)
  PROVE  Append(MetadataUpTo(columns, global, i - 1), DescriptionOf(columns[i], global))
           = MetadataUpTo(columns, global, i)
<1> DEFINE n == Len(columns)
           D(k) == DescriptionOf(columns[k], global)
           s == MetadataUpTo(columns, global, i - 1)
<1>1. n \in Nat /\ i \in 1..n
  OBVIOUS
<1>2. PICK l \in Nat : l = n + (i - 1)
  BY <1>1
<1>3. s = [k \in 1..l |-> IF k <= n THEN ColumnMetaData ELSE D(k - n)]
  BY <1>2 DEF MetadataUpTo
<1>4. MetadataUpTo(columns, global, i) = [k \in 1..(n + i) |->
                                            IF k <= n THEN ColumnMetaData ELSE D(k - n)]
  BY DEF MetadataUpTo
<1> HIDE DEF n, s
<1>5. l + 1 = n + i /\ ~(l + 1 <= n) /\ (l + 1) - n = i
  BY <1>1, <1>2
<1>6. s = [k \in 1..l |-> s[k]]
  BY <1>3
<1>7. Append(s, D(i)) = [k \in 1..(l + 1) |-> IF k <= l THEN s[k] ELSE D(i)]
  BY <1>6, AppendOne
<1>8. ASSUME NEW k \in 1..(l + 1)
      PROVE  (IF k <= l THEN s[k] ELSE D(i)) = (IF k <= n THEN ColumnMetaData ELSE D(k - n))
  <2>1. CASE k <= l
    <3>1. k \in 1..l
      BY <2>1
    <3> QED
      BY <1>3, <2>1, <3>1
  <2>2. CASE ~(k <= l)
    <3>1. k = l + 1
      BY <2>2
    <3> QED
      BY <1>5, <2>2, <3>1
  <2> QED
    BY <2>1, <2>2
<1> HIDE DEF D
<1>9. Append(s, D(i)) = [k \in 1..(n + i) |-> IF k <= n THEN ColumnMetaData ELSE D(k - n)]
  BY <1>5, <1>7, <1>8
<1> QED
  BY <1>4, <1>9 DEF s, D

(* A result whose columns have been described.                             *)
WithColumns(r, metadata, index) ==
  [[[r EXCEPT !["no_metadata"] = FALSE] EXCEPT !["column_metadata"] = metadata]
     EXCEPT !["column_index"] = index]

(* What it has.                                                            *)
ColumnsIn(r, m, x, w) ==
  /\ IsResult(w)
  /\ w.no_metadata = FALSE /\ w.column_metadata = m /\ w.column_index = x
  /\ \A f \in Members \ {"no_metadata", "column_metadata", "column_index"} : w[f] = r[f]

(* It has that.                                                            *)
LEMMA WithColumnsHas ==
  ASSUME NEW r, IsResult(r), NEW m, NEW x
  PROVE  ColumnsIn(r, m, x, WithColumns(r, m, x))
<1>1. PICK u : u = [r EXCEPT !["no_metadata"] = FALSE]
  OBVIOUS
<1>2. IsResult(u) /\ u["no_metadata"] = FALSE /\ \A f \in Members \ {"no_metadata"} : u[f] = r[f]
  BY <1>1 DEF IsResult, Members
<1>3. PICK v : v = [u EXCEPT !["column_metadata"] = m]
  OBVIOUS
<1>4. /\ IsResult(v) /\ v["column_metadata"] = m
      /\ \A f \in Members \ {"column_metadata"} : v[f] = u[f]
  BY <1>2, <1>3 DEF IsResult, Members
<1>5. PICK w : w = [v EXCEPT !["column_index"] = x]
  OBVIOUS
<1>6. IsResult(w) /\ w["column_index"] = x /\ \A f \in Members \ {"column_index"} : w[f] = v[f]
  BY <1>4, <1>5 DEF IsResult, Members
<1>7. WithColumns(r, m, x) = w
  BY <1>1, <1>3, <1>5 DEF WithColumns
<1>8. w["no_metadata"] = FALSE /\ w["column_metadata"] = m
  BY <1>2, <1>4, <1>6 DEF Members
<1> QED
  BY <1>2, <1>4, <1>6, <1>7, <1>8 DEF Members, ColumnsIn

(* The steps of parse_metadata's loop.                                     *)
LEMMA ColumnAdded ==
  ASSUME NEW r, IsResult(r), NEW m, NEW x, NEW n, NEW i, NEW c, NEW k
  PROVE  AddColumn(Reading(WithColumns(r, m, x), n), i, Reading(c, k))
           = Reading(WithColumns(r, Append(m, c), Inserted(x, c.name, i)), k)
<1>1. PICK w : w = WithColumns(r, m, x)
  OBVIOUS
<1>0. ColumnsIn(r, m, x, w)
  BY <1>1, WithColumnsHas
<1>2. IsResult(w) /\ w.column_metadata = m /\ w.column_index = x
  BY <1>0 DEF ColumnsIn
<1>3. AddColumn(Reading(w, n), i, Reading(c, k))
        = Reading([w EXCEPT !.column_metadata = Append(m, c),
                            !.column_index = Inserted(x, c.name, i)], k)
  BY <1>2 DEF AddColumn, Reading
<1>4. PICK a : a = Append(m, c)
  OBVIOUS
<1>5. PICK y : y = Inserted(x, c.name, i)
  OBVIOUS
<1>6. [w EXCEPT !.column_metadata = a, !.column_index = y] = WithColumns(r, a, y)
  <2>1. PICK v : v = [w EXCEPT !.column_metadata = a, !.column_index = y]
    OBVIOUS
  <2>2. /\ IsResult(v) /\ v["column_metadata"] = a /\ v["column_index"] = y
        /\ \A f \in Members \ {"column_metadata", "column_index"} : v[f] = w[f]
    BY <1>2, <2>1 DEF IsResult, Members
  <2>3. PICK u : u = WithColumns(r, a, y)
    OBVIOUS
  <2>4. /\ IsResult(u) /\ u.no_metadata = FALSE /\ u.column_metadata = a /\ u.column_index = y
        /\ \A f \in Members \ {"no_metadata", "column_metadata", "column_index"} : u[f] = r[f]
    <3>1. ColumnsIn(r, a, y, u)
      BY <2>3, WithColumnsHas
    <3> QED
      BY <3>1 DEF ColumnsIn
  <2>5. /\ w.no_metadata = FALSE
        /\ \A f \in Members \ {"no_metadata", "column_metadata", "column_index"} : w[f] = r[f]
    BY <1>0 DEF ColumnsIn
  <2>6. \A f \in Members : v[f] = u[f]
    BY <2>2, <2>4, <2>5 DEF Members
  <2>7. v = u
    BY <2>2, <2>4, <2>6 DEF IsResult
  <2> QED
    BY <2>1, <2>3, <2>7
<1> QED
  BY <1>1, <1>3, <1>4, <1>5, <1>6

(* Before the first of them.                                               *)
LEMMA ColumnsResized ==
  ASSUME NEW r, IsResult(r), r.column_index = {}, NEW m
  PROVE  [r EXCEPT !.no_metadata = FALSE, !.column_metadata = m] = WithColumns(r, m, {})
<1>1. PICK v : v = [r EXCEPT !.no_metadata = FALSE, !.column_metadata = m]
  OBVIOUS
<1>2. /\ IsResult(v) /\ v["no_metadata"] = FALSE /\ v["column_metadata"] = m
      /\ \A f \in Members \ {"no_metadata", "column_metadata"} : v[f] = r[f]
  BY <1>1 DEF IsResult, Members
<1>3. PICK u : u = WithColumns(r, m, {})
  OBVIOUS
<1>4. /\ IsResult(u) /\ u.no_metadata = FALSE /\ u.column_metadata = m /\ u.column_index = {}
      /\ \A f \in Members \ {"no_metadata", "column_metadata", "column_index"} : u[f] = r[f]
  <2>1. ColumnsIn(r, m, {}, u)
    BY <1>3, WithColumnsHas
  <2> QED
    BY <2>1 DEF ColumnsIn
<1>5. \A f \in Members : v[f] = u[f]
  BY <1>2, <1>4 DEF Members
<1>6. v = u
  BY <1>2, <1>4, <1>5 DEF IsResult
<1> QED
  BY <1>1, <1>3, <1>6

(* The loop of parse_metadata reads one column more.                       *)
NextColumn(p, i, global) == AddColumn(p, i - 1, parse_column(p.next, global))

Resized(r, n) ==
  [r EXCEPT !.no_metadata = FALSE, !.column_metadata = [c \in 1..n |-> ColumnMetaData]]

(* The loop of parse_metadata reads every column as the server wrote it.   *)
LEMMA ColumnsRead ==
  ASSUME buffer \in Buffers, NEW b \in Buffers, NEW columns \in Seq(Columns),
         NEW global \in BOOLEAN, Goes(ColumnsFields(b, columns, global), buffer),
         NEW r, IsResult(r), r.column_count = Len(columns), r.global_table_spec = global,
         r.column_index = {}
  PROVE  parse_columns(Reading(r, Size(b)))
           = Reading(WithColumns(r, MetadataUpTo(columns, global, Len(columns)),
                                 IndexOf(columns, Len(columns))),
                     Size(ColumnsFields(b, columns, global)))
<1> DEFINE n == Len(columns)
           p == Reading(r, Size(b))
           Eq(f) == f = [i \in 0..p.into.column_count |->
                           IF i = 0
                             THEN [into |-> Resized(p.into, p.into.column_count),
                                   next |-> p.next]
                             ELSE NextColumn(f[i - 1], i, p.into.global_table_spec)]
           e == CHOOSE f : Eq(f)
<1>1. parse_columns(p) = e[p.into.column_count]
  BY Zenon DEF parse_columns, NextColumn, Resized
<1> HIDE DEF e
<1>2. p.into = r /\ p.next = Size(b)
  BY ReadingIs
<1>3. p.into.column_count = n /\ p.into.global_table_spec = global
  BY <1>2
<1> HIDE DEF p
<1>4. n \in Nat /\ 0 \in 0..n /\ n \in 0..n /\ \A i \in 1..n : columns[i] \in Columns
  OBVIOUS
<1>5. PICK after : ColumnsSteps(b, columns, global, after)
  BY ColumnsWritten
<1>6. /\ after[0] = b /\ after[n] = ColumnsFields(b, columns, global)
      /\ \A i \in 0..n : after[i] \in Buffers
      /\ \A i \in 1..n : after[i] = ColumnFields(after[i - 1], columns[i], global)
  BY <1>5 DEF ColumnsSteps
<1>7. /\ ColumnsFields(b, columns, global) \in Buffers
      /\ \A i \in 0..n : Goes(after[i], ColumnsFields(b, columns, global))
  BY <1>5, ColumnsGo
<1>8. \A i \in 0..n : Goes(after[i], buffer)
  BY <1>6, <1>7, GoesOn
<1> DEFINE M(i) == MetadataUpTo(columns, global, i)
           X(i) == IndexOf(columns, i)
           R(i) == Reading(WithColumns(r, M(i), X(i)), Size(after[i]))
<1>9. \A i \in 1..n : Append(M(i - 1), DescriptionOf(columns[i], global)) = M(i)
  BY MetadataStep
<1>10. \A i \in 1..n : Inserted(X(i - 1), columns[i].name, i - 1) = X(i)
  <2>1. \A i \in 1..n : i \in Nat /\ i > 0
    BY <1>4
  <2> QED
    BY <2>1, IndexStep
<1>11. M(0) = [c \in 1..n |-> ColumnMetaData]
  <2>1. n + 0 = n
    BY <1>4
  <2> QED
    BY <2>1 DEF MetadataUpTo
<1>12. X(0) = {}
  BY DEF IndexOf, FirstNames
<1> HIDE DEF M, X, n
<1>13. [into |-> Resized(r, n), next |-> Size(b)] = R(0)
  <2>1. PICK m : m = [c \in 1..n |-> ColumnMetaData]
    OBVIOUS
  <2>2. [r EXCEPT !.no_metadata = FALSE, !.column_metadata = m] = WithColumns(r, m, {})
    BY ColumnsResized
  <2>3. Resized(r, n) = WithColumns(r, M(0), X(0))
    BY <1>11, <1>12, <2>1, <2>2 DEF Resized
  <2> QED
    BY <1>6, <2>3 DEF Reading
<1>14. ASSUME NEW i \in 1..n PROVE NextColumn(R(i - 1), i, global) = R(i)
  <2>1. i - 1 \in 0..n /\ i \in 0..n
    BY <1>4
  <2>2. PICK c \in Buffers : c = after[i - 1]
    BY <1>6, <2>1
  <2>3. columns[i] \in Columns /\ after[i] = ColumnFields(c, columns[i], global)
        /\ Goes(after[i], buffer)
    BY <1>4, <1>6, <1>8, <2>1, <2>2
  <2>4. PICK d : d = DescriptionOf(columns[i], global)
    OBVIOUS
  <2>5. d.name = columns[i].name
    BY <2>4 DEF DescriptionOf, Metadata
  <2>6. parse_column(Size(c), global) = Reading(d, Size(after[i]))
    BY <2>3, <2>4, ColumnRead
  <2>7. R(i - 1).next = Size(c)
    BY <2>2, ReadingIs
  <2>8. NextColumn(R(i - 1), i, global) = AddColumn(R(i - 1), i - 1, Reading(d, Size(after[i])))
    BY <2>6, <2>7 DEF NextColumn
  <2>9. AddColumn(R(i - 1), i - 1, Reading(d, Size(after[i])))
          = Reading(WithColumns(r, Append(M(i - 1), d), Inserted(X(i - 1), d.name, i - 1)),
                    Size(after[i]))
    BY ColumnAdded
  <2> QED
    BY <1>9, <1>10, <2>4, <2>5, <2>8, <2>9
<1> HIDE DEF R
<1> DEFINE g == [i \in 0..n |-> R(i)]
<1>15. Eq(g)
  <2>1. ASSUME NEW i \in 1..n PROVE g[i] = NextColumn(g[i - 1], i, global)
    <3>1. i - 1 \in 0..n /\ i \in 0..n
      BY <1>4
    <3>2. g[i] = R(i) /\ g[i - 1] = R(i - 1)
      BY <3>1
    <3> HIDE DEF g
    <3> QED
      BY <1>14, <3>2
  <2>2. g[0] = [into |-> Resized(r, n), next |-> Size(b)]
    BY <1>4, <1>13
  <2>3. \A i \in 0..n : g[i] = IF i = 0 THEN [into |-> Resized(r, n), next |-> Size(b)]
                                        ELSE NextColumn(g[i - 1], i, global)
    <3> HIDE DEF g
    <3> QED
      BY <1>4, <2>1, <2>2
  <2>4. g = [i \in 0..n |-> IF i = 0 THEN [into |-> Resized(r, n), next |-> Size(b)]
                                     ELSE NextColumn(g[i - 1], i, global)]
    BY <2>3
  <2> HIDE DEF g
  <2> QED
    BY <1>2, <1>3, <2>4
<1>16. Eq(e)
  <2> HIDE DEF Eq, g
  <2> QED
    BY <1>15 DEF e
<1>17. /\ e[0] = R(0)
       /\ \A i \in 1..n : e[i] = NextColumn(e[i - 1], i, global)
  <2>1. e = [i \in 0..n |-> IF i = 0 THEN [into |-> Resized(r, n), next |-> Size(b)]
                                     ELSE NextColumn(e[i - 1], i, global)]
    BY <1>2, <1>3, <1>16
  <2> HIDE DEF Eq
  <2>2. \A i \in 0..n : e[i] = IF i = 0 THEN [into |-> Resized(r, n), next |-> Size(b)]
                                        ELSE NextColumn(e[i - 1], i, global)
    BY <2>1
  <2>3. \A i \in 1..n : i \in 0..n /\ i # 0
    BY <1>4
  <2> QED
    BY <1>4, <1>13, <2>2, <2>3
<1> HIDE DEF Eq, g
<1> DEFINE S == {i \in 0..n : e[i] = R(i)}
<1>18. 0 \in S
  BY <1>4, <1>17
<1>19. ASSUME NEW i \in 1..n, i - 1 \in S PROVE i \in S
  <2>1. i \in 0..n /\ e[i - 1] = R(i - 1)
    BY <1>4, <1>19
  <2>2. e[i] = R(i)
    BY <1>14, <1>17, <2>1
  <2> QED
    BY <2>1, <2>2
<1>20. \A i \in 0..n : i \in S
  <2> HIDE DEF S
  <2> QED
    BY <1>4, <1>18, <1>19, UpTo
<1>21. e[n] = R(n)
  BY <1>4, <1>20
<1> QED
  BY <1>1, <1>3, <1>6, <1>21 DEF p, R, M, X, n

-----------------------------------------------------------------------------
(* w is r but for the members in F.                                        *)
KeepsBut(r, w, F) == IsResult(w) /\ \A f \in Members \ F : w[f] = r[f]

(* Setting a member keeps the others.                                      *)
LEMMA SetKeeps ==
  ASSUME NEW r, IsResult(r), NEW field \in Members, NEW x
  PROVE  KeepsBut(r, [r EXCEPT ![field] = x], {field}) /\ [r EXCEPT ![field] = x][field] = x
BY DEF IsResult, KeepsBut

(* Keeping is transitive.                                                  *)
LEMMA KeepsOn ==
  ASSUME NEW r, NEW v, NEW w, NEW F, NEW G, KeepsBut(r, v, F), KeepsBut(v, w, G)
  PROVE  KeepsBut(r, w, F \cup G)
BY DEF KeepsBut

(* Setting a member of what a parser fills in.                             *)
LEMMA AssignIs ==
  ASSUME NEW r, NEW n, NEW field, NEW x
  PROVE  Assign(Reading(r, n), field, x) = Reading([r EXCEPT ![field] = x], n)
<1>1. Assign(Reading(r, n), field, x) = [Reading(r, n) EXCEPT !.into[field] = x]
  BY DEF Assign
<1> QED
  BY <1>1 DEF Reading

(* The same, with a name for what comes of it.                             *)
LEMMA AssignTo ==
  ASSUME NEW r, NEW n, NEW field, NEW x, NEW v, v = [r EXCEPT ![field] = x]
  PROVE  Assign(Reading(r, n), field, x) = Reading(v, n)
<1>1. Assign(Reading(r, n), field, x) = Reading([r EXCEPT ![field] = x], n)
  BY AssignIs, Zenon
<1> HIDE DEF Assign, Reading
<1> QED
  BY <1>1, Zenon

(* What is found behind the flags of the metadata: the state of the        *)
(* paging,                                                                 *)
PagesAre(b, flags, r, w) ==
  /\ MorePages(Reading(r, Size(b)), flags) = Reading(w, Size(PageFields(b, flags)))
  /\ KeepsBut(r, w, {"more_pages", "page_state"})
  /\ "HAS_MORE_PAGES" \in flags => w["more_pages"] = TRUE /\ w["page_state"] = PageState
  /\ "HAS_MORE_PAGES" \notin flags => w["more_pages"] = FALSE

(* the table of all columns,                                               *)
TableIs(b, flags, r, w) ==
  /\ GlobalTable(Reading(r, Size(b)), flags) = Reading(w, Size(GlobalFields(b, flags)))
  /\ KeepsBut(r, w, {"global_table_spec", "keyspace", "table"})
  /\ "GLOBAL_TABLESPEC" \in flags => /\ w["global_table_spec"] = TRUE
                                     /\ w["keyspace"] = Keyspace /\ w["table"] = Table
  /\ "GLOBAL_TABLESPEC" \notin flags => w["global_table_spec"] = FALSE

(* and the columns.                                                        *)
ColumnsAre(b, s, r, w) ==
  /\ ColumnSpecs(Reading(r, Size(b)), s.flags) = Reading(w, Size(DescriptionFields(b, s)))
  /\ KeepsBut(r, w, {"no_metadata", "column_metadata", "column_index"})
  /\ "NO_METADATA" \in s.flags => w["no_metadata"] = TRUE
  /\ "NO_METADATA" \notin s.flags =>
       /\ w["no_metadata"] = FALSE
       /\ w["column_metadata"]
            = MetadataUpTo(s.columns, "GLOBAL_TABLESPEC" \in s.flags, Len(s.columns))
       /\ w["column_index"] = IndexOf(s.columns, Len(s.columns))

(* The state of the paging is read if it is there.                         *)
LEMMA PagesRead ==
  ASSUME buffer \in Buffers, NEW b \in Buffers, NEW flags, NEW r, IsResult(r),
         Goes(PageFields(b, flags), buffer)
  PROVE  \E w : PagesAre(b, flags, r, w)
<1>0. "more_pages" \in Members /\ "page_state" \in Members
  BY DEF Members
<1>1. CASE "HAS_MORE_PAGES" \in flags
  <2>1. PICK v : v = [r EXCEPT !["more_pages"] = TRUE]
    OBVIOUS
  <2>2. KeepsBut(r, v, {"more_pages"}) /\ v["more_pages"] = TRUE
    BY <1>0, <2>1, SetKeeps
  <2>3. PICK w : w = [v EXCEPT !["page_state"] = PageState]
    OBVIOUS
  <2>4. IsResult(v)
    BY <2>2 DEF KeepsBut
  <2>5. KeepsBut(v, w, {"page_state"}) /\ w["page_state"] = PageState
    BY <1>0, <2>3, <2>4, SetKeeps
  <2>6. w["more_pages"] = TRUE
    BY <1>0, <2>2, <2>5 DEF KeepsBut
  <2>7. KeepsBut(r, w, {"more_pages", "page_state"})
    BY <2>2, <2>5 DEF KeepsBut
  <2>8. PageFields(b, flags) = encode_long_string(b, PageState)
    BY <1>1 DEF PageFields
  <2>9. LongString(Reading(v, Size(b)), "page_state")
          = Reading([v EXCEPT !["page_state"] = PageState], Size(PageFields(b, flags)))
    BY <2>8, ShortResultTexts, LongStringRead
  <2>10. MorePages(Reading(r, Size(b)), flags) = LongString(Reading(v, Size(b)), "page_state")
    <3>1. Assign(Reading(r, Size(b)), "more_pages", TRUE) = Reading(v, Size(b))
      BY <2>1, AssignIs, ZenonT(60)
    <3> QED
      BY <1>1, <3>1 DEF MorePages
  <2>11. PagesAre(b, flags, r, w)
    BY <1>1, <2>3, <2>5, <2>6, <2>7, <2>9, <2>10 DEF PagesAre
  <2> QED
    BY <2>11
<1>2. CASE "HAS_MORE_PAGES" \notin flags
  <2>0. PICK no : no = FALSE
    OBVIOUS
  <2>1. PICK v : v = [r EXCEPT !["more_pages"] = no]
    OBVIOUS
  <2>2. KeepsBut(r, v, {"more_pages"}) /\ v["more_pages"] = FALSE
    BY <1>0, <2>0, <2>1, SetKeeps
  <2>3. KeepsBut(r, v, {"more_pages", "page_state"})
    BY <2>2 DEF KeepsBut
  <2>4. PageFields(b, flags) = b
    BY <1>2 DEF PageFields
  <2>5. Assign(Reading(r, Size(b)), "more_pages", FALSE) = Reading(v, Size(b))
    <3>1. Assign(Reading(r, Size(b)), "more_pages", no) = Reading(v, Size(b))
      <4>1. PICK m : m = Size(b)
        OBVIOUS
      <4>2. Assign(Reading(r, m), "more_pages", no)
              = Reading([r EXCEPT !["more_pages"] = no], m)
        BY AssignIs, Zenon
      <4>3. Assign(Reading(r, m), "more_pages", no) = Reading(v, m)
        BY <2>1, <4>2, Zenon
      <4> QED
        BY <4>1, <4>3
    <3> QED
      BY <2>0, <3>1
  <2>6. MorePages(Reading(r, Size(b)), flags) = Reading(v, Size(PageFields(b, flags)))
    BY <1>2, <2>4, <2>5 DEF MorePages
  <2>7. PagesAre(b, flags, r, v)
    BY <1>2, <2>2, <2>3, <2>6 DEF PagesAre
  <2> QED
    BY <2>7
<1> QED
  BY <1>1, <1>2

(* Two names are read one after the other.                                 *)
LEMMA SpecRead ==
  ASSUME buffer \in Buffers, NEW b \in Buffers, NEW r, IsResult(r), Goes(SpecFields(b), buffer)
  PROVE  \E w : /\ String(String(Reading(r, Size(b)), "keyspace"), "table")
                     = Reading(w, Size(SpecFields(b)))
                /\ KeepsBut(r, w, {"keyspace", "table"})
                /\ w["keyspace"] = Keyspace /\ w["table"] = Table
<1>0. "keyspace" \in Members /\ "table" \in Members
  BY DEF Members
<1>1. PICK v : v = [r EXCEPT !["keyspace"] = Keyspace]
  OBVIOUS
<1>2. KeepsBut(r, v, {"keyspace"}) /\ v["keyspace"] = Keyspace
  BY <1>0, <1>1, SetKeeps
<1>3. PICK w : w = [v EXCEPT !["table"] = Table]
  OBVIOUS
<1>4. IsResult(v)
  BY <1>2 DEF KeepsBut
<1>5. KeepsBut(v, w, {"table"}) /\ w["table"] = Table
  BY <1>0, <1>3, <1>4, SetKeeps
<1>6. w["keyspace"] = Keyspace
  BY <1>0, <1>2, <1>5 DEF KeepsBut
<1>7. KeepsBut(r, w, {"keyspace", "table"})
  BY <1>2, <1>5 DEF KeepsBut
<1>8. PICK c \in Buffers : c = encode_string(b, Keyspace)
  BY SpecEncoded
<1>9. SpecFields(b) \in Buffers /\ Goes(c, SpecFields(b)) /\ SpecFields(b) = encode_string(c, Table)
  BY <1>8, SpecEncoded DEF SpecFields
<1>10. Goes(c, buffer)
  BY <1>9, GoesOn
<1>11. String(Reading(r, Size(b)), "keyspace") = Reading(v, Size(c))
  BY <1>1, <1>8, <1>10, ShortResultTexts, StringRead
<1>12. String(Reading(v, Size(c)), "table") = Reading(w, Size(SpecFields(b)))
  <2>1. Goes(encode_string(c, Table), buffer)
    BY <1>9
  <2>2. Table \in Texts /\ Table.size \in Short
    BY ShortResultTexts
  <2>3. String(Reading(v, Size(c)), "table")
          = Reading([v EXCEPT !["table"] = Table], Size(encode_string(c, Table)))
    BY <2>1, <2>2, StringRead
  <2> QED
    BY <1>3, <1>9, <2>3
<1> QED
  BY <1>5, <1>6, <1>7, <1>11, <1>12

(* The table of all columns is read if it is there.                        *)
LEMMA TableRead ==
  ASSUME buffer \in Buffers, NEW b \in Buffers, NEW flags, NEW r, IsResult(r),
         Goes(GlobalFields(b, flags), buffer)
  PROVE  \E w : TableIs(b, flags, r, w)
<1>0. "global_table_spec" \in Members
  BY DEF Members
<1>1. CASE "GLOBAL_TABLESPEC" \in flags
  <2>1. PICK v : v = [r EXCEPT !["global_table_spec"] = TRUE]
    OBVIOUS
  <2>2. KeepsBut(r, v, {"global_table_spec"}) /\ v["global_table_spec"] = TRUE
    BY <1>0, <2>1, SetKeeps
  <2>3. IsResult(v)
    BY <2>2 DEF KeepsBut
  <2>4. GlobalFields(b, flags) = SpecFields(b)
    BY <1>1 DEF GlobalFields
  <2>5. PICK w : /\ String(String(Reading(v, Size(b)), "keyspace"), "table")
                      = Reading(w, Size(SpecFields(b)))
                 /\ KeepsBut(v, w, {"keyspace", "table"})
                 /\ w["keyspace"] = Keyspace /\ w["table"] = Table
    BY <2>3, <2>4, SpecRead
  <2>6. w["global_table_spec"] = TRUE
    BY <1>0, <2>2, <2>5 DEF KeepsBut
  <2>7. KeepsBut(r, w, {"global_table_spec", "keyspace", "table"})
    BY <2>2, <2>5 DEF KeepsBut
  <2>8. Assign(Reading(r, Size(b)), "global_table_spec", TRUE) = Reading(v, Size(b))
    BY <2>1, AssignIs, ZenonT(60)
  <2>9. GlobalTable(Reading(r, Size(b)), flags) = Reading(w, Size(GlobalFields(b, flags)))
    BY <1>1, <2>4, <2>5, <2>8 DEF GlobalTable
  <2>10. TableIs(b, flags, r, w)
    BY <1>1, <2>5, <2>6, <2>7, <2>9 DEF TableIs
  <2> QED
    BY <2>10
<1>2. CASE "GLOBAL_TABLESPEC" \notin flags
  <2>0. PICK no : no = FALSE
    OBVIOUS
  <2>1. PICK v : v = [r EXCEPT !["global_table_spec"] = no]
    OBVIOUS
  <2>2. KeepsBut(r, v, {"global_table_spec"}) /\ v["global_table_spec"] = FALSE
    BY <1>0, <2>0, <2>1, SetKeeps
  <2>3. KeepsBut(r, v, {"global_table_spec", "keyspace", "table"})
    BY <2>2 DEF KeepsBut
  <2>4. GlobalFields(b, flags) = b
    BY <1>2 DEF GlobalFields
  <2>5. Assign(Reading(r, Size(b)), "global_table_spec", FALSE) = Reading(v, Size(b))
    <3>1. Assign(Reading(r, Size(b)), "global_table_spec", no) = Reading(v, Size(b))
      <4>1. PICK m : m = Size(b)
        OBVIOUS
      <4>2. Assign(Reading(r, m), "global_table_spec", no)
              = Reading([r EXCEPT !["global_table_spec"] = no], m)
        BY AssignIs, Zenon
      <4>3. Assign(Reading(r, m), "global_table_spec", no) = Reading(v, m)
        BY <2>1, <4>2, Zenon
      <4> QED
        BY <4>1, <4>3
    <3> QED
      BY <2>0, <3>1
  <2>6. GlobalTable(Reading(r, Size(b)), flags) = Reading(v, Size(GlobalFields(b, flags)))
    BY <1>2, <2>4, <2>5 DEF GlobalTable
  <2>7. TableIs(b, flags, r, v)
    BY <1>2, <2>2, <2>3, <2>6 DEF TableIs
  <2> QED
    BY <2>7
<1> QED
  BY <1>1, <1>2

(* The columns are read if they are there.                                 *)
LEMMA DescriptionRead ==
  ASSUME buffer \in Buffers, NEW b \in Buffers, NEW s, s.columns \in Seq(Columns),
         NEW r, IsResult(r), r["column_count"] = Len(s.columns), r["column_index"] = {},
         "GLOBAL_TABLESPEC" \in s.flags => r["global_table_spec"] = TRUE,
         "GLOBAL_TABLESPEC" \notin s.flags => r["global_table_spec"] = FALSE,
         Goes(DescriptionFields(b, s), buffer)
  PROVE  \E w : ColumnsAre(b, s, r, w)
<1>1. CASE "NO_METADATA" \in s.flags
  <2>1. PICK v : v = [r EXCEPT !["no_metadata"] = TRUE]
    OBVIOUS
  <2>2. KeepsBut(r, v, {"no_metadata"}) /\ v["no_metadata"] = TRUE
    <3>1. "no_metadata" \in Members
      BY DEF Members
    <3> QED
      BY <2>1, <3>1, SetKeeps
  <2>3. KeepsBut(r, v, {"no_metadata", "column_metadata", "column_index"})
    BY <2>2 DEF KeepsBut
  <2>4. DescriptionFields(b, s) = b
    BY <1>1 DEF DescriptionFields
  <2>5. Assign(Reading(r, Size(b)), "no_metadata", TRUE) = Reading(v, Size(b))
    BY <2>1, AssignIs, ZenonT(60)
  <2>6. ColumnSpecs(Reading(r, Size(b)), s.flags) = Reading(v, Size(DescriptionFields(b, s)))
    BY <1>1, <2>4, <2>5 DEF ColumnSpecs
  <2>7. ColumnsAre(b, s, r, v)
    BY <1>1, <2>2, <2>3, <2>6 DEF ColumnsAre
  <2> QED
    BY <2>7
<1>2. CASE "NO_METADATA" \notin s.flags
  <2> DEFINE global == "GLOBAL_TABLESPEC" \in s.flags
  <2>1. global \in BOOLEAN
    BY SMT
  <2>2. r["global_table_spec"] = global
    <3>1. CASE "GLOBAL_TABLESPEC" \in s.flags
      <4>1. global = TRUE
        BY <3>1, SMT
      <4>2. r["global_table_spec"] = TRUE
        BY <3>1
      <4> HIDE DEF global
      <4> QED
        BY <4>1, <4>2, Zenon
    <3>2. CASE "GLOBAL_TABLESPEC" \notin s.flags
      <4>1. global = FALSE
        BY <3>2, SMT
      <4>2. r["global_table_spec"] = FALSE
        BY <3>2
      <4> HIDE DEF global
      <4> QED
        BY <4>1, <4>2, Zenon
    <3> QED
      BY <3>1, <3>2
  <2>3. PICK columns \in Seq(Columns) : columns = s.columns
    OBVIOUS
  <2>4. DescriptionFields(b, s) = ColumnsFields(b, columns, global)
    BY <1>2, <2>3, Zenon DEF DescriptionFields
  <2> HIDE DEF global
  <2>5. r.column_count = Len(columns) /\ r.column_index = {}
    BY <2>3
  <2>6. PICK m : m = MetadataUpTo(columns, global, Len(columns))
    OBVIOUS
  <2>7. PICK x : x = IndexOf(columns, Len(columns))
    OBVIOUS
  <2>8. PICK w : w = WithColumns(r, m, x)
    OBVIOUS
  <2>9. parse_columns(Reading(r, Size(b))) = Reading(w, Size(DescriptionFields(b, s)))
    <3>1. Goes(ColumnsFields(b, columns, global), buffer)
      BY <2>4
    <3>2. PICK g \in BOOLEAN : g = global
      BY <2>1
    <3>3. r.global_table_spec = g
      BY <2>2, <3>2
    <3>4. parse_columns(Reading(r, Size(b)))
           = Reading(WithColumns(r, MetadataUpTo(columns, g, Len(columns)),
                                 IndexOf(columns, Len(columns))),
                     Size(ColumnsFields(b, columns, g)))
      BY <2>5, <3>1, <3>2, <3>3, ColumnsRead
    <3> QED
      BY <2>4, <2>6, <2>7, <2>8, <3>2, <3>4
  <2>10. ColumnsIn(r, m, x, w)
    BY <2>8, WithColumnsHas
  <2>11. /\ KeepsBut(r, w, {"no_metadata", "column_metadata", "column_index"})
         /\ w["no_metadata"] = FALSE /\ w["column_metadata"] = m /\ w["column_index"] = x
    BY <2>10 DEF ColumnsIn, KeepsBut
  <2>12. ColumnSpecs(Reading(r, Size(b)), s.flags) = Reading(w, Size(DescriptionFields(b, s)))
    BY <1>2, <2>9 DEF ColumnSpecs
  <2>13. w["column_metadata"]
           = MetadataUpTo(s.columns, "GLOBAL_TABLESPEC" \in s.flags, Len(s.columns))
    BY <2>3, <2>6, <2>11, Zenon DEF global
  <2>14. w["column_index"] = IndexOf(s.columns, Len(s.columns))
    BY <2>3, <2>7, <2>11
  <2>15. ColumnsAre(b, s, r, w)
    BY <1>2, <2>11, <2>12, <2>13, <2>14, Zenon DEF ColumnsAre
  <2> QED
    BY <2>15
<1> QED
  BY <1>1, <1>2

-----------------------------------------------------------------------------
(* A result with metadata, and the buffers the metadata goes through: the  *)
(* flags, the number of columns, and the three parts.                      *)
Describes(s) == s.flags \in Flags /\ s.columns \in Seq(Columns)

MetadataSteps(b, s, c, d, f, g, h) ==
  /\ c = encode_int(b, s.flags) /\ d = encode_int(c, Len(s.columns))
  /\ f = PageFields(d, s.flags) /\ g = GlobalFields(f, s.flags) /\ h = DescriptionFields(g, s)
  /\ h = MetadataFields(b, s)

MetadataBuffers(b, s) ==
  \E c, d, f, g, h \in Buffers :
    /\ MetadataSteps(b, s, c, d, f, g, h)
    /\ Goes(b, c) /\ Goes(c, d) /\ Goes(d, f) /\ Goes(f, g) /\ Goes(g, h)

(* Each part goes on from the one before.                                  *)
LEMMA DescriptionGoes ==
  ASSUME NEW b \in Buffers, NEW s, Describes(s)
  PROVE  DescriptionFields(b, s) \in Buffers /\ Goes(b, DescriptionFields(b, s))
<1>1. CASE "NO_METADATA" \in s.flags
  <2>1. DescriptionFields(b, s) = b
    BY <1>1 DEF DescriptionFields
  <2> QED
    BY <2>1, GoesOn
<1>2. CASE "NO_METADATA" \notin s.flags
  <2> DEFINE global == "GLOBAL_TABLESPEC" \in s.flags
  <2>1. global \in BOOLEAN
    BY SMT
  <2>2. DescriptionFields(b, s) = ColumnsFields(b, s.columns, global)
    BY <1>2, Zenon DEF DescriptionFields
  <2> HIDE DEF global
  <2>3. PICK columns \in Seq(Columns) : columns = s.columns
    BY DEF Describes
  <2>4. PICK g \in BOOLEAN : g = global
    BY <2>1
  <2>5. PICK after : ColumnsSteps(b, columns, g, after)
    BY ColumnsWritten
  <2>6. ColumnsFields(b, columns, g) \in Buffers /\ Goes(b, ColumnsFields(b, columns, g))
    BY <2>5, ColumnsGo
  <2> QED
    BY <2>2, <2>3, <2>4, <2>6
<1> QED
  BY <1>1, <1>2

(* So the metadata does.                                                   *)
LEMMA MetadataEncoded ==
  ASSUME NEW b \in Buffers, NEW s, Describes(s)
  PROVE  MetadataBuffers(b, s)
<1>1. s.flags \in Contents /\ Len(s.columns) \in Contents
  <2>1. Len(s.columns) \in Int /\ s.flags \in Flags
    BY DEF Describes
  <2> QED
    BY <2>1, NumberContents DEF Contents
<1>2. PICK c \in Buffers : c = encode_int(b, s.flags) /\ Goes(b, c)
  BY <1>1, EncodeInt
<1>3. PICK d \in Buffers : d = encode_int(c, Len(s.columns)) /\ Goes(c, d)
  BY <1>1, EncodeInt
<1>4. PICK f \in Buffers : f = PageFields(d, s.flags) /\ Goes(d, f)
  BY ShortResultTexts, EncodeLong, GoesOn DEF PageFields
<1>5. PICK g \in Buffers : g = GlobalFields(f, s.flags) /\ Goes(f, g)
  BY SpecEncoded, GoesOn DEF GlobalFields
<1>6. PICK h \in Buffers : h = DescriptionFields(g, s) /\ Goes(g, h)
  BY DescriptionGoes
<1>7. h = MetadataFields(b, s)
  BY <1>2, <1>3, <1>4, <1>5, <1>6 DEF MetadataFields
<1> QED
  BY <1>2, <1>3, <1>4, <1>5, <1>6, <1>7 DEF MetadataSteps, MetadataBuffers

(* It goes on from where it is written.                                    *)
LEMMA MetadataGoes ==
  ASSUME NEW b \in Buffers, NEW s, Describes(s)
  PROVE  MetadataFields(b, s) \in Buffers /\ Goes(b, MetadataFields(b, s))
<1>1. PICK c, d, f, g, h \in Buffers :
        /\ MetadataSteps(b, s, c, d, f, g, h)
        /\ Goes(b, c) /\ Goes(c, d) /\ Goes(d, f) /\ Goes(f, g) /\ Goes(g, h)
  <2>1. MetadataBuffers(b, s)
    BY MetadataEncoded
  <2> QED
    BY <2>1, Zenon DEF MetadataBuffers
<1>2. Goes(b, d)
  BY <1>1, GoesOn
<1>3. Goes(b, f)
  BY <1>1, <1>2, GoesOn
<1>4. Goes(b, g)
  BY <1>1, <1>3, GoesOn
<1>5. Goes(b, h)
  BY <1>1, <1>4, GoesOn
<1> QED
  BY <1>1, <1>5 DEF MetadataSteps

(* What parse_metadata makes of it.                                        *)
MetadataMembers ==
  {"column_count", "more_pages", "page_state", "global_table_spec", "keyspace", "table",
   "no_metadata", "column_metadata", "column_index"}

DescribedBy(s, w) ==
  /\ w["column_count"] = Len(s.columns)
  /\ "HAS_MORE_PAGES" \in s.flags => w["more_pages"] = TRUE /\ w["page_state"] = PageState
  /\ "HAS_MORE_PAGES" \notin s.flags => w["more_pages"] = FALSE
  /\ "GLOBAL_TABLESPEC" \in s.flags => /\ w["global_table_spec"] = TRUE
                                       /\ w["keyspace"] = Keyspace /\ w["table"] = Table
  /\ "GLOBAL_TABLESPEC" \notin s.flags => w["global_table_spec"] = FALSE
  /\ "NO_METADATA" \in s.flags => w["no_metadata"] = TRUE
  /\ "NO_METADATA" \notin s.flags =>
       /\ w["no_metadata"] = FALSE
       /\ w["column_metadata"]
            = MetadataUpTo(s.columns, "GLOBAL_TABLESPEC" \in s.flags, Len(s.columns))
       /\ w["column_index"] = IndexOf(s.columns, Len(s.columns))

MetadataIs(b, s, r, w) ==
  /\ parse_metadata(Reading(r, Size(b))) = Reading(w, Size(MetadataFields(b, s)))
  /\ KeepsBut(r, w, MetadataMembers)
  /\ DescribedBy(s, w)

(* parse_metadata finds every part, and reads it as the server wrote it.   *)
LEMMA MetadataRead ==
  ASSUME buffer \in Buffers, NEW b \in Buffers, NEW s, Describes(s),
         Goes(MetadataFields(b, s), buffer), NEW r, IsResult(r), r["column_index"] = {}
  PROVE  \E w : MetadataIs(b, s, r, w)
<1>1. PICK c, d, f, g, h \in Buffers :
        /\ MetadataSteps(b, s, c, d, f, g, h)
        /\ Goes(b, c) /\ Goes(c, d) /\ Goes(d, f) /\ Goes(f, g) /\ Goes(g, h)
  <2>1. MetadataBuffers(b, s)
    BY MetadataEncoded
  <2> QED
    BY <2>1, Zenon DEF MetadataBuffers
<1>2. /\ c = encode_int(b, s.flags) /\ d = encode_int(c, Len(s.columns))
      /\ f = PageFields(d, s.flags) /\ g = GlobalFields(f, s.flags)
      /\ h = DescriptionFields(g, s) /\ h = MetadataFields(b, s)
  BY <1>1 DEF MetadataSteps
<1>3. Goes(h, buffer)
  BY <1>2
<1>4. Goes(g, buffer)
  BY <1>1, <1>3, GoesOn
<1>5. Goes(f, buffer)
  BY <1>1, <1>4, GoesOn
<1>6. Goes(d, buffer)
  BY <1>1, <1>5, GoesOn
<1>7. Goes(c, buffer)
  BY <1>1, <1>6, GoesOn
<1>8. s.flags \in Contents /\ Len(s.columns) \in Contents /\ s.columns \in Seq(Columns)
  <2>1. Len(s.columns) \in Int /\ s.flags \in Flags /\ s.columns \in Seq(Columns)
    BY DEF Describes
  <2> QED
    BY <2>1, NumberContents DEF Contents
<1>9. PICK flags : flags = s.flags
  OBVIOUS
<1>10. PICK count : count = Len(s.columns)
  OBVIOUS
<1>11. decode_int(buffer, Size(b)) = [value |-> flags, next |-> Size(c)]
  BY <1>2, <1>7, <1>8, <1>9, DecodeInt, EncodeInt
<1>12. PICK u : u = [r EXCEPT !["column_count"] = count]
  OBVIOUS
<1>13. KeepsBut(r, u, {"column_count"}) /\ u["column_count"] = count
  <2>1. "column_count" \in Members
    BY DEF Members
  <2> QED
    BY <1>12, <2>1, SetKeeps
<1>14. IsResult(u)
  BY <1>13 DEF KeepsBut
<1>15. Int32(Reading(r, Size(c)), "column_count") = Reading(u, Size(d))
  <2>1. Int32(Reading(r, Size(c)), "column_count")
          = Reading([r EXCEPT !["column_count"] = count], Size(encode_int(c, count)))
    <3>1. Goes(encode_int(c, count), buffer) /\ count \in Contents
      BY <1>2, <1>6, <1>8, <1>10
    <3> QED
      BY <3>1, IntRead
  <2> QED
    BY <1>2, <1>10, <1>12, <2>1
<1>16. PICK v : PagesAre(d, flags, u, v)
  BY <1>2, <1>5, <1>9, <1>14, PagesRead
<1>17. /\ MorePages(Reading(u, Size(d)), flags) = Reading(v, Size(f))
       /\ KeepsBut(u, v, {"more_pages", "page_state"}) /\ IsResult(v)
       /\ "HAS_MORE_PAGES" \in flags => v["more_pages"] = TRUE /\ v["page_state"] = PageState
       /\ "HAS_MORE_PAGES" \notin flags => v["more_pages"] = FALSE
  BY <1>2, <1>9, <1>16 DEF PagesAre, KeepsBut
<1>18. PICK x : TableIs(f, flags, v, x)
  BY <1>2, <1>4, <1>9, <1>17, TableRead
<1>19. /\ GlobalTable(Reading(v, Size(f)), flags) = Reading(x, Size(g))
       /\ KeepsBut(v, x, {"global_table_spec", "keyspace", "table"}) /\ IsResult(x)
       /\ "GLOBAL_TABLESPEC" \in flags => /\ x["global_table_spec"] = TRUE
                                          /\ x["keyspace"] = Keyspace /\ x["table"] = Table
       /\ "GLOBAL_TABLESPEC" \notin flags => x["global_table_spec"] = FALSE
  BY <1>2, <1>9, <1>18 DEF TableIs, KeepsBut
<1>20. x["column_count"] = Len(s.columns) /\ x["column_index"] = {}
  BY <1>10, <1>13, <1>17, <1>19 DEF KeepsBut, Members
<1>21. PICK w : ColumnsAre(g, s, x, w)
  <2>1. Goes(DescriptionFields(g, s), buffer)
    BY <1>2, <1>3
  <2>2. "GLOBAL_TABLESPEC" \in s.flags => x["global_table_spec"] = TRUE
    BY <1>9, <1>19
  <2>3. "GLOBAL_TABLESPEC" \notin s.flags => x["global_table_spec"] = FALSE
    BY <1>9, <1>19
  <2> QED
    BY <1>8, <1>19, <1>20, <2>1, <2>2, <2>3, DescriptionRead
<1>22. /\ ColumnSpecs(Reading(x, Size(g)), flags) = Reading(w, Size(h))
       /\ KeepsBut(x, w, {"no_metadata", "column_metadata", "column_index"})
  BY <1>2, <1>9, <1>21 DEF ColumnsAre
<1>23. parse_metadata(Reading(r, Size(b))) = Reading(w, Size(h))
  <2>1. PICK fl : fl = decode_int(buffer, Size(b))
    OBVIOUS
  <2>2. fl.value = flags /\ fl.next = Size(c)
    BY <1>11, <2>1
  <2>3. [Reading(r, Size(b)) EXCEPT !.next = fl.next] = Reading(r, Size(c))
    BY <2>2 DEF Reading
  <2>4. parse_metadata(Reading(r, Size(b)))
          = ColumnSpecs(GlobalTable(MorePages(
              Int32([Reading(r, Size(b)) EXCEPT !.next = fl.next], "column_count"),
              fl.value), fl.value), fl.value)
    <3>1. Reading(r, Size(b)).next = Size(b)
      BY ReadingIs
    <3> QED
      BY <2>1, <3>1, Zenon DEF parse_metadata
  <2> QED
    BY <1>15, <1>17, <1>19, <1>22, <2>2, <2>3, <2>4
<1>24. KeepsBut(r, w, MetadataMembers)
  BY <1>13, <1>17, <1>19, <1>22 DEF KeepsBut, MetadataMembers
<1>25. DescribedBy(s, w)
  <2>1. w["column_count"] = Len(s.columns)
    BY <1>20, <1>22 DEF KeepsBut, Members
  <2>2. /\ w["more_pages"] = v["more_pages"] /\ w["page_state"] = v["page_state"]
        /\ w["global_table_spec"] = x["global_table_spec"]
        /\ w["keyspace"] = x["keyspace"] /\ w["table"] = x["table"]
    BY <1>19, <1>22 DEF KeepsBut, Members
  <2>3. /\ "NO_METADATA" \in s.flags => w["no_metadata"] = TRUE
        /\ "NO_METADATA" \notin s.flags =>
             /\ w["no_metadata"] = FALSE
             /\ w["column_metadata"]
                  = MetadataUpTo(s.columns, "GLOBAL_TABLESPEC" \in s.flags, Len(s.columns))
             /\ w["column_index"] = IndexOf(s.columns, Len(s.columns))
    BY <1>21, Zenon DEF ColumnsAre
  <2>4. /\ "HAS_MORE_PAGES" \in s.flags => w["more_pages"] = TRUE /\ w["page_state"] = PageState
        /\ "HAS_MORE_PAGES" \notin s.flags => w["more_pages"] = FALSE
    BY <1>9, <1>17, <2>2
  <2>5. /\ "GLOBAL_TABLESPEC" \in s.flags => /\ w["global_table_spec"] = TRUE
                                             /\ w["keyspace"] = Keyspace /\ w["table"] = Table
        /\ "GLOBAL_TABLESPEC" \notin s.flags => w["global_table_spec"] = FALSE
    BY <1>9, <1>19, <2>2
  <2> QED
    BY <2>1, <2>3, <2>4, <2>5, Zenon DEF DescribedBy
<1>26. MetadataIs(b, s, r, w)
  BY <1>2, <1>23, <1>24, <1>25 DEF MetadataIs
<1> QED
  BY <1>26

-----------------------------------------------------------------------------
(* A cell goes on from where it is written; if it is no null it has its    *)
(* size and its bytes.                                                     *)
LEMMA CellGoes ==
  ASSUME NEW b \in Buffers, NEW size \in CellSizes
  PROVE  /\ CellFields(b, size) \in Buffers /\ Goes(b, CellFields(b, size))
         /\ Goes(encode_int(b, size), CellFields(b, size))
         /\ size >= 0 => Size(CellFields(b, size)) = Size(b) + 4 + size
<1>1. size \in Int /\ size \in Contents
  BY ResultAssumption, NumberContents
<1>2. PICK c \in Buffers : c = encode_int(b, size) /\ Goes(b, c) /\ Size(c) = Size(b) + 4
  BY <1>1, EncodeInt
<1>3. CASE size < 0
  <2>1. CellFields(b, size) = c
    BY <1>2, <1>3 DEF CellFields
  <2> QED
    BY <1>1, <1>2, <1>3, <2>1, GoesOn
<1>4. CASE ~(size < 0)
  <2>1. size \in Nat
    BY <1>1, <1>4
  <2>2. CellText(size) \in Texts /\ CellText(size).size = size
    BY <2>1 DEF Texts, ResultTexts, CellText, EmptyText, Text
  <2>3. PICK t \in Texts : t = CellText(size) /\ t.size = size
    BY <2>2
  <2>4. CellFields(b, size) = Append(c, Bytes(t))
    BY <1>2, <1>4, <2>3 DEF CellFields
  <2>5. /\ Append(c, Bytes(t)) \in Buffers /\ Goes(c, Append(c, Bytes(t)))
        /\ Size(Append(c, Bytes(t))) = Size(c) + size
    BY <2>3, EncodeBytes
  <2>6. Goes(b, Append(c, Bytes(t)))
    BY <1>2, <2>5, GoesOn
  <2> QED
    BY <1>2, <2>4, <2>5, <2>6
<1> QED
  BY <1>3, <1>4

(* What RowFields yields.                                                  *)
RowSteps(b, row) ==
  /\ RowFields(b, row, 0) = b
  /\ \A i \in 0..Len(row) : RowFields(b, row, i) \in Buffers
  /\ \A i \in 1..Len(row) : RowFields(b, row, i) = CellFields(RowFields(b, row, i - 1), row[i])

(* The cells of a row are written one behind the other.                    *)
LEMMA RowWritten ==
  ASSUME NEW b \in Buffers, NEW row \in Seq(CellSizes)
  PROVE  RowSteps(b, row)
<1> DEFINE n == Len(row)
           Eq(f) == f = [i \in 0..n |-> IF i = 0 THEN b ELSE CellFields(f[i - 1], row[i])]
           e == CHOOSE f : Eq(f)
           step == [i \in 1..n |-> [c \in Buffers |-> CellFields(c, row[i])]]
<1>0. n \in Nat /\ n \in Int /\ \A i \in 1..n : row[i] \in CellSizes
  OBVIOUS
<1>1. \A i : RowFields(b, row, i) = e[i]
  BY Zenon DEF RowFields
<1>3. step \in [1..n -> [Buffers -> Buffers]]
  <2>1. \A i \in 1..n : \A c \in Buffers : CellFields(c, row[i]) \in Buffers
    BY <1>0, CellGoes
  <2> QED
    BY <2>1
<1>4. PICK f \in [0..n -> Buffers] :
        f[0] = b /\ \A i \in 1..n : f[i] = step[i][f[i - 1]]
  <2> HIDE DEF step, n
  <2>1. n \in Nat
    BY <1>0
  <2>2. \E f : Iterated(f, Buffers, b, n, step)
    BY <1>3, <2>1, Iterates
  <2> QED
    BY <2>2 DEF Iterated
<1>5. Eq(f)
  <2> HIDE DEF n
  <2>1. ASSUME NEW i \in 1..n PROVE f[i] = CellFields(f[i - 1], row[i])
    <3>1. f[i - 1] \in Buffers
      BY <1>0
    <3> QED
      BY <1>4, <3>1
  <2>2. \A i \in 0..n : f[i] = IF i = 0 THEN b ELSE CellFields(f[i - 1], row[i])
    BY <1>0, <1>4, <2>1
  <2> QED
    BY <2>2
<1>6. Eq(e)
  <2> HIDE DEF Eq
  <2> QED
    BY <1>5
<1> HIDE DEF e, n
<1>7. /\ e[0] = b
      /\ \A i \in 1..n : e[i] = CellFields(e[i - 1], row[i])
  BY <1>0, <1>6
<1>8. \A i \in 0..n : e[i] \in Buffers
  <2> DEFINE S == {j \in 0..n : e[j] \in Buffers}
  <2>1. 0 \in S
    BY <1>0, <1>7
  <2>2. ASSUME NEW i \in 1..n, i - 1 \in S PROVE i \in S
    <3>1. e[i - 1] \in Buffers /\ row[i] \in CellSizes /\ i \in 0..n
      BY <1>0, <2>2
    <3>2. e[i] \in Buffers
      BY <1>7, <3>1, CellGoes
    <3> QED
      BY <3>1, <3>2
  <2> HIDE DEF S
  <2>3. \A i \in 0..n : i \in S
    BY <1>0, <2>1, <2>2, UpTo
  <2> QED
    BY <2>3 DEF S
<1> QED
  BY <1>1, <1>7, <1>8 DEF RowSteps, n

(* Each part of a row goes on to the whole of it.                          *)
LEMMA RowGoes ==
  ASSUME NEW b \in Buffers, NEW row \in Seq(CellSizes)
  PROVE  /\ RowFields(b, row, Len(row)) \in Buffers
         /\ \A i \in 0..Len(row) : Goes(RowFields(b, row, i), RowFields(b, row, Len(row)))
         /\ Goes(b, RowFields(b, row, Len(row)))
<1> DEFINE n == Len(row)
           after == [i \in 0..n |-> RowFields(b, row, i)]
<1>0. n \in Nat /\ 0 \in 0..n /\ n \in 0..n /\ \A i \in 1..n : row[i] \in CellSizes
  OBVIOUS
<1>1. RowSteps(b, row)
  BY RowWritten
<1>2. /\ RowFields(b, row, 0) = b
      /\ \A i \in 0..n : RowFields(b, row, i) \in Buffers
      /\ \A i \in 1..n : RowFields(b, row, i) = CellFields(RowFields(b, row, i - 1), row[i])
  BY <1>1 DEF RowSteps
<1> HIDE DEF n
<1>3. \A i \in 0..n : after[i] = RowFields(b, row, i) /\ after[i] \in Buffers
  BY <1>2
<1>4. ASSUME NEW i \in 1..n PROVE Goes(after[i - 1], after[i])
  <2>1. i - 1 \in 0..n /\ i \in 0..n
    BY <1>0
  <2>2. PICK c \in Buffers : c = RowFields(b, row, i - 1)
    BY <1>2, <2>1
  <2>3. Goes(c, CellFields(c, row[i]))
    BY <1>0, CellGoes
  <2> QED
    BY <1>2, <1>3, <2>1, <2>2, <2>3
<1> HIDE DEF after
<1>5. \A i \in 0..n : Goes(after[i], after[n])
  BY <1>0, <1>3, <1>4, StepsGo
<1>6. \A i \in 0..n : Goes(RowFields(b, row, i), RowFields(b, row, n))
  BY <1>0, <1>3, <1>5
<1> QED
  BY <1>0, <1>2, <1>6 DEF n

-----------------------------------------------------------------------------
(* Where the loop of parse_row begins.                                     *)
FirstCell(pos) == [row |-> << >>, next |-> pos]

(* f goes through n turns of it.                                           *)
CellSteps(f, pos, n) ==
  f = [i \in 0..n |-> IF i = 0 THEN FirstCell(pos) ELSE NextCell(f[i - 1])]

(* There is such a function.                                               *)
LEMMA CellsStep ==
  ASSUME NEW pos, NEW n \in Nat
  PROVE  \E f : CellSteps(f, pos, n)
<1> DEFINE S == {k \in 0..n : \E f : CellSteps(f, pos, k)}
<1>1. 0 \in S
  <2> DEFINE f == [i \in 0..0 |-> FirstCell(pos)]
  <2>1. CellSteps(f, pos, 0)
    <3>1. \A i \in 0..0 : f[i] = IF i = 0 THEN FirstCell(pos) ELSE NextCell(f[i - 1])
      OBVIOUS
    <3> QED
      BY <3>1 DEF CellSteps
  <2> HIDE DEF f
  <2> QED
    BY <2>1
<1>2. ASSUME NEW k \in 1..n, k - 1 \in S PROVE k \in S
  <2>1. PICK f : CellSteps(f, pos, k - 1)
    BY <1>2
  <2>2. PICK x : x = NextCell(f[k - 1])
    OBVIOUS
  <2>3. \A i \in 0..(k - 1) : f[i] = IF i = 0 THEN FirstCell(pos) ELSE NextCell(f[i - 1])
    BY <2>1 DEF CellSteps
  <2> DEFINE g == [i \in 0..k |-> IF i = k THEN x ELSE f[i]]
  <2>4. ASSUME NEW i \in 0..k
        PROVE  g[i] = IF i = 0 THEN FirstCell(pos) ELSE NextCell(g[i - 1])
    <3>1. CASE i = 0
      <4>1. i \in 0..(k - 1) /\ i # k
        BY <3>1
      <4> QED
        BY <2>3, <3>1, <4>1
    <3>2. CASE i # 0
      <4>1. i - 1 \in 0..k /\ i - 1 # k
        BY <3>2
      <4>2. g[i - 1] = f[i - 1]
        BY <4>1
      <4>3. CASE i = k
        BY <2>2, <3>2, <4>2, <4>3
      <4>4. CASE i # k
        <5>1. i \in 0..(k - 1)
          BY <4>4
        <5>2. g[i] = f[i]
          BY <4>4
        <5> QED
          BY <2>3, <3>2, <4>2, <5>1, <5>2
      <4> QED
        BY <4>3, <4>4
    <3> QED
      BY <3>1, <3>2
  <2>5. CellSteps(g, pos, k)
    BY <2>4 DEF CellSteps
  <2>6. k \in 0..n
    OBVIOUS
  <2> HIDE DEF g
  <2> QED
    BY <2>5, <2>6
<1>3. n \in S
  <2>1. \A i \in 0..n : i \in S
    <3> HIDE DEF S
    <3> QED
      BY <1>1, <1>2, UpTo
  <2> QED
    BY <2>1
<1> QED
  BY <1>3

(* parse_row goes through as many turns as there are columns.              *)
LEMMA RowParsed ==
  ASSUME NEW pos, NEW n \in Nat, result.column_count = n
  PROVE  \E f : CellSteps(f, pos, n) /\ parse_row(pos) = f[n]
<1> DEFINE e == CHOOSE f : CellSteps(f, pos, result.column_count)
<1>1. parse_row(pos) = e[result.column_count]
  BY Zenon DEF parse_row, CellSteps, NextCell, FirstCell
<1>2. CellSteps(e, pos, result.column_count)
  BY CellsStep
<1> HIDE DEF e
<1> QED
  BY <1>1, <1>2

(* There is no null among the first i cells of a row.                      *)
NoNullUpTo(row, i) == \A k \in 1..i : row[k] >= 0

(* A row as parse_row yields it, of one written behind b: up to the first  *)
(* null every cell has its place and its size, and without a null the next *)
(* row begins behind it.                                                   *)
RowIs(b, row, p) ==
  /\ \A c \in 1..Len(row) :
       NoNullUpTo(row, c - 1) =>
         p.row[c] = [pos |-> Size(RowFields(b, row, c - 1)) + 4, size |-> AsSize(row[c])]
  /\ NoNullUpTo(row, Len(row)) => p.next = Size(RowFields(b, row, Len(row)))

(* parse_row yields that.                                                  *)
LEMMA RowRead ==
  ASSUME buffer \in Buffers, NEW b \in Buffers, NEW row \in Seq(CellSizes),
         result.column_count = Len(row), Goes(RowFields(b, row, Len(row)), buffer)
  PROVE  RowIs(b, row, parse_row(Size(b)))
<1> DEFINE n == Len(row)
           R(i) == RowFields(b, row, i)
           Cell(c) == [pos |-> Size(R(c - 1)) + 4, size |-> AsSize(row[c])]
<1>0. n \in Nat /\ 0 \in 0..n /\ n \in 0..n /\ \A i \in 1..n : row[i] \in CellSizes
  OBVIOUS
<1>1. /\ R(0) = b
      /\ \A i \in 0..n : R(i) \in Buffers
      /\ \A i \in 1..n : R(i) = CellFields(R(i - 1), row[i])
  <2>1. RowSteps(b, row)
    BY RowWritten
  <2> QED
    BY <2>1 DEF RowSteps
<1>2. \A i \in 0..n : Goes(R(i), R(n)) /\ R(i) \in Buffers
  BY <1>1, RowGoes
<1>3. \A i \in 0..n : Goes(R(i), buffer)
  <2>1. Goes(R(n), buffer) /\ R(n) \in Buffers
    BY <1>0, <1>2
  <2> HIDE DEF n, R
  <2> QED
    BY <1>2, <2>1, GoesOn
<1>4. PICK f : CellSteps(f, Size(b), n) /\ parse_row(Size(b)) = f[n]
  BY <1>0, RowParsed
<1> HIDE DEF n, R
<1>5. f[0] = FirstCell(Size(b)) /\ \A i \in 1..n : f[i] = NextCell(f[i - 1])
  <2>1. \A i \in 0..n : f[i] = IF i = 0 THEN FirstCell(Size(b)) ELSE NextCell(f[i - 1])
    BY <1>4 DEF CellSteps
  <2>2. \A i \in 1..n : i \in 0..n /\ i # 0
    BY <1>0
  <2> QED
    BY <1>0, <2>1, <2>2
<1> DEFINE Shape(i) == f[i].row = [k \in 1..i |-> f[i].row[k]]
           Next(i) == NoNullUpTo(row, i) => f[i].next = Size(R(i))
           Row(i) == \A c \in 1..i : NoNullUpTo(row, c - 1) => f[i].row[c] = Cell(c)
           S == {i \in 0..n : Shape(i) /\ Next(i) /\ Row(i)}
<1>6. 0 \in S
  <2>1. f[0].row = << >> /\ f[0].next = Size(b)
    BY <1>5 DEF FirstCell
  <2>2. Shape(0)
    BY <2>1
  <2>3. Next(0) /\ Row(0)
    BY <1>1, <2>1
  <2> QED
    BY <1>0, <2>2, <2>3
<1>7. ASSUME NEW i \in 1..n, i - 1 \in S PROVE i \in S
  <2>0. i \in Nat /\ i \in 0..n /\ i - 1 \in 0..n /\ i - 1 \in Nat /\ (i - 1) + 1 = i
    BY <1>0
  <2>1. Shape(i - 1) /\ Next(i - 1) /\ Row(i - 1)
    BY <1>7
  <2>2. PICK d : d = decode_int(buffer, f[i - 1].next)
    OBVIOUS
  <2>3. PICK x : x = [pos |-> d.next, size |-> AsSize(d.value)]
    OBVIOUS
  <2>4. f[i].row = Append(f[i - 1].row, x) /\ f[i].next = Plus(d.next, d.value)
    <3>1. PICK p : p = f[i - 1]
      OBVIOUS
    <3>2. PICK q : q = [row |-> Append(p.row, x), next |-> Plus(d.next, d.value)]
      OBVIOUS
    <3>3. NextCell(p) = q
      BY <2>2, <2>3, <3>1, <3>2, Zenon DEF NextCell
    <3>4. f[i] = q
      BY <1>5, <3>1, <3>3
    <3> QED
      BY <3>1, <3>2, <3>4
  <2>5. f[i].row = [k \in 1..i |-> IF k <= i - 1 THEN f[i - 1].row[k] ELSE x]
    <3>1. PICK s : s = f[i - 1].row
      OBVIOUS
    <3>2. PICK m \in Nat : m = i - 1
      BY <2>0
    <3>3. s = [k \in 1..m |-> s[k]]
      BY <2>1, <3>1, <3>2
    <3>4. Append(s, x) = [k \in 1..(m + 1) |-> IF k <= m THEN s[k] ELSE x]
      BY <3>3, AppendOne
    <3> QED
      BY <2>0, <2>4, <3>1, <3>2, <3>4
  <2>6. Shape(i)
    BY <2>5
  <2>7. PICK c \in Buffers : c = R(i - 1)
    BY <1>1, <2>0
  <2>8. row[i] \in CellSizes /\ row[i] \in Int /\ row[i] \in Contents
    <3>1. row[i] \in CellSizes
      BY <1>0
    <3>2. CellSizes \subseteq Int
      BY ResultAssumption
    <3> QED
      <4>1. PICK size : size = row[i]
        OBVIOUS
      <4>2. size \in Int
        BY <3>1, <3>2, <4>1
      <4>3. size \in Contents
        BY <4>2, NumberContents
      <4> QED
        BY <3>1, <4>1, <4>2, <4>3, Zenon
  <2>9. R(i) = CellFields(c, row[i]) /\ Goes(R(i), buffer) /\ R(i) \in Buffers
    BY <1>1, <1>3, <2>0, <2>7
  <2>10. Goes(encode_int(c, row[i]), R(i)) /\ encode_int(c, row[i]) \in Buffers
    BY <2>8, <2>9, CellGoes, EncodeInt
  <2>11. Goes(encode_int(c, row[i]), buffer)
    BY <2>9, <2>10, GoesOn
  <2>12. Size(c) \in Nat
    BY SizeIs
  <2>13. ASSUME NoNullUpTo(row, i - 1) PROVE d.value = row[i] /\ d.next = Size(c) + 4
    <3>1. f[i - 1].next = Size(c)
      BY <2>1, <2>7, <2>13
    <3>2. d = [value |-> row[i], next |-> Size(c) + 4]
      BY <2>2, <2>8, <2>11, <3>1, DecodeInt
    <3> QED
      BY <3>2
  <2>14. Next(i)
    <3> SUFFICES ASSUME NoNullUpTo(row, i) PROVE f[i].next = Size(R(i))
      OBVIOUS
    <3>1. NoNullUpTo(row, i - 1) /\ row[i] >= 0
      BY <2>0 DEF NoNullUpTo
    <3>2. f[i].next = Plus(Size(c) + 4, row[i])
      BY <2>4, <2>13, <3>1
    <3>3. PICK m \in Nat : m = Size(c) + 4
      BY <2>12
    <3>4. Plus(m, row[i]) = m + row[i]
      BY <2>8, SerializationAssumption DEF Plus
    <3>5. Size(R(i)) = Size(c) + 4 + row[i]
      BY <2>8, <2>9, <3>1, CellGoes
    <3> QED
      BY <3>2, <3>3, <3>4, <3>5
  <2>15. Row(i)
    <3> SUFFICES ASSUME NEW k \in 1..i, NoNullUpTo(row, k - 1) PROVE f[i].row[k] = Cell(k)
      OBVIOUS
    <3>1. CASE k <= i - 1
      <4>1. k \in 1..(i - 1)
        BY <2>0, <3>1
      <4>2. f[i].row[k] = f[i - 1].row[k]
        BY <2>5, <3>1
      <4>3. f[i - 1].row[k] = Cell(k)
        BY <2>1, <4>1
      <4> QED
        BY <4>2, <4>3
    <3>2. CASE ~(k <= i - 1)
      <4>1. k = i
        BY <2>0, <3>2
      <4>2. f[i].row[k] = x
        BY <2>5, <3>2
      <4>3. x = [pos |-> Size(c) + 4, size |-> AsSize(row[i])]
        BY <2>3, <2>13, <4>1
      <4> QED
        BY <2>7, <4>1, <4>2, <4>3
    <3> QED
      BY <3>1, <3>2
  <2> QED
    BY <2>0, <2>6, <2>14, <2>15
<1>8. n \in S
  <2>1. \A i \in 0..n : i \in S
    <3> HIDE DEF S
    <3> QED
      BY <1>0, <1>6, <1>7, UpTo
  <2> QED
    BY <1>0, <2>1
<1>9. Next(n) /\ Row(n)
  BY <1>8
<1> QED
  BY <1>4, <1>9 DEF RowIs, n, R

-----------------------------------------------------------------------------
(* What RowsFields yields.                                                 *)
RowsSteps(b, rows) ==
  /\ RowsFields(b, rows, 0) = b
  /\ \A i \in 0..Len(rows) : RowsFields(b, rows, i) \in Buffers
  /\ \A i \in 1..Len(rows) :
       RowsFields(b, rows, i) = RowFields(RowsFields(b, rows, i - 1), rows[i], Len(rows[i]))

(* The rows are written one behind the other.                              *)
LEMMA RowsWritten ==
  ASSUME NEW b \in Buffers, NEW rows \in Seq(Seq(CellSizes))
  PROVE  RowsSteps(b, rows)
<1> DEFINE n == Len(rows)
           All(c, row) == RowFields(c, row, Len(row))
           Eq(f) == f = [i \in 0..n |-> IF i = 0 THEN b ELSE All(f[i - 1], rows[i])]
           e == CHOOSE f : Eq(f)
           step == [i \in 1..n |-> [c \in Buffers |-> All(c, rows[i])]]
<1>0. n \in Nat /\ n \in Int /\ \A i \in 1..n : rows[i] \in Seq(CellSizes)
  OBVIOUS
<1>1. \A i : RowsFields(b, rows, i) = e[i]
  BY Zenon DEF RowsFields
<1>2. \A row \in Seq(CellSizes) : \A c \in Buffers : All(c, row) \in Buffers
  BY RowGoes
<1> HIDE DEF All
<1>3. step \in [1..n -> [Buffers -> Buffers]]
  <2>1. \A i \in 1..n : \A c \in Buffers : All(c, rows[i]) \in Buffers
    BY <1>0, <1>2
  <2> QED
    BY <2>1
<1>4. PICK f \in [0..n -> Buffers] :
        f[0] = b /\ \A i \in 1..n : f[i] = step[i][f[i - 1]]
  <2> HIDE DEF step, n
  <2>1. n \in Nat
    BY <1>0
  <2>2. \E f : Iterated(f, Buffers, b, n, step)
    BY <1>3, <2>1, Iterates
  <2> QED
    BY <2>2 DEF Iterated
<1>5. Eq(f)
  <2> HIDE DEF n
  <2>1. ASSUME NEW i \in 1..n PROVE f[i] = All(f[i - 1], rows[i])
    <3>1. f[i - 1] \in Buffers
      BY <1>0
    <3> QED
      BY <1>4, <3>1
  <2>2. \A i \in 0..n : f[i] = IF i = 0 THEN b ELSE All(f[i - 1], rows[i])
    BY <1>0, <1>4, <2>1
  <2> QED
    BY <2>2
<1>6. Eq(e)
  <2> HIDE DEF Eq
  <2> QED
    BY <1>5
<1> HIDE DEF e, n
<1>7. /\ e[0] = b
      /\ \A i \in 1..n : e[i] = All(e[i - 1], rows[i])
  BY <1>0, <1>6
<1>8. \A i \in 0..n : e[i] \in Buffers
  <2> DEFINE S == {j \in 0..n : e[j] \in Buffers}
  <2>1. 0 \in S
    BY <1>0, <1>7
  <2>2. ASSUME NEW i \in 1..n, i - 1 \in S PROVE i \in S
    <3>1. e[i - 1] \in Buffers /\ rows[i] \in Seq(CellSizes) /\ i \in 0..n
      BY <1>0, <2>2
    <3>2. e[i] \in Buffers
      BY <1>2, <1>7, <3>1
    <3> QED
      BY <3>1, <3>2
  <2> HIDE DEF S
  <2>3. \A i \in 0..n : i \in S
    BY <1>0, <2>1, <2>2, UpTo
  <2> QED
    BY <2>3 DEF S
<1> QED
  BY <1>1, <1>7, <1>8 DEF RowsSteps, n, All

(* Each row goes on to the last one.                                       *)
LEMMA RowsGo ==
  ASSUME NEW b \in Buffers, NEW rows \in Seq(Seq(CellSizes))
  PROVE  /\ RowsFields(b, rows, Len(rows)) \in Buffers
         /\ \A i \in 0..Len(rows) : Goes(RowsFields(b, rows, i), RowsFields(b, rows, Len(rows)))
         /\ Goes(b, RowsFields(b, rows, Len(rows)))
<1> DEFINE n == Len(rows)
           after == [i \in 0..n |-> RowsFields(b, rows, i)]
<1>0. n \in Nat /\ 0 \in 0..n /\ n \in 0..n /\ \A i \in 1..n : rows[i] \in Seq(CellSizes)
  OBVIOUS
<1>1. RowsSteps(b, rows)
  BY RowsWritten
<1>2. /\ RowsFields(b, rows, 0) = b
      /\ \A i \in 0..n : RowsFields(b, rows, i) \in Buffers
      /\ \A i \in 1..n :
           RowsFields(b, rows, i) = RowFields(RowsFields(b, rows, i - 1), rows[i], Len(rows[i]))
  BY <1>1 DEF RowsSteps
<1> HIDE DEF n
<1>3. \A i \in 0..n : after[i] = RowsFields(b, rows, i) /\ after[i] \in Buffers
  BY <1>2
<1>4. ASSUME NEW i \in 1..n PROVE Goes(after[i - 1], after[i])
  <2>1. i - 1 \in 0..n /\ i \in 0..n
    BY <1>0
  <2>2. PICK c \in Buffers : c = RowsFields(b, rows, i - 1)
    BY <1>2, <2>1
  <2>3. PICK row \in Seq(CellSizes) : row = rows[i]
    BY <1>0
  <2>4. Goes(c, RowFields(c, row, Len(row)))
    BY RowGoes
  <2> QED
    BY <1>2, <1>3, <2>1, <2>2, <2>3, <2>4
<1> HIDE DEF after
<1>5. \A i \in 0..n : Goes(after[i], after[n])
  BY <1>0, <1>3, <1>4, StepsGo
<1>6. \A i \in 0..n : Goes(RowsFields(b, rows, i), RowsFields(b, rows, n))
  BY <1>0, <1>3, <1>5
<1> QED
  BY <1>0, <1>2, <1>6 DEF n

(* A buffer is at least as large as one that goes on to it.                *)
LEMMA GoesUpward ==
  ASSUME NEW b \in Buffers, NEW c \in Buffers, Goes(b, c)
  PROVE  Size(b) <= Size(c)
<1>1. Len(b) \in Nat /\ Len(c) \in Nat /\ Len(b) <= Len(c)
  BY DEF Buffers, Goes
<1>2. PICK i \in 1..(Len(b) + 1) : i = Len(b) + 1
  BY <1>1
<1>3. Offset(c, i) = Offset(b, i)
  BY OffsetGoes
<1>4. Size(b) = Offset(c, i) /\ Size(b) \in Nat
  BY <1>2, <1>3, SizeIs
<1>5. PICK j \in 1..(Len(c) + 1) : j = Len(c) + 1
  BY <1>1
<1>6. Size(c) = Offset(c, j) /\ Size(c) \in Nat
  BY <1>5, SizeIs
<1>7. CASE i = j
  BY <1>4, <1>6, <1>7
<1>8. CASE i # j
  <2>1. i \in 1..Len(c) /\ i < j
    BY <1>1, <1>2, <1>5, <1>8
  <2>2. Offset(c, i) + c[i].width <= Offset(c, j)
    BY <2>1, OffsetUpward
  <2>3. c[i] \in Field
    BY <2>1 DEF Buffers
  <2>4. c[i].width \in Nat
    BY <2>3, FieldType
  <2> QED
    BY <1>4, <1>6, <2>2, <2>4
<1> QED
  BY <1>7, <1>8

-----------------------------------------------------------------------------
(* A result with rows: every row has a cell for every column.              *)
HasRows(s) ==
  /\ Describes(s)
  /\ s.rows \in Seq(Seq(CellSizes))
  /\ \A i \in 1..Len(s.rows) : Len(s.rows[i]) = Len(s.columns)

(* What a server may send.                                                 *)
IsSent(s) ==
  /\ s.kind \in Kinds
  /\ s.kind = "PREPARED" => Describes(s)
  /\ s.kind = "ROWS" => HasRows(s)

(* A function over the numbers up to n is a sequence.                      *)
LEMMA FunctionSeq ==
  ASSUME NEW S, NEW n \in Nat, NEW f \in [1..n -> S]
  PROVE  f \in Seq(S) /\ Len(f) = n
OBVIOUS

(* It sends nothing else.                                                  *)
LEMMA ResultsSent ==
  ASSUME NEW s \in Results
  PROVE  IsSent(s)
<1>0. \A n \in 0..MaxColumns : n \in Nat
  BY ResultAssumption
<1>1. CASE s \in [kind : {"VOID", "SET_KEYSPACE", "SCHEMA_CHANGE"}]
  BY <1>1 DEF IsSent, Kinds
<1>2. ASSUME NEW n \in 0..MaxColumns, s \in PreparedResults(n) PROVE IsSent(s)
  <2>1. s.kind = "PREPARED" /\ s.flags \in Flags /\ s.columns \in [1..n -> Columns]
    BY <1>2 DEF PreparedResults
  <2>2. s.columns \in Seq(Columns)
    BY <1>0, <2>1, FunctionSeq
  <2> QED
    BY <2>1, <2>2 DEF IsSent, Kinds, Describes
<1>3. ASSUME NEW n \in 0..MaxColumns, s \in RowsResults(n) PROVE IsSent(s)
  <2>1. /\ s.kind = "ROWS" /\ s.flags \in Flags /\ s.columns \in [1..n -> Columns]
        /\ s.rows \in UNION {[1..r -> Cells(n)] : r \in 0..MaxRows}
    BY <1>3 DEF RowsResults
  <2>2. s.columns \in Seq(Columns) /\ Len(s.columns) = n
    BY <1>0, <2>1, FunctionSeq
  <2>3. PICK r \in 0..MaxRows : s.rows \in [1..r -> Cells(n)]
    BY <2>1
  <2>4. r \in Nat
    BY ResultAssumption
  <2>5. s.rows \in Seq(Cells(n)) /\ Len(s.rows) = r
    BY <2>3, <2>4, FunctionSeq
  <2>6. \A row \in Cells(n) : row \in Seq(CellSizes) /\ Len(row) = n
    BY <1>0, FunctionSeq DEF Cells
  <2>7. \A i \in 1..r : s.rows[i] \in Cells(n)
    BY <2>3
  <2>8. s.rows \in [1..r -> Seq(CellSizes)]
    BY <2>3, <2>6, <2>7
  <2>9. s.rows \in Seq(Seq(CellSizes))
    BY <2>4, <2>8, FunctionSeq
  <2>10. \A i \in 1..Len(s.rows) : Len(s.rows[i]) = Len(s.columns)
    BY <2>2, <2>5, <2>6, <2>7
  <2> QED
    BY <2>1, <2>2, <2>9, <2>10 DEF IsSent, Kinds, HasRows, Describes
<1>4. \/ s \in [kind : {"VOID", "SET_KEYSPACE", "SCHEMA_CHANGE"}]
      \/ \E n \in 0..MaxColumns : s \in PreparedResults(n) \/ s \in RowsResults(n)
  BY DEF Results
<1> QED
  BY <1>1, <1>2, <1>3, <1>4

-----------------------------------------------------------------------------
(* The head of a result with rows, and the whole of any result, are        *)
(* buffers; its kind comes first.                                          *)
LEMMA KindEncoded ==
  ASSUME NEW s, s.kind \in Kinds
  PROVE  KindFields(s) \in Buffers /\ KindFields(s) = encode_int(<< >>, s.kind)
<1>1. << >> \in Buffers
  BY DEF Buffers
<1>2. s.kind \in Contents
  BY DEF Contents
<1> QED
  BY <1>1, <1>2, EncodeInt DEF KindFields

(* The head of a result with rows.                                         *)
LEMMA HeadGoes ==
  ASSUME NEW s, s.kind \in Kinds, HasRows(s)
  PROVE  /\ MetadataFields(KindFields(s), s) \in Buffers
         /\ HeadFields(s) = encode_int(MetadataFields(KindFields(s), s), Len(s.rows))
         /\ HeadFields(s) \in Buffers
         /\ Goes(MetadataFields(KindFields(s), s), HeadFields(s))
         /\ Goes(KindFields(s), HeadFields(s))
         /\ Len(s.rows) \in Contents
<1>1. PICK b \in Buffers : b = KindFields(s)
  BY KindEncoded
<1>2. Describes(s)
  BY DEF HasRows
<1>3. PICK c \in Buffers : c = MetadataFields(b, s) /\ Goes(b, c)
  BY <1>2, MetadataGoes
<1>4. Len(s.rows) \in Contents
  <2>1. Len(s.rows) \in Int
    BY DEF HasRows
  <2> QED
    BY <2>1, NumberContents
<1>5. PICK d \in Buffers : d = encode_int(c, Len(s.rows)) /\ Goes(c, d)
  BY <1>4, EncodeInt
<1>6. HeadFields(s) = d
  BY <1>1, <1>3, <1>5 DEF HeadFields
<1>7. Goes(b, d)
  BY <1>3, <1>5, GoesOn
<1> QED
  BY <1>1, <1>3, <1>4, <1>5, <1>6, <1>7

(* The whole.                                                              *)
LEMMA EncodedGoes ==
  ASSUME NEW s, IsSent(s)
  PROVE  Encoded(s) \in Buffers /\ Goes(KindFields(s), Encoded(s))
<1>1. s.kind \in Kinds
  BY DEF IsSent
<1>2. PICK b \in Buffers : b = KindFields(s)
  BY <1>1, KindEncoded
<1>3. CASE s.kind = "VOID"
  <2>1. Encoded(s) = b
    BY <1>2, <1>3 DEF Encoded
  <2> QED
    BY <1>2, <2>1, GoesOn
<1>4. CASE s.kind = "SET_KEYSPACE"
  <2>1. Encoded(s) = encode_string(b, Keyspace)
    BY <1>2, <1>4 DEF Encoded
  <2> QED
    BY <1>2, <2>1, ShortResultTexts, EncodeString
<1>5. CASE s.kind = "SCHEMA_CHANGE"
  <2>1. Encoded(s) = SpecFields(encode_string(b, Change))
    BY <1>2, <1>5 DEF Encoded
  <2>2. PICK c \in Buffers : c = encode_string(b, Change) /\ Goes(b, c)
    BY ShortResultTexts, EncodeString
  <2>3. SpecFields(c) \in Buffers /\ Goes(c, SpecFields(c))
    BY SpecEncoded
  <2>4. Goes(b, SpecFields(c))
    BY <2>2, <2>3, GoesOn
  <2> QED
    BY <1>2, <2>1, <2>2, <2>3, <2>4
<1>6. CASE s.kind = "PREPARED"
  <2>1. Encoded(s) = MetadataFields(encode_string(b, PreparedId), s)
    BY <1>2, <1>6 DEF Encoded
  <2>2. PICK c \in Buffers : c = encode_string(b, PreparedId) /\ Goes(b, c)
    BY ShortResultTexts, EncodeString
  <2>3. MetadataFields(c, s) \in Buffers /\ Goes(c, MetadataFields(c, s))
    BY <1>6, MetadataGoes DEF IsSent
  <2>4. Goes(b, MetadataFields(c, s))
    BY <2>2, <2>3, GoesOn
  <2> QED
    BY <1>2, <2>1, <2>2, <2>3, <2>4
<1>7. CASE s.kind = "ROWS"
  <2>1. HasRows(s)
    BY <1>7 DEF IsSent
  <2>2. Encoded(s) = RowsFields(HeadFields(s), s.rows, Len(s.rows))
    BY <1>7 DEF Encoded
  <2>3. PICK h \in Buffers : h = HeadFields(s) /\ Goes(b, h)
    BY <1>1, <1>2, <2>1, HeadGoes
  <2>4. PICK rows \in Seq(Seq(CellSizes)) : rows = s.rows
    BY <2>1 DEF HasRows
  <2>5. /\ RowsFields(h, rows, Len(rows)) \in Buffers
        /\ Goes(h, RowsFields(h, rows, Len(rows)))
    BY RowsGo
  <2>6. Goes(b, RowsFields(h, rows, Len(rows)))
    BY <2>3, <2>5, GoesOn
  <2> QED
    BY <1>2, <2>2, <2>3, <2>4, <2>5, <2>6
<1> QED
  BY <1>1, <1>3, <1>4, <1>5, <1>6, <1>7 DEF Kinds

-----------------------------------------------------------------------------
(* What a result has when it was read as the server sent it.               *)
ReadAs(s, w) ==
  /\ IsResult(w)
  /\ w["kind"] = s.kind
  /\ s.kind = "SET_KEYSPACE" => w["keyspace"] = Keyspace
  /\ s.kind = "SCHEMA_CHANGE" =>
       w["change"] = Change /\ w["keyspace"] = Keyspace /\ w["table"] = Table
  /\ s.kind = "PREPARED" => DescribedBy(s, w) /\ w["prepared"] = PreparedId
  /\ s.kind = "ROWS" => /\ DescribedBy(s, w)
                        /\ w["row_count"] = Len(s.rows)
                        /\ w["rows"] = Size(HeadFields(s))

(* A new result has the members.                                           *)
LEMMA NewResultIs == IsResult(NewResult) /\ NewResult["column_index"] = {}
BY DEF IsResult, NewResult, Members

(* The kind is what consume reads first.                                   *)
LEMMA KindRead ==
  ASSUME buffer \in Buffers, NEW s, s.kind \in Kinds, Goes(KindFields(s), buffer)
  PROVE  \E k : /\ Int32([into |-> NewResult, next |-> 0], "kind")
                     = Reading(k, Size(KindFields(s)))
                /\ KeepsBut(NewResult, k, {"kind"})
                /\ k["kind"] = s.kind
<1>1. << >> \in Buffers
  BY DEF Buffers
<1>2. PICK b \in Buffers : b = << >>
  BY <1>1
<1>3. Size(b) = 0
  <2>1. Len(b) = 0
    BY <1>2
  <2>2. Size(b) = Offset(b, Len(b) + 1)
    BY SizeIs
  <2>3. Len(b) + 1 = 1
    BY <2>1
  <2> QED
    BY <2>2, <2>3, OffsetStep
<1>4. PICK kind \in Contents : kind = s.kind
  BY DEF Contents
<1>5. KindFields(s) = encode_int(b, kind)
  BY <1>2, <1>4, KindEncoded
<1>6. Goes(encode_int(b, kind), buffer)
  BY <1>5
<1>7. PICK k : k = [NewResult EXCEPT !["kind"] = kind]
  OBVIOUS
<1>8. Int32(Reading(NewResult, Size(b)), "kind")
        = Reading([NewResult EXCEPT !["kind"] = kind], Size(encode_int(b, kind)))
  BY <1>6, IntRead
<1>9. KeepsBut(NewResult, k, {"kind"}) /\ k["kind"] = kind
  <2>1. "kind" \in Members
    BY DEF Members
  <2> QED
    BY <1>7, <2>1, NewResultIs, SetKeeps
<1>10. [into |-> NewResult, next |-> 0] = Reading(NewResult, Size(b))
  BY <1>3 DEF Reading
<1> QED
  BY <1>4, <1>5, <1>7, <1>8, <1>9, <1>10

(* A string is read into a member.                                         *)
MemberIs(b, t, r, field, w) ==
  /\ String(Reading(r, Size(b)), field) = Reading(w, Size(encode_string(b, t)))
  /\ KeepsBut(r, w, {field}) /\ w[field] = t

(* The string that was written is the one that is read.                    *)
LEMMA MemberRead ==
  ASSUME buffer \in Buffers, NEW b \in Buffers, NEW t \in Texts, t.size \in Short,
         Goes(encode_string(b, t), buffer), NEW r, IsResult(r), NEW field \in Members
  PROVE  \E w : MemberIs(b, t, r, field, w)
<1>1. PICK w : w = [r EXCEPT ![field] = t]
  OBVIOUS
<1>2. KeepsBut(r, w, {field}) /\ w[field] = t
  BY <1>1, SetKeeps
<1>3. String(Reading(r, Size(b)), field) = Reading(w, Size(encode_string(b, t)))
  BY <1>1, StringRead
<1> QED
  BY <1>2, <1>3 DEF MemberIs

(* The keyspace that is in use.                                            *)
LEMMA KeyspaceRead ==
  ASSUME buffer \in Buffers, NEW s, s.kind = "SET_KEYSPACE", NEW b \in Buffers,
         Goes(encode_string(b, Keyspace), buffer), NEW k, IsResult(k), k["kind"] = s.kind
  PROVE  ReadAs(s, parse_set_keyspace(Reading(k, Size(b))))
<1>0. "keyspace" \in Members /\ "kind" \in Members
  BY DEF Members
<1>1. PICK w : /\ String(Reading(k, Size(b)), "keyspace")
                    = Reading(w, Size(encode_string(b, Keyspace)))
               /\ KeepsBut(k, w, {"keyspace"}) /\ w["keyspace"] = Keyspace
  <2>1. Keyspace \in Texts /\ Keyspace.size \in Short
    BY ShortResultTexts
  <2>2. PICK w : MemberIs(b, Keyspace, k, "keyspace", w)
    BY <1>0, <2>1, MemberRead
  <2> QED
    BY <2>2 DEF MemberIs
<1>2. parse_set_keyspace(Reading(k, Size(b))) = w
  BY <1>1, ReadingIs DEF parse_set_keyspace
<1>3. w["kind"] = s.kind /\ IsResult(w)
  BY <1>0, <1>1 DEF KeepsBut
<1>4. ReadAs(s, w)
  BY <1>1, <1>3 DEF ReadAs
<1> QED
  BY <1>2, <1>4

(* A change of the schema.                                                 *)
LEMMA ChangeRead ==
  ASSUME buffer \in Buffers, NEW s, s.kind = "SCHEMA_CHANGE", NEW b \in Buffers,
         Goes(SpecFields(encode_string(b, Change)), buffer),
         NEW k, IsResult(k), k["kind"] = s.kind
  PROVE  ReadAs(s, parse_schema_change(Reading(k, Size(b))))
<1>0. "keyspace" \in Members /\ "table" \in Members /\ "change" \in Members /\ "kind" \in Members
  BY DEF Members
<1>1. PICK c \in Buffers : c = encode_string(b, Change)
  BY ShortResultTexts, EncodeString
<1>2. SpecFields(c) \in Buffers /\ Goes(c, SpecFields(c)) /\ Goes(SpecFields(c), buffer)
  BY <1>1, SpecEncoded
<1>3. Goes(c, buffer)
  BY <1>2, GoesOn
<1>4. PICK v : /\ String(Reading(k, Size(b)), "change") = Reading(v, Size(c))
               /\ KeepsBut(k, v, {"change"}) /\ v["change"] = Change
  <2>1. Change \in Texts /\ Change.size \in Short
    BY ShortResultTexts
  <2>2. Goes(encode_string(b, Change), buffer)
    BY <1>1, <1>3
  <2>3. PICK v : MemberIs(b, Change, k, "change", v)
    BY <1>0, <2>1, <2>2, MemberRead
  <2> QED
    BY <1>1, <2>3 DEF MemberIs
<1>5. IsResult(v)
  BY <1>4 DEF KeepsBut
<1>6. PICK w : /\ String(String(Reading(v, Size(c)), "keyspace"), "table")
                    = Reading(w, Size(SpecFields(c)))
               /\ KeepsBut(v, w, {"keyspace", "table"})
               /\ w["keyspace"] = Keyspace /\ w["table"] = Table
  BY <1>2, <1>5, SpecRead
<1>7. parse_schema_change(Reading(k, Size(b))) = w
  BY <1>4, <1>6, ReadingIs DEF parse_schema_change
<1>8. w["kind"] = s.kind /\ w["change"] = Change /\ IsResult(w)
  BY <1>0, <1>4, <1>6 DEF KeepsBut
<1>9. ReadAs(s, w)
  BY <1>6, <1>8 DEF ReadAs
<1> QED
  BY <1>7, <1>9

(* A prepared statement.                                                   *)
LEMMA PreparedRead ==
  ASSUME buffer \in Buffers, NEW s, s.kind = "PREPARED", Describes(s), NEW b \in Buffers,
         Goes(MetadataFields(encode_string(b, PreparedId), s), buffer),
         NEW k, IsResult(k), k["kind"] = s.kind, k["column_index"] = {}
  PROVE  ReadAs(s, parse_prepared(Reading(k, Size(b))))
<1>0. "prepared" \in Members /\ "kind" \in Members /\ "column_index" \in Members
  BY DEF Members
<1>1. PICK c \in Buffers : c = encode_string(b, PreparedId)
  BY ShortResultTexts, EncodeString
<1>2. /\ MetadataFields(c, s) \in Buffers /\ Goes(c, MetadataFields(c, s))
      /\ Goes(MetadataFields(c, s), buffer)
  BY <1>1, MetadataGoes
<1>3. Goes(c, buffer)
  BY <1>2, GoesOn
<1>4. PICK v : /\ String(Reading(k, Size(b)), "prepared") = Reading(v, Size(c))
               /\ KeepsBut(k, v, {"prepared"}) /\ v["prepared"] = PreparedId
  <2>1. PreparedId \in Texts /\ PreparedId.size \in Short
    BY ShortResultTexts
  <2>2. Goes(encode_string(b, PreparedId), buffer)
    BY <1>1, <1>3
  <2>3. PICK v : MemberIs(b, PreparedId, k, "prepared", v)
    BY <1>0, <2>1, <2>2, MemberRead
  <2> QED
    BY <1>1, <2>3 DEF MemberIs
<1>5. IsResult(v) /\ v["column_index"] = {} /\ v["kind"] = s.kind
  BY <1>0, <1>4 DEF KeepsBut
<1>6. PICK w : MetadataIs(c, s, v, w)
  BY <1>2, <1>5, MetadataRead
<1>7. /\ parse_metadata(Reading(v, Size(c))) = Reading(w, Size(MetadataFields(c, s)))
      /\ KeepsBut(v, w, MetadataMembers) /\ DescribedBy(s, w)
  BY <1>6 DEF MetadataIs
<1>8. parse_prepared(Reading(k, Size(b))) = w
  BY <1>4, <1>7, ReadingIs DEF parse_prepared
<1>9. w["kind"] = s.kind /\ w["prepared"] = PreparedId /\ IsResult(w)
  BY <1>0, <1>4, <1>5, <1>7 DEF KeepsBut, MetadataMembers
<1>10. ReadAs(s, w)
  BY <1>7, <1>9 DEF ReadAs
<1> QED
  BY <1>8, <1>10

(* The head of a result with rows.                                         *)
LEMMA RowsRead ==
  ASSUME buffer \in Buffers, NEW s, s.kind = "ROWS", HasRows(s), Goes(HeadFields(s), buffer),
         NEW k, IsResult(k), k["kind"] = s.kind, k["column_index"] = {}
  PROVE  ReadAs(s, parse_rows(Reading(k, Size(KindFields(s)))))
<1>0. /\ "rows" \in Members /\ "kind" \in Members /\ "row_count" \in Members
      /\ {"row_count", "rows", "kind"} \cap MetadataMembers = {}
  BY DEF Members, MetadataMembers
<1>1. s.kind \in Kinds /\ Describes(s)
  BY DEF Kinds, HasRows
<1>2. PICK b \in Buffers : b = KindFields(s)
  BY <1>1, KindEncoded
<1>3. /\ MetadataFields(b, s) \in Buffers
      /\ HeadFields(s) = encode_int(MetadataFields(b, s), Len(s.rows))
      /\ HeadFields(s) \in Buffers
      /\ Goes(MetadataFields(b, s), HeadFields(s))
      /\ Len(s.rows) \in Contents
  BY <1>1, <1>2, HeadGoes
<1>4. Goes(MetadataFields(b, s), buffer)
  BY <1>3, GoesOn
<1>5. PICK v : MetadataIs(b, s, k, v)
  BY <1>1, <1>4, MetadataRead
<1>6. PICK c \in Buffers : c = MetadataFields(b, s)
  BY <1>3
<1>7. /\ parse_metadata(Reading(k, Size(b))) = Reading(v, Size(c))
      /\ KeepsBut(k, v, MetadataMembers) /\ DescribedBy(s, v)
  BY <1>5, <1>6 DEF MetadataIs
<1>8. PICK count \in Contents : count = Len(s.rows)
  BY <1>3
<1>9. PICK u : u = [v EXCEPT !["row_count"] = count]
  OBVIOUS
<1>10. IsResult(v)
  BY <1>7 DEF KeepsBut
<1>11. KeepsBut(v, u, {"row_count"}) /\ u["row_count"] = count
  BY <1>0, <1>9, <1>10, SetKeeps
<1>12. Int32(Reading(v, Size(c)), "row_count") = Reading(u, Size(HeadFields(s)))
  <2>1. HeadFields(s) = encode_int(c, count) /\ Goes(encode_int(c, count), buffer)
    BY <1>3, <1>6, <1>8
  <2>2. Int32(Reading(v, Size(c)), "row_count")
          = Reading([v EXCEPT !["row_count"] = count], Size(encode_int(c, count)))
    BY <2>1, IntRead
  <2> QED
    BY <1>9, <2>1, <2>2
<1>13. PICK pos : pos = Size(HeadFields(s))
  OBVIOUS
<1>14. PICK w : w = [u EXCEPT !["rows"] = pos]
  OBVIOUS
<1>15. IsResult(u)
  BY <1>11 DEF KeepsBut
<1>16. KeepsBut(u, w, {"rows"}) /\ w["rows"] = pos
  BY <1>0, <1>14, <1>15, SetKeeps
<1>17. WithRows(Reading(u, pos)) = w
  <2>1. Reading(u, pos).into = u /\ Reading(u, pos).next = pos
    BY ReadingIs
  <2>2. PICK p : p = Reading(u, pos)
    OBVIOUS
  <2>3. WithRows(p) = [p.into EXCEPT !.rows = p.next]
    BY DEF WithRows
  <2> QED
    BY <1>14, <2>1, <2>2, <2>3
<1>18. parse_rows(Reading(k, Size(b))) = w
  BY <1>7, <1>12, <1>13, <1>17 DEF parse_rows
<1>19. w["kind"] = s.kind /\ w["row_count"] = Len(s.rows) /\ IsResult(w)
  BY <1>0, <1>7, <1>8, <1>11, <1>16 DEF KeepsBut
<1>20. \A f \in MetadataMembers : w[f] = v[f]
  <2>1. \A f \in MetadataMembers : f \in Members /\ f # "row_count" /\ f # "rows"
    BY DEF MetadataMembers, Members
  <2> QED
    BY <1>11, <1>16, <2>1 DEF KeepsBut
<1>21. DescribedBy(s, w)
  <2>1. /\ w["column_count"] = v["column_count"] /\ w["more_pages"] = v["more_pages"]
        /\ w["page_state"] = v["page_state"]
        /\ w["global_table_spec"] = v["global_table_spec"]
        /\ w["keyspace"] = v["keyspace"] /\ w["table"] = v["table"]
        /\ w["no_metadata"] = v["no_metadata"]
        /\ w["column_metadata"] = v["column_metadata"]
        /\ w["column_index"] = v["column_index"]
    BY <1>20 DEF MetadataMembers
  <2> QED
    BY <1>7, <2>1, Zenon DEF DescribedBy
<1>22. ReadAs(s, w)
  BY <1>13, <1>16, <1>19, <1>21 DEF ReadAs
<1> QED
  BY <1>2, <1>18, <1>22

(* Whatever the result is, consume reads it as the server sent it.         *)
LEMMA ConsumedAsSent ==
  ASSUME IsSent(sent), buffer = Encoded(sent), result = NewResult, consume
  PROVE  ReadAs(sent, result')
<1>1. sent.kind \in Kinds
  BY DEF IsSent
<1>2. buffer \in Buffers /\ Goes(KindFields(sent), buffer)
  BY EncodedGoes
<1>3. PICK b \in Buffers : b = KindFields(sent)
  BY <1>1, KindEncoded
<1>4. PICK k : /\ Int32([into |-> NewResult, next |-> 0], "kind") = Reading(k, Size(b))
               /\ KeepsBut(NewResult, k, {"kind"})
               /\ k["kind"] = sent.kind
  BY <1>1, <1>2, <1>3, KindRead
<1>5. IsResult(k) /\ k["column_index"] = {}
  BY <1>4, NewResultIs DEF KeepsBut, Members
<1>6. PICK p : p = Reading(k, Size(b))
  OBVIOUS
<1>7. p.into = k /\ p.into.kind = sent.kind
  BY <1>4, <1>6, ReadingIs
<1>8. result' = CASE p.into.kind = "VOID" -> p.into
                  [] p.into.kind = "ROWS" -> parse_rows(p)
                  [] p.into.kind = "SET_KEYSPACE" -> parse_set_keyspace(p)
                  [] p.into.kind = "PREPARED" -> parse_prepared(p)
                  [] p.into.kind = "SCHEMA_CHANGE" -> parse_schema_change(p)
  <2>1. p = Int32([into |-> result, next |-> 0], "kind")
    BY <1>4, <1>6
  <2> QED
    BY <2>1, Zenon DEF consume
<1>9. CASE sent.kind = "VOID"
  <2>1. result' = k
    BY <1>7, <1>8, <1>9
  <2> QED
    BY <1>4, <1>5, <1>9, <2>1 DEF ReadAs
<1>10. CASE sent.kind = "SET_KEYSPACE"
  <2>1. result' = parse_set_keyspace(Reading(k, Size(b)))
    BY <1>6, <1>7, <1>8, <1>10
  <2>2. buffer = encode_string(b, Keyspace)
    BY <1>3, <1>10 DEF Encoded
  <2>3. Goes(encode_string(b, Keyspace), buffer)
    BY <1>2, <2>2, GoesOn
  <2> QED
    BY <1>2, <1>4, <1>5, <1>10, <2>1, <2>3, KeyspaceRead
<1>11. CASE sent.kind = "SCHEMA_CHANGE"
  <2>1. result' = parse_schema_change(Reading(k, Size(b)))
    BY <1>6, <1>7, <1>8, <1>11
  <2>2. buffer = SpecFields(encode_string(b, Change))
    BY <1>3, <1>11 DEF Encoded
  <2>3. Goes(SpecFields(encode_string(b, Change)), buffer)
    BY <1>2, <2>2, GoesOn
  <2> QED
    BY <1>2, <1>4, <1>5, <1>11, <2>1, <2>3, ChangeRead
<1>12. CASE sent.kind = "PREPARED"
  <2>1. result' = parse_prepared(Reading(k, Size(b)))
    BY <1>6, <1>7, <1>8, <1>12
  <2>2. buffer = MetadataFields(encode_string(b, PreparedId), sent)
    BY <1>3, <1>12 DEF Encoded
  <2>3. Goes(MetadataFields(encode_string(b, PreparedId), sent), buffer)
    BY <1>2, <2>2, GoesOn
  <2>4. Describes(sent)
    BY <1>12 DEF IsSent
  <2> QED
    BY <1>2, <1>4, <1>5, <1>12, <2>1, <2>3, <2>4, PreparedRead
<1>13. CASE sent.kind = "ROWS"
  <2>1. result' = parse_rows(Reading(k, Size(KindFields(sent))))
    BY <1>3, <1>6, <1>7, <1>8, <1>13
  <2>2. HasRows(sent)
    BY <1>13 DEF IsSent
  <2>3. PICK h \in Buffers : h = HeadFields(sent)
    BY <1>1, <2>2, HeadGoes
  <2>4. PICK rows \in Seq(Seq(CellSizes)) : rows = sent.rows
    BY <2>2 DEF HasRows
  <2>5. buffer = RowsFields(h, rows, Len(rows))
    BY <1>13, <2>3, <2>4 DEF Encoded
  <2>6. Goes(HeadFields(sent), buffer)
    BY <2>3, <2>5, RowsGo
  <2> QED
    BY <1>2, <1>4, <1>5, <1>13, <2>1, <2>2, <2>6, RowsRead
<1> QED
  BY <1>1, <1>9, <1>10, <1>11, <1>12, <1>13 DEF Kinds

-----------------------------------------------------------------------------
(* The iterator.  The buffer up to the end of row k; no null in the first  *)
(* k rows; the row that the iterator stands on.                            *)
RowsAt(s, k) == RowsFields(HeadFields(s), s.rows, k)

NoNullRows(s, k) == \A i \in 1..k : NoNullUpTo(s.rows[i], Len(s.rows[i]))

Reached(s, position) == IF position + 1 <= Len(s.rows) THEN position + 1 ELSE Len(s.rows)

(* If the rows before row k have no null, the iterator has row k.          *)
AtRow(s, k, row, next) ==
  NoNullRows(s, k - 1) =>
    RowIs(RowsAt(s, k - 1), s.rows[k], [row |-> row, next |-> next])

IteratorIs(s, it) ==
  /\ it = [row_position |-> it.row_position, position_next |-> it.position_next, row |-> it.row]
  /\ it.row_position \in Nat
  /\ Len(s.rows) > 0 => AtRow(s, Reached(s, it.row_position), it.row, it.position_next)

(* The rows of a result, and what is written of them.                      *)
LEMMA RowsAre ==
  ASSUME IsSent(sent), sent.kind = "ROWS", buffer = Encoded(sent)
  PROVE  /\ HasRows(sent) /\ buffer \in Buffers /\ Len(sent.rows) \in Nat
         /\ RowsAt(sent, 0) = HeadFields(sent)
         /\ \A k \in 0..Len(sent.rows) :
              RowsAt(sent, k) \in Buffers /\ Goes(RowsAt(sent, k), buffer)
         /\ \A k \in 1..Len(sent.rows) :
              /\ sent.rows[k] \in Seq(CellSizes) /\ Len(sent.rows[k]) = Len(sent.columns)
              /\ RowsAt(sent, k)
                   = RowFields(RowsAt(sent, k - 1), sent.rows[k], Len(sent.rows[k]))
<1>1. HasRows(sent) /\ sent.kind \in Kinds
  BY DEF IsSent
<1>2. PICK h \in Buffers : h = HeadFields(sent)
  BY <1>1, HeadGoes
<1>3. PICK rows \in Seq(Seq(CellSizes)) : rows = sent.rows
  BY <1>1 DEF HasRows
<1>4. buffer = RowsFields(h, rows, Len(rows))
  BY <1>2, <1>3 DEF Encoded
<1>5. buffer \in Buffers /\ \A k \in 0..Len(rows) : Goes(RowsFields(h, rows, k), buffer)
  BY <1>4, RowsGo
<1>6. RowsSteps(h, rows)
  BY RowsWritten
<1>7. /\ RowsFields(h, rows, 0) = h
      /\ \A k \in 0..Len(rows) : RowsFields(h, rows, k) \in Buffers
      /\ \A k \in 1..Len(rows) :
           RowsFields(h, rows, k) = RowFields(RowsFields(h, rows, k - 1), rows[k], Len(rows[k]))
  BY <1>6 DEF RowsSteps
<1>8. \A k : RowsAt(sent, k) = RowsFields(h, rows, k)
  BY <1>2, <1>3 DEF RowsAt
<1>9. Len(rows) \in Nat /\ \A k \in 1..Len(rows) : rows[k] \in Seq(CellSizes)
  OBVIOUS
<1>10. \A k \in 1..Len(rows) : Len(rows[k]) = Len(sent.columns)
  BY <1>1, <1>3 DEF HasRows
<1> QED
  BY <1>1, <1>2, <1>3, <1>5, <1>7, <1>8, <1>9, <1>10

(* A row that is parsed where it begins is the row the server sent.        *)
LEMMA RowFound ==
  ASSUME IsSent(sent), sent.kind = "ROWS", buffer = Encoded(sent),
         result.column_count = Len(sent.columns),
         NEW k \in 1..Len(sent.rows), NEW pos,
         NoNullRows(sent, k - 1) => pos = Size(RowsAt(sent, k - 1))
  PROVE  AtRow(sent, k, parse_row(pos).row, parse_row(pos).next)
<1> SUFFICES ASSUME NoNullRows(sent, k - 1)
             PROVE  RowIs(RowsAt(sent, k - 1), sent.rows[k],
                          [row |-> parse_row(pos).row, next |-> parse_row(pos).next])
  BY DEF AtRow
<1>1. /\ buffer \in Buffers /\ Len(sent.rows) \in Nat
      /\ \A i \in 0..Len(sent.rows) :
           RowsAt(sent, i) \in Buffers /\ Goes(RowsAt(sent, i), buffer)
      /\ \A i \in 1..Len(sent.rows) :
           /\ sent.rows[i] \in Seq(CellSizes) /\ Len(sent.rows[i]) = Len(sent.columns)
           /\ RowsAt(sent, i)
                = RowFields(RowsAt(sent, i - 1), sent.rows[i], Len(sent.rows[i]))
  BY RowsAre
<1>2. k - 1 \in 0..Len(sent.rows) /\ k \in 0..Len(sent.rows)
  BY <1>1
<1>3. PICK b \in Buffers : b = RowsAt(sent, k - 1)
  BY <1>1, <1>2
<1>4. PICK row \in Seq(CellSizes) : row = sent.rows[k]
  BY <1>1
<1>5. Goes(RowFields(b, row, Len(row)), buffer) /\ result.column_count = Len(row)
  BY <1>1, <1>2, <1>3, <1>4
<1>6. PICK p : p = parse_row(pos)
  OBVIOUS
<1>7. pos = Size(b)
  BY <1>3
<1>8. RowIs(b, row, p)
  BY <1>1, <1>5, <1>6, <1>7, RowRead
<1>9. PICK q : q = [row |-> p.row, next |-> p.next]
  OBVIOUS
<1>10. q.row = p.row /\ q.next = p.next
  BY <1>9
<1>11. RowIs(b, row, q)
  BY <1>8, <1>10 DEF RowIs
<1> QED
  BY <1>3, <1>4, <1>6, <1>9, <1>11

-----------------------------------------------------------------------------
(* The inductive invariant for results: until it is consumed a result is   *)
(* as the constructor left it, from then on it is what the server sent,    *)
(* and the iterator is on its row.                                         *)
ResultInv ==
  /\ phase \in {"building", "sent"} => sent = NoResult
  /\ sent # NoResult => IsSent(sent) /\ buffer = Encoded(sent)
  /\ result.kind = "none" => result = NewResult /\ iterator = NoIterator
  /\ result.kind # "none" => sent # NoResult /\ ReadAs(sent, result)
  /\ iterator # NoIterator => result.kind = "ROWS" /\ IteratorIs(sent, iterator)

(* Nothing of a result changes.                                            *)
LEMMA ResultStays ==
  ASSUME ResultInv, UNCHANGED resultVars, phase' \in {"building", "sent"} => sent = NoResult
  PROVE  ResultInv'
BY DEF ResultInv, resultVars

(* An answer that is no RESULT arrives.                                    *)
LEMMA OtherAnswer ==
  ASSUME ResultInv, phase = "sent", phase' = "received", UNCHANGED <<sent, result, iterator>>
  PROVE  ResultInv'
<1>1. sent = NoResult
  BY DEF ResultInv
<1> QED
  BY <1>1 DEF ResultInv

(* A RESULT arrives.                                                       *)
LEMMA ResultArrives ==
  ASSUME ResultInv, NEW r \in Results, receive_result(r), phase' = "received"
  PROVE  ResultInv'
<1>1. IsSent(r)
  BY ResultsSent
<1>2. /\ sent = NoResult /\ sent' = r /\ buffer' = Encoded(r)
      /\ result' = result /\ iterator' = iterator
  BY DEF receive_result
<1>3. result.kind = "none" /\ result = NewResult /\ iterator = NoIterator
  BY <1>2 DEF ResultInv
<1>4. IsSent(sent') /\ buffer' = Encoded(sent')
  BY <1>1, <1>2
<1>5. (Encoded(sent))' = Encoded(sent') /\ (IsSent(sent))' = IsSent(sent')
  BY DEF Encoded, IsSent
<1> QED
  BY <1>2, <1>3, <1>4, <1>5 DEF ResultInv

(* A RESULT is consumed.                                                   *)
LEMMA ResultConsumed ==
  ASSUME ResultInv, consume, phase' = "consumed"
  PROVE  ResultInv'
<1>1. /\ sent # NoResult /\ result.kind = "none"
      /\ sent' = sent /\ buffer' = buffer /\ iterator' = iterator
  BY DEF consume
<1>2. IsSent(sent) /\ buffer = Encoded(sent) /\ result = NewResult /\ iterator = NoIterator
  BY <1>1 DEF ResultInv
<1>3. ReadAs(sent, result')
  BY <1>2, ConsumedAsSent
<1>4. result'.kind = sent.kind /\ result'.kind # "none"
  BY <1>2, <1>3 DEF ReadAs, IsSent, Kinds
<1> QED
  BY <1>1, <1>2, <1>3, <1>4 DEF ResultInv

(* What is known when there is a result with rows.                         *)
LEMMA RowsKnown ==
  ASSUME ResultInv, result.kind = "ROWS"
  PROVE  /\ IsSent(sent) /\ sent.kind = "ROWS" /\ buffer = Encoded(sent)
         /\ result.column_count = Len(sent.columns) /\ result.row_count = Len(sent.rows)
         /\ result.rows = Size(HeadFields(sent))
         /\ HasRows(sent) /\ Len(sent.rows) \in Nat
<1>1. sent # NoResult /\ ReadAs(sent, result)
  BY DEF ResultInv
<1>2. IsSent(sent) /\ buffer = Encoded(sent)
  BY <1>1 DEF ResultInv
<1>3. result.kind = sent.kind
  BY <1>1 DEF ReadAs
<1>4. /\ DescribedBy(sent, result) /\ result.row_count = Len(sent.rows)
      /\ result.rows = Size(HeadFields(sent))
  BY <1>1, <1>3 DEF ReadAs
<1>5. result.column_count = Len(sent.columns)
  BY <1>4 DEF DescribedBy
<1>6. HasRows(sent) /\ Len(sent.rows) \in Nat
  BY <1>2, <1>3, RowsAre
<1> QED
  BY <1>2, <1>3, <1>4, <1>5, <1>6

(* The iterator moves on, and the rest stays.                              *)
LEMMA IteratorMoves ==
  ASSUME ResultInv, result.kind = "ROWS", UNCHANGED <<sent, buffer, result, phase>>,
         IteratorIs(sent, iterator')
  PROVE  ResultInv'
BY DEF ResultInv

(* The constructor takes the first row.                                    *)
LEMMA IteratorBegins ==
  ASSUME ResultInv, ResultIterator, phase' = phase
  PROVE  ResultInv'
<1>1. result.kind = "ROWS" /\ UNCHANGED <<sent, buffer, result, phase>>
  BY DEF ResultIterator
<1>2. /\ IsSent(sent) /\ sent.kind = "ROWS" /\ buffer = Encoded(sent)
      /\ result.column_count = Len(sent.columns)
      /\ result.rows = Size(HeadFields(sent)) /\ Len(sent.rows) \in Nat
  BY <1>1, RowsKnown
<1>3. PICK p : p = parse_row(result.rows)
  OBVIOUS
<1>4. iterator' = [row_position |-> 0, position_next |-> p.next, row |-> p.row]
  BY <1>3 DEF ResultIterator
<1>5. PICK it : it = iterator'
  OBVIOUS
<1>6. it.row_position = 0 /\ it.position_next = p.next /\ it.row = p.row
  BY <1>4, <1>5
<1>7. it = [row_position |-> it.row_position, position_next |-> it.position_next, row |-> it.row]
  BY <1>4, <1>5, <1>6
<1>8. ASSUME Len(sent.rows) > 0
      PROVE  AtRow(sent, Reached(sent, it.row_position), it.row, it.position_next)
  <2>1. 1 \in 1..Len(sent.rows) /\ Reached(sent, it.row_position) = 1
    BY <1>2, <1>6, <1>8 DEF Reached
  <2>2. result.rows = Size(RowsAt(sent, 0))
    BY <1>2, RowsAre
  <2>3. PICK k \in 1..Len(sent.rows) : k = 1
    BY <2>1
  <2>4. k - 1 = 0
    BY <2>3
  <2>5. AtRow(sent, k, parse_row(result.rows).row, parse_row(result.rows).next)
    BY <1>2, <2>2, <2>4, RowFound
  <2> QED
    BY <1>3, <1>6, <2>1, <2>3, <2>5
<1>9. IteratorIs(sent, it)
  BY <1>6, <1>7, <1>8 DEF IteratorIs
<1> QED
  BY <1>1, <1>5, <1>9, IteratorMoves

(* next takes the next row, or stays.                                      *)
LEMMA IteratorAdvances ==
  ASSUME ResultInv, next_row, phase' = phase
  PROVE  ResultInv'
<1>1. iterator # NoIterator /\ UNCHANGED <<sent, buffer, result, phase>>
  BY DEF next_row
<1>2. result.kind = "ROWS" /\ IteratorIs(sent, iterator)
  BY <1>1 DEF ResultInv
<1>3. /\ IsSent(sent) /\ sent.kind = "ROWS" /\ buffer = Encoded(sent)
      /\ result.column_count = Len(sent.columns) /\ result.row_count = Len(sent.rows)
      /\ Len(sent.rows) \in Nat
  BY <1>2, RowsKnown
<1>4. PICK m \in Nat : m = Len(sent.rows)
  BY <1>3
<1>5. PICK i \in Nat : i = iterator.row_position
  BY <1>2 DEF IteratorIs
<1>6. /\ iterator = [row_position |-> i, position_next |-> iterator.position_next,
                     row |-> iterator.row]
      /\ m > 0 => AtRow(sent, Reached(sent, i), iterator.row, iterator.position_next)
  BY <1>2, <1>4, <1>5 DEF IteratorIs
<1>7. PICK it : it = iterator'
  OBVIOUS
<1>8. CASE i + 1 >= m
  <2>1. it = [iterator EXCEPT !.row_position = i + 1]
    BY <1>3, <1>4, <1>5, <1>7, <1>8 DEF next_row
  <2>2. it = [row_position |-> i + 1, position_next |-> iterator.position_next,
              row |-> iterator.row]
    BY <1>6, <2>1
  <2>3. /\ it.row_position = i + 1 /\ it.position_next = iterator.position_next
        /\ it.row = iterator.row
    BY <2>2
  <2>4. Reached(sent, i) = Reached(sent, i + 1)
    BY <1>4, <1>8 DEF Reached
  <2>5. m > 0 => AtRow(sent, Reached(sent, it.row_position), it.row, it.position_next)
    BY <1>6, <2>3, <2>4
  <2>6. it = [row_position |-> it.row_position, position_next |-> it.position_next,
              row |-> it.row]
    BY <2>2, <2>3
  <2>7. it.row_position \in Nat
    BY <2>3
  <2>8. IteratorIs(sent, it)
    BY <1>4, <2>5, <2>6, <2>7 DEF IteratorIs
  <2> QED
    BY <1>1, <1>2, <1>7, <2>8, IteratorMoves
<1>9. CASE ~(i + 1 >= m)
  <2>0. PICK pos : pos = iterator.position_next
    OBVIOUS
  <2>1. PICK p : p = parse_row(pos)
    OBVIOUS
  <2>2. it = [row_position |-> i + 1, position_next |-> p.next, row |-> p.row]
    BY <1>3, <1>4, <1>5, <1>7, <1>9, <2>0, <2>1 DEF next_row
  <2>3. it.row_position = i + 1 /\ it.position_next = p.next /\ it.row = p.row
    BY <2>2
  <2>4. it = [row_position |-> it.row_position, position_next |-> it.position_next,
              row |-> it.row]
    BY <2>2, <2>3
  <2>5. PICK k \in 1..Len(sent.rows) : k = i + 1
    BY <1>4, <1>9
  <2>6. PICK l \in 1..Len(sent.rows) : l = i + 2 /\ l - 1 = k
    BY <1>4, <1>9, <2>5
  <2>7. Reached(sent, i) = k /\ Reached(sent, i + 1) = l
    BY <1>4, <1>9, <2>5, <2>6 DEF Reached
  <2>8. AtRow(sent, k, iterator.row, pos)
    BY <1>6, <1>4, <1>9, <2>0, <2>7
  <2>9. NoNullRows(sent, k) => pos = Size(RowsAt(sent, k))
    <3> SUFFICES ASSUME NoNullRows(sent, k) PROVE pos = Size(RowsAt(sent, k))
      OBVIOUS
    <3>1. NoNullRows(sent, k - 1) /\ NoNullUpTo(sent.rows[k], Len(sent.rows[k]))
      BY <1>4, <2>5 DEF NoNullRows
    <3>2. PICK q : q = [row |-> iterator.row, next |-> pos]
      OBVIOUS
    <3>3. RowIs(RowsAt(sent, k - 1), sent.rows[k], q)
      BY <2>8, <3>1, <3>2 DEF AtRow
    <3>4. q.next = Size(RowFields(RowsAt(sent, k - 1), sent.rows[k], Len(sent.rows[k])))
      BY <3>1, <3>3 DEF RowIs
    <3>5. RowsAt(sent, k) = RowFields(RowsAt(sent, k - 1), sent.rows[k], Len(sent.rows[k]))
      BY <1>3, RowsAre
    <3> QED
      BY <3>2, <3>4, <3>5
  <2>10. NoNullRows(sent, l - 1) => pos = Size(RowsAt(sent, l - 1))
    BY <2>6, <2>9
  <2>11. AtRow(sent, l, parse_row(pos).row, parse_row(pos).next)
    BY <1>3, <2>10, RowFound
  <2>12. AtRow(sent, Reached(sent, it.row_position), it.row, it.position_next)
    BY <2>1, <2>3, <2>7, <2>11
  <2>13. it.row_position \in Nat
    BY <2>3
  <2>14. IteratorIs(sent, it)
    BY <2>4, <2>12, <2>13 DEF IteratorIs
  <2> QED
    BY <1>1, <1>2, <1>7, <2>14, IteratorMoves
<1> QED
  BY <1>8, <1>9

(* Every step preserves the invariant.                                     *)
LEMMA ResultStep ==
  ASSUME ResultInv, [ExchangeNext]_vars
  PROVE  ResultInv'
<1>1. CASE build
  <2>1. UNCHANGED resultVars /\ phase' = phase
    BY <1>1 DEF build, exchangeVars
  <2>2. phase' \in {"building", "sent"} => sent = NoResult
    BY <2>1 DEF ResultInv
  <2> QED
    BY <2>1, <2>2, ResultStays
<1>2. CASE send
  <2>1. UNCHANGED resultVars /\ phase = "building"
    BY <1>2 DEF send
  <2>2. sent = NoResult
    BY <2>1 DEF ResultInv
  <2> QED
    BY <2>1, <2>2, ResultStays
<1>3. ASSUME NEW error \in Errors, receive_error(error) PROVE ResultInv'
  BY <1>3, OtherAnswer DEF receive_error, incoming
<1>4. ASSUME NEW entries \in Supported, receive_supported(entries) PROVE ResultInv'
  BY <1>4, OtherAnswer DEF receive_supported, incoming
<1>5. CASE receive_ready
  BY <1>5, OtherAnswer DEF receive_ready, incoming, resultVars
<1>6. CASE receive
  <2>1. PICK r \in Results : receive_result(r)
    BY <1>6 DEF receive
  <2>2. phase' = "received"
    BY <1>6 DEF receive, incoming
  <2> QED
    BY <2>1, <2>2, ResultArrives
<1>7. CASE consume_body
  <2>1. phase' = "consumed" /\ (consume \/ UNCHANGED resultVars)
    BY <1>7 DEF consume_body
  <2> QED
    BY <2>1, ResultConsumed, ResultStays
<1>8. CASE iterate
  <2>1. phase' = phase /\ (ResultIterator \/ next_row)
    BY <1>8 DEF iterate, exchangeVars
  <2> QED
    BY <2>1, IteratorBegins, IteratorAdvances
<1>9. CASE UNCHANGED vars
  <2>1. UNCHANGED resultVars /\ phase' = phase
    BY <1>9 DEF vars, exchangeVars
  <2>2. phase' \in {"building", "sent"} => sent = NoResult
    BY <2>1 DEF ResultInv
  <2> QED
    BY <2>1, <2>2, ResultStays
<1> QED
  BY <1>1, <1>2, <1>3, <1>4, <1>5, <1>6, <1>7, <1>8, <1>9 DEF ExchangeNext

(* A result is in every state as the invariant says: what consume, the     *)
(* constructor of ResultIterator and next leave behind (BodyResult,        *)
(* ResultIterator).                                                        *)
THEOREM ResultInvariant == ExchangeSpec => []ResultInv
<1>1. ExchangeInit => ResultInv
  BY DEF ExchangeInit, ResultInit, ResultInv, NewResult
<1>2. ResultInv /\ [ExchangeNext]_vars => ResultInv'
  BY ResultStep
<1> QED
  BY <1>1, <1>2, PTL DEF ExchangeSpec

-----------------------------------------------------------------------------
(* A result that describes its columns has them as the server described    *)
(* them.                                                                   *)
LEMMA ColumnsAsSent ==
  ASSUME Describes(sent), DescribedBy(sent, result), ~result.no_metadata
  PROVE  /\ \A i \in DOMAIN sent.columns :
              result.column_metadata[result.column_count + i] = Described(i)
         /\ \A name \in {sent.columns[i].name : i \in DOMAIN sent.columns} :
              {e.column + 1 : e \in {x \in result.column_index : x.name = name}}
                = {Min({i \in DOMAIN sent.columns : sent.columns[i].name = name})}
<1> DEFINE global == "GLOBAL_TABLESPEC" \in sent.flags
           columns == sent.columns
<1>1. "NO_METADATA" \notin sent.flags
  BY DEF DescribedBy
<1>2. columns \in Seq(Columns)
  BY DEF Describes
<1>3. PICK n \in Nat : n = Len(columns)
  BY <1>2
<1>4. DOMAIN columns = 1..n
  BY <1>2, <1>3
<1>5. /\ result.column_count = n
      /\ result.column_metadata = MetadataUpTo(columns, global, n)
      /\ result.column_index = IndexOf(columns, n)
  BY <1>1, <1>3, Zenon DEF DescribedBy
<1>6. \A i : Described(i) = DescriptionOf(columns[i], global)
  BY DescribedIs
<1> HIDE DEF global, columns
<1>7. ASSUME NEW i \in 1..n PROVE result.column_metadata[n + i] = Described(i)
  <2>1. n + i \in 1..(n + n) /\ ~(n + i <= n) /\ (n + i) - n = i
    OBVIOUS
  <2>2. MetadataUpTo(columns, global, n)[n + i] = DescriptionOf(columns[i], global)
    BY <1>3, <2>1 DEF MetadataUpTo
  <2> QED
    BY <1>5, <1>6, <2>2
<1>8. ASSUME NEW i \in 1..n PROVE Leads(result.column_index, columns, n, columns[i].name)
  BY <1>5, IndexLeads
<1>9. ASSUME NEW name \in {columns[i].name : i \in 1..n}
      PROVE  Leads(result.column_index, columns, n, name)
  <2>1. PICK i \in 1..n : name = columns[i].name
    OBVIOUS
  <2> QED
    BY <1>8, <2>1
<1>10. \A i \in DOMAIN columns : result.column_metadata[result.column_count + i] = Described(i)
  BY <1>4, <1>5, <1>7
<1>11. \A name \in {columns[i].name : i \in DOMAIN columns} :
         {e.column + 1 : e \in {x \in result.column_index : x.name = name}}
           = {Min({i \in DOMAIN columns : columns[i].name = name})}
  BY <1>4, <1>9, Zenon DEF Leads
<1> QED
  BY <1>10, <1>11, Zenon DEF columns

(* A result with metadata is parsed as it was sent.                        *)
LEMMA MetadataAsSent ==
  ASSUME Describes(sent), DescribedBy(sent, result)
  PROVE  /\ result.column_count = Len(sent.columns)
         /\ result.more_pages <=> "HAS_MORE_PAGES" \in sent.flags
         /\ result.no_metadata <=> "NO_METADATA" \in sent.flags
         /\ result.global_table_spec <=> "GLOBAL_TABLESPEC" \in sent.flags
         /\ result.more_pages => result.page_state = PageState
         /\ result.global_table_spec => result.keyspace = Keyspace /\ result.table = Table
<1>1. result.column_count = Len(sent.columns)
  BY DEF DescribedBy
<1>2. /\ result.more_pages <=> "HAS_MORE_PAGES" \in sent.flags
      /\ result.more_pages => result.page_state = PageState
  <2>1. CASE "HAS_MORE_PAGES" \in sent.flags
    BY <2>1 DEF DescribedBy
  <2>2. CASE "HAS_MORE_PAGES" \notin sent.flags
    BY <2>2 DEF DescribedBy
  <2> QED
    BY <2>1, <2>2
<1>3. result.no_metadata <=> "NO_METADATA" \in sent.flags
  <2>1. CASE "NO_METADATA" \in sent.flags
    BY <2>1 DEF DescribedBy
  <2>2. CASE "NO_METADATA" \notin sent.flags
    BY <2>2 DEF DescribedBy
  <2> QED
    BY <2>1, <2>2
<1>4. /\ result.global_table_spec <=> "GLOBAL_TABLESPEC" \in sent.flags
      /\ result.global_table_spec => result.keyspace = Keyspace /\ result.table = Table
  <2>1. CASE "GLOBAL_TABLESPEC" \in sent.flags
    BY <2>1 DEF DescribedBy
  <2>2. CASE "GLOBAL_TABLESPEC" \notin sent.flags
    BY <2>2 DEF DescribedBy
  <2> QED
    BY <2>1, <2>2
<1> QED
  BY <1>1, <1>2, <1>3, <1>4

(* A RESULT is parsed as the server sent it, whichever kind it is and      *)
(* whichever optional parts its metadata has (BodyResult::consume,         *)
(* parse_metadata, parse_rows, parse_set_keyspace, parse_prepared,         *)
(* parse_schema_change): each parser finds the next part, every column is  *)
(* described as the server described it, column_index leads to the first   *)
(* column of a name, and rows is where the rows begin; for any number of   *)
(* columns and rows, columns of any name and type, and cells of any size.  *)
THEOREM ResultsAreParsedAsSent == ExchangeSpec => []ParsedAsSent
<1>1. ResultInv => ParsedAsSent
  <2> SUFFICES ASSUME ResultInv PROVE ParsedAsSent
    OBVIOUS
  <2>1. CASE ~Parsed
    <3>1. result.kind = "none"
      BY <2>1 DEF Parsed
    <3> QED
      BY <2>1, <3>1 DEF ParsedAsSent
  <2>2. CASE Parsed
    <3>1. sent # NoResult /\ ReadAs(sent, result)
      BY <2>2 DEF Parsed, ResultInv
    <3>2. IsSent(sent)
      BY <3>1 DEF ResultInv
    <3>3. /\ result.kind = sent.kind
          /\ result.kind = "SET_KEYSPACE" => result.keyspace = Keyspace
          /\ result.kind = "SCHEMA_CHANGE" =>
               result.change = Change /\ result.keyspace = Keyspace /\ result.table = Table
          /\ sent.kind = "PREPARED" => result.prepared = PreparedId
          /\ sent.kind = "ROWS" => /\ result.row_count = Len(sent.rows)
                                   /\ result.rows = Size(HeadFields(sent))
          /\ HasMetadata => DescribedBy(sent, result)
      BY <3>1 DEF ReadAs, HasMetadata
    <3>4. HasMetadata => Describes(sent)
      BY <3>2 DEF HasMetadata, IsSent, HasRows
    <3>5. CASE ~HasMetadata
      BY <3>3, <3>5 DEF ParsedAsSent
    <3>6. CASE HasMetadata
      <4>1. Describes(sent) /\ DescribedBy(sent, result)
        BY <3>3, <3>4, <3>6
      <4>2. /\ result.column_count = Len(sent.columns)
            /\ result.more_pages <=> "HAS_MORE_PAGES" \in sent.flags
            /\ result.no_metadata <=> "NO_METADATA" \in sent.flags
            /\ result.global_table_spec <=> "GLOBAL_TABLESPEC" \in sent.flags
            /\ result.more_pages => result.page_state = PageState
            /\ result.global_table_spec => result.keyspace = Keyspace /\ result.table = Table
        BY <4>1, MetadataAsSent
      <4>3. ~result.no_metadata =>
              /\ \A i \in DOMAIN sent.columns :
                   result.column_metadata[result.column_count + i] = Described(i)
              /\ \A name \in {sent.columns[i].name : i \in DOMAIN sent.columns} :
                   {e.column + 1 : e \in {x \in result.column_index : x.name = name}}
                     = {Min({i \in DOMAIN sent.columns : sent.columns[i].name = name})}
        BY <4>1, ColumnsAsSent, Zenon
      <4> QED
        BY <3>3, <4>2, <4>3, Zenon DEF ParsedAsSent
    <3> QED
      BY <3>5, <3>6
  <2> QED
    BY <2>1, <2>2
<1> QED
  BY <1>1, ResultInvariant, PTL

-----------------------------------------------------------------------------
(* Current is the row that the iterator has reached.                       *)
LEMMA CurrentIs ==
  ASSUME iterator.row_position \in Nat, Len(sent.rows) \in Nat, Len(sent.rows) > 0
  PROVE  /\ Current = Reached(sent, iterator.row_position)
         /\ Current \in 1..Len(sent.rows)
<1>1. PICK p \in Nat : p = iterator.row_position + 1
  OBVIOUS
<1>2. PICK m \in Nat : m = Len(sent.rows)
  OBVIOUS
<1>3. PICK k \in Nat : k = IF p <= m THEN p ELSE m
  BY <1>1, <1>2
<1>4. Min({p, m}) = k
  <2>1. k \in {p, m} /\ \A y \in {p, m} : k <= y
    BY <1>3
  <2>2. \A x \in {p, m} : (\A y \in {p, m} : x <= y) => x = k
    BY <1>3
  <2> QED
    BY <2>1, <2>2 DEF Min
<1>5. Current = k
  BY <1>1, <1>2, <1>4 DEF Current
<1> QED
  BY <1>1, <1>2, <1>3, <1>5 DEF Reached

(* What is known when there is an iterator and a row.                      *)
LEMMA RowReached ==
  ASSUME ResultInv, iterator # NoIterator, Len(sent.rows) > 0
  PROVE  /\ IsSent(sent) /\ sent.kind = "ROWS" /\ buffer = Encoded(sent) /\ HasRows(sent)
         /\ Len(sent.rows) \in Nat /\ Current \in 1..Len(sent.rows)
         /\ AtRow(sent, Current, iterator.row, iterator.position_next)
<1>1. result.kind = "ROWS" /\ IteratorIs(sent, iterator)
  BY DEF ResultInv
<1>2. /\ IsSent(sent) /\ sent.kind = "ROWS" /\ buffer = Encoded(sent) /\ HasRows(sent)
      /\ Len(sent.rows) \in Nat
  BY <1>1, RowsKnown
<1>3. /\ iterator.row_position \in Nat
      /\ AtRow(sent, Reached(sent, iterator.row_position), iterator.row,
               iterator.position_next)
  BY <1>1 DEF IteratorIs
<1>4. Current = Reached(sent, iterator.row_position) /\ Current \in 1..Len(sent.rows)
  BY <1>2, <1>3, CurrentIs
<1> QED
  BY <1>2, <1>3, <1>4

(* The cells before a cell are those of the rows before, and those before  *)
(* it in its own row.                                                      *)
LEMMA NoNullBefore ==
  ASSUME HasRows(sent), NEW r \in Nat, NEW c \in Nat, r > 0, c > 0, r - 1 <= Len(sent.rows),
         c - 1 <= Len(sent.columns), NoNullIn(CellsBefore(r, c))
  PROVE  /\ NoNullRows(sent, r - 1)
         /\ r <= Len(sent.rows) => NoNullUpTo(sent.rows[r], c - 1)
<1>1. /\ sent.rows \in Seq(Seq(CellSizes)) /\ sent.columns \in Seq(Columns)
      /\ \A i \in 1..Len(sent.rows) : Len(sent.rows[i]) = Len(sent.columns)
  BY DEF HasRows, Describes
<1>2. PICK m \in Nat : m = Len(sent.rows) /\ DOMAIN sent.rows = 1..m
  BY <1>1
<1>3. PICK n \in Nat : n = Len(sent.columns) /\ DOMAIN sent.columns = 1..n
  BY <1>1
<1>4. ASSUME NEW i \in 1..m, NEW j \in 1..n, i < r \/ (i = r /\ j < c)
      PROVE  sent.rows[i][j] >= 0
  <2>1. <<i, j>> \in (DOMAIN sent.rows) \X (DOMAIN sent.columns)
    BY <1>2, <1>3
  <2>2. <<i, j>> \in CellsBefore(r, c)
    BY <1>4, <2>1 DEF CellsBefore
  <2>3. PICK p \in CellsBefore(r, c) : p = <<i, j>>
    BY <2>2
  <2>4. sent.rows[p[1]][p[2]] >= 0
    BY DEF NoNullIn
  <2> QED
    BY <2>3, <2>4
<1>5. NoNullRows(sent, r - 1)
  <2> SUFFICES ASSUME NEW i \in 1..(r - 1), NEW j \in 1..Len(sent.rows[i])
               PROVE  sent.rows[i][j] >= 0
    BY DEF NoNullRows, NoNullUpTo
  <2>1. i \in 1..m /\ i < r
    BY <1>2
  <2>2. j \in 1..n
    BY <1>1, <1>2, <1>3, <2>1
  <2> QED
    BY <1>4, <2>1, <2>2
<1>6. ASSUME r <= Len(sent.rows) PROVE NoNullUpTo(sent.rows[r], c - 1)
  <2> SUFFICES ASSUME NEW j \in 1..(c - 1) PROVE sent.rows[r][j] >= 0
    BY DEF NoNullUpTo
  <2>1. r \in 1..m /\ j \in 1..n /\ j < c
    BY <1>2, <1>3, <1>6
  <2> QED
    BY <1>4, <2>1
<1> QED
  BY <1>5, <1>6

(* The cursor yields the rows the server sent, one after the other, and    *)
(* stays on the last (ResultIterator::ResultIterator, parse_row, next):    *)
(* every cell has its own bytes and size, up to and including the first    *)
(* null, for any number of rows, columns and calls of next.                *)
THEOREM RowsAreExact == ExchangeSpec => []RowsExact
<1>1. ResultInv => RowsExact
  <2> SUFFICES ASSUME ResultInv, iterator # NoIterator, Len(sent.rows) > 0,
                      NEW c \in DOMAIN sent.columns, NoNullIn(CellsBefore(Current, c))
               PROVE  iterator.row[c] = [pos |-> Size(BeforeCell(Current, c)) + 4,
                                         size |-> AsSize(sent.rows[Current][c])]
    BY DEF RowsExact
  <2>1. /\ IsSent(sent) /\ sent.kind = "ROWS" /\ buffer = Encoded(sent) /\ HasRows(sent)
        /\ Len(sent.rows) \in Nat /\ Current \in 1..Len(sent.rows)
        /\ AtRow(sent, Current, iterator.row, iterator.position_next)
    BY RowReached
  <2>2. PICK k \in 1..Len(sent.rows) : k = Current
    BY <2>1
  <2>3. /\ sent.columns \in Seq(Columns) /\ Len(sent.rows[k]) = Len(sent.columns)
        /\ c \in 1..Len(sent.columns)
    BY <2>1 DEF HasRows, Describes
  <2>4. /\ k \in Nat /\ k > 0 /\ k - 1 <= Len(sent.rows) /\ k <= Len(sent.rows)
        /\ c \in Nat /\ c > 0 /\ c - 1 <= Len(sent.columns)
    BY <2>1, <2>3
  <2>5. NoNullIn(CellsBefore(k, c))
    BY <2>2
  <2>6. NoNullRows(sent, k - 1) /\ NoNullUpTo(sent.rows[k], c - 1)
    BY <2>1, <2>4, <2>5, NoNullBefore
  <2>7. PICK q : q = [row |-> iterator.row, next |-> iterator.position_next]
    OBVIOUS
  <2>8. RowIs(RowsAt(sent, k - 1), sent.rows[k], q)
    BY <2>1, <2>2, <2>6, <2>7 DEF AtRow
  <2>9. q.row[c] = [pos |-> Size(RowFields(RowsAt(sent, k - 1), sent.rows[k], c - 1)) + 4,
                    size |-> AsSize(sent.rows[k][c])]
    BY <2>3, <2>6, <2>8 DEF RowIs
  <2>10. BeforeCell(k, c) = RowFields(RowsAt(sent, k - 1), sent.rows[k], c - 1)
    BY DEF BeforeCell, BeforeRow, RowsAt
  <2>11. q.row = iterator.row
    BY <2>7
  <2> QED
    BY <2>2, <2>9, <2>10, <2>11
<1> QED
  BY <1>1, ResultInvariant, PTL

(* As long as there is a row and no null, the cursor never leaves the      *)
(* buffer (ResultIterator::parse_row, which does not look at its size):    *)
(* the row behind the current one begins inside, or at the end.            *)
THEOREM CursorStaysInBuffer == ExchangeSpec => []CursorInBuffer
<1>1. ResultInv => CursorInBuffer
  <2> SUFFICES ASSUME ResultInv, iterator # NoIterator, Len(sent.rows) > 0,
                      NoNullIn(CellsBefore(Current + 1, 1))
               PROVE  /\ iterator.position_next = Size(BeforeRow(Current + 1))
                      /\ iterator.position_next <= Size(buffer)
    BY DEF CursorInBuffer
  <2>1. /\ IsSent(sent) /\ sent.kind = "ROWS" /\ buffer = Encoded(sent) /\ HasRows(sent)
        /\ Len(sent.rows) \in Nat /\ Current \in 1..Len(sent.rows)
        /\ AtRow(sent, Current, iterator.row, iterator.position_next)
    BY RowReached
  <2>2. PICK k \in 1..Len(sent.rows) : k = Current
    BY <2>1
  <2>3. Len(sent.columns) \in Nat
    BY <2>1 DEF HasRows, Describes
  <2>4. /\ k \in Nat /\ k + 1 \in Nat /\ k + 1 > 0 /\ (k + 1) - 1 = k /\ k <= Len(sent.rows)
        /\ 1 - 1 <= Len(sent.columns) /\ k \in 0..Len(sent.rows)
    BY <2>1, <2>3
  <2>5. NoNullIn(CellsBefore(k + 1, 1))
    BY <2>2
  <2>6. NoNullRows(sent, k)
    <3>1. PICK r \in Nat : r = k + 1 /\ r > 0 /\ r - 1 = k
      BY <2>4
    <3>2. PICK c \in Nat : c = 1 /\ c > 0 /\ c - 1 <= Len(sent.columns)
      BY <2>4
    <3>3. NoNullIn(CellsBefore(r, c)) /\ r - 1 <= Len(sent.rows) /\ HasRows(sent)
      BY <2>1, <2>4, <2>5, <3>1, <3>2
    <3>4. NoNullRows(sent, r - 1)
      BY <3>1, <3>2, <3>3, NoNullBefore
    <3> QED
      BY <3>1, <3>4
  <2>7. NoNullRows(sent, k - 1) /\ NoNullUpTo(sent.rows[k], Len(sent.rows[k]))
    BY <2>4, <2>6 DEF NoNullRows
  <2>8. PICK q : q = [row |-> iterator.row, next |-> iterator.position_next]
    OBVIOUS
  <2>9. RowIs(RowsAt(sent, k - 1), sent.rows[k], q)
    BY <2>1, <2>2, <2>7, <2>8 DEF AtRow
  <2>10. q.next = Size(RowFields(RowsAt(sent, k - 1), sent.rows[k], Len(sent.rows[k])))
    BY <2>7, <2>9 DEF RowIs
  <2>11. /\ RowsAt(sent, k) = RowFields(RowsAt(sent, k - 1), sent.rows[k], Len(sent.rows[k]))
         /\ RowsAt(sent, k) \in Buffers /\ Goes(RowsAt(sent, k), buffer) /\ buffer \in Buffers
    BY <2>1, <2>4, RowsAre
  <2>12. iterator.position_next = Size(RowsAt(sent, k))
    BY <2>8, <2>10, <2>11
  <2>13. BeforeRow(k + 1) = RowsAt(sent, k)
    BY <2>4 DEF BeforeRow, RowsAt
  <2>14. Size(RowsAt(sent, k)) <= Size(buffer)
    BY <2>11, GoesUpward
  <2> QED
    BY <2>2, <2>12, <2>13, <2>14
<1> QED
  BY <1>1, ResultInvariant, PTL
=============================================================================
