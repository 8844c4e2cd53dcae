---------------------------- MODULE Serialization ----------------------------
(***************************************************************************)
(* Fields of message bodies (include/cql_serialization.hpp).  A buffer is  *)
(* a sequence of fields; a field has a width in bytes, says whether it     *)
(* holds a number or raw bytes, and has the number or the bytes as its     *)
(* content.  A position is an offset in bytes, so that a wrong size moves  *)
(* what follows; a number read where no number of that width starts is     *)
(* Garbage, and so is every position computed from it.                     *)
(***************************************************************************)
EXTENDS Integers, Sequences

CONSTANTS
  Garbage,  \* a number that was not written as one
  SignBit   \* what the highest bit of a short is worth: 2^15

(* The numbers of types, 34 at most, fit a short. *)
ASSUME SerializationAssumption ==
  /\ Garbage \notin Int
  /\ SignBit \in Nat /\ SignBit > 34

(* How many values two bytes have. *)
ShortValues == 2 * SignBit

(* A [string] or [bytes]: which one it is, and how many bytes it has. *)
Text(id, n) == [id |-> id, size |-> n]

EmptyText == Text("", 0)

(* Only one text is empty. *)
IsText(text) == text.size \in Nat /\ (text.size = 0 => text = EmptyText)

(* A number that an int16_t holds, and a text whose length fits two bytes. *)
IsShort(n) == n \in 0..(SignBit - 1)
IsShortText(text) == IsText(text) /\ text.size < ShortValues

Number(width, value) == [width |-> width, number |-> TRUE, content |-> value]

Bytes(text) == [width |-> text.size, number |-> FALSE, content |-> text]

(* Offset of field i of buffer, and the size of the whole buffer. *)
Offset(buffer, i) ==
  LET end[k \in 0..Len(buffer)] ==
        IF k = 0 THEN 0 ELSE end[k - 1] + buffer[k].width
  IN  end[i - 1]

Size(buffer) == Offset(buffer, Len(buffer) + 1)

-----------------------------------------------------------------------------
(* Writing. *)
encode_byte(buffer, value) == Append(buffer, Number(1, value))

(* int16_t value: the two low bytes of what the caller passes. *)
encode_short(buffer, value) == Append(buffer, Number(2, value % ShortValues))

encode_int(buffer, value) == Append(buffer, Number(4, value))

(* The length is written as a short, the bytes are all written. *)
encode_string(buffer, text) == Append(encode_short(buffer, text.size), Bytes(text))

encode_long_string(buffer, text) == Append(encode_int(buffer, text.size), Bytes(text))

(* The entries of a map, in the order of its keys. *)
encode_string_map(buffer, entries) ==
  LET after[i \in 0..Len(entries)] ==
        IF i = 0
          THEN encode_short(buffer, Len(entries))
          ELSE encode_string(encode_string(after[i - 1], entries[i].key),
                             entries[i].value)
  IN  after[Len(entries)]

-----------------------------------------------------------------------------
(* Reading at position pos: the value, and the position behind it. *)
Plus(pos, n) == IF Garbage \in {pos, n} THEN Garbage ELSE pos + n

NumberAt(buffer, pos, width) ==
  LET At == {i \in DOMAIN buffer : /\ buffer[i].number
                                   /\ buffer[i].width = width
                                   /\ Offset(buffer, i) = pos}
  IN  IF At = {} THEN Garbage ELSE buffer[CHOOSE i \in At : TRUE].content

BytesAt(buffer, pos, size) ==
  LET At == {i \in DOMAIN buffer : /\ ~buffer[i].number
                                   /\ buffer[i].width = size
                                   /\ Offset(buffer, i) = pos}
  IN  IF At = {} THEN Garbage ELSE buffer[CHOOSE i \in At : TRUE].content

(* Two bytes, as they are. *)
TwoBytes(buffer, pos) ==
  [value |-> NumberAt(buffer, pos, 2), next |-> Plus(pos, 2)]

(* int16_t& output: the highest bit is the sign. *)
Signed(n) == IF n # Garbage /\ n >= SignBit THEN n - ShortValues ELSE n

decode_short(buffer, pos) ==
  LET bytes == TwoBytes(buffer, pos)
  IN  [value |-> Signed(bytes.value), next |-> bytes.next]

decode_int(buffer, pos) ==
  [value |-> NumberAt(buffer, pos, 4), next |-> Plus(pos, 4)]

(* The bytes behind a length. *)
Counted(buffer, length) ==
  [value |-> BytesAt(buffer, length.next, length.value),
   next  |-> Plus(length.next, length.value)]

(* The cast writes the short into the two low bytes of a size_t that was 0 *)
(* before: the length keeps no sign.                                       *)
decode_string(buffer, pos) == Counted(buffer, TwoBytes(buffer, pos))

decode_long_string(buffer, pos) == Counted(buffer, decode_int(buffer, pos))

(* How often for (int i = 0; i < len; i++) runs its body. *)
Rounds(len) == IF len = Garbage \/ len < 0 THEN 0 ELSE len

(* insert into a std::map, represented by the set of its entries: a key    *)
(* that is there keeps its value.                                          *)
WithEntry(entries, key, value) ==
  IF \E e \in entries : e.key = key
    THEN entries
    ELSE entries \cup {[key |-> key, value |-> value]}

(* The loop bodies of the decoders below: one string, entry or list more.  *)
NextString(buffer, before) ==
  LET s == decode_string(buffer, before.next)
  IN  [strings |-> Append(before.strings, s.value), next |-> s.next]

NextEntry(buffer, before) ==
  LET key == decode_string(buffer, before.next)
      value == decode_string(buffer, key.next)
  IN  [entries |-> WithEntry(before.entries, key.value, value.value),
       next |-> value.next]

(* The entries of a map, the first one for every key. *)
decode_string_map(buffer, pos) ==
  LET len == decode_short(buffer, pos)
      after[i \in 0..Rounds(len.value)] ==
        IF i = 0 THEN [entries |-> {}, next |-> len.next]
                 ELSE NextEntry(buffer, after[i - 1])
      last == after[Rounds(len.value)]
  IN  [value |-> last.entries, next |-> last.next]

(* Mutant of decode_stringlist: what is read next begins behind the number *)
(* of strings.                                                             *)
decode_stringlist_short(buffer, pos) ==
  LET len == decode_short(buffer, pos)
      after[i \in 0..Rounds(len.value)] ==
        IF i = 0 THEN [strings |-> << >>, next |-> len.next]
                 ELSE NextString(buffer, after[i - 1])
  IN  [value |-> after[Rounds(len.value)].strings, next |-> len.next]

decode_stringlist(buffer, pos) ==
  LET len == decode_short(buffer, pos)
      after[i \in 0..Rounds(len.value)] ==
        IF i = 0 THEN [strings |-> << >>, next |-> len.next]
                 ELSE NextString(buffer, after[i - 1])
      last == after[Rounds(len.value)]
  IN  [value |-> last.strings, next |-> last.next]

NextList(buffer, before) ==
  LET key == decode_string(buffer, before.next)
      list == decode_stringlist(buffer, key.next)
  IN  [entries |-> WithEntry(before.entries, key.value, list.value),
       next |-> list.next]

(* The lists of a multimap, the first one for every key. *)
decode_string_multimap(buffer, pos) ==
  LET len == decode_short(buffer, pos)
      after[i \in 0..Rounds(len.value)] ==
        IF i = 0 THEN [entries |-> {}, next |-> len.next]
                 ELSE NextList(buffer, after[i - 1])
      last == after[Rounds(len.value)]
  IN  [value |-> last.entries, next |-> last.next]

CQL_COLUMN_TYPE_CUSTOM == 0

(* A column type, and the class name of a custom one. *)
decode_option(buffer, pos) ==
  LET type == decode_short(buffer, pos)
      class == decode_string(buffer, type.next)
  IN  IF type.value = CQL_COLUMN_TYPE_CUSTOM
        THEN [type |-> type.value, class |-> class.value, next |-> class.next]
        ELSE [type |-> type.value, class |-> EmptyText, next |-> type.next]
=============================================================================
