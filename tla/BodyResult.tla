----------------------------- MODULE BodyResult ------------------------------
(***************************************************************************)
(* Reading a RESULT: BodyResult::consume with its parsers, and the cursor  *)
(* ResultIterator over the rows (include/cql_body_result.hpp).  The server *)
(* chooses a result and encodes it; the parsers then walk over the buffer  *)
(* without looking at its size.  A position they compute is right, or it   *)
(* points anywhere: Garbage.  Exchange composes the actions of this module *)
(* with the request that a result answers.                                 *)
(***************************************************************************)
EXTENDS Serialization, FiniteSetsExt

CONSTANTS
  Columns,     \* columns the server knows: a name and a type; a type has its
               \* number, and those of its element types if it is a collection
  CellSizes,   \* sizes of cells, -1 for a null
  SizeValues,  \* how many values a size_t has: 2^64 or 2^32
  MaxColumns,  \* bound: columns of a result
  MaxRows      \* bound: rows of a result

VARIABLES
  sent,           \* the result, as the server has it
  buffer,         \* body_buffer of the message that was received
  result,         \* the members of BodyResult
  iterator        \* the members of ResultIterator

resultVars == <<sent, buffer, result, iterator>>

CQL_COLUMN_TYPE_LIST == 32
CQL_COLUMN_TYPE_MAP == 33
CQL_COLUMN_TYPE_SET == 34

Collections == {CQL_COLUMN_TYPE_LIST, CQL_COLUMN_TYPE_MAP, CQL_COLUMN_TYPE_SET}

(* Names and types fit the shorts in which they are announced or written. *)
ASSUME ResultAssumption ==
  /\ MaxColumns \in Nat
  /\ MaxRows \in Nat
  /\ CellSizes \subseteq Int
  /\ SizeValues \in Nat \ {0}
  /\ \A column \in Columns :
       /\ IsShortText(column.name)
       /\ IsShort(column.type.type)
       /\ column.type.type \in Collections => IsShort(column.type.primary)
       /\ column.type.type = CQL_COLUMN_TYPE_MAP => IsShort(column.type.secondary)

ClassName == Text("class", 5)
Keyspace == Text("keyspace", 2)
Table == Text("table", 3)
PageState == Text("page_state", 6)
PreparedId == Text("prepared", 4)
Change == Text("change", 7)

-----------------------------------------------------------------------------
(* The server, as the parsers expect it to write. *)
Cells(columns) == [1..columns -> CellSizes]

(* GLOBAL_TABLESPEC only comes with metadata. *)
Flags ==
  {f \in SUBSET {"GLOBAL_TABLESPEC", "HAS_MORE_PAGES", "NO_METADATA"} :
     ~({"GLOBAL_TABLESPEC", "NO_METADATA"} \subseteq f)}

(* Results with n columns. *)
PreparedResults(n) == [kind : {"PREPARED"}, flags : Flags, columns : [1..n -> Columns]]

RowsResults(n) ==
  [kind : {"ROWS"}, flags : Flags, columns : [1..n -> Columns],
   rows : UNION {[1..r -> Cells(n)] : r \in 0..MaxRows}]

Results ==
  [kind : {"VOID", "SET_KEYSPACE", "SCHEMA_CHANGE"}]
    \cup UNION {PreparedResults(n) \cup RowsResults(n) : n \in 0..MaxColumns}

(* Each of these writes behind fields. *)
OptionFields(fields, type) ==
  LET number == encode_short(fields, type)
  IN  IF type = CQL_COLUMN_TYPE_CUSTOM THEN encode_string(number, ClassName) ELSE number

PrimaryFields(fields, type) ==
  IF type.type \in Collections THEN OptionFields(fields, type.primary) ELSE fields

SecondaryFields(fields, type) ==
  IF type.type = CQL_COLUMN_TYPE_MAP THEN OptionFields(fields, type.secondary) ELSE fields

TypeFields(fields, type) ==
  SecondaryFields(PrimaryFields(OptionFields(fields, type.type), type), type)

SpecFields(fields) == encode_string(encode_string(fields, Keyspace), Table)

ColumnFields(fields, column, global) ==
  TypeFields(encode_string(IF global THEN fields ELSE SpecFields(fields), column.name),
             column.type)

ColumnsFields(fields, columns, global) ==
  LET after[i \in 0..Len(columns)] ==
        IF i = 0 THEN fields ELSE ColumnFields(after[i - 1], columns[i], global)
  IN  after[Len(columns)]

(* The optional parts of the metadata. *)
PageFields(fields, flags) ==
  IF "HAS_MORE_PAGES" \in flags THEN encode_long_string(fields, PageState) ELSE fields

GlobalFields(fields, flags) ==
  IF "GLOBAL_TABLESPEC" \in flags THEN SpecFields(fields) ELSE fields

DescriptionFields(fields, r) ==
  IF "NO_METADATA" \in r.flags
    THEN fields
    ELSE ColumnsFields(fields, r.columns, "GLOBAL_TABLESPEC" \in r.flags)

MetadataFields(fields, r) ==
  LET counted == encode_int(encode_int(fields, r.flags), Len(r.columns))
  IN  DescriptionFields(GlobalFields(PageFields(counted, r.flags), r.flags), r)

(* Only one text is empty. *)
CellText(size) == IF size = 0 THEN EmptyText ELSE Text("cell", size)

(* A cell is its size and its bytes; no bytes follow the size of a null. *)
CellFields(fields, size) ==
  LET number == encode_int(fields, size)
  IN  IF size < 0 THEN number ELSE Append(number, Bytes(CellText(size)))

(* The first n cells of a row, and the first n rows of a result. *)
RowFields(fields, row, n) ==
  LET after[c \in 0..Len(row)] ==
        IF c = 0 THEN fields ELSE CellFields(after[c - 1], row[c])
  IN  after[n]

RowsFields(fields, rows, n) ==
  LET after[i \in 0..Len(rows)] ==
        IF i = 0 THEN fields ELSE RowFields(after[i - 1], rows[i], Len(rows[i]))
  IN  after[n]

KindFields(r) == encode_int(<< >>, r.kind)

(* A result with rows, up to the first of them. *)
HeadFields(r) == encode_int(MetadataFields(KindFields(r), r), Len(r.rows))

Encoded(r) ==
  CASE r.kind = "VOID" -> KindFields(r)
    [] r.kind = "SET_KEYSPACE" -> encode_string(KindFields(r), Keyspace)
    [] r.kind = "SCHEMA_CHANGE" -> SpecFields(encode_string(KindFields(r), Change))
    [] r.kind = "PREPARED" -> MetadataFields(encode_string(KindFields(r), PreparedId), r)
    [] r.kind = "ROWS" -> RowsFields(HeadFields(r), r.rows, Len(r.rows))

-----------------------------------------------------------------------------
CQL_COLUMN_TYPE_UNKNOWN == -1

(* ColumnMetaData::ColumnMetaData() *)
ColumnMetaData ==
  [keyspace |-> EmptyText, table |-> EmptyText, name |-> EmptyText,
   type |-> CQL_COLUMN_TYPE_UNKNOWN, class_name |-> EmptyText,
   collection_primary_type |-> CQL_COLUMN_TYPE_UNKNOWN,
   collection_primary_class |-> EmptyText,
   collection_secondary_type |-> CQL_COLUMN_TYPE_UNKNOWN,
   collection_secondary_class |-> EmptyText]

(* BodyResult::BodyResult(); column_index is represented by the set of its *)
(* entries.                                                                *)
NewResult ==
  [kind |-> "none", more_pages |-> FALSE, no_metadata |-> FALSE,
   global_table_spec |-> TRUE, column_count |-> 0, column_metadata |-> << >>,
   column_index |-> {}, page_state |-> EmptyText, prepared |-> EmptyText,
   change |-> EmptyText, keyspace |-> EmptyText, table |-> EmptyText,
   row_count |-> 0, rows |-> 0]

NoIterator == [row_position |-> -1, position_next |-> 0, row |-> << >>]

NoResult == [kind |-> "none"]

ResultInit ==
  /\ sent = NoResult
  /\ buffer = << >>
  /\ result = NewResult
  /\ iterator = NoIterator

(* The body of a RESULT has arrived whole. *)
receive_result(r) ==
  /\ sent = NoResult
  /\ sent' = r
  /\ buffer' = Encoded(r)
  /\ UNCHANGED <<result, iterator>>

-----------------------------------------------------------------------------
(* One step of a parser: p.next is the local variable buffer, p.into the   *)
(* object whose members are set.                                           *)
Read(p, field, decoded) ==
  [p EXCEPT !.into[field] = decoded.value, !.next = decoded.next]

Assign(p, field, value) == [p EXCEPT !.into[field] = value]

Int32(p, field) == Read(p, field, decode_int(buffer, p.next))
String(p, field) == Read(p, field, decode_string(buffer, p.next))
LongString(p, field) == Read(p, field, decode_long_string(buffer, p.next))

Option(p, type, class) ==
  LET decoded == decode_option(buffer, p.next)
  IN  [p EXCEPT !.into[type] = decoded.type, !.into[class] = decoded.class,
                !.next = decoded.next]

(* parse_metadata, the parts of the loop body. *)
TableOfColumn(p, global) == IF global THEN p ELSE String(String(p, "keyspace"), "table")

TypeOfColumn(p) == Option(String(p, "name"), "type", "class_name")

PrimaryType(p) ==
  IF p.into.type \in Collections
    THEN Option(p, "collection_primary_type", "collection_primary_class")
    ELSE p

SecondaryType(p) ==
  IF p.into.type = CQL_COLUMN_TYPE_MAP
    THEN Option(p, "collection_secondary_type", "collection_secondary_class")
    ELSE p

(* Mutant of parse_column: the second element type of a map is not read. *)
parse_column_one_option(pos, global) ==
  PrimaryType(TypeOfColumn(
    TableOfColumn([into |-> ColumnMetaData, next |-> pos], global)))

(* parse_metadata, the loop body: the metadata of one column. *)
parse_column(pos, global) ==
  SecondaryType(PrimaryType(TypeOfColumn(
    TableOfColumn([into |-> ColumnMetaData, next |-> pos], global))))

(* insert of a pair into an unordered_map: a key that is there stays. *)
Inserted(index, name, i) ==
  IF \E e \in index : e.name = name THEN index ELSE index \cup {[name |-> name, column |-> i]}

AddColumn(p, i, column) ==
  [into |-> [p.into EXCEPT
               !.column_metadata = Append(@, column.into),
               !.column_index = Inserted(@, column.into.name, i)],
   next |-> column.next]

(* parse_metadata, the loop: every column is appended behind the           *)
(* column_count default entries that resize made.                          *)
parse_columns(p) ==
  LET count == p.into.column_count
      after[i \in 0..count] ==
        IF i = 0
          THEN [into |-> [p.into EXCEPT !.no_metadata = FALSE,
                            !.column_metadata = [c \in 1..count |-> ColumnMetaData]],
                next |-> p.next]
          ELSE AddColumn(after[i - 1], i - 1,
                         parse_column(after[i - 1].next, p.into.global_table_spec))
  IN  after[count]

(* The optional parts of parse_metadata. *)
MorePages(p, flags) ==
  IF "HAS_MORE_PAGES" \in flags
    THEN LongString(Assign(p, "more_pages", TRUE), "page_state")
    ELSE Assign(p, "more_pages", FALSE)

GlobalTable(p, flags) ==
  IF "GLOBAL_TABLESPEC" \in flags
    THEN String(String(Assign(p, "global_table_spec", TRUE), "keyspace"), "table")
    ELSE Assign(p, "global_table_spec", FALSE)

ColumnSpecs(p, flags) ==
  IF "NO_METADATA" \in flags
    THEN Assign(p, "no_metadata", TRUE)
    ELSE parse_columns(p)

parse_metadata(p) ==
  LET flags == decode_int(buffer, p.next)
      counted == Int32([p EXCEPT !.next = flags.next], "column_count")
  IN  ColumnSpecs(GlobalTable(MorePages(counted, flags.value), flags.value), flags.value)

WithRows(p) == [p.into EXCEPT !.rows = p.next]

parse_rows(p) == WithRows(Int32(parse_metadata(p), "row_count"))

parse_set_keyspace(p) == String(p, "keyspace").into

parse_prepared(p) == parse_metadata(String(p, "prepared")).into

parse_schema_change(p) == String(String(String(p, "change"), "keyspace"), "table").into

(* consume *)
consume ==
  /\ sent # NoResult
  /\ result.kind = "none"
  /\ LET p == Int32([into |-> result, next |-> 0], "kind")
     IN  result' = CASE p.into.kind = "VOID" -> p.into
                     [] p.into.kind = "ROWS" -> parse_rows(p)
                     [] p.into.kind = "SET_KEYSPACE" -> parse_set_keyspace(p)
                     [] p.into.kind = "PREPARED" -> parse_prepared(p)
                     [] p.into.kind = "SCHEMA_CHANGE" -> parse_schema_change(p)
  /\ UNCHANGED <<sent, buffer, iterator>>

-----------------------------------------------------------------------------
(* An int32_t that is converted to a size_t. *)
AsSize(n) == IF n = Garbage THEN Garbage ELSE n % SizeValues

(* Mutant of NextCell: the position is moved behind the size of a cell     *)
(* only, not behind its bytes.                                             *)
NextCell_no_skip(before) ==
  LET size == decode_int(buffer, before.next)
  IN  [row |-> Append(before.row, [pos |-> size.next, size |-> AsSize(size.value)]),
       next |-> size.next]

(* The loop body of parse_row: a Column has a position and a size_t; the   *)
(* position is moved by the int32_t.                                       *)
NextCell(before) ==
  LET size == decode_int(buffer, before.next)
  IN  [row |-> Append(before.row, [pos |-> size.next, size |-> AsSize(size.value)]),
       next |-> Plus(size.next, size.value)]

(* ResultIterator::parse_row: the cells of a row, and the position behind. *)
(* A null is not treated apart: its size, -1, moves the position back.     *)
parse_row(pos) ==
  LET after[i \in 0..result.column_count] ==
        IF i = 0 THEN [row |-> << >>, next |-> pos] ELSE NextCell(after[i - 1])
  IN  after[result.column_count]

(* The constructor parses a first row, whether there is one or not. *)
ResultIterator ==
  /\ result.kind = "ROWS"
  /\ iterator = NoIterator
  /\ LET first == parse_row(result.rows)
     IN  iterator' = [row_position |-> 0, position_next |-> first.next, row |-> first.row]
  /\ UNCHANGED <<sent, buffer, result>>

(* Mutant of next_row: the cursor runs one row too far. *)
next_row_too_far ==
  /\ iterator # NoIterator
  /\ iterator.row_position <= MaxRows
  /\ iterator' =
       IF iterator.row_position + 1 > result.row_count
         THEN [iterator EXCEPT !.row_position = @ + 1]
         ELSE LET row == parse_row(iterator.position_next)
              IN  [row_position |-> iterator.row_position + 1,
                   position_next |-> row.next, row |-> row.row]
  /\ UNCHANGED <<sent, buffer, result>>

(* ResultIterator::next, called at most MaxRows + 1 times. *)
next_row ==
  /\ iterator # NoIterator
  /\ iterator.row_position <= MaxRows
  /\ iterator' =
       IF iterator.row_position + 1 >= result.row_count
         THEN [iterator EXCEPT !.row_position = @ + 1]
         ELSE LET row == parse_row(iterator.position_next)
              IN  [row_position |-> iterator.row_position + 1,
                   position_next |-> row.next, row |-> row.row]
  /\ UNCHANGED <<sent, buffer, result>>

-----------------------------------------------------------------------------
Parsed == result.kind # "none"
HasMetadata == sent.kind \in {"ROWS", "PREPARED"}

ClassOf(type) == IF type = CQL_COLUMN_TYPE_CUSTOM THEN ClassName ELSE EmptyText

(* What the server said of column i. *)
Described(i) ==
  LET type == sent.columns[i].type
      global == "GLOBAL_TABLESPEC" \in sent.flags
      primary == IF type.type \in Collections THEN type.primary ELSE CQL_COLUMN_TYPE_UNKNOWN
      secondary == IF type.type = CQL_COLUMN_TYPE_MAP THEN type.secondary
                                                      ELSE CQL_COLUMN_TYPE_UNKNOWN
  IN  [keyspace |-> IF global THEN EmptyText ELSE Keyspace,
       table |-> IF global THEN EmptyText ELSE Table,
       name |-> sent.columns[i].name,
       type |-> type.type, class_name |-> ClassOf(type.type),
       collection_primary_type |-> primary, collection_primary_class |-> ClassOf(primary),
       collection_secondary_type |-> secondary,
       collection_secondary_class |-> ClassOf(secondary)]

(* A result is taken for what it is, and whatever optional parts it has,   *)
(* each parser finds the next one: the flags are those the server set,     *)
(* every column is described as the server described it, column_index      *)
(* leads from a name to the first column of that name (an offset from the  *)
(* column_count empty entries that column_metadata begins with), and rows  *)
(* is where the rows begin.                                                *)
ParsedAsSent ==
  /\ Parsed => result.kind = sent.kind
  /\ result.kind = "SET_KEYSPACE" => result.keyspace = Keyspace
  /\ result.kind = "SCHEMA_CHANGE" =>
       result.change = Change /\ result.keyspace = Keyspace /\ result.table = Table
  /\ Parsed /\ HasMetadata =>
    /\ result.column_count = Len(sent.columns)
    /\ result.more_pages <=> "HAS_MORE_PAGES" \in sent.flags
    /\ result.no_metadata <=> "NO_METADATA" \in sent.flags
    /\ result.global_table_spec <=> "GLOBAL_TABLESPEC" \in sent.flags
    /\ result.more_pages => result.page_state = PageState
    /\ result.global_table_spec => result.keyspace = Keyspace /\ result.table = Table
    /\ sent.kind = "PREPARED" => result.prepared = PreparedId
    /\ ~result.no_metadata =>
         /\ \A i \in DOMAIN sent.columns :
              result.column_metadata[result.column_count + i] = Described(i)
         /\ \A name \in {sent.columns[i].name : i \in DOMAIN sent.columns} :
              {e.column + 1 : e \in {x \in result.column_index : x.name = name}}
                = {Min({i \in DOMAIN sent.columns : sent.columns[i].name = name})}
    /\ sent.kind = "ROWS" =>
         /\ result.row_count = Len(sent.rows)
         /\ result.rows = Size(HeadFields(sent))

(* The cells before cell c of row r, in the order of the buffer. *)
CellsBefore(r, c) ==
  {p \in (DOMAIN sent.rows) \X (DOMAIN sent.columns) :
     p[1] < r \/ (p[1] = r /\ p[2] < c)}

NoNullIn(cells) == \A p \in cells : sent.rows[p[1]][p[2]] >= 0

(* The buffer before row r, and before cell c of row r. *)
BeforeRow(r) == RowsFields(HeadFields(sent), sent.rows, r - 1)
BeforeCell(r, c) == RowFields(BeforeRow(r), sent.rows[r], c - 1)

(* The row a ResultIterator stands on: its row_position, or the last row   *)
(* once next has returned false, however often it is called again.         *)
Current == Min({iterator.row_position + 1, Len(sent.rows)})

(* The cursor yields the rows the server sent, one after the other, and    *)
(* stays on the last: every cell has its own bytes and size, up to and     *)
(* including the first null of the result, whose size is what -1 is as a   *)
(* size_t.  Behind a null the cursor is lost, and so it is in a result     *)
(* without rows.                                                           *)
RowsExact ==
  iterator # NoIterator /\ Len(sent.rows) > 0 =>
    \A c \in DOMAIN sent.columns :
      NoNullIn(CellsBefore(Current, c)) =>
        iterator.row[c] =
          [pos |-> Size(BeforeCell(Current, c)) + 4, size |-> AsSize(sent.rows[Current][c])]

(* The cursor never leaves the buffer as long as there is a row and no     *)
(* null: the row behind the current one begins inside, or at the end.      *)
CursorInBuffer ==
  iterator # NoIterator /\ Len(sent.rows) > 0 /\ NoNullIn(CellsBefore(Current + 1, 1)) =>
    /\ iterator.position_next = Size(BeforeRow(Current + 1))
    /\ iterator.position_next <= Size(buffer)
=============================================================================
