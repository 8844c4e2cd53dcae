------------------------------ MODULE MCExchange -----------------------------
(* Exchange on small instances.  Requests: empty and short texts with the  *)
(* sizes the tests of the repository use, and a paging state behind the    *)
(* range of a short.  Results: plain, custom and collection types, two     *)
(* columns that may share a name, cells that are null, empty or not.       *)
(* SUPPORTED: no, one or two strings for each of two options of three, one *)
(* of them unknown, in any order; and around the sign bit of a short: one  *)
(* string less than it, as many strings, with some that spell an option,   *)
(* and as many options.  SignBit is small enough for TLC's stack.          *)
EXTENDS Exchange

MCQueries == {EmptyText, Text("a", 16), Text("b", 27)}
MCParamValues == {EmptyText, Text("v", 12)}
MCPagingStates == {EmptyText, Text("p", 6), Text("long", ShortValues + 6)}

N1 == Text("n1", 2)
N2 == Text("n2", 3)
INT == 9

MCColumns ==
  {[name |-> N1, type |-> [type |-> CQL_COLUMN_TYPE_CUSTOM]],
   [name |-> N1, type |-> [type |-> CQL_COLUMN_TYPE_MAP, primary |-> INT,
                           secondary |-> CQL_COLUMN_TYPE_CUSTOM]],
   [name |-> N2, type |-> [type |-> CQL_COLUMN_TYPE_SET,
                           primary |-> CQL_COLUMN_TYPE_CUSTOM]],
   [name |-> N2, type |-> [type |-> INT]]}

MCCellSizes == {-1, 0, 2}

MCErrors == [code : {0, 8192}, message : MCQueries]

Lists == {<< >>, <<Text("x", 3)>>, <<Text("x", 3), Text("y", 6)>>}
Entries == [key : {COMPRESSION, CQL_VERSION, Text("OTHER", 5)}, value : Lists]

FewOptions ==
  {s \in UNION {[1..n -> Entries] : n \in 0..2} :
     \A i, j \in DOMAIN s : s[i].key = s[j].key => i = j}

Other(n) == [key |-> Text("OTHER", n), value |-> << >>]

LongLists ==
  {[i \in 1..n |-> Text("x", 3)] : n \in {SignBit - 1, SignBit}}
    \cup {[i \in 1..SignBit |-> IF i % 2 = 1 THEN CQL_VERSION ELSE Text("y", 1)]}

ManyStrings ==
  UNION {{<<[key |-> one, value |-> long], [key |-> two, value |-> <<Text("z", 2)>>]>>,
          <<[key |-> two, value |-> <<Text("z", 2)>>], [key |-> one, value |-> long]>>} :
           one \in {COMPRESSION, Text("OTHER", 5)}, two \in {CQL_VERSION},
           long \in LongLists}

(* COMPRESSION at last. *)
ManyOptions ==
  {[i \in 1..SignBit |-> IF i < SignBit THEN Other(i)
                          ELSE [key |-> COMPRESSION, value |-> <<Text("x", 3)>>]]}

MCSupported == FewOptions \cup ManyStrings \cup ManyOptions
=============================================================================
