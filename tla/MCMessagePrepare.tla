-------------------------- MODULE MCMessagePrepare --------------------------
(* MessagePrepare on small instances: empty and short texts with the sizes *)
(* the tests of the repository use, and a paging state behind the range of *)
(* a short.                                                                *)
EXTENDS MessagePrepare

MCQueries == {EmptyText, Text("a", 16), Text("b", 27)}
MCParamValues == {EmptyText, Text("v", 12)}
MCPagingStates == {EmptyText, Text("p", 6), Text("long", ShortValues + 6)}
=============================================================================
