---------------------------- MODULE StreamStorage ----------------------------
(***************************************************************************)
(* The stream id allocator of a connection (include/cql_stream_storage.hpp) *)
(*                                                                         *)
(* Stream ids are 1..Max.  available_streams_ is a stack kept in an array: *)
(* the entries at positions available_streams_index_ .. Max-1 are the free *)
(* ids, set_stream takes the entry at the index and get_stream puts the id *)
(* back just below it.                                                     *)
(*                                                                         *)
(* The code declares allocated_streams_ and storage_ with Max elements     *)
(* (positions 0..Max-1) and indexes them with ids 1..Max, so id Max        *)
(* addresses the memory just behind each array.  Here both functions have  *)
(* the domain 0..Max; position Max is that memory.  For allocated_streams_ *)
(* (127 one-byte flags in front of an array of pointers) it is a padding   *)
(* byte nothing else writes and the constructor leaves uninitialised.      *)
(***************************************************************************)
EXTENDS Integers, FiniteSets

CONSTANTS
  Max,          \* number of streams (template argument Max; 127 in the driver)
  StorageType,  \* what is stored per stream
  Garbage,      \* content of a storage_ element that was never written
  UintptrMax    \* largest uintptr_t, what 0 - 1 wraps to

ASSUME StreamStorageAssumption ==
  /\ Max \in Nat \ {0}
  /\ UintptrMax \in Nat
  /\ UintptrMax > Max
  /\ Garbage \notin StorageType

VARIABLES
  available_streams_index_,
  available_streams_,
  allocated_streams_,
  storage_

streamVars == <<available_streams_index_, available_streams_,
                allocated_streams_, storage_>>

IdType == 1..Max

-----------------------------------------------------------------------------
(* The constructor. *)
StreamInit ==
  /\ available_streams_index_ = 0
  /\ available_streams_ = [i \in 0..Max-1 |-> i + 1]
  /\ \E padding \in BOOLEAN :
       allocated_streams_ = [i \in 0..Max |-> i = Max /\ padding]
  /\ storage_ = [i \in 0..Max |-> Garbage]

-----------------------------------------------------------------------------
(* Mutant of set_stream: the index is not advanced. *)
set_stream_no_advance(input, output) ==
  /\ available_streams_index_ < Max
  /\ output = available_streams_[available_streams_index_]
  /\ storage_' = [storage_ EXCEPT ![output] = input]
  /\ allocated_streams_' = [allocated_streams_ EXCEPT ![output] = TRUE]
  /\ UNCHANGED <<available_streams_index_, available_streams_>>

(* set_stream(input, output) that finds a free stream and returns no error. *)
set_stream(input, output) ==
  /\ available_streams_index_ < Max
  /\ output = available_streams_[available_streams_index_]
  /\ available_streams_index_' = available_streams_index_ + 1
  /\ storage_' = [storage_ EXCEPT ![output] = input]
  /\ allocated_streams_' = [allocated_streams_ EXCEPT ![output] = TRUE]
  /\ UNCHANGED available_streams_

(* set_stream that returns CQL_ERROR_LIB_NO_STREAMS. *)
set_stream_error ==
  /\ available_streams_index_ >= Max
  /\ UNCHANGED streamVars

(* Value of --available_streams_index_, an unsigned decrement. *)
Decremented ==
  IF available_streams_index_ = 0 THEN UintptrMax
                                  ELSE available_streams_index_ - 1

(* Mutant of get_stream: the id is pushed without moving the index first. *)
get_stream_post_decrement(input, output) ==
  /\ allocated_streams_[input]
  /\ output = storage_[input]
  /\ available_streams_' =
       [available_streams_ EXCEPT ![available_streams_index_] = input]
  /\ available_streams_index_' = Decremented
  /\ allocated_streams_' = [allocated_streams_ EXCEPT ![input] = FALSE]
  /\ UNCHANGED storage_

(* Mutant of get_stream: the allocated flag is not checked. *)
get_stream_unchecked(input, output) ==
  /\ output = storage_[input]
  /\ available_streams_index_' = Decremented
  /\ available_streams_' = [available_streams_ EXCEPT ![Decremented] = input]
  /\ allocated_streams_' = [allocated_streams_ EXCEPT ![input] = FALSE]
  /\ UNCHANGED storage_

(* get_stream(input, output) with releaseStream = true on an allocated     *)
(* stream: the id goes back on the stack.  A write outside                 *)
(* available_streams_ (index wrapped) changes none of this state.          *)
get_stream(input, output) ==
  /\ allocated_streams_[input]
  /\ output = storage_[input]
  /\ available_streams_index_' = Decremented
  /\ available_streams_' = [available_streams_ EXCEPT ![Decremented] = input]
  /\ allocated_streams_' = [allocated_streams_ EXCEPT ![input] = FALSE]
  /\ UNCHANGED storage_

(* get_stream that returns "this stream has already been released"; the    *)
(* output parameter was already assigned.                                  *)
get_stream_error(input, output) ==
  /\ ~allocated_streams_[input]
  /\ output = storage_[input]
  /\ UNCHANGED streamVars

(* get_stream with releaseStream = false: a plain read. *)
get_stream_peek(input, output) ==
  /\ output = storage_[input]
  /\ UNCHANGED streamVars

available_streams == Max - available_streams_index_

-----------------------------------------------------------------------------
(* The caller.  It may store anything, and may ask for any stream, in use  *)
(* or not, except that it does not ask for id Max before that id was ever  *)
(* handed out: a reply carries the stream of some earlier request.         *)
Known(id) == id < Max \/ storage_[Max] # Garbage

StreamNext ==
  \/ \E input \in StorageType, output \in IdType : set_stream(input, output)
  \/ set_stream_error
  \/ \E input \in 0..Max, output \in StorageType \cup {Garbage} :
       /\ Known(input)
       /\ \/ get_stream(input, output)
          \/ get_stream_error(input, output)
          \/ get_stream_peek(input, output)

StreamSpec == StreamInit /\ [][StreamNext]_streamVars

-----------------------------------------------------------------------------
(* Types.  The index is at most Max: it never wraps below 0. *)
StreamTypeOK ==
  /\ available_streams_index_ \in 0..Max
  /\ available_streams_ \in [0..Max-1 -> IdType]
  /\ allocated_streams_ \in [0..Max -> BOOLEAN]
  /\ storage_ \in [0..Max -> StorageType \cup {Garbage}]

(* The ids a caller holds: flagged, and handed out at some time. *)
InUse == {id \in IdType : allocated_streams_[id] /\ storage_[id] # Garbage}

(* The ids on the stack. *)
FreePositions == available_streams_index_ .. Max-1
FreeIds == {available_streams_[i] : i \in FreePositions}

(* The stack holds every id that is not in use exactly once: no id is lost *)
(* for good and none can be handed out to two callers                      *)
(* (set_stream/get_stream, cql_stream_storage.hpp:48-51,62-64).            *)
FreeListExact ==
  /\ \A i, j \in FreePositions :
       available_streams_[i] = available_streams_[j] => i = j
  /\ FreeIds = IdType \ InUse

(* available_streams() is the number of streams a caller can still get     *)
(* (Pool compares connections by it, cql_stream_storage.hpp:79).           *)
AvailableExact == available_streams = Max - Cardinality(InUse)

(* What is stored for a stream in use stays there until the stream is      *)
(* released: set_stream never hands out an id somebody holds.              *)
NeverOverwritten ==
  [][\A id \in InUse : storage_'[id] = storage_[id]]_streamVars

(* A stream that is already on the stack is not pushed a second time: a    *)
(* second release is answered with an error (test/main.cpp:316-320,        *)
(* "get stream should fail").                                              *)
DoubleReleaseRejected ==
  [][available_streams_index_' < available_streams_index_
       => available_streams_'[available_streams_index_'] \notin FreeIds
    ]_streamVars
=============================================================================
