------------------------ MODULE ClientConnectionProofs ------------------------
(***************************************************************************)
(* Proofs about ClientConnection and the StreamStorage it keeps, for any   *)
(* number of streams, requests and superfluous replies.                    *)
(*                                                                         *)
(* The allocator first, for every Max and StorageType.  FreeListExact is   *)
(* not inductive as it stands: to know that a release leaves the stack     *)
(* exact one must know that the index does not wrap, which needs the       *)
(* number of streams in use, and that a flagged position is one that was   *)
(* handed out.  StreamInv adds both.                                       *)
(*                                                                         *)
(* Then the connection.  The argument has three threads.  Whatever the     *)
(* server does, a request is stored in at most one stream in use, and      *)
(* while it is it has not been notified (OwnersWaiting); a release takes   *)
(* it out, so it is notified once.  As long as the server answers no       *)
(* message twice, the streams in use are those of the messages in flight,  *)
(* lost or leaked, one each (Exact); so the request that a reply finds is  *)
(* the one it is for.  And then, until the connection is ready, at most    *)
(* one message is in flight, the one its state waits for (Startup), so the *)
(* end of the start-up is reported once.                                   *)
(***************************************************************************)
EXTENDS ClientConnection, FiniteSetTheorems, TLAPS

(* The index counts the streams in use. *)
IndexCounts == available_streams_index_ = Cardinality(InUse)

(* Inside the arrays a flag is set only for an id that was handed out, and *)
(* 0 is not an id.                                                         *)
FlagsHandedOut ==
  /\ \A id \in 0..Max-1 : allocated_streams_[id] => storage_[id] # Garbage
  /\ storage_[0] = Garbage

StreamInv ==
  /\ StreamTypeOK
  /\ FreeListExact
  /\ IndexCounts
  /\ FlagsHandedOut

-----------------------------------------------------------------------------
(* The streams in use are finitely many, at most Max. *)
LEMMA InUseFinite ==
  ASSUME StreamTypeOK
  PROVE  /\ IsFiniteSet(InUse)
         /\ Cardinality(InUse) \in Nat
<1>1. IsFiniteSet(IdType)
  BY FS_Interval, StreamStorageAssumption DEF IdType
<1>2. InUse \subseteq IdType
  BY DEF InUse
<1> QED
  BY <1>1, <1>2, FS_Subset, FS_CardinalityType

(* The constructor establishes the invariant. *)
LEMMA StreamInitInv == StreamInit => StreamInv
<1> SUFFICES ASSUME StreamInit PROVE StreamInv
  OBVIOUS
<1> USE StreamStorageAssumption
<1>1. StreamTypeOK
  BY DEF StreamInit, StreamTypeOK, IdType
<1>2. InUse = {}
  BY DEF StreamInit, InUse, IdType
<1>3. IndexCounts
  BY <1>2, FS_EmptySet DEF IndexCounts, StreamInit
<1>4. FreeListExact
  <2>1. \A i, j \in FreePositions :
          available_streams_[i] = available_streams_[j] => i = j
    BY DEF StreamInit, FreePositions
  <2>2. ASSUME NEW id \in IdType PROVE id \in FreeIds
    <3>1. id - 1 \in FreePositions /\ available_streams_[id - 1] = id
      BY DEF StreamInit, FreePositions, IdType
    <3> QED
      BY <3>1 DEF FreeIds
  <2>3. FreeIds \subseteq IdType
    BY DEF StreamInit, FreeIds, FreePositions, IdType
  <2> QED
    BY <1>2, <2>1, <2>2, <2>3 DEF FreeListExact
<1>5. FlagsHandedOut
  <2>1. PICK padding \in BOOLEAN :
          allocated_streams_ = [i \in 0..Max |-> i = Max /\ padding]
    BY DEF StreamInit
  <2>2. ASSUME NEW id \in 0..Max-1 PROVE ~allocated_streams_[id]
    <3>1. id \in 0..Max /\ id # Max
      OBVIOUS
    <3> QED
      BY <2>1, <3>1, Zenon
  <2>3. storage_[0] = Garbage
    BY DEF StreamInit
  <2> QED
    BY <2>2, <2>3 DEF FlagsHandedOut
<1> QED
  BY <1>1, <1>3, <1>4, <1>5 DEF StreamInv

-----------------------------------------------------------------------------
(* What set_stream does: the id it returns comes from the stack, nobody    *)
(* held it, and afterwards it is the one more stream in use.               *)
LEMMA SetStreamTakesFree ==
  ASSUME StreamInv, NEW input \in StorageType, NEW output \in IdType,
         set_stream(input, output)
  PROVE  /\ output \notin InUse
         /\ InUse' = InUse \cup {output}
<1> USE StreamStorageAssumption
<1>1. available_streams_index_ \in FreePositions
  BY DEF StreamInv, StreamTypeOK, set_stream, FreePositions
<1>2. output \in FreeIds
  BY <1>1 DEF set_stream, FreeIds
<1>3. output \notin InUse
  BY <1>2 DEF StreamInv, FreeListExact
<1>4. output \in 0..Max
  BY DEF IdType
<1>5. ASSUME NEW id \in IdType
      PROVE  (allocated_streams_[id] /\ storage_[id] # Garbage)'
               <=> (allocated_streams_[id] /\ storage_[id] # Garbage) \/ id = output
  <2>1. id \in 0..Max
    BY DEF IdType
  <2> QED
    BY <1>4, <2>1 DEF set_stream, StreamInv, StreamTypeOK
<1> QED
  BY <1>3, <1>5 DEF InUse

(* set_stream preserves the invariant. *)
LEMMA SetStreamInv ==
  ASSUME StreamInv, NEW input \in StorageType, NEW output \in IdType,
         set_stream(input, output)
  PROVE  StreamInv'
<1> USE StreamStorageAssumption
<1>0. output \notin InUse /\ InUse' = InUse \cup {output}
  BY SetStreamTakesFree
<1>1. StreamTypeOK'
  BY DEF StreamInv, StreamTypeOK, set_stream, IdType
<1>2. IndexCounts'
  <2>1. Cardinality(InUse') = Cardinality(InUse) + 1
    BY <1>0, InUseFinite, FS_AddElement DEF StreamInv
  <2> QED
    BY <2>1 DEF IndexCounts, StreamInv, set_stream
<1>3. FreeListExact'
  <2>1. FreePositions' = FreePositions \ {available_streams_index_}
    BY DEF FreePositions, set_stream, StreamInv, StreamTypeOK
  <2>2. available_streams_index_ \in FreePositions
    BY DEF StreamInv, StreamTypeOK, set_stream, FreePositions
  <2>3. FreeIds' = FreeIds \ {output}
    BY <2>1, <2>2 DEF FreeIds, set_stream, StreamInv, FreeListExact
  <2> QED
    BY <1>0, <2>1, <2>3 DEF FreeListExact, StreamInv, set_stream
<1>4. FlagsHandedOut'
  BY DEF FlagsHandedOut, StreamInv, StreamTypeOK, set_stream, IdType
<1> QED
  BY <1>1, <1>2, <1>3, <1>4 DEF StreamInv

-----------------------------------------------------------------------------
(* What get_stream does: the id released was in use and no longer is, and  *)
(* the index, which counts it, does not wrap.                              *)
LEMMA GetStreamReleases ==
  ASSUME StreamInv, NEW input \in 0..Max, NEW output,
         Known(input), get_stream(input, output)
  PROVE  /\ input \in InUse
         /\ InUse' = InUse \ {input}
         /\ available_streams_index_ > 0
         /\ Decremented = available_streams_index_ - 1
<1> USE StreamStorageAssumption
<1>1. allocated_streams_[input] /\ storage_[input] # Garbage
  BY DEF StreamInv, FlagsHandedOut, Known, get_stream
<1>2. input \in InUse
  BY <1>1 DEF InUse, IdType, StreamInv, FlagsHandedOut
<1>3. ASSUME NEW id \in IdType
      PROVE  (allocated_streams_[id] /\ storage_[id] # Garbage)'
               <=> (allocated_streams_[id] /\ storage_[id] # Garbage) /\ id # input
  <2>1. id \in 0..Max
    BY DEF IdType
  <2> QED
    BY <2>1 DEF get_stream, StreamInv, StreamTypeOK
<1>4. InUse' = InUse \ {input}
  BY <1>3 DEF InUse
<1>5. available_streams_index_ # 0
  BY <1>2, InUseFinite, FS_EmptySet DEF StreamInv, IndexCounts
<1> QED
  BY <1>2, <1>4, <1>5 DEF Decremented, StreamInv, StreamTypeOK

(* get_stream preserves the invariant. *)
LEMMA GetStreamInv ==
  ASSUME StreamInv, NEW input \in 0..Max, NEW output,
         Known(input), get_stream(input, output)
  PROVE  StreamInv'
<1> USE StreamStorageAssumption
<1>0. /\ input \in InUse
      /\ InUse' = InUse \ {input}
      /\ available_streams_index_ > 0
      /\ Decremented = available_streams_index_ - 1
  BY GetStreamReleases
<1>1. StreamTypeOK'
  BY <1>0 DEF StreamInv, StreamTypeOK, get_stream, InUse
<1>2. IndexCounts'
  <2>1. Cardinality(InUse') = Cardinality(InUse) - 1
    BY <1>0, InUseFinite, FS_RemoveElement DEF StreamInv
  <2> QED
    BY <1>0, <2>1 DEF IndexCounts, StreamInv, get_stream
<1>3. FreeListExact'
  <2> DEFINE top == available_streams_index_ - 1
  <2>1. FreePositions' = FreePositions \cup {top} /\ top \notin FreePositions
    BY <1>0 DEF FreePositions, get_stream, StreamInv, StreamTypeOK
  <2>2. /\ available_streams_'[top] = input
        /\ \A i \in FreePositions : available_streams_'[i] = available_streams_[i]
    BY <1>0 DEF FreePositions, get_stream, StreamInv, StreamTypeOK
  <2>3. input \notin FreeIds
    BY <1>0 DEF StreamInv, FreeListExact
  <2>4. FreeIds' = FreeIds \cup {input}
    BY <2>1, <2>2 DEF FreeIds
  <2>5. \A i \in FreePositions : available_streams_[i] # input
    BY <2>3 DEF FreeIds
  <2>6. input \in IdType
    BY <1>0 DEF InUse
  <2>7. FreeIds' = IdType \ InUse'
    BY <1>0, <2>4, <2>6 DEF StreamInv, FreeListExact
  <2>8. \A i, j \in FreePositions' :
          available_streams_'[i] = available_streams_'[j] => i = j
    BY <2>1, <2>2, <2>5 DEF StreamInv, FreeListExact
  <2> QED
    BY <2>7, <2>8 DEF FreeListExact
<1>4. FlagsHandedOut'
  BY DEF FlagsHandedOut, StreamInv, StreamTypeOK, get_stream
<1> QED
  BY <1>1, <1>2, <1>3, <1>4 DEF StreamInv

(* Calls that change nothing preserve the invariant. *)
LEMMA StreamStutterInv ==
  ASSUME StreamInv, UNCHANGED streamVars
  PROVE  StreamInv'
BY DEF StreamInv, StreamTypeOK, FreeListExact, IndexCounts, FlagsHandedOut,
       FreeIds, FreePositions, InUse, streamVars

(* Every step preserves the invariant. *)
LEMMA StreamNextInv == StreamInv /\ [StreamNext]_streamVars => StreamInv'
<1> SUFFICES ASSUME StreamInv, [StreamNext]_streamVars
             PROVE  StreamInv'
  OBVIOUS
<1>1. CASE \E input \in StorageType, output \in IdType : set_stream(input, output)
  BY <1>1, SetStreamInv
<1>2. CASE set_stream_error
  BY <1>2, StreamStutterInv DEF set_stream_error
<1>3. CASE \E input \in 0..Max, output \in StorageType \cup {Garbage} :
             /\ Known(input)
             /\ \/ get_stream(input, output)
                \/ get_stream_error(input, output)
                \/ get_stream_peek(input, output)
  <2>1. PICK input \in 0..Max, output \in StorageType \cup {Garbage} :
             /\ Known(input)
             /\ \/ get_stream(input, output)
                \/ get_stream_error(input, output)
                \/ get_stream_peek(input, output)
    BY <1>3
  <2>2. CASE get_stream(input, output)
    BY <2>1, <2>2, GetStreamInv
  <2>3. CASE get_stream_error(input, output) \/ get_stream_peek(input, output)
    BY <2>3, StreamStutterInv DEF get_stream_error, get_stream_peek
  <2> QED
    BY <2>1, <2>2, <2>3
<1>4. CASE UNCHANGED streamVars
  BY <1>4, StreamStutterInv
<1> QED
  BY <1>1, <1>2, <1>3, <1>4 DEF StreamNext

(* The strengthened invariant holds in every reachable state. *)
THEOREM StreamInvariant == StreamSpec => []StreamInv
<1>1. StreamInit => StreamInv
  BY StreamInitInv
<1>2. StreamInv /\ [StreamNext]_streamVars => StreamInv'
  BY StreamNextInv
<1> QED
  BY <1>1, <1>2, PTL DEF StreamSpec

-----------------------------------------------------------------------------
(* Type correctness; in particular available_streams_index_ never wraps    *)
(* below 0 however often callers release (cql_stream_storage.hpp:63).      *)
THEOREM StreamTypeCorrect == StreamSpec => []StreamTypeOK
<1>1. StreamInv => StreamTypeOK
  BY DEF StreamInv
<1> QED
  BY <1>1, StreamInvariant, PTL

(* The stack holds every id not in use exactly once: no id is lost and     *)
(* none is handed out twice (set_stream/get_stream).                       *)
THEOREM FreeListIsExact == StreamSpec => []FreeListExact
<1>1. StreamInv => FreeListExact
  BY DEF StreamInv
<1> QED
  BY <1>1, StreamInvariant, PTL

(* available_streams() is exactly the number of streams not in use. *)
THEOREM AvailableIsExact == StreamSpec => []AvailableExact
<1>1. StreamInv => AvailableExact
  BY DEF StreamInv, IndexCounts, AvailableExact, available_streams
<1> QED
  BY <1>1, StreamInvariant, PTL

(* A step of set_stream or get_stream never changes what is stored for a   *)
(* stream in use.                                                          *)
THEOREM StorageNeverOverwritten == StreamSpec => NeverOverwritten
<1>1. ASSUME StreamInv, [StreamNext]_streamVars
      PROVE  [\A id \in InUse : storage_'[id] = storage_[id]]_streamVars
  <2>1. CASE \E input \in StorageType, output \in IdType : set_stream(input, output)
    <3>1. PICK input \in StorageType, output \in IdType : set_stream(input, output)
      BY <2>1
    <3>2. output \notin InUse
      BY <1>1, <3>1, SetStreamTakesFree
    <3>3. ASSUME NEW id \in InUse PROVE storage_'[id] = storage_[id]
      BY <1>1, <3>1, <3>2 DEF set_stream, StreamInv, StreamTypeOK, InUse, IdType
    <3> QED
      BY <3>3
  <2>2. CASE UNCHANGED storage_
    BY <2>2
  <2> QED
    BY <1>1, <2>1, <2>2 DEF StreamNext, set_stream_error, get_stream,
       get_stream_error, get_stream_peek, streamVars
<1> QED
  BY <1>1, StreamInvariant, PTL DEF StreamSpec, NeverOverwritten

(* A release never pushes an id that is already on the stack: get_stream   *)
(* refuses the second release of a stream.                                 *)
THEOREM DoubleReleaseIsRejected == StreamSpec => DoubleReleaseRejected
<1> DEFINE Pushed == available_streams_index_' < available_streams_index_
             => available_streams_'[available_streams_index_'] \notin FreeIds
<1>1. ASSUME StreamInv, [StreamNext]_streamVars
      PROVE  [Pushed]_streamVars
  <2>1. CASE \E input \in StorageType, output \in IdType : set_stream(input, output)
    BY <1>1, <2>1 DEF set_stream, StreamInv, StreamTypeOK
  <2>2. CASE \E input \in 0..Max, output \in StorageType \cup {Garbage} :
               Known(input) /\ get_stream(input, output)
    <3>1. PICK input \in 0..Max, output \in StorageType \cup {Garbage} :
               Known(input) /\ get_stream(input, output)
      BY <2>2
    <3>2. /\ input \in InUse
          /\ available_streams_index_ > 0
          /\ Decremented = available_streams_index_ - 1
      BY <1>1, <3>1, GetStreamReleases
    <3>3. available_streams_'[available_streams_index_'] = input
      BY <1>1, <3>1, <3>2, StreamStorageAssumption
         DEF get_stream, StreamInv, StreamTypeOK
    <3> QED
      BY <1>1, <3>2, <3>3 DEF StreamInv, FreeListExact
  <2>3. CASE UNCHANGED streamVars
    BY <2>3
  <2> QED
    BY <1>1, <2>1, <2>2, <2>3 DEF StreamNext, set_stream_error,
       get_stream_error, get_stream_peek
<1> QED
  BY <1>1, StreamInvariant, PTL DEF StreamSpec, DoubleReleaseRejected

-----------------------------------------------------------------------------
(* The connection. *)
Dead == lost \cup leaked

(* The streams U in use, with contents S, are those of the messages F and  *)
(* D, which have nothing in common.                                        *)
Exact(F, D, U, S) ==
  /\ F \cap D = {}
  /\ U = {m.stream : m \in F \cup D}
  /\ \A m, n \in F \cup D : m.stream = n.stream => m = n
  /\ \A m \in F \cup D : S[m.stream] = m.request

(* A message is queued once, and not while it is with the server. *)
QueuedOnce ==
  /\ \A i, j \in DOMAIN writes : writes[i] = writes[j] => i = j
  /\ wire \cap Range(writes) = {}

Accounted == ServerConforms => QueuedOnce /\ Exact(InFlight, Dead, InUse, storage_)

(* Every message that may be answered has a stream that was handed out. *)
HandedOut ==
  \A m \in InFlight \cup answered : storage_[m.stream] # Garbage

(* A request that was not told anything. *)
Untold(r) ==
  requests[r].notified = 0 /\ requests[r].error = FALSE /\ requests[r].result = NULL

(* A request in a stream in use was sent, is there only once, and still    *)
(* waits.                                                                  *)
OwnersWaiting ==
  /\ \A r \in Requests : ~requests[r].sent => Untold(r)
  /\ \A r \in Requests, id \in InUse :
       storage_[id] = r => requests[r].sent /\ Untold(r)
  /\ \A id, jd \in InUse :
       storage_[id] \in Requests /\ storage_[id] = storage_[jd] => id = jd

CoreInv ==
  StreamInv /\ HandedOut /\ OwnersWaiting /\ NotifiedOnce /\ Accounted /\ OwnResult

ConnInv == ConnTypeOK /\ CoreInv

-----------------------------------------------------------------------------
(* Moving messages between F and D. *)
LEMMA ExactKeep ==
  ASSUME NEW F, NEW D, NEW U, NEW S, Exact(F, D, U, S),
         NEW F1, NEW D1, F1 \cup D1 = F \cup D, F1 \cap D1 = {}
  PROVE  Exact(F1, D1, U, S)
BY DEF Exact

(* A new message on a stream that was not in use. *)
LEMMA ExactNew ==
  ASSUME NEW F, NEW D, NEW U, NEW S, Exact(F, D, U, S),
         NEW F1, NEW D1, NEW U1, NEW S1, NEW n,
         n.stream \notin U,
         F1 \cup D1 = (F \cup D) \cup {n},
         F1 \cap D1 = {},
         U1 = U \cup {n.stream},
         S1[n.stream] = n.request,
         \A id \in U : S1[id] = S[id]
  PROVE  Exact(F1, D1, U1, S1)
<1>1. \A m \in F \cup D : m.stream \in U
  BY DEF Exact
<1>2. U1 = {m.stream : m \in F1 \cup D1}
  BY DEF Exact
<1>3. \A m, k \in F1 \cup D1 : m.stream = k.stream => m = k
  BY <1>1 DEF Exact
<1>4. \A m \in F1 \cup D1 : S1[m.stream] = m.request
  BY <1>1 DEF Exact
<1> QED
  BY <1>2, <1>3, <1>4 DEF Exact

(* The message of a stream that is released goes. *)
LEMMA ExactRelease ==
  ASSUME NEW F, NEW D, NEW U, NEW S, Exact(F, D, U, S), NEW m \in F
  PROVE  Exact(F \ {m}, D, U \ {m.stream}, S)
BY DEF Exact

-----------------------------------------------------------------------------
(* Sequences: the elements of writes when one is appended or removed. *)
LEMMA AppendRange ==
  ASSUME NEW T, NEW s \in Seq(T), NEW e \in T
  PROVE  /\ Range(Append(s, e)) = Range(s) \cup {e}
         /\ (/\ \A i, j \in DOMAIN s : s[i] = s[j] => i = j
             /\ e \notin Range(s))
            => \A i, j \in DOMAIN Append(s, e) :
                 Append(s, e)[i] = Append(s, e)[j] => i = j
<1> DEFINE a == Append(s, e)
<1>1. /\ DOMAIN s = 1..Len(s)
      /\ DOMAIN a = 1..(Len(s) + 1)
      /\ Len(s) \in Nat
      /\ a[Len(s) + 1] = e
      /\ \A i \in 1..Len(s) : a[i] = s[i]
  OBVIOUS
<1> HIDE DEF a
<1>2. Range(a) = Range(s) \cup {e}
  <2>1. ASSUME NEW x \in Range(a) PROVE x \in Range(s) \cup {e}
    BY <1>1, <2>1 DEF Range
  <2>2. ASSUME NEW x \in Range(s) PROVE x \in Range(a)
    <3>1. PICK i \in 1..Len(s) : x = s[i]
      BY <1>1, <2>2 DEF Range
    <3> QED
      BY <1>1, <3>1 DEF Range
  <2>3. e \in Range(a)
    BY <1>1 DEF Range
  <2> QED
    BY <2>1, <2>2, <2>3
<1>3. ASSUME \A i, j \in DOMAIN s : s[i] = s[j] => i = j,
             e \notin Range(s)
      PROVE  \A i, j \in DOMAIN a : a[i] = a[j] => i = j
  <2>1. \A i \in 1..Len(s) : s[i] # e
    BY <1>1, <1>3 DEF Range
  <2> QED
    BY <1>1, <1>3, <2>1
<1> QED
  BY <1>2, <1>3 DEF a

LEMMA TailRange ==
  ASSUME NEW T, NEW s \in Seq(T), s # << >>
  PROVE  /\ Head(s) \in T
         /\ Tail(s) \in Seq(T)
         /\ Range(s) = {Head(s)} \cup Range(Tail(s))
         /\ (\A i, j \in DOMAIN s : s[i] = s[j] => i = j)
            => /\ Head(s) \notin Range(Tail(s))
               /\ \A i, j \in DOMAIN Tail(s) : Tail(s)[i] = Tail(s)[j] => i = j
<1> DEFINE t == Tail(s)
<1>1. /\ DOMAIN s = 1..Len(s)
      /\ Len(s) \in Nat \ {0}
      /\ DOMAIN t = 1..(Len(s) - 1)
      /\ Head(s) = s[1]
      /\ \A i \in 1..(Len(s) - 1) : t[i] = s[i + 1]
      /\ t \in Seq(T)
      /\ s[1] \in T
  OBVIOUS
<1> HIDE DEF t
<1>2. Range(s) = {Head(s)} \cup Range(t)
  <2>1. ASSUME NEW x \in Range(s) PROVE x \in {Head(s)} \cup Range(t)
    <3>1. PICK i \in 1..Len(s) : x = s[i]
      BY <1>1, <2>1 DEF Range
    <3>2. CASE i = 1
      BY <1>1, <3>1, <3>2
    <3>3. CASE i # 1
      <4>1. i - 1 \in DOMAIN t /\ t[i - 1] = x
        BY <1>1, <3>1, <3>3
      <4> QED
        BY <4>1 DEF Range
    <3> QED
      BY <3>2, <3>3
  <2>2. ASSUME NEW x \in Range(t) PROVE x \in Range(s)
    <3>1. PICK i \in 1..(Len(s) - 1) : x = s[i + 1]
      BY <1>1, <2>2 DEF Range
    <3>2. i + 1 \in DOMAIN s
      BY <1>1, <3>1
    <3> QED
      BY <3>1, <3>2 DEF Range
  <2>3. Head(s) \in Range(s)
    BY <1>1 DEF Range
  <2> QED
    BY <2>1, <2>2, <2>3
<1>3. ASSUME \A i, j \in DOMAIN s : s[i] = s[j] => i = j
      PROVE  /\ Head(s) \notin Range(t)
             /\ \A i, j \in DOMAIN t : t[i] = t[j] => i = j
  <2>1. \A i \in 1..(Len(s) - 1) : i + 1 \in DOMAIN s /\ 1 \in DOMAIN s
    BY <1>1
  <2>2. ASSUME NEW i \in DOMAIN t PROVE Head(s) # t[i]
    BY <1>1, <1>3, <2>1
  <2>3. ASSUME NEW i \in DOMAIN t, NEW j \in DOMAIN t, t[i] = t[j] PROVE i = j
    <3>1. i \in 1..(Len(s) - 1) /\ j \in 1..(Len(s) - 1)
      BY <1>1
    <3>2. s[i + 1] = s[j + 1] /\ i + 1 \in DOMAIN s /\ j + 1 \in DOMAIN s
      BY <1>1, <2>1, <2>3, <3>1
    <3>3. i + 1 = j + 1
      BY <1>3, <3>2, Zenon
    <3> QED
      BY <1>1, <3>1, <3>3
  <2> QED
    BY <2>2, <2>3 DEF Range
<1> QED
  BY <1>1, <1>2, <1>3 DEF t

-----------------------------------------------------------------------------
(* What the properties above depend on. *)
coreVars == <<streamVars, writes, wire, answered, requests, lost, leaked, duplicates>>

(* The effect of a send_message that finds a stream. *)
Sent(n) ==
  /\ n.stream \notin InUse
  /\ InUse' = InUse \cup {n.stream}
  /\ storage_' = [storage_ EXCEPT ![n.stream] = n.request]
  /\ StreamInv'
  /\ \/ writes' = Append(writes, n) /\ UNCHANGED lost
     \/ lost' = lost \cup {n} /\ UNCHANGED writes

(* A stream id is a position of storage_. *)
LEMMA StreamIsPosition ==
  ASSUME NEW id \in IdType
  PROVE  id \in 0..Max
BY StreamStorageAssumption DEF IdType

(* send_message has this effect for a message with the given request. *)
LEMMA SendEffect ==
  ASSUME ConnTypeOK, StreamInv, NEW op \in DOMAIN Replies,
         NEW request \in StorageType, send_message(op, request)
  PROVE  /\ \E n \in MessageType : n.op = op /\ n.request = request /\ Sent(n)
         /\ connect_callback_' \in {"null", "set", "clobbered"}
<1>1. PICK stream \in IdType :
        /\ set_stream(request, stream)
        /\ StoredBehindEnd(stream)
        /\ send_data([op |-> op, stream |-> stream, request |-> request])
  BY DEF send_message
<1> DEFINE n == [op |-> op, stream |-> stream, request |-> request]
<1>2. n \in MessageType
  BY DEF MessageType
<1>3. n.stream \notin InUse /\ InUse' = InUse \cup {n.stream}
  BY <1>1, SetStreamTakesFree
<1>4. StreamInv'
  BY <1>1, SetStreamInv
<1>5. storage_' = [storage_ EXCEPT ![n.stream] = n.request]
  BY <1>1 DEF set_stream
<1>6. \/ writes' = Append(writes, n) /\ UNCHANGED lost
      \/ lost' = lost \cup {n} /\ UNCHANGED writes
  BY <1>1 DEF send_data
<1>7. Sent(n)
  BY <1>3, <1>4, <1>5, <1>6 DEF Sent
<1>8. connect_callback_' \in {"null", "set", "clobbered"}
  BY <1>1 DEF StoredBehindEnd, ConnTypeOK
<1> QED
  BY <1>2, <1>7, <1>8

(* What is sent keeps the types, and no position of storage_ loses what it *)
(* holds unless it is the new one.                                         *)
LEMMA SentTypes ==
  ASSUME ConnTypeOK, NEW n \in MessageType, Sent(n)
  PROVE  /\ StreamTypeOK'
         /\ writes' \in Seq(MessageType)
         /\ lost' \subseteq MessageType
         /\ storage_'[n.stream] = n.request
         /\ \A id \in IdType \ {n.stream} : storage_'[id] = storage_[id]
         /\ n.request # Garbage
<1>1. n.stream \in IdType /\ n.request \in StorageType
  BY DEF MessageType
<1>2. \A id \in IdType : id \in 0..Max
  BY StreamIsPosition
<1>3. storage_ \in [0..Max -> StorageType \cup {Garbage}]
  BY DEF ConnTypeOK, StreamTypeOK
<1>4. /\ storage_'[n.stream] = n.request
      /\ \A id \in IdType \ {n.stream} : storage_'[id] = storage_[id]
  BY <1>1, <1>2, <1>3 DEF Sent
<1>5. writes' \in Seq(MessageType) /\ lost' \subseteq MessageType
  <2>1. writes \in Seq(MessageType) /\ lost \subseteq MessageType
    BY DEF ConnTypeOK
  <2>2. Append(writes, n) \in Seq(MessageType)
    BY <2>1
  <2> QED
    BY <2>1, <2>2 DEF Sent
<1>6. StreamTypeOK'
  BY DEF Sent, StreamInv
<1> QED
  BY <1>1, <1>4, <1>5, <1>6, StreamStorageAssumption

(* The messages queued when a message is sent. *)
LEMMA SentQueue ==
  ASSUME ConnTypeOK, NEW n \in MessageType, Sent(n)
  PROVE  \/ Range(writes') = Range(writes) \cup {n} /\ lost' = lost
         \/ Range(writes') = Range(writes) /\ lost' = lost \cup {n}
<1>1. CASE writes' = Append(writes, n) /\ UNCHANGED lost
  <2>1. writes \in Seq(MessageType)
    BY DEF ConnTypeOK
  <2>2. Range(Append(writes, n)) = Range(writes) \cup {n}
    BY <2>1, AppendRange
  <2> QED
    BY <1>1, <2>2, Zenon
<1>2. CASE lost' = lost \cup {n} /\ UNCHANGED writes
  BY <1>2, Zenon
<1> QED
  BY <1>1, <1>2 DEF Sent

-----------------------------------------------------------------------------
(* Every stream a message may be answered on is Known to the allocator. *)
LEMMA MessageKnown ==
  ASSUME ConnTypeOK, HandedOut, NEW m \in wire \cup answered
  PROVE  /\ m \in MessageType
         /\ m.stream \in IdType
         /\ m.stream \in 0..Max
         /\ storage_[m.stream] # Garbage
         /\ Known(m.stream)
<1>1. m \in MessageType
  BY DEF ConnTypeOK
<1>2. m.stream \in IdType
  BY <1>1 DEF MessageType
<1>3. m.stream \in 0..Max
  BY <1>2, StreamIsPosition
<1>4. storage_[m.stream] # Garbage
  BY DEF HandedOut, InFlight
<1>5. m.stream < Max \/ m.stream = Max
  BY <1>3, StreamStorageAssumption
<1> QED
  BY <1>1, <1>2, <1>3, <1>4, <1>5, Zenon DEF Known

(* Messages are of the type of messages. *)
LEMMA MessageTyped ==
  ASSUME ConnTypeOK
  PROVE  InFlight \cup answered \cup Dead \subseteq MessageType
<1>1. writes \in Seq(MessageType)
  BY DEF ConnTypeOK
<1>2. Range(writes) \subseteq MessageType
  BY <1>1 DEF Range
<1> QED
  BY <1>2 DEF ConnTypeOK, InFlight, Dead

(* HandedOut is kept by sending a message ... *)
LEMMA HandedOutSend ==
  ASSUME ConnTypeOK, HandedOut, NEW n \in MessageType, Sent(n),
         wire' \subseteq wire, answered' \subseteq answered \cup wire
  PROVE  HandedOut'
<1>1. /\ storage_'[n.stream] = n.request
      /\ \A id \in IdType \ {n.stream} : storage_'[id] = storage_[id]
      /\ n.request # Garbage
  BY SentTypes
<1>2. ASSUME NEW m \in (InFlight \cup answered)' PROVE storage_'[m.stream] # Garbage
  <2>1. m = n \/ m \in InFlight \cup answered
    BY <1>2, SentQueue DEF InFlight
  <2>2. CASE m = n
    BY <1>1, <2>2
  <2>3. CASE m \in InFlight \cup answered
    <3>1. storage_[m.stream] # Garbage
      BY <2>3 DEF HandedOut
    <3>2. m \in MessageType
      BY <2>3, MessageTyped
    <3>3. m.stream \in IdType
      BY <3>2 DEF MessageType
    <3> QED
      BY <1>1, <3>1, <3>3
  <2> QED
    BY <2>1, <2>2, <2>3
<1> QED
  BY <1>2 DEF HandedOut

(* ... and by steps that neither store nor send anything. *)
LEMMA HandedOutKeep ==
  ASSUME HandedOut, UNCHANGED storage_,
         (InFlight \cup answered)' \subseteq InFlight \cup answered
  PROVE  HandedOut'
BY DEF HandedOut

-----------------------------------------------------------------------------
(* The requests: a new message of the connection itself. *)
LEMMA OwnersSendInternal ==
  ASSUME ConnTypeOK, OwnersWaiting, NEW n \in MessageType, Sent(n),
         n.request = NULL, UNCHANGED requests
  PROVE  OwnersWaiting'
<1>1. /\ storage_'[n.stream] = NULL
      /\ \A id \in IdType \ {n.stream} : storage_'[id] = storage_[id]
  BY SentTypes
<1>2. NULL \notin Requests
  BY ConnectionAssumption
<1>3. InUse \subseteq IdType
  BY DEF InUse
<1>4. ASSUME NEW id \in InUse', storage_'[id] \in Requests
      PROVE  id \in InUse /\ storage_'[id] = storage_[id]
  BY <1>1, <1>2, <1>3, <1>4 DEF Sent
<1>5. \A r \in Requests : Untold(r)' <=> Untold(r)
  BY DEF Untold
<1> QED
  BY <1>4, <1>5 DEF OwnersWaiting

(* A new message of a request that was not sent before. *)
LEMMA OwnersSendRequest ==
  ASSUME ConnTypeOK, OwnersWaiting, NEW n \in MessageType, Sent(n),
         NEW r \in Requests, n.request = r, ~requests[r].sent,
         requests' = [requests EXCEPT ![r].sent = TRUE]
  PROVE  OwnersWaiting'
<1>1. /\ storage_'[n.stream] = r
      /\ \A id \in IdType \ {n.stream} : storage_'[id] = storage_[id]
  BY SentTypes
<1>2. InUse \subseteq IdType
  BY DEF InUse
<1>3. \A id \in InUse : storage_[id] # r
  BY DEF OwnersWaiting
<1>4. ASSUME NEW id \in InUse'
      PROVE  \/ id = n.stream /\ storage_'[id] = r
             \/ id \in InUse /\ storage_'[id] = storage_[id] /\ storage_'[id] # r
  BY <1>1, <1>2, <1>3 DEF Sent
<1>5. requests \in [Requests -> RequestType]
  BY DEF ConnTypeOK
<1>6. \A q \in Requests : Untold(q)' <=> Untold(q)
  BY <1>5 DEF Untold, RequestType
<1>7. /\ requests'[r].sent
      /\ \A q \in Requests \ {r} : requests'[q].sent = requests[q].sent
  BY <1>5 DEF RequestType
<1>8. Untold(r)
  BY DEF OwnersWaiting
<1>9. \A q \in Requests : ~requests'[q].sent => Untold(q)'
  BY <1>6, <1>7 DEF OwnersWaiting
<1>10. ASSUME NEW q \in Requests, NEW id \in InUse', storage_'[id] = q
       PROVE  requests'[q].sent /\ Untold(q)'
  <2>1. CASE q = r
    BY <1>6, <1>7, <1>8, <2>1
  <2>2. CASE q # r
    <3>1. id \in InUse /\ storage_[id] = q
      BY <1>4, <1>10, <2>2
    <3>2. requests[q].sent /\ Untold(q)
      BY <3>1 DEF OwnersWaiting
    <3> QED
      BY <1>6, <1>7, <2>2, <3>2
  <2> QED
    BY <2>1, <2>2
<1>11. ASSUME NEW id \in InUse', NEW jd \in InUse',
              storage_'[id] \in Requests, storage_'[id] = storage_'[jd]
       PROVE  id = jd
  BY <1>4, <1>11 DEF OwnersWaiting
<1> QED
  BY <1>9, <1>10, <1>11 DEF OwnersWaiting

(* A request that finds no stream is told so at once. *)
LEMMA OwnersSendError ==
  ASSUME ConnTypeOK, OwnersWaiting, NotifiedOnce, OwnResult, UNCHANGED streamVars,
         NEW r \in Requests, ~requests[r].sent, UNCHANGED duplicates,
         requests' = [requests EXCEPT ![r].sent = TRUE, ![r].error = TRUE,
                                      ![r].notified = @ + 1]
  PROVE  /\ OwnersWaiting'
         /\ NotifiedOnce'
         /\ OwnResult'
         /\ requests' \in [Requests -> RequestType]
<1>1. requests \in [Requests -> RequestType]
  BY DEF ConnTypeOK
<1>2. Untold(r)
  BY DEF OwnersWaiting
<1>3. /\ requests'[r].sent = TRUE
      /\ requests'[r].error = TRUE
      /\ requests'[r].result = NULL
  BY <1>1, <1>2 DEF Untold, RequestType
<1>4. requests'[r].notified = 1
  BY <1>1, <1>2 DEF Untold, RequestType
<1>5. \A q \in Requests \ {r} : requests'[q] = requests[q]
  BY <1>1
<1>6. requests' \in [Requests -> RequestType]
  BY <1>1 DEF RequestType
<1>7. \A id \in InUse : storage_[id] # r
  BY DEF OwnersWaiting
<1>8. InUse' = InUse /\ storage_' = storage_
  BY DEF streamVars, InUse
<1>9. OwnersWaiting'
  <2>1. \A q \in Requests \ {r} : Untold(q)' <=> Untold(q)
    BY <1>5 DEF Untold
  <2> QED
    BY <1>3, <1>5, <1>7, <1>8, <2>1 DEF OwnersWaiting
<1>10. NotifiedOnce'
  <2>1. requests'[r].notified <= 1
    BY <1>4
  <2> QED
    BY <1>5, <2>1, Zenon DEF NotifiedOnce
<1>11. OwnResult'
  <2>1. ServerConforms' <=> ServerConforms
    BY DEF ServerConforms
  <2>2. ASSUME ServerConforms', NEW q \in Requests, q # r
        PROVE  /\ requests'[q].result \in {NULL, q}
               /\ requests'[q].notified > 0
                    => (requests'[q].error <=> requests'[q].result = NULL)
    BY <1>5, <2>1, <2>2 DEF OwnResult
  <2>3. /\ requests'[r].result \in {NULL, r}
        /\ requests'[r].error <=> requests'[r].result = NULL
    BY <1>3, Zenon
  <2> QED
    BY <2>2, <2>3, Zenon DEF OwnResult
<1> QED
  BY <1>6, <1>9, <1>10, <1>11

(* The record of a request that is given a result. *)
LEMMA NotifiedType ==
  ASSUME NEW record \in RequestType, NEW value \in StorageType
  PROVE  [record EXCEPT !.result = value, !.notified = @ + 1] \in RequestType
<1> DEFINE given == [record EXCEPT !.result = value]
<1>1. given \in RequestType
  BY DEF RequestType
<1>2. [given EXCEPT !.notified = @ + 1] \in RequestType
  <2> HIDE DEF given
  <2> QED
    BY <1>1 DEF RequestType
<1> QED
  BY <1>2

(* The requests when a reply releases the stream of message m: the request *)
(* found there had not been told anything and is notified now; no other    *)
(* stream in use leads to it.                                              *)
LEMMA OwnersRelease ==
  ASSUME ConnTypeOK, StreamInv, OwnersWaiting, NotifiedOnce,
         NEW m \in MessageType, NEW request,
         Known(m.stream), get_stream(m.stream, request), deliver(request, m)
  PROVE  /\ OwnersWaiting'
         /\ NotifiedOnce'
         /\ requests' \in [Requests -> RequestType]
<1>1. m.stream \in 0..Max /\ m.request \in StorageType
  BY StreamIsPosition DEF MessageType
<1>2. m.stream \in InUse /\ InUse' = InUse \ {m.stream}
  BY <1>1, GetStreamReleases
<1>3. request = storage_[m.stream] /\ storage_' = storage_
  BY DEF get_stream
<1>4. request \in StorageType
  BY <1>1, <1>2, <1>3 DEF InUse, StreamInv, StreamTypeOK
<1>5. requests \in [Requests -> RequestType]
  BY DEF ConnTypeOK
<1>6. CASE request = NULL
  <2>1. requests' = requests
    BY <1>6 DEF deliver
  <2>2. \A q \in Requests : Untold(q)' <=> Untold(q)
    BY <2>1 DEF Untold
  <2> QED
    BY <1>2, <1>3, <1>5, <2>1, <2>2 DEF OwnersWaiting, NotifiedOnce
<1>7. CASE request # NULL
  <2>1. request \in Requests
    BY <1>4, <1>7, ConnectionAssumption
  <2>2. requests' = [requests EXCEPT ![request].result = m.request,
                                     ![request].notified = @ + 1]
    BY <1>7 DEF deliver
  <2>3. requests[request].sent /\ Untold(request)
    BY <1>2, <1>3, <2>1 DEF OwnersWaiting
  <2>4. \A q \in Requests \ {request} : requests'[q] = requests[q]
    BY <1>5, <2>2
  <2>5. requests'[request].sent /\ requests'[request].notified = 1
    BY <1>5, <2>1, <2>2, <2>3 DEF Untold, RequestType
  <2>6. requests' \in [Requests -> RequestType]
    <3>1. requests[request] \in RequestType
      BY <1>5, <2>1
    <3>2. requests'[request] =
            [requests[request] EXCEPT !.result = m.request, !.notified = @ + 1]
      BY <1>5, <2>1, <2>2
    <3>3. requests'[request] \in RequestType
      BY <1>1, <3>1, <3>2, NotifiedType, Zenon
    <3>4. DOMAIN requests' = Requests /\ requests' = [q \in Requests |-> requests'[q]]
      BY <1>5, <2>2
    <3> QED
      BY <1>5, <2>4, <3>3, <3>4
  <2>7. \A id \in InUse' : storage_'[id] # request
    BY <1>2, <1>3, <2>1 DEF OwnersWaiting
  <2>8. OwnersWaiting'
    <3>1. \A q \in Requests \ {request} : Untold(q)' <=> Untold(q)
      BY <2>4 DEF Untold
    <3> QED
      BY <1>2, <1>3, <2>4, <2>5, <2>7, <3>1 DEF OwnersWaiting
  <2>9. NotifiedOnce'
    BY <2>4, <2>5 DEF NotifiedOnce
  <2> QED
    BY <2>6, <2>8, <2>9
<1> QED
  BY <1>6, <1>7

(* The result is for the request it is given to, if the stream of m leads  *)
(* to the request of m.                                                    *)
LEMMA OwnResultRelease ==
  ASSUME ConnTypeOK, StreamInv, OwnersWaiting, OwnResult,
         NEW m \in MessageType, NEW request,
         Known(m.stream), get_stream(m.stream, request), deliver(request, m),
         ServerConforms' => ServerConforms /\ storage_[m.stream] = m.request
  PROVE  OwnResult'
<1> SUFFICES ASSUME ServerConforms'
             PROVE  \A r \in Requests :
                      /\ requests'[r].result \in {NULL, r}
                      /\ requests'[r].notified > 0
                           => (requests'[r].error <=> requests'[r].result = NULL)
  BY DEF OwnResult
<1>1. request = m.request
  BY DEF get_stream
<1>2. requests \in [Requests -> RequestType]
  BY DEF ConnTypeOK
<1>3. m.stream \in 0..Max /\ m.request \in StorageType
  BY StreamIsPosition DEF MessageType
<1>4. m.stream \in InUse /\ storage_[m.stream] = m.request
  BY <1>3, GetStreamReleases
<1>5. CASE request = NULL
  BY <1>5 DEF deliver, OwnResult
<1>6. CASE request # NULL
  <2>1. request \in Requests
    BY <1>1, <1>3, <1>6, ConnectionAssumption
  <2>2. requests' = [requests EXCEPT ![request].result = m.request,
                                     ![request].notified = @ + 1]
    BY <1>6 DEF deliver
  <2>3. Untold(request)
    BY <1>1, <1>4, <2>1 DEF OwnersWaiting
  <2>4. \A q \in Requests \ {request} : requests'[q] = requests[q]
    BY <1>2, <2>2
  <2>5. requests'[request].result = request /\ requests'[request].error = FALSE
    BY <1>1, <1>2, <2>1, <2>2, <2>3 DEF Untold, RequestType
  <2> QED
    BY <1>6, <2>4, <2>5 DEF OwnResult
<1> QED
  BY <1>5, <1>6

-----------------------------------------------------------------------------
(* The account of the streams.  Replies to the messages M arrive, which    *)
(* keep their streams, and a message n is sent.                            *)
LEMMA AccountSend ==
  ASSUME ConnTypeOK, QueuedOnce, Exact(InFlight, Dead, InUse, storage_),
         NEW n \in MessageType, Sent(n),
         NEW M \in SUBSET wire, wire' = wire \ M, leaked' = leaked \cup M
  PROVE  (QueuedOnce /\ Exact(InFlight, Dead, InUse, storage_))'
<1>1. n \notin InFlight \cup Dead
  BY DEF Sent, Exact
<1>2. M \cap Range(writes) = {} /\ n \notin M /\ n \notin Range(writes)
  BY <1>1 DEF QueuedOnce, InFlight
<1>3. QueuedOnce'
  <2>1. CASE writes' = Append(writes, n) /\ UNCHANGED lost
    <3>1. /\ Range(writes') = Range(writes) \cup {n}
          /\ \A i, j \in DOMAIN writes' : writes'[i] = writes'[j] => i = j
      <4>1. writes \in Seq(MessageType)
        BY DEF ConnTypeOK
      <4>2. \A i, j \in DOMAIN writes : writes[i] = writes[j] => i = j
        BY DEF QueuedOnce
      <4>3. /\ Range(Append(writes, n)) = Range(writes) \cup {n}
            /\ \A i, j \in DOMAIN Append(writes, n) :
                 Append(writes, n)[i] = Append(writes, n)[j] => i = j
        BY <1>2, <4>1, <4>2, AppendRange
      <4> QED
        BY <2>1, <4>3
    <3>2. wire' \cap Range(writes') = {}
      BY <1>1, <3>1 DEF QueuedOnce, InFlight
    <3> QED
      BY <3>1, <3>2 DEF QueuedOnce
  <2>2. CASE lost' = lost \cup {n} /\ UNCHANGED writes
    BY <2>2 DEF QueuedOnce, Range
  <2> QED
    BY <2>1, <2>2 DEF Sent
<1>4. /\ InFlight' \cup Dead' = (InFlight \cup Dead) \cup {n}
      /\ InFlight' \cap Dead' = {}
  <2>1. CASE Range(writes') = Range(writes) \cup {n} /\ lost' = lost
    BY <1>1, <1>2, <2>1 DEF InFlight, Dead, Exact
  <2>2. CASE Range(writes') = Range(writes) /\ lost' = lost \cup {n}
    BY <1>1, <1>2, <2>2 DEF InFlight, Dead, Exact
  <2> QED
    BY <2>1, <2>2, SentQueue
<1>5. /\ storage_'[n.stream] = n.request
      /\ \A id \in InUse : storage_'[id] = storage_[id]
  <2>1. InUse \subseteq IdType /\ n.stream \notin InUse
    BY DEF InUse, Sent
  <2> QED
    BY <2>1, SentTypes
<1>6. n.stream \notin InUse /\ InUse' = InUse \cup {n.stream}
  BY DEF Sent
<1>7. Exact(InFlight', Dead', InUse', storage_')
  BY <1>4, <1>5, <1>6, ExactNew
<1> QED
  BY <1>3, <1>7 DEF Exact

(* Replies to the messages M arrive, which keep their streams. *)
LEMMA AccountKeep ==
  ASSUME QueuedOnce, Exact(InFlight, Dead, InUse, storage_),
         UNCHANGED <<streamVars, writes, lost>>,
         NEW M \in SUBSET wire, wire' = wire \ M, leaked' = leaked \cup M
  PROVE  (QueuedOnce /\ Exact(InFlight, Dead, InUse, storage_))'
<1>1. M \cap Range(writes) = {} /\ Range(writes') = Range(writes)
  BY DEF QueuedOnce
<1>2. QueuedOnce'
  BY <1>1 DEF QueuedOnce
<1>3. /\ InFlight' \cup Dead' = InFlight \cup Dead
      /\ InFlight' \cap Dead' = {}
  BY <1>1 DEF InFlight, Dead, Exact
<1>4. InUse' = InUse /\ storage_' = storage_
  BY DEF InUse, streamVars
<1>5. Exact(InFlight', Dead', InUse', storage_')
  BY <1>3, <1>4, ExactKeep
<1> QED
  BY <1>2, <1>5 DEF Exact

(* A reply to m arrives that releases its stream. *)
LEMMA AccountRelease ==
  ASSUME QueuedOnce, Exact(InFlight, Dead, InUse, storage_),
         NEW m \in wire, wire' = wire \ {m},
         InUse' = InUse \ {m.stream}, UNCHANGED <<storage_, writes, lost, leaked>>
  PROVE  (QueuedOnce /\ Exact(InFlight, Dead, InUse, storage_))'
<1>1. m \notin Range(writes) /\ Range(writes') = Range(writes)
  BY DEF QueuedOnce
<1>2. QueuedOnce'
  BY <1>1 DEF QueuedOnce
<1>3. m \in InFlight /\ InFlight' = InFlight \ {m} /\ Dead' = Dead
  BY <1>1 DEF InFlight, Dead
<1>4. Exact(InFlight', Dead', InUse', storage_')
  BY <1>3, ExactRelease
<1> QED
  BY <1>2, <1>4 DEF Exact

(* The message at the head of the queue was written, or could not be. *)
LEMMA AccountWrite ==
  ASSUME ConnTypeOK, QueuedOnce, Exact(InFlight, Dead, InUse, storage_),
         UNCHANGED <<streamVars, leaked>>, writes # << >>, writes' = Tail(writes),
         \/ wire' = wire \cup {Head(writes)} /\ UNCHANGED lost
         \/ lost' = lost \cup {Head(writes)} /\ UNCHANGED wire
  PROVE  (QueuedOnce /\ Exact(InFlight, Dead, InUse, storage_))'
<1> DEFINE h == Head(writes)
<1>1. writes \in Seq(MessageType)
  BY DEF ConnTypeOK
<1>2. \A i, j \in DOMAIN writes : writes[i] = writes[j] => i = j
  BY DEF QueuedOnce
<1>3. /\ Range(writes) = {h} \cup Range(writes')
      /\ h \notin Range(writes')
      /\ \A i, j \in DOMAIN writes' : writes'[i] = writes'[j] => i = j
  BY <1>1, <1>2, TailRange, Zenon
<1> HIDE DEF h
<1>4. \/ wire' = wire \cup {h} /\ lost' = lost
      \/ lost' = lost \cup {h} /\ wire' = wire
  BY DEF h
<1>5. QueuedOnce'
  BY <1>3, <1>4 DEF QueuedOnce
<1>6. /\ InFlight' \cup Dead' = InFlight \cup Dead
      /\ InFlight' \cap Dead' = {}
  BY <1>3, <1>4 DEF InFlight, Dead, Exact, QueuedOnce
<1>7. InUse' = InUse /\ storage_' = storage_
  BY DEF InUse, streamVars
<1>8. Exact(InFlight', Dead', InUse', storage_')
  BY <1>6, <1>7, ExactKeep
<1> QED
  BY <1>5, <1>8 DEF Exact

-----------------------------------------------------------------------------
(* A step that changes none of what CoreInv speaks of. *)
LEMMA CoreStutter ==
  ASSUME CoreInv, UNCHANGED coreVars
  PROVE  CoreInv'
<1>1. /\ UNCHANGED streamVars
      /\ UNCHANGED <<writes, wire, answered, requests, lost, leaked, duplicates>>
      /\ UNCHANGED storage_
  BY DEF coreVars, streamVars
<1>2. StreamInv'
  BY <1>1, StreamStutterInv DEF CoreInv
<1>3. InUse' = InUse
  BY <1>1 DEF InUse, streamVars
<1>4. InFlight' = InFlight /\ Dead' = Dead /\ (QueuedOnce' <=> QueuedOnce)
  BY <1>1 DEF InFlight, Dead, QueuedOnce
<1>5. HandedOut'
  BY <1>1, <1>4 DEF CoreInv, HandedOut
<1>6. OwnersWaiting' /\ NotifiedOnce'
  BY <1>1, <1>3 DEF CoreInv, OwnersWaiting, Untold, NotifiedOnce
<1>7. Accounted'
  BY <1>1, <1>3, <1>4 DEF CoreInv, Accounted, ServerConforms, Exact
<1>8. OwnResult'
  BY <1>1 DEF CoreInv, OwnResult, ServerConforms
<1> QED
  BY <1>2, <1>5, <1>6, <1>7, <1>8 DEF CoreInv

(* send_internal with nothing else: set_keyspace and on_connect. *)
LEMMA CoreSendInternal ==
  ASSUME ConnTypeOK, CoreInv, NEW op \in DOMAIN Replies, send_internal(op),
         UNCHANGED <<wire, answered, requests, leaked, duplicates>>
  PROVE  CoreInv'
<1>1. CASE send_message_error
  BY <1>1, CoreStutter DEF send_message_error, set_stream_error, coreVars
<1>2. CASE send_message(op, NULL)
  <2>1. NULL \in StorageType
    BY ConnectionAssumption
  <2>2. PICK n \in MessageType : n.request = NULL /\ Sent(n)
    BY <1>2, <2>1, SendEffect DEF CoreInv
  <2>3. StreamInv'
    BY <2>2 DEF Sent
  <2>4. HandedOut'
    BY <2>2, HandedOutSend DEF CoreInv
  <2>5. OwnersWaiting'
    BY <2>2, OwnersSendInternal DEF CoreInv
  <2>6. NotifiedOnce' /\ OwnResult'
    BY DEF CoreInv, NotifiedOnce, OwnResult, ServerConforms
  <2>7. ASSUME ServerConforms'
        PROVE  (QueuedOnce /\ Exact(InFlight, Dead, InUse, storage_))'
    <3>1. QueuedOnce /\ Exact(InFlight, Dead, InUse, storage_)
      BY <2>7 DEF CoreInv, Accounted, ServerConforms
    <3>2. {} \in SUBSET wire /\ wire' = wire \ {} /\ leaked' = leaked \cup {}
      OBVIOUS
    <3> QED
      BY <2>2, <3>1, <3>2, AccountSend
  <2> QED
    BY <2>3, <2>4, <2>5, <2>6, <2>7 DEF CoreInv, Accounted
<1> QED
  BY <1>1, <1>2 DEF send_internal

(* exec and prepare. *)
LEMMA CoreExec ==
  ASSUME ConnTypeOK, CoreInv, NEW op \in {"QUERY", "PREPARE"},
         NEW r \in Requests, exec(op, r)
  PROVE  CoreInv' /\ requests' \in [Requests -> RequestType]
<1>1. /\ ~requests[r].sent
      /\ UNCHANGED <<wire, answered, leaked, duplicates>>
  BY DEF exec
<1>2. requests \in [Requests -> RequestType]
  BY DEF ConnTypeOK
<1>3. CASE /\ send_message(op, r)
           /\ requests' = [requests EXCEPT ![r].sent = TRUE]
  <2>1. r \in StorageType /\ op \in DOMAIN Replies
    BY ConnectionAssumption DEF Replies
  <2>2. PICK n \in MessageType : n.request = r /\ Sent(n)
    BY <1>3, <2>1, SendEffect DEF CoreInv
  <2>3. StreamInv'
    BY <2>2 DEF Sent
  <2>4. HandedOut'
    BY <1>1, <2>2, HandedOutSend DEF CoreInv
  <2>5. OwnersWaiting'
    BY <1>1, <1>3, <2>2, OwnersSendRequest DEF CoreInv
  <2>6. \A q \in Requests : /\ requests'[q].notified = requests[q].notified
                            /\ requests'[q].error = requests[q].error
                            /\ requests'[q].result = requests[q].result
    BY <1>2, <1>3 DEF RequestType
  <2>7. NotifiedOnce' /\ OwnResult'
    BY <1>1, <2>6 DEF CoreInv, NotifiedOnce, OwnResult, ServerConforms
  <2>8. ASSUME ServerConforms'
        PROVE  (QueuedOnce /\ Exact(InFlight, Dead, InUse, storage_))'
    <3>1. QueuedOnce /\ Exact(InFlight, Dead, InUse, storage_)
      BY <1>1, <2>8 DEF CoreInv, Accounted, ServerConforms
    <3>2. {} \in SUBSET wire /\ wire' = wire \ {} /\ leaked' = leaked \cup {}
      BY <1>1
    <3> QED
      BY <2>2, <3>1, <3>2, AccountSend
  <2>9. requests' \in [Requests -> RequestType]
    BY <1>2, <1>3 DEF RequestType
  <2> QED
    BY <2>3, <2>4, <2>5, <2>7, <2>8, <2>9 DEF CoreInv, Accounted
<1>4. CASE /\ send_message_error
           /\ requests' = [requests EXCEPT ![r].sent = TRUE, ![r].error = TRUE,
                                           ![r].notified = @ + 1]
  <2>1. UNCHANGED <<streamVars, writes, lost>>
    BY <1>4 DEF send_message_error, set_stream_error
  <2>2. /\ OwnersWaiting'
        /\ NotifiedOnce'
        /\ OwnResult'
        /\ requests' \in [Requests -> RequestType]
    BY <1>1, <1>4, <2>1, OwnersSendError DEF CoreInv
  <2>3. StreamInv'
    BY <2>1, StreamStutterInv DEF CoreInv
  <2>4. InFlight' = InFlight /\ UNCHANGED storage_
    BY <1>1, <2>1 DEF InFlight, streamVars
  <2>5. HandedOut'
    BY <1>1, <2>4, HandedOutKeep DEF CoreInv
  <2>6. Accounted'
    BY <1>1, <2>1, <2>4 DEF CoreInv, Accounted, ServerConforms, QueuedOnce, Exact,
       Dead, InUse, streamVars
  <2> QED
    BY <2>2, <2>3, <2>5, <2>6 DEF CoreInv
<1> QED
  BY <1>3, <1>4 DEF exec

(* on_write. *)
LEMMA CoreWrite ==
  ASSUME ConnTypeOK, CoreInv, NEW status, on_write(status)
  PROVE  CoreInv'
<1>1. /\ writes # << >>
      /\ writes' = Tail(writes)
      /\ UNCHANGED <<streamVars, answered, requests, leaked, duplicates>>
      /\ \/ wire' = wire \cup {Head(writes)} /\ UNCHANGED lost
         \/ lost' = lost \cup {Head(writes)} /\ UNCHANGED wire
  BY DEF on_write
<1>2. UNCHANGED storage_ /\ InUse' = InUse
  BY <1>1 DEF streamVars, InUse
<1>3. StreamInv'
  BY <1>1, StreamStutterInv DEF CoreInv
<1>4. HandedOut'
  <2>1. writes \in Seq(MessageType)
    BY DEF ConnTypeOK
  <2>2. Range(writes) = {Head(writes)} \cup Range(writes')
    BY <1>1, <2>1, TailRange
  <2>3. (InFlight \cup answered)' \subseteq InFlight \cup answered
    BY <1>1, <2>2 DEF InFlight
  <2> QED
    BY <1>2, <2>3, HandedOutKeep DEF CoreInv
<1>5. OwnersWaiting' /\ NotifiedOnce'
  BY <1>1, <1>2 DEF CoreInv, OwnersWaiting, Untold, NotifiedOnce
<1>6. OwnResult'
  BY <1>1 DEF CoreInv, OwnResult, ServerConforms
<1>7. Accounted'
  <2>1. ASSUME ServerConforms'
        PROVE  QueuedOnce /\ Exact(InFlight, Dead, InUse, storage_)
    BY <1>1, <2>1 DEF CoreInv, Accounted, ServerConforms
  <2> QED
    BY <1>1, <2>1, AccountWrite DEF Accounted
<1> QED
  BY <1>3, <1>4, <1>5, <1>6, <1>7 DEF CoreInv

-----------------------------------------------------------------------------
(* What the arrival of a reply does to the messages.  As long as no second *)
(* reply has come, it is to a message that waits for one.                  *)
LEMMA ReplyEffect ==
  ASSUME ConnTypeOK, NEW m \in wire \cup answered, NEW reply, Reply(m, reply)
  PROVE  /\ wire' \subseteq wire
         /\ answered' \subseteq answered \cup wire
         /\ duplicates' \in 0..MaxDuplicates
         /\ ServerConforms' => ServerConforms /\ m \in wire /\ wire' = wire \ {m}
<1>1. duplicates \in 0..MaxDuplicates /\ MaxDuplicates \in Nat
  BY ConnectionAssumption DEF ConnTypeOK
<1>2. CASE m \in wire /\ wire' = wire \ {m} /\ UNCHANGED duplicates
  <2>1. answered' \subseteq answered \cup wire
    BY <1>2 DEF Reply
  <2> QED
    BY <1>1, <1>2, <2>1 DEF ServerConforms
<1>3. CASE /\ duplicates < MaxDuplicates
           /\ duplicates' = duplicates + 1
           /\ UNCHANGED <<wire, answered>>
  <2>1. duplicates' \in 0..MaxDuplicates /\ duplicates' # 0
    BY <1>1, <1>3
  <2> QED
    BY <1>3, <2>1 DEF ServerConforms
<1> QED
  BY <1>2, <1>3 DEF Reply

(* A reply whose handler leaves the stream alone. *)
LEMMA CoreReplyKeep ==
  ASSUME ConnTypeOK, CoreInv, NEW m \in wire \cup answered, NEW reply,
         Reply(m, reply), KeepStream(m),
         UNCHANGED <<streamVars, writes, lost, requests>>
  PROVE  CoreInv'
<1>1. /\ wire' \subseteq wire
      /\ answered' \subseteq answered \cup wire
      /\ ServerConforms' => ServerConforms /\ m \in wire /\ wire' = wire \ {m}
  BY ReplyEffect
<1>2. UNCHANGED storage_ /\ InUse' = InUse
  BY DEF streamVars, InUse
<1>3. StreamInv'
  BY StreamStutterInv DEF CoreInv
<1>4. HandedOut'
  BY <1>1, <1>2, HandedOutKeep DEF CoreInv, InFlight
<1>5. OwnersWaiting' /\ NotifiedOnce'
  BY <1>2 DEF CoreInv, OwnersWaiting, Untold, NotifiedOnce
<1>6. OwnResult'
  BY <1>1 DEF CoreInv, OwnResult
<1>7. ASSUME ServerConforms'
      PROVE  (QueuedOnce /\ Exact(InFlight, Dead, InUse, storage_))'
  <2>1. QueuedOnce /\ Exact(InFlight, Dead, InUse, storage_)
    BY <1>1, <1>7 DEF CoreInv, Accounted
  <2>2. {m} \in SUBSET wire /\ wire' = wire \ {m} /\ leaked' = leaked \cup {m}
    BY <1>1, <1>7 DEF KeepStream
  <2> QED
    BY <2>1, <2>2, AccountKeep
<1> QED
  BY <1>3, <1>4, <1>5, <1>6, <1>7 DEF CoreInv, Accounted

(* on_supported: a reply that keeps its stream, and a message sent. *)
LEMMA CoreSupported ==
  ASSUME ConnTypeOK, CoreInv, NEW m \in wire \cup answered, on_supported(m)
  PROVE  CoreInv'
<1>1. /\ Reply(m, "SUPPORTED")
      /\ send_internal("STARTUP")
      /\ KeepStream(m)
      /\ UNCHANGED requests
  BY DEF on_supported
<1>2. CASE send_message_error
  <2>1. UNCHANGED <<streamVars, writes, lost, requests>>
    BY <1>1, <1>2 DEF send_message_error, set_stream_error
  <2> QED
    BY <1>1, <2>1, CoreReplyKeep
<1>3. CASE send_message("STARTUP", NULL)
  <2>1. NULL \in StorageType /\ "STARTUP" \in DOMAIN Replies
    BY ConnectionAssumption DEF Replies
  <2>2. PICK n \in MessageType : n.request = NULL /\ Sent(n)
    BY <1>3, <2>1, SendEffect DEF CoreInv
  <2>3. /\ wire' \subseteq wire
        /\ answered' \subseteq answered \cup wire
        /\ ServerConforms' => ServerConforms /\ m \in wire /\ wire' = wire \ {m}
    BY <1>1, ReplyEffect
  <2>4. StreamInv'
    BY <2>2 DEF Sent
  <2>5. HandedOut'
    BY <2>2, <2>3, HandedOutSend DEF CoreInv
  <2>6. OwnersWaiting'
    BY <1>1, <2>2, OwnersSendInternal DEF CoreInv
  <2>7. NotifiedOnce' /\ OwnResult'
    BY <1>1, <2>3 DEF CoreInv, NotifiedOnce, OwnResult
  <2>8. ASSUME ServerConforms'
        PROVE  (QueuedOnce /\ Exact(InFlight, Dead, InUse, storage_))'
    <3>1. QueuedOnce /\ Exact(InFlight, Dead, InUse, storage_)
      BY <2>3, <2>8 DEF CoreInv, Accounted
    <3>2. {m} \in SUBSET wire /\ wire' = wire \ {m} /\ leaked' = leaked \cup {m}
      BY <1>1, <2>3, <2>8 DEF KeepStream
    <3> QED
      BY <2>2, <3>1, <3>2, AccountSend
  <2> QED
    BY <2>4, <2>5, <2>6, <2>7, <2>8 DEF CoreInv, Accounted
<1> QED
  BY <1>1, <1>2, <1>3 DEF send_internal

(* A reply that releases its stream and notifies the request found there. *)
LEMMA CoreReplyRelease ==
  ASSUME ConnTypeOK, CoreInv, NEW m \in wire \cup answered, NEW reply, NEW request,
         Reply(m, reply), get_stream(m.stream, request), deliver(request, m),
         UNCHANGED <<writes, lost, leaked>>
  PROVE  CoreInv' /\ requests' \in [Requests -> RequestType]
<1>1. /\ wire' \subseteq wire
      /\ answered' \subseteq answered \cup wire
      /\ ServerConforms' => ServerConforms /\ m \in wire /\ wire' = wire \ {m}
  BY ReplyEffect
<1>2. m \in MessageType /\ m.stream \in 0..Max /\ Known(m.stream)
  BY MessageKnown DEF CoreInv
<1>3. InUse' = InUse \ {m.stream}
  BY <1>2, GetStreamReleases DEF CoreInv
<1>4. UNCHANGED storage_
  BY DEF get_stream
<1>5. StreamInv'
  BY <1>2, GetStreamInv DEF CoreInv
<1>6. HandedOut'
  BY <1>1, <1>4, HandedOutKeep DEF CoreInv, InFlight
<1>7. OwnersWaiting' /\ NotifiedOnce' /\ requests' \in [Requests -> RequestType]
  BY <1>2, OwnersRelease DEF CoreInv
<1>8. ServerConforms' => QueuedOnce /\ Exact(InFlight, Dead, InUse, storage_)
  BY <1>1 DEF CoreInv, Accounted
<1>9. OwnResult'
  <2>1. ServerConforms' => ServerConforms /\ storage_[m.stream] = m.request
    BY <1>1, <1>8 DEF Exact, InFlight
  <2> QED
    BY <1>2, <2>1, OwnResultRelease DEF CoreInv
<1>10. ASSUME ServerConforms'
       PROVE  (QueuedOnce /\ Exact(InFlight, Dead, InUse, storage_))'
  BY <1>1, <1>3, <1>4, <1>8, <1>10, AccountRelease
<1> QED
  BY <1>5, <1>6, <1>7, <1>9, <1>10 DEF CoreInv, Accounted

(* A reply on a stream that is free, which only a second reply is. *)
LEMMA CoreReplyError ==
  ASSUME ConnTypeOK, CoreInv, NEW m \in wire \cup answered, NEW reply, NEW request,
         Reply(m, reply), get_stream_error(m.stream, request),
         UNCHANGED <<requests, writes, lost, leaked>>
  PROVE  CoreInv'
<1>1. /\ wire' \subseteq wire
      /\ answered' \subseteq answered \cup wire
      /\ ServerConforms' => ServerConforms /\ m \in wire /\ wire' = wire \ {m}
  BY ReplyEffect
<1>2. ~ServerConforms'
  <2>1. ASSUME ServerConforms' PROVE m.stream \in InUse
    BY <1>1, <2>1 DEF CoreInv, Accounted, Exact, InFlight
  <2> QED
    BY <2>1 DEF get_stream_error, InUse
<1>3. UNCHANGED storage_ /\ InUse' = InUse /\ UNCHANGED streamVars
  BY DEF get_stream_error, streamVars, InUse
<1>4. StreamInv'
  BY <1>3, StreamStutterInv DEF CoreInv
<1>5. HandedOut'
  BY <1>1, <1>3, HandedOutKeep DEF CoreInv, InFlight
<1>6. OwnersWaiting' /\ NotifiedOnce'
  BY <1>3 DEF CoreInv, OwnersWaiting, Untold, NotifiedOnce
<1>7. OwnResult' /\ Accounted'
  BY <1>2 DEF OwnResult, Accounted
<1> QED
  BY <1>4, <1>5, <1>6, <1>7 DEF CoreInv

-----------------------------------------------------------------------------
(* Types of what a send and a call of connect_callback_ change. *)
LEMMA SendInternalTypes ==
  ASSUME ConnTypeOK, CoreInv, NEW op \in DOMAIN Replies, send_internal(op)
  PROVE  /\ writes' \in Seq(MessageType)
         /\ lost' \subseteq MessageType
         /\ connect_callback_' \in {"null", "set", "clobbered"}
<1>1. CASE send_message_error
  BY <1>1 DEF send_message_error, ConnTypeOK
<1>2. CASE send_message(op, NULL)
  <2>1. NULL \in StorageType
    BY ConnectionAssumption
  <2> QED
    BY <1>2, <2>1, SendEffect, SentTypes DEF CoreInv
<1> QED
  BY <1>1, <1>2 DEF send_internal

LEMMA CallTypes ==
  ASSUME ConnTypeOK, NEW kind \in {"ready", "error"}, call_connect_callback(kind)
  PROVE  /\ calls' \in [ready : Nat, error : Nat]
         /\ failure' \in {"none", "wild callback", "null request", "null string",
                          "assert body", "assert event"}
<1>1. calls \in [ready : Nat, error : Nat]
  BY DEF ConnTypeOK
<1>2. [calls EXCEPT ![kind] = @ + 1] \in [ready : Nat, error : Nat]
  <2>1. CASE kind = "ready"
    BY <1>1, <2>1
  <2>2. CASE kind = "error"
    BY <1>1, <2>2
  <2> QED
    BY <2>1, <2>2
<1>3. CASE connect_callback_ = "null"
  BY <1>3 DEF call_connect_callback, ConnTypeOK
<1>4. CASE connect_callback_ = "set"
  BY <1>2, <1>4 DEF call_connect_callback, ConnTypeOK
<1>5. CASE connect_callback_ = "clobbered"
  BY <1>1, <1>5 DEF call_connect_callback
<1> QED
  BY <1>3, <1>4, <1>5 DEF ConnTypeOK

(* Types of what a reply changes. *)
LEMMA ReplyTypes ==
  ASSUME ConnTypeOK, NEW m \in wire \cup answered, NEW reply, Reply(m, reply)
  PROVE  /\ wire' \subseteq MessageType
         /\ answered' \subseteq MessageType
         /\ duplicates' \in 0..MaxDuplicates
         /\ leaked \cup {m} \subseteq MessageType
BY ReplyEffect DEF ConnTypeOK

LEMMA StateTypes ==
  {CLIENT_STATE_RESOLVED, CLIENT_STATE_HANDSHAKE, CLIENT_STATE_SUPPORTED,
   CLIENT_STATE_READY, CLIENT_STATE_DISCONNECTING, CLIENT_STATE_DISCONNECTED}
    \subseteq CLIENT_STATE_NEW..CLIENT_STATE_DISCONNECTED
BY DEF CLIENT_STATE_NEW, CLIENT_STATE_RESOLVED, CLIENT_STATE_HANDSHAKE,
       CLIENT_STATE_SUPPORTED, CLIENT_STATE_READY, CLIENT_STATE_DISCONNECTING,
       CLIENT_STATE_DISCONNECTED

(* The steps of the start-up and of users. *)
LEMMA StartStep ==
  ASSUME ConnTypeOK, CoreInv,
         \/ \E connect \in {"null", "set"} : init(connect)
         \/ \E status \in {0, -1} : on_resolve(status)
         \/ \E status \in {0, -1} : on_connect(status)
         \/ CallerRequest_throws
         \/ set_keyspace
         \/ close
         \/ on_close
  PROVE  CoreInv' /\ ConnTypeOK'
<1>0. CoreInv' => StreamTypeOK'
  BY DEF CoreInv, StreamInv
<1>1. ASSUME NEW connect \in {"null", "set"}, init(connect)
      PROVE  CoreInv' /\ ConnTypeOK'
  <2>1. CoreInv'
    BY <1>1, CoreStutter DEF init, coreVars
  <2> QED
    BY <1>0, <1>1, <2>1, Zenon DEF init, ConnTypeOK, UvType
<1>2. ASSUME NEW status \in {0, -1}, on_resolve(status)
      PROVE  CoreInv' /\ ConnTypeOK'
  <2>1. CoreInv'
    BY <1>2, CoreStutter DEF on_resolve, coreVars
  <2> QED
    BY <1>0, <1>2, <2>1, StateTypes, Zenon DEF on_resolve, ConnTypeOK, UvType
<1>3. ASSUME NEW status \in {0, -1}, on_connect(status)
      PROVE  CoreInv' /\ ConnTypeOK'
  <2>1. CASE status = 0
    <3>1. "OPTIONS" \in DOMAIN Replies
      BY DEF Replies
    <3>2. CoreInv'
      BY <1>3, <2>1, <3>1, CoreSendInternal DEF on_connect
    <3>3. /\ writes' \in Seq(MessageType)
          /\ lost' \subseteq MessageType
          /\ connect_callback_' \in {"null", "set", "clobbered"}
      BY <1>3, <2>1, <3>1, SendInternalTypes DEF on_connect
    <3> QED
      BY <1>0, <1>3, <2>1, <3>2, <3>3, StateTypes, Zenon DEF on_connect, ConnTypeOK, UvType
  <2>2. CASE status # 0
    <3>1. CoreInv'
      BY <1>3, <2>2, CoreStutter DEF on_connect, coreVars
    <3> QED
      BY <1>0, <1>3, <2>2, <3>1, Zenon DEF on_connect, ConnTypeOK, UvType
  <2> QED
    BY <2>1, <2>2
<1>4. CASE CallerRequest_throws
  <2>1. CoreInv'
    BY <1>4, CoreStutter DEF CallerRequest_throws, coreVars
  <2> QED
    BY <1>0, <1>4, <2>1, Zenon DEF CallerRequest_throws, ConnTypeOK
<1>5. CASE set_keyspace
  <2>1. "USE_KS" \in DOMAIN Replies
    BY DEF Replies
  <2>2. CoreInv'
    BY <1>5, <2>1, CoreSendInternal DEF set_keyspace
  <2>3. /\ writes' \in Seq(MessageType)
        /\ lost' \subseteq MessageType
        /\ connect_callback_' \in {"null", "set", "clobbered"}
    BY <1>5, <2>1, SendInternalTypes DEF set_keyspace
  <2>4. keyspaces' \in 0..MaxSetKeyspace
    <3>1. /\ keyspaces \in 0..MaxSetKeyspace
          /\ keyspaces < MaxSetKeyspace
          /\ keyspaces' = keyspaces + 1
      BY <1>5 DEF set_keyspace, ConnTypeOK
    <3> QED
      BY <3>1, ConnectionAssumption
  <2> QED
    BY <1>0, <1>5, <2>2, <2>3, <2>4, Zenon DEF set_keyspace, ConnTypeOK
<1>6. CASE close
  <2>1. CoreInv'
    BY <1>6, CoreStutter DEF close, coreVars
  <2> QED
    BY <1>0, <1>6, <2>1, StateTypes, Zenon DEF close, ConnTypeOK, UvType
<1>7. CASE on_close
  <2>1. CoreInv'
    BY <1>7, CoreStutter DEF on_close, coreVars
  <2> QED
    BY <1>0, <1>7, <2>1, StateTypes, Zenon DEF on_close, ConnTypeOK, UvType
<1> QED
  BY <1>1, <1>2, <1>3, <1>4, <1>5, <1>6, <1>7

(* The steps of sending. *)
LEMMA SendStep ==
  ASSUME ConnTypeOK, CoreInv,
         \/ \E status \in {0, -1} : on_write(status)
         \/ \E r \in Requests, op \in {"QUERY", "PREPARE"} : exec(op, r)
  PROVE  CoreInv' /\ ConnTypeOK'
<1>0. CoreInv' => StreamTypeOK'
  BY DEF CoreInv, StreamInv
<1>1. ASSUME NEW status \in {0, -1}, on_write(status)
      PROVE  CoreInv' /\ ConnTypeOK'
  <2>1. CoreInv'
    BY <1>1, CoreWrite
  <2>2. writes \in Seq(MessageType) /\ writes # << >> /\ writes' = Tail(writes)
    BY <1>1 DEF ConnTypeOK, on_write
  <2>3. Head(writes) \in MessageType /\ writes' \in Seq(MessageType)
    BY <2>2, TailRange
  <2>4. wire' \subseteq MessageType /\ lost' \subseteq MessageType
    BY <1>1, <2>3 DEF on_write, ConnTypeOK
  <2> QED
    BY <1>0, <1>1, <2>1, <2>3, <2>4, Zenon DEF on_write, ConnTypeOK
<1>2. ASSUME NEW r \in Requests, NEW op \in {"QUERY", "PREPARE"}, exec(op, r)
      PROVE  CoreInv' /\ ConnTypeOK'
  <2>1. CoreInv' /\ requests' \in [Requests -> RequestType]
    BY <1>2, CoreExec
  <2>2. /\ writes' \in Seq(MessageType)
        /\ lost' \subseteq MessageType
        /\ connect_callback_' \in {"null", "set", "clobbered"}
    <3>1. CASE send_message(op, r)
      <4>1. r \in StorageType /\ op \in DOMAIN Replies
        BY ConnectionAssumption DEF Replies
      <4> QED
        BY <3>1, <4>1, SendEffect, SentTypes DEF CoreInv
    <3>2. CASE send_message_error
      BY <3>2 DEF send_message_error, ConnTypeOK
    <3> QED
      BY <1>2, <3>1, <3>2 DEF exec
  <2> QED
    BY <1>0, <1>2, <2>1, <2>2, Zenon DEF exec, ConnTypeOK
<1> QED
  BY <1>1, <1>2

(* The arrival of a reply. *)
LEMMA ConsumeStep ==
  ASSUME ConnTypeOK, CoreInv, NEW m \in wire \cup answered, consume(m)
  PROVE  CoreInv' /\ ConnTypeOK'
<1>0. CoreInv' => StreamTypeOK'
  BY DEF CoreInv, StreamInv
<1>1. ASSUME NEW reply, Reply(m, reply)
      PROVE  /\ wire' \subseteq MessageType
             /\ answered' \subseteq MessageType
             /\ duplicates' \in 0..MaxDuplicates
             /\ KeepStream(m) => leaked' \subseteq MessageType
  BY <1>1, ReplyTypes, Zenon DEF KeepStream
<1>2. CASE on_supported(m)
  <2>1. CoreInv'
    BY <1>2, CoreSupported
  <2>2. "STARTUP" \in DOMAIN Replies
    BY DEF Replies
  <2>3. /\ writes' \in Seq(MessageType)
        /\ lost' \subseteq MessageType
        /\ connect_callback_' \in {"null", "set", "clobbered"}
    BY <1>2, <2>2, SendInternalTypes DEF on_supported
  <2> QED
    BY <1>0, <1>1, <1>2, <2>1, <2>3, StateTypes, Zenon DEF on_supported, ConnTypeOK
<1>3. CASE on_ready(m)
  <2>1. CoreInv'
    BY <1>3, CoreReplyKeep DEF on_ready
  <2>2. /\ calls' \in [ready : Nat, error : Nat]
        /\ failure' \in {"none", "wild callback", "null request", "null string",
                         "assert body", "assert event"}
    BY <1>3, CallTypes DEF on_ready
  <2> QED
    BY <1>0, <1>1, <1>3, <2>1, <2>2, StateTypes, Zenon DEF on_ready, ConnTypeOK
<1>4. CASE on_authenticate(m)
  <2>1. CoreInv'
    BY <1>4, CoreReplyKeep DEF on_authenticate
  <2> QED
    BY <1>0, <1>1, <1>4, <2>1, Zenon DEF on_authenticate, ConnTypeOK
<1>5. CASE on_error(m)
  <2>1. CoreInv'
    BY <1>5, CoreReplyKeep DEF on_error
  <2>2. /\ calls' \in [ready : Nat, error : Nat]
        /\ failure' \in {"none", "wild callback", "null request", "null string",
                         "assert body", "assert event"}
    <3>1. CASE call_connect_callback("error")
      BY <3>1, CallTypes
    <3>2. CASE UNCHANGED <<calls, failure>>
      BY <3>2 DEF ConnTypeOK
    <3> QED
      BY <1>5, <3>1, <3>2 DEF on_error
  <2> QED
    BY <1>0, <1>1, <1>5, <2>1, <2>2, Zenon DEF on_error, ConnTypeOK
<1>6. CASE on_result_set_keyspace(m)
  <2>1. CoreInv'
    BY <1>6, CoreReplyKeep DEF on_result_set_keyspace
  <2> QED
    BY <1>0, <1>1, <1>6, <2>1, Zenon DEF on_result_set_keyspace, ConnTypeOK
<1>7. CASE on_result(m)
  <2>1. PICK request \in StorageType \cup {Garbage} :
          \/ get_stream(m.stream, request) /\ deliver(request, m) /\ UNCHANGED calls
          \/ /\ get_stream_error(m.stream, request)
             /\ call_connect_callback("error")
             /\ UNCHANGED requests
    BY <1>7 DEF on_result
  <2>2. CASE get_stream(m.stream, request) /\ deliver(request, m) /\ UNCHANGED calls
    <3>1. CoreInv' /\ requests' \in [Requests -> RequestType]
      BY <1>7, <2>2, CoreReplyRelease DEF on_result
    <3>2. failure' \in {"none", "wild callback", "null request", "null string",
                        "assert body", "assert event"}
      BY <2>2 DEF deliver, ConnTypeOK
    <3> QED
      BY <1>0, <1>1, <1>7, <2>2, <3>1, <3>2, Zenon DEF on_result, ConnTypeOK
  <2>3. CASE /\ get_stream_error(m.stream, request)
             /\ call_connect_callback("error")
             /\ UNCHANGED requests
    <3>1. CoreInv'
      BY <1>7, <2>3, CoreReplyError DEF on_result
    <3>2. /\ calls' \in [ready : Nat, error : Nat]
          /\ failure' \in {"none", "wild callback", "null request", "null string",
                           "assert body", "assert event"}
      BY <2>3, CallTypes
    <3> QED
      BY <1>0, <1>1, <1>7, <2>3, <3>1, <3>2, Zenon DEF on_result, ConnTypeOK
  <2> QED
    BY <2>1, <2>2, <2>3
<1>8. CASE on_result_prepared(m)
  <2>1. PICK request \in StorageType \cup {Garbage} :
          \/ get_stream(m.stream, request) /\ deliver(request, m)
          \/ get_stream_error(m.stream, request) /\ UNCHANGED <<requests, failure>>
    BY <1>8 DEF on_result_prepared
  <2>2. CASE get_stream(m.stream, request) /\ deliver(request, m)
    <3>1. CoreInv' /\ requests' \in [Requests -> RequestType]
      BY <1>8, <2>2, CoreReplyRelease DEF on_result_prepared
    <3>2. failure' \in {"none", "wild callback", "null request", "null string",
                        "assert body", "assert event"}
      BY <2>2 DEF deliver, ConnTypeOK
    <3> QED
      BY <1>0, <1>1, <1>8, <3>1, <3>2, Zenon DEF on_result_prepared, ConnTypeOK
  <2>3. CASE get_stream_error(m.stream, request) /\ UNCHANGED <<requests, failure>>
    <3>1. CoreInv'
      BY <1>8, <2>3, CoreReplyError DEF on_result_prepared
    <3> QED
      BY <1>0, <1>1, <1>8, <2>3, <3>1, Zenon DEF on_result_prepared, ConnTypeOK
  <2> QED
    BY <2>1, <2>2, <2>3
<1> QED
  BY <1>2, <1>3, <1>4, <1>5, <1>6, <1>7, <1>8 DEF consume

-----------------------------------------------------------------------------
(* The constructor establishes the invariant. *)
LEMMA ConnInitInv == ConnInit => ConnInv
<1> SUFFICES ASSUME ConnInit PROVE ConnInv
  OBVIOUS
<1>1. StreamInv
  BY StreamInitInv DEF ConnInit
<1>2. InUse = {}
  BY StreamStorageAssumption DEF ConnInit, StreamInit, InUse, IdType
<1>3. Range(writes) = {} /\ DOMAIN writes = {}
  BY DEF ConnInit, Range
<1>4. InFlight = {} /\ Dead = {} /\ answered = {} /\ wire = {}
  BY <1>3 DEF ConnInit, InFlight, Dead
<1>5. \A r \in Requests : /\ requests[r] = [sent |-> FALSE, error |-> FALSE,
                                            result |-> NULL, notified |-> 0]
                          /\ requests[r].result = NULL
                          /\ requests[r].notified = 0
                          /\ requests[r].error = FALSE
  BY DEF ConnInit
<1>6. ConnTypeOK
  <2>1. NULL \in StorageType /\ MaxSetKeyspace \in Nat /\ MaxDuplicates \in Nat
    BY ConnectionAssumption
  <2>2. requests \in [Requests -> RequestType]
    BY <2>1 DEF ConnInit, RequestType
  <2>3. calls \in [ready : Nat, error : Nat]
    BY DEF ConnInit
  <2>4. /\ state_ \in CLIENT_STATE_NEW..CLIENT_STATE_DISCONNECTED
        /\ writes \in Seq(MessageType)
        /\ keyspaces \in 0..MaxSetKeyspace
        /\ duplicates \in 0..MaxDuplicates
    BY <2>1 DEF ConnInit, CLIENT_STATE_NEW, CLIENT_STATE_DISCONNECTED
  <2>5. StreamTypeOK
    BY <1>1 DEF StreamInv
  <2> QED
    BY <2>2, <2>3, <2>4, <2>5, Zenon DEF ConnInit, ConnTypeOK, UvType
<1>7. HandedOut /\ OwnersWaiting
  BY <1>2, <1>4, <1>5 DEF HandedOut, OwnersWaiting, Untold
<1>8. Accounted
  BY <1>2, <1>3, <1>4 DEF Accounted, QueuedOnce, Exact
<1>9. NotifiedOnce
  BY <1>5 DEF NotifiedOnce
<1>10. OwnResult
  BY <1>5 DEF OwnResult
<1> QED
  BY <1>1, <1>6, <1>7, <1>8, <1>9, <1>10 DEF ConnInv, CoreInv

(* Every step preserves the invariant. *)
LEMMA ConnNextInv == ConnInv /\ [ConnNext]_vars => ConnInv'
<1> SUFFICES ASSUME ConnInv, [ConnNext]_vars PROVE ConnInv'
  OBVIOUS
<1> USE DEF ConnInv
<1>1. CASE \/ \E connect \in {"null", "set"} : init(connect)
           \/ \E status \in {0, -1} : on_resolve(status)
           \/ \E status \in {0, -1} : on_connect(status)
           \/ CallerRequest_throws
           \/ set_keyspace
           \/ close
           \/ on_close
  BY <1>1, StartStep
<1>2. CASE \/ \E status \in {0, -1} : on_write(status)
           \/ \E r \in Requests, op \in {"QUERY", "PREPARE"} : exec(op, r)
  BY <1>2, SendStep
<1>3. CASE \E m \in wire \cup answered : consume(m)
  BY <1>3, ConsumeStep
<1>4. CASE UNCHANGED vars
  <2>1. CoreInv'
    BY <1>4, CoreStutter DEF vars, connVars, coreVars
  <2>2. StreamTypeOK'
    BY <2>1 DEF CoreInv, StreamInv
  <2> QED
    BY <1>4, <2>1, <2>2, Zenon DEF vars, connVars, ConnTypeOK
<1> QED
  BY <1>1, <1>2, <1>3, <1>4 DEF ConnNext

(* The inductive invariant holds in every behaviour. *)
THEOREM ConnInvariant == ConnSpec => []ConnInv
<1>1. ConnInit => ConnInv
  BY ConnInitInv
<1>2. ConnInv /\ [ConnNext]_vars => ConnInv'
  BY ConnNextInv
<1> QED
  BY <1>1, <1>2, PTL DEF ConnSpec

-----------------------------------------------------------------------------
(* Types, the allocator's included: no order of replies makes the index of *)
(* its stack wrap.                                                         *)
THEOREM ConnTypeCorrect == ConnSpec => []ConnTypeOK
<1>1. ConnInv => ConnTypeOK
  BY DEF ConnInv
<1> QED
  BY <1>1, ConnInvariant, PTL

(* A reply finds the request it is for: the streams of the messages in     *)
(* flight are distinct, allocated, and lead back to their request          *)
(* (send_message, on_result).                                              *)
THEOREM RepliesFindTheirRequest == ConnSpec => []StreamsMatchInFlight
<1>1. ConnInv => StreamsMatchInFlight
  BY DEF ConnInv, CoreInv, Accounted, Exact, StreamsMatchInFlight
<1> QED
  BY <1>1, ConnInvariant, PTL

(* The streams in use are those of the messages in flight, lost, or        *)
(* answered by a handler that does not release them.                       *)
THEOREM StreamsAreAccounted == ConnSpec => []StreamsAccounted
<1>1. ConnInv => StreamsAccounted
  BY DEF ConnInv, CoreInv, Accounted, Exact, StreamsAccounted, Dead
<1> QED
  BY <1>1, ConnInvariant, PTL

(* A request gets the reply to its own message or an error, not both. *)
THEOREM ResultsAreOwn == ConnSpec => []OwnResult
<1>1. ConnInv => OwnResult
  BY DEF ConnInv, CoreInv
<1> QED
  BY <1>1, ConnInvariant, PTL

(* No request is notified twice, however often the server repeats a reply. *)
THEOREM NotifiedAtMostOnce == ConnSpec => []NotifiedOnce
<1>1. ConnInv => NotifiedOnce
  BY DEF ConnInv, CoreInv
<1> QED
  BY <1>1, ConnInvariant, PTL

(* Repeated replies do not corrupt the stack of free streams either. *)
THEOREM ConnFreeListIsExact == ConnSpec => []FreeListExact
<1>1. ConnInv => FreeListExact
  BY DEF ConnInv, CoreInv, StreamInv
<1> QED
  BY <1>1, ConnInvariant, PTL

-----------------------------------------------------------------------------
(* Sending calls set_stream with a value of StorageType. *)
LEMMA SendUsesStreams ==
  ASSUME NEW op, NEW request \in StorageType,
         send_message(op, request) \/ send_message_error
  PROVE  StreamNext
BY DEF send_message, send_message_error, StreamNext

(* A reply calls get_stream with a stream that was handed out. *)
LEMMA ReplyUsesStreams ==
  ASSUME ConnInv, NEW m \in wire \cup answered,
         NEW request \in StorageType \cup {Garbage},
         get_stream(m.stream, request) \/ get_stream_error(m.stream, request)
  PROVE  StreamNext
<1>1. m.stream \in 0..Max /\ Known(m.stream)
  BY MessageKnown DEF ConnInv, CoreInv
<1> QED
  BY <1>1 DEF StreamNext

(* The connection uses its allocator as the theorems about the allocator   *)
(* assume, so all of them hold of a connection's stream_storage_.          *)
THEOREM ConnUsesStreamStorage == ConnSpec => UsesStreamStorage
<1>1. ConnInit => StreamInit
  BY DEF ConnInit
<1>2. ASSUME ConnInv, [ConnNext]_vars PROVE [StreamNext]_streamVars
  <2> USE DEF send_internal
  <2>1. NULL \in StorageType /\ Requests \subseteq StorageType
    BY ConnectionAssumption
  <2>2. CASE \/ \E connect \in {"null", "set"} : init(connect)
             \/ \E status \in {0, -1} : on_resolve(status)
             \/ \E status \in {0, -1} : on_write(status)
             \/ CallerRequest_throws
             \/ close
             \/ on_close
    BY <2>2 DEF init, on_resolve, on_write, CallerRequest_throws, close, on_close
  <2>3. CASE \E status \in {0, -1} : on_connect(status)
    BY <2>1, <2>3, SendUsesStreams DEF on_connect
  <2>4. CASE \E r \in Requests, op \in {"QUERY", "PREPARE"} : exec(op, r)
    BY <2>1, <2>4, SendUsesStreams DEF exec
  <2>5. CASE set_keyspace
    BY <2>1, <2>5, SendUsesStreams DEF set_keyspace
  <2>6. ASSUME NEW m \in wire \cup answered, consume(m)
        PROVE  [StreamNext]_streamVars
    <3>1. CASE on_supported(m)
      BY <2>1, <3>1, SendUsesStreams DEF on_supported
    <3>2. CASE \/ on_ready(m)
               \/ on_authenticate(m)
               \/ on_error(m)
               \/ on_result_set_keyspace(m)
      BY <3>2 DEF on_ready, on_authenticate, on_error, on_result_set_keyspace
    <3>3. CASE on_result(m)
      BY <1>2, <3>3, ReplyUsesStreams DEF on_result
    <3>4. CASE on_result_prepared(m)
      BY <1>2, <3>4, ReplyUsesStreams DEF on_result_prepared
    <3> QED
      BY <2>6, <3>1, <3>2, <3>3, <3>4 DEF consume
  <2>7. CASE UNCHANGED vars
    BY <2>7 DEF vars
  <2> QED
    BY <1>2, <2>2, <2>3, <2>4, <2>5, <2>6, <2>7 DEF ConnNext
<1> QED
  BY <1>1, <1>2, ConnInvariant, PTL DEF ConnSpec, StreamSpec, UsesStreamStorage

-----------------------------------------------------------------------------
(* The start-up. What libuv owes the connection tells its state.           *)
Phase ==
  /\ uv_ \in {"start", "getaddrinfo"} => state_ = CLIENT_STATE_NEW
  /\ uv_ = "connect" => state_ = CLIENT_STATE_RESOLVED
  /\ uv_ = "read" => state_ \in {CLIENT_STATE_HANDSHAKE, CLIENT_STATE_SUPPORTED,
                                 CLIENT_STATE_READY}

(* The connection has sent nothing yet.                                    *)
Unsent == state_ \in {CLIENT_STATE_NEW, CLIENT_STATE_RESOLVED}

(* It has sent OPTIONS or STARTUP and is not ready.                        *)
Waiting == state_ \in {CLIENT_STATE_HANDSHAKE, CLIENT_STATE_SUPPORTED}

(* The messages in flight while the connection starts up: at most one, the *)
(* OPTIONS or the STARTUP that its state says; a user's message has a      *)
(* request.                                                                *)
StartupMessages ==
  /\ Unsent => InFlight = {}
  /\ state_ = CLIENT_STATE_HANDSHAKE => \A m \in InFlight : m.op = "OPTIONS"
  /\ state_ = CLIENT_STATE_SUPPORTED => \A m \in InFlight : m.op = "STARTUP"
  /\ state_ = CLIENT_STATE_READY => \A m \in InFlight : m.op \notin {"OPTIONS", "STARTUP"}
  /\ Waiting => \A m, n \in InFlight : m = n
  /\ \A m \in InFlight : m.op \in {"QUERY", "PREPARE"} => m.request # NULL

(* connect_callback_ has been called at most once, and not while the       *)
(* connection waits for the reply to a message of its own.                 *)
Reported ==
  /\ calls.ready + calls.error <= 1
  /\ Unsent => calls.ready + calls.error = 0
  /\ Waiting /\ InFlight # {} => calls.ready + calls.error = 0

(* No stream has been given back before the connection is ready, so its    *)
(* own messages have the streams 1 and 2, and nothing has been stored      *)
(* behind the end of storage_.                                             *)
FirstStreams ==
  /\ Unsent \/ Waiting => /\ available_streams_ = [i \in 0..Max-1 |-> i + 1]
                          /\ connect_callback_ # "clobbered"
  /\ Unsent => available_streams_index_ = 0
  /\ state_ = CLIENT_STATE_HANDSHAKE => available_streams_index_ <= 1
  /\ state_ = CLIENT_STATE_SUPPORTED => available_streams_index_ <= 2

(* No undefined behaviour so far.                                          *)
Sane == failure \notin {"wild callback", "null request"}

(* The parts together.                                                     *)
Startup == Phase /\ StartupMessages /\ Reported /\ FirstStreams /\ Sane

(* They hold as long as the server answers no message twice.               *)
StartupInv == ServerConforms => Startup

-----------------------------------------------------------------------------
(* The states differ where the invariant needs it.                         *)
LEMMA StatesDiffer ==
  /\ CLIENT_STATE_NEW \notin {CLIENT_STATE_HANDSHAKE, CLIENT_STATE_SUPPORTED, CLIENT_STATE_READY}
  /\ CLIENT_STATE_RESOLVED \notin {CLIENT_STATE_HANDSHAKE, CLIENT_STATE_SUPPORTED,
                                   CLIENT_STATE_READY}
  /\ CLIENT_STATE_HANDSHAKE # CLIENT_STATE_SUPPORTED
  /\ CLIENT_STATE_READY \notin {CLIENT_STATE_HANDSHAKE, CLIENT_STATE_SUPPORTED}
  /\ {CLIENT_STATE_DISCONNECTING, CLIENT_STATE_DISCONNECTED} \cap
       {CLIENT_STATE_NEW, CLIENT_STATE_RESOLVED, CLIENT_STATE_HANDSHAKE, CLIENT_STATE_SUPPORTED,
        CLIENT_STATE_READY} = {}
BY DEF CLIENT_STATE_NEW, CLIENT_STATE_RESOLVED, CLIENT_STATE_HANDSHAKE,
       CLIENT_STATE_SUPPORTED, CLIENT_STATE_READY, CLIENT_STATE_DISCONNECTING,
       CLIENT_STATE_DISCONNECTED

(* A connection that users may call has started.                           *)
LEMMA Started ==
  ASSUME state_ >= CLIENT_STATE_READY
  PROVE  ~Unsent /\ ~Waiting /\ state_ # CLIENT_STATE_HANDSHAKE /\ state_ # CLIENT_STATE_SUPPORTED
BY DEF Unsent, Waiting, CLIENT_STATE_NEW, CLIENT_STATE_RESOLVED, CLIENT_STATE_HANDSHAKE,
       CLIENT_STATE_SUPPORTED, CLIENT_STATE_READY

(* A step that only takes messages away keeps the start-up parts.          *)
LEMMA FewerMessages ==
  ASSUME Startup, InFlight' \subseteq InFlight, Sane',
         UNCHANGED <<uv_, state_, calls, available_streams_, available_streams_index_,
                     connect_callback_>>
  PROVE  Startup'
<1>0. UNCHANGED Unsent /\ UNCHANGED Waiting
  BY DEF Unsent, Waiting
<1>1. Phase'
  BY DEF Startup, Phase
<1>2. StartupMessages'
  BY <1>0 DEF Startup, StartupMessages
<1>3. Reported' /\ FirstStreams'
  BY <1>0 DEF Startup, Reported, FirstStreams
<1> QED
  BY <1>1, <1>2, <1>3 DEF Startup

(* Once the connection is ready, messages of users may come and any may    *)
(* go.                                                                     *)
LEMMA UserMessages ==
  ASSUME Startup, state_ >= CLIENT_STATE_READY, UNCHANGED <<uv_, state_, calls>>, Sane',
         NEW new, InFlight' \subseteq InFlight \cup new,
         \A n \in new : /\ n.op \notin {"OPTIONS", "STARTUP"}
                        /\ n.op \in {"QUERY", "PREPARE"} => n.request # NULL
  PROVE  Startup'
<1>0. /\ ~Unsent /\ ~Waiting
      /\ state_ # CLIENT_STATE_HANDSHAKE /\ state_ # CLIENT_STATE_SUPPORTED
  BY Started
<1>1. ~Unsent' /\ ~Waiting'
  BY <1>0 DEF Unsent, Waiting
<1>2. Phase'
  BY DEF Startup, Phase
<1>3. StartupMessages'
  BY <1>0, <1>1 DEF Startup, StartupMessages
<1>4. Reported' /\ FirstStreams'
  BY <1>0, <1>1 DEF Startup, Reported, FirstStreams
<1> QED
  BY <1>2, <1>3, <1>4 DEF Startup

(* The same for a step that sends nothing.                                 *)
LEMMA NoNewMessages ==
  ASSUME Startup, state_ >= CLIENT_STATE_READY, UNCHANGED <<uv_, state_, calls>>, Sane',
         InFlight' \subseteq InFlight
  PROVE  Startup'
<1>1. PICK none : none = {}
  OBVIOUS
<1>2. /\ InFlight' \subseteq InFlight \cup none
      /\ \A n \in none : /\ n.op \notin {"OPTIONS", "STARTUP"}
                         /\ n.op \in {"QUERY", "PREPARE"} => n.request # NULL
  BY <1>1
<1> QED
  BY <1>2, UserMessages

(* Closing keeps them: no reply comes any more.                            *)
LEMMA StartupClose ==
  ASSUME Startup, UNCHANGED calls, Sane', InFlight' \subseteq InFlight,
         \/ uv_' = "close" /\ state_' = CLIENT_STATE_DISCONNECTING
         \/ uv_' = "none" /\ state_' = CLIENT_STATE_DISCONNECTED
  PROVE  Startup'
<1>0. /\ ~Unsent' /\ ~Waiting'
      /\ state_' \notin {CLIENT_STATE_HANDSHAKE, CLIENT_STATE_SUPPORTED, CLIENT_STATE_READY}
  BY StatesDiffer DEF Unsent, Waiting
<1>1. Phase'
  BY DEF Phase
<1>2. StartupMessages' /\ Reported' /\ FirstStreams'
  BY <1>0 DEF Startup, StartupMessages, Reported, FirstStreams
<1> QED
  BY <1>1, <1>2 DEF Startup

(* The constructor establishes them.                                       *)
LEMMA StartupInitial == ConnInit => StartupInv
<1> SUFFICES ASSUME ConnInit PROVE Startup
  BY DEF StartupInv
<1>1. /\ state_ = CLIENT_STATE_NEW /\ connect_callback_ = "null" /\ uv_ = "start"
      /\ writes = << >> /\ wire = {} /\ calls = [ready |-> 0, error |-> 0] /\ failure = "none"
      /\ available_streams_index_ = 0 /\ available_streams_ = [i \in 0..Max-1 |-> i + 1]
  BY DEF ConnInit, StreamInit
<1>2. InFlight = {}
  BY <1>1 DEF InFlight, Range
<1>3. Unsent /\ ~Waiting /\ state_ # CLIENT_STATE_HANDSHAKE /\ state_ # CLIENT_STATE_SUPPORTED
  BY <1>1, StatesDiffer DEF Unsent, Waiting
<1>4. Phase /\ Sane
  BY <1>1 DEF Phase, Sane
<1>5. StartupMessages
  BY <1>2 DEF StartupMessages
<1>6. Reported
  BY <1>1 DEF Reported
<1>7. FirstStreams
  BY <1>1, <1>3 DEF FirstStreams
<1> QED
  BY <1>4, <1>5, <1>6, <1>7 DEF Startup

(* The connection's own messages get one of the first two streams; with    *)
(* three or more, that is not the one stored behind the end.               *)
LEMMA FirstSend ==
  ASSUME ConnInv, Max >= 3, available_streams_ = [i \in 0..Max-1 |-> i + 1],
         available_streams_index_ <= 1, NEW op \in DOMAIN Replies, send_internal(op)
  PROVE  /\ connect_callback_' = connect_callback_
         /\ available_streams_' = available_streams_
         /\ available_streams_index_' <= available_streams_index_ + 1
         /\ \/ InFlight' = wire' \cup Range(writes)
            \/ \E n : n.op = op /\ n.request = NULL /\ InFlight' = wire' \cup Range(writes) \cup {n}
<1>0. Max \in Nat /\ available_streams_index_ \in Nat
  <2>1. StreamTypeOK
    BY DEF ConnInv, ConnTypeOK
  <2>2. available_streams_index_ \in 0..Max
    BY <2>1 DEF StreamTypeOK
  <2> QED
    BY <2>2, StreamStorageAssumption
<1>1. CASE send_message_error
  <2>1. UNCHANGED <<connect_callback_, writes, available_streams_, available_streams_index_>>
    BY <1>1 DEF send_message_error, set_stream_error, streamVars
  <2> QED
    BY <1>0, <2>1 DEF InFlight
<1>2. CASE send_message(op, NULL)
  <2>1. PICK stream \in IdType :
          /\ set_stream(NULL, stream)
          /\ StoredBehindEnd(stream)
          /\ send_data([op |-> op, stream |-> stream, request |-> NULL])
    BY <1>2 DEF send_message
  <2>2. /\ stream = available_streams_index_ + 1
        /\ available_streams_' = available_streams_
        /\ available_streams_index_' = available_streams_index_ + 1
    <3>1. available_streams_index_ \in 0..Max-1
      BY <1>0
    <3> QED
      BY <2>1, <3>1 DEF set_stream
  <2>3. stream # Max
    BY <1>0, <2>2
  <2>4. connect_callback_' = connect_callback_
    BY <2>1, <2>3 DEF StoredBehindEnd
  <2> DEFINE n == [op |-> op, stream |-> stream, request |-> NULL]
  <2>5. n.op = op /\ n.request = NULL
    OBVIOUS
  <2>6. n \in MessageType
    BY ConnectionAssumption DEF MessageType
  <2>7. writes' = writes \/ writes' = Append(writes, n)
    BY <2>1 DEF send_data
  <2> HIDE DEF n
  <2>8. Range(writes') = Range(writes) \/ Range(writes') = Range(writes) \cup {n}
    <3>1. writes \in Seq(MessageType)
      BY DEF ConnInv, ConnTypeOK
    <3> QED
      BY <2>6, <2>7, <3>1, AppendRange
  <2>9. \/ InFlight' = wire' \cup Range(writes)
        \/ InFlight' = wire' \cup Range(writes) \cup {n}
    BY <2>8 DEF InFlight
  <2> QED
    BY <1>0, <2>2, <2>4, <2>5, <2>9
<1> QED
  BY <1>1, <1>2 DEF send_internal

-----------------------------------------------------------------------------
(* init, on_resolve and on_connect.                                        *)
LEMMA StartupStarts ==
  ASSUME ConnInv, Startup, Max >= 3,
         \/ \E connect \in {"null", "set"} : init(connect)
         \/ \E status \in {0, -1} : on_resolve(status)
         \/ \E status \in {0, -1} : on_connect(status)
  PROVE  Startup'
<1>1. CASE \E connect \in {"null", "set"} : init(connect)
  <2>1. /\ uv_ = "start" /\ uv_' = "getaddrinfo" /\ connect_callback_' # "clobbered"
        /\ UNCHANGED <<available_streams_index_, available_streams_, state_, writes, wire,
                       calls, failure>>
    BY <1>1 DEF init, streamVars
  <2>2. InFlight' = InFlight /\ UNCHANGED Unsent /\ UNCHANGED Waiting
    BY <2>1 DEF InFlight, Unsent, Waiting
  <2>3. Phase' /\ Sane'
    BY <2>1 DEF Startup, Phase, Sane
  <2>4. StartupMessages' /\ Reported'
    BY <2>1, <2>2 DEF Startup, StartupMessages, Reported
  <2>5. FirstStreams'
    BY <2>1, <2>2 DEF Startup, FirstStreams
  <2> QED
    BY <2>3, <2>4, <2>5 DEF Startup
<1>2. CASE \E status \in {0, -1} : on_resolve(status)
  <2>1. /\ uv_ = "getaddrinfo"
        /\ \/ state_' = CLIENT_STATE_RESOLVED /\ uv_' = "connect"
           \/ state_' = state_ /\ uv_' = "none"
        /\ UNCHANGED <<available_streams_index_, available_streams_, connect_callback_, writes,
                       wire, calls, failure>>
    BY <1>2 DEF on_resolve, streamVars
  <2>2. state_ = CLIENT_STATE_NEW
    BY <2>1 DEF Startup, Phase
  <2>3. /\ InFlight' = InFlight /\ Unsent /\ Unsent' /\ ~Waiting'
        /\ state_' \notin {CLIENT_STATE_HANDSHAKE, CLIENT_STATE_SUPPORTED, CLIENT_STATE_READY}
    BY <2>1, <2>2, StatesDiffer DEF InFlight, Unsent, Waiting
  <2>4. Phase' /\ Sane'
    BY <2>1 DEF Startup, Phase, Sane
  <2>5. StartupMessages' /\ Reported'
    BY <2>1, <2>3 DEF Startup, StartupMessages, Reported
  <2>6. FirstStreams'
    BY <2>1, <2>3 DEF Startup, FirstStreams
  <2> QED
    BY <2>4, <2>5, <2>6 DEF Startup
<1>3. CASE \E status \in {0, -1} : on_connect(status)
  <2>1. /\ uv_ = "connect" /\ UNCHANGED <<wire, calls, failure>>
        /\ \/ state_' = CLIENT_STATE_HANDSHAKE /\ uv_' = "read" /\ send_internal("OPTIONS")
           \/ /\ uv_' = "none"
              /\ UNCHANGED <<state_, available_streams_index_, available_streams_,
                             connect_callback_, writes>>
    BY <1>3 DEF on_connect, streamVars
  <2>2. state_ = CLIENT_STATE_RESOLVED
    BY <2>1 DEF Startup, Phase
  <2>3. Unsent /\ InFlight = {} /\ calls.ready + calls.error = 0
    BY <2>2 DEF Unsent, Startup, StartupMessages, Reported
  <2>4. CASE uv_' = "none" /\ UNCHANGED <<state_, available_streams_index_, available_streams_,
                                          connect_callback_, writes>>
    <3>1. InFlight' = InFlight /\ UNCHANGED Unsent /\ UNCHANGED Waiting
      BY <2>1, <2>4 DEF InFlight, Unsent, Waiting
    <3>2. Phase' /\ Sane'
      BY <2>1, <2>4 DEF Startup, Phase, Sane
    <3>3. StartupMessages' /\ Reported'
      BY <2>1, <2>4, <3>1 DEF Startup, StartupMessages, Reported
    <3>4. FirstStreams'
      BY <2>4, <3>1 DEF Startup, FirstStreams
    <3> QED
      BY <3>2, <3>3, <3>4 DEF Startup
  <2>5. CASE state_' = CLIENT_STATE_HANDSHAKE /\ uv_' = "read" /\ send_internal("OPTIONS")
    <3>1. /\ available_streams_ = [i \in 0..Max-1 |-> i + 1]
          /\ available_streams_index_ = 0 /\ connect_callback_ # "clobbered"
      BY <2>3 DEF Startup, FirstStreams
    <3>2. available_streams_index_ <= 1 /\ "OPTIONS" \in DOMAIN Replies
      BY <3>1 DEF Replies
    <3>3. /\ connect_callback_' = connect_callback_
          /\ available_streams_' = available_streams_
          /\ available_streams_index_' <= available_streams_index_ + 1
          /\ \/ InFlight' = wire' \cup Range(writes)
             \/ \E n : /\ n.op = "OPTIONS" /\ n.request = NULL
                       /\ InFlight' = wire' \cup Range(writes) \cup {n}
      BY <2>5, <3>1, <3>2, FirstSend
    <3>4. wire' \cup Range(writes) = {}
      BY <2>1, <2>3 DEF InFlight
    <3>5. /\ \A m, n \in InFlight' : m = n
          /\ \A m \in InFlight' : m.op = "OPTIONS"
      BY <3>3, <3>4
    <3>6. /\ ~Unsent' /\ Waiting' /\ state_' # CLIENT_STATE_SUPPORTED
          /\ state_' # CLIENT_STATE_READY
      BY <2>5, StatesDiffer DEF Unsent, Waiting
    <3>7. Phase' /\ Sane'
      BY <2>1, <2>5 DEF Startup, Phase, Sane
    <3>8. StartupMessages'
      BY <3>5, <3>6 DEF StartupMessages
    <3>9. Reported'
      BY <2>1, <2>3 DEF Reported
    <3>10. FirstStreams'
      <4>1. available_streams_index_' <= 1
        BY <3>1, <3>3
      <4> QED
        BY <3>1, <3>3, <3>6, <4>1 DEF FirstStreams
    <3> QED
      BY <3>7, <3>8, <3>9, <3>10 DEF Startup
  <2> QED
    BY <2>1, <2>4, <2>5
<1> QED
  BY <1>1, <1>2, <1>3

(* The calls of users, and on_write.                                       *)
LEMMA StartupSends ==
  ASSUME ConnInv, Startup,
         \/ \E r \in Requests, op \in {"QUERY", "PREPARE"} : exec(op, r)
         \/ CallerRequest_throws
         \/ set_keyspace
         \/ \E status \in {0, -1} : on_write(status)
  PROVE  Startup'
<1>0. writes \in Seq(MessageType)
  BY DEF ConnInv, ConnTypeOK
<1>1. ASSUME NEW op \in DOMAIN Replies, NEW request \in StorageType, send_message(op, request),
             UNCHANGED wire
      PROVE  \E n : /\ n.op = op /\ n.request = request
                    /\ InFlight' \subseteq InFlight \cup {n}
  <2>1. PICK n \in MessageType : n.op = op /\ n.request = request /\ Sent(n)
    BY <1>1, SendEffect DEF ConnInv, CoreInv
  <2>2. Range(writes') \subseteq Range(writes) \cup {n}
    BY <2>1, SentQueue DEF ConnInv
  <2> QED
    BY <1>1, <2>1, <2>2 DEF InFlight
<1>2. CASE \E r \in Requests, op \in {"QUERY", "PREPARE"} : exec(op, r)
  <2>1. PICK r \in Requests, op \in {"QUERY", "PREPARE"} : exec(op, r)
    BY <1>2
  <2>2. /\ state_ >= CLIENT_STATE_READY /\ UNCHANGED <<state_, uv_, calls, wire, failure>>
        /\ send_message(op, r) \/ send_message_error
    BY <2>1 DEF exec
  <2>3. Sane'
    BY <2>2 DEF Startup, Sane
  <2>4. CASE send_message(op, r)
    <3>1. op \in DOMAIN Replies /\ r \in StorageType /\ r # NULL
      BY ConnectionAssumption DEF Replies
    <3>2. PICK n : n.op = op /\ n.request = r /\ InFlight' \subseteq InFlight \cup {n}
      BY <1>1, <2>2, <2>4, <3>1
    <3>3. \A k \in {n} : /\ k.op \notin {"OPTIONS", "STARTUP"}
                         /\ k.op \in {"QUERY", "PREPARE"} => k.request # NULL
      BY <3>1, <3>2
    <3> QED
      BY <2>2, <2>3, <3>2, <3>3, UserMessages
  <2>5. CASE send_message_error
    <3>1. InFlight' \subseteq InFlight
      BY <2>2, <2>5 DEF send_message_error, InFlight
    <3> QED
      BY <2>2, <2>3, <3>1, NoNewMessages
  <2> QED
    BY <2>2, <2>4, <2>5
<1>3. CASE CallerRequest_throws
  <2>1. UNCHANGED <<uv_, state_, calls, available_streams_, available_streams_index_,
                    connect_callback_, wire, writes>> /\ failure' = "null string"
    BY <1>3 DEF CallerRequest_throws, streamVars
  <2>2. InFlight' \subseteq InFlight /\ Sane'
    BY <2>1 DEF InFlight, Sane
  <2> QED
    BY <2>1, <2>2, FewerMessages
<1>4. CASE set_keyspace
  <2>2. /\ state_ >= CLIENT_STATE_READY /\ UNCHANGED <<state_, uv_, calls, wire, failure>>
        /\ send_message("USE_KS", NULL) \/ send_message_error
    BY <1>4 DEF set_keyspace, send_internal
  <2>3. Sane'
    BY <2>2 DEF Startup, Sane
  <2>4. CASE send_message("USE_KS", NULL)
    <3>1. "USE_KS" \in DOMAIN Replies /\ NULL \in StorageType
      BY ConnectionAssumption DEF Replies
    <3>2. PICK n : n.op = "USE_KS" /\ n.request = NULL /\ InFlight' \subseteq InFlight \cup {n}
      BY <1>1, <2>2, <2>4, <3>1
    <3>3. \A k \in {n} : /\ k.op \notin {"OPTIONS", "STARTUP"}
                         /\ k.op \in {"QUERY", "PREPARE"} => k.request # NULL
      BY <3>2
    <3> QED
      BY <2>2, <2>3, <3>2, <3>3, UserMessages
  <2>5. CASE send_message_error
    <3>1. InFlight' \subseteq InFlight
      BY <2>2, <2>5 DEF send_message_error, InFlight
    <3> QED
      BY <2>2, <2>3, <3>1, NoNewMessages
  <2> QED
    BY <2>2, <2>4, <2>5
<1>5. CASE \E status \in {0, -1} : on_write(status)
  <2>1. /\ UNCHANGED <<uv_, state_, calls, available_streams_, available_streams_index_,
                       connect_callback_, failure>>
        /\ writes # << >> /\ writes' = Tail(writes)
        /\ wire' = wire \/ wire' = wire \cup {Head(writes)}
    BY <1>5 DEF on_write, streamVars
  <2>2. Range(writes) = {Head(writes)} \cup Range(Tail(writes))
    BY <1>0, <2>1, TailRange
  <2>3. InFlight' \subseteq InFlight /\ Sane'
    BY <2>1, <2>2 DEF InFlight, Startup, Sane
  <2> QED
    BY <2>1, <2>3, FewerMessages
<1> QED
  BY <1>2, <1>3, <1>4, <1>5

-----------------------------------------------------------------------------
(* The message a conforming reply is for was in flight, is no more, and    *)
(* its stream leads to its request.                                        *)
LEMMA Answered ==
  ASSUME ConnInv, Startup, ServerConforms', NEW m \in wire \cup answered, NEW reply,
         Reply(m, reply)
  PROVE  /\ m \in wire /\ m \in InFlight /\ uv_ = "read"
         /\ wire' \cup Range(writes) = InFlight \ {m}
         /\ m.stream \in InUse /\ storage_[m.stream] = m.request
         /\ state_ \in {CLIENT_STATE_HANDSHAKE, CLIENT_STATE_SUPPORTED, CLIENT_STATE_READY}
<1>1. ServerConforms /\ m \in wire /\ wire' = wire \ {m}
  BY ReplyEffect DEF ConnInv
<1>2. QueuedOnce /\ Exact(InFlight, Dead, InUse, storage_)
  BY <1>1 DEF ConnInv, CoreInv, Accounted
<1>3. m \in InFlight /\ wire' \cup Range(writes) = InFlight \ {m}
  BY <1>1, <1>2 DEF InFlight, QueuedOnce
<1>4. m.stream \in InUse /\ storage_[m.stream] = m.request
  BY <1>2, <1>3 DEF Exact
<1>5. uv_ = "read"
  BY DEF Reply
<1> QED
  BY <1>1, <1>3, <1>4, <1>5 DEF Startup, Phase

(* The first call of connect_callback_ is counted once and is no wild one. *)
LEMMA CallbackCalled ==
  ASSUME ConnTypeOK, connect_callback_ # "clobbered", calls.ready + calls.error = 0,
         NEW kind \in {"ready", "error"}, call_connect_callback(kind)
  PROVE  calls'.ready + calls'.error <= 1 /\ UNCHANGED failure
<1>1. calls \in [ready : Nat, error : Nat] /\ connect_callback_ \in {"null", "set"}
  BY DEF ConnTypeOK
<1>2. CASE connect_callback_ = "null"
  <2>1. UNCHANGED <<calls, failure>>
    BY <1>2 DEF call_connect_callback
  <2> QED
    BY <1>1, <2>1
<1>3. CASE connect_callback_ = "set"
  <2>1. calls' = [calls EXCEPT ![kind] = @ + 1] /\ UNCHANGED failure
    BY <1>3 DEF call_connect_callback
  <2>2. CASE kind = "ready"
    <3>1. calls'.ready = calls.ready + 1 /\ calls'.error = calls.error
      BY <1>1, <2>1, <2>2
    <3> QED
      BY <1>1, <2>1, <3>1
  <2>3. CASE kind = "error"
    <3>1. calls'.ready = calls.ready /\ calls'.error = calls.error + 1
      BY <1>1, <2>1, <2>3
    <3> QED
      BY <1>1, <2>1, <3>1
  <2> QED
    BY <2>2, <2>3
<1> QED
  BY <1>1, <1>2, <1>3

(* on_supported: OPTIONS was the only message in flight, and STARTUP is    *)
(* now.                                                                    *)
LEMMA StartupSupported ==
  ASSUME ConnInv, Startup, ServerConforms', Max >= 3, NEW m \in wire \cup answered,
         on_supported(m)
  PROVE  Startup'
<1>1. /\ Reply(m, "SUPPORTED") /\ state_' = CLIENT_STATE_SUPPORTED /\ send_internal("STARTUP")
      /\ UNCHANGED <<uv_, calls, failure>>
  BY DEF on_supported
<1>2. m \in InFlight /\ uv_ = "read" /\ wire' \cup Range(writes) = InFlight \ {m}
  BY <1>1, Answered
<1>3. m.op = "OPTIONS"
  <2>1. m.op \in DOMAIN Replies
    <3>1. m \in MessageType
      BY DEF ConnInv, ConnTypeOK
    <3> QED
      BY <3>1 DEF MessageType
  <2>2. "SUPPORTED" \in Replies[m.op]
    BY <1>1 DEF Reply
  <2> QED
    BY <2>1, <2>2 DEF Replies
<1>4. state_ = CLIENT_STATE_HANDSHAKE
  <2>1. state_ \in {CLIENT_STATE_HANDSHAKE, CLIENT_STATE_SUPPORTED, CLIENT_STATE_READY}
    BY <1>1, Answered
  <2> QED
    BY <1>2, <1>3, <2>1 DEF Startup, StartupMessages
<1>5. Waiting /\ InFlight \ {m} = {} /\ calls.ready + calls.error = 0
  <2>1. Waiting
    BY <1>4 DEF Waiting
  <2>2. \A n \in InFlight : n = m
    BY <1>2, <2>1 DEF Startup, StartupMessages
  <2> QED
    BY <1>2, <2>1, <2>2 DEF Startup, Reported
<1>6. /\ available_streams_ = [i \in 0..Max-1 |-> i + 1]
      /\ available_streams_index_ <= 1 /\ connect_callback_ # "clobbered"
  BY <1>4, <1>5 DEF Startup, FirstStreams
<1>7. "STARTUP" \in DOMAIN Replies
  BY DEF Replies
<1>8. /\ connect_callback_' = connect_callback_
      /\ available_streams_' = available_streams_
      /\ available_streams_index_' <= available_streams_index_ + 1
      /\ \/ InFlight' = wire' \cup Range(writes)
         \/ \E n : /\ n.op = "STARTUP" /\ n.request = NULL
                   /\ InFlight' = wire' \cup Range(writes) \cup {n}
  BY <1>1, <1>6, <1>7, FirstSend
<1>9. /\ \A k, n \in InFlight' : k = n
      /\ \A n \in InFlight' : n.op = "STARTUP"
  BY <1>2, <1>5, <1>8
<1>10. /\ ~Unsent' /\ Waiting' /\ state_' # CLIENT_STATE_HANDSHAKE
       /\ state_' # CLIENT_STATE_READY
  BY <1>1, StatesDiffer DEF Unsent, Waiting
<1>11. Phase' /\ Sane'
  BY <1>1, <1>2 DEF Startup, Phase, Sane
<1>12. StartupMessages'
  BY <1>9, <1>10 DEF StartupMessages
<1>13. Reported'
  BY <1>1, <1>5 DEF Reported
<1>14. FirstStreams'
  <2>0. available_streams_index_ \in Int /\ available_streams_index_' \in Int
    <3>1. StreamTypeOK
      BY DEF ConnInv, ConnTypeOK
    <3>2. StreamTypeOK'
      <4>1. ConnInv'
        BY ConnNextInv DEF ConnNext, consume
      <4> QED
        BY <4>1 DEF ConnInv, ConnTypeOK
    <3> QED
      BY <3>1, <3>2, StreamStorageAssumption DEF StreamTypeOK
  <2>1. available_streams_index_' <= 2
    BY <1>6, <1>8, <2>0
  <2> QED
    BY <1>6, <1>8, <1>10, <2>1 DEF FirstStreams
<1> QED
  BY <1>11, <1>12, <1>13, <1>14 DEF Startup

(* on_ready: STARTUP was the only one, and its reply is reported for the   *)
(* first time.                                                             *)
LEMMA StartupReady ==
  ASSUME ConnInv, Startup, ServerConforms', NEW m \in wire \cup answered, on_ready(m)
  PROVE  Startup'
<1>1. /\ Reply(m, "READY") /\ state_' = CLIENT_STATE_READY /\ call_connect_callback("ready")
      /\ UNCHANGED <<uv_, writes>>
  BY DEF on_ready
<1>2. m \in InFlight /\ uv_ = "read" /\ wire' \cup Range(writes) = InFlight \ {m}
  BY <1>1, Answered
<1>3. m.op = "STARTUP"
  <2>1. m.op \in DOMAIN Replies
    <3>1. m \in MessageType
      BY DEF ConnInv, ConnTypeOK
    <3> QED
      BY <3>1 DEF MessageType
  <2>2. "READY" \in Replies[m.op]
    BY <1>1 DEF Reply
  <2> QED
    BY <2>1, <2>2 DEF Replies
<1>4. state_ = CLIENT_STATE_SUPPORTED
  <2>1. state_ \in {CLIENT_STATE_HANDSHAKE, CLIENT_STATE_SUPPORTED, CLIENT_STATE_READY}
    BY <1>1, Answered
  <2> QED
    BY <1>2, <1>3, <2>1 DEF Startup, StartupMessages
<1>5. Waiting /\ InFlight' = {} /\ calls.ready + calls.error = 0
  <2>1. Waiting
    BY <1>4 DEF Waiting
  <2>2. \A n \in InFlight : n = m
    BY <1>2, <2>1 DEF Startup, StartupMessages
  <2> QED
    BY <1>1, <1>2, <2>1, <2>2 DEF Startup, Reported, InFlight
<1>6. connect_callback_ # "clobbered"
  BY <1>5 DEF Startup, FirstStreams
<1>7. calls'.ready + calls'.error <= 1 /\ UNCHANGED failure
  BY <1>1, <1>5, <1>6, CallbackCalled DEF ConnInv
<1>8. ~Unsent' /\ ~Waiting'
      /\ state_' # CLIENT_STATE_HANDSHAKE /\ state_' # CLIENT_STATE_SUPPORTED
  BY <1>1, StatesDiffer DEF Unsent, Waiting
<1>9. Phase' /\ Sane'
  BY <1>1, <1>2, <1>7 DEF Startup, Phase, Sane
<1>10. StartupMessages'
  BY <1>5 DEF StartupMessages
<1>11. Reported' /\ FirstStreams'
  BY <1>7, <1>8 DEF Reported, FirstStreams
<1> QED
  BY <1>9, <1>10, <1>11 DEF Startup

(* on_error: reported only before the connection is ready, when it is the  *)
(* reply to the one message in flight.                                     *)
LEMMA StartupError ==
  ASSUME ConnInv, Startup, ServerConforms', NEW m \in wire \cup answered, on_error(m)
  PROVE  Startup'
<1>1. /\ Reply(m, "ERROR") /\ UNCHANGED <<uv_, writes, state_, connect_callback_,
                                          available_streams_, available_streams_index_>>
      /\ IF state_ < CLIENT_STATE_READY THEN call_connect_callback("error")
                                        ELSE UNCHANGED <<calls, failure>>
  BY DEF on_error, streamVars
<1>2. /\ m \in InFlight /\ uv_ = "read" /\ wire' \cup Range(writes) = InFlight \ {m}
      /\ state_ \in {CLIENT_STATE_HANDSHAKE, CLIENT_STATE_SUPPORTED, CLIENT_STATE_READY}
  BY <1>1, Answered
<1>3. InFlight' = InFlight \ {m}
  BY <1>1, <1>2 DEF InFlight
<1>4. CASE ~(state_ < CLIENT_STATE_READY)
  <2>1. UNCHANGED <<calls, failure>>
    BY <1>1, <1>4
  <2>2. Sane' /\ InFlight' \subseteq InFlight
    BY <1>3, <2>1 DEF Startup, Sane
  <2> QED
    BY <1>1, <2>1, <2>2, FewerMessages
<1>5. CASE state_ < CLIENT_STATE_READY
  <2>1. state_ # CLIENT_STATE_READY
    BY <1>5 DEF CLIENT_STATE_READY
  <2>2. Waiting /\ ~Unsent
    BY <1>2, <2>1, StatesDiffer DEF Waiting, Unsent
  <2>3. InFlight' = {} /\ calls.ready + calls.error = 0 /\ connect_callback_ # "clobbered"
    <3>1. \A n \in InFlight : n = m
      BY <1>2, <2>2 DEF Startup, StartupMessages
    <3> QED
      BY <1>2, <1>3, <2>2, <3>1 DEF Startup, Reported, FirstStreams
  <2>4. calls'.ready + calls'.error <= 1 /\ UNCHANGED failure
    BY <1>1, <1>5, <2>3, CallbackCalled DEF ConnInv
  <2>5. UNCHANGED Unsent /\ UNCHANGED Waiting
    BY <1>1 DEF Unsent, Waiting
  <2>6. Phase' /\ Sane'
    BY <1>1, <2>4 DEF Startup, Phase, Sane
  <2>7. StartupMessages'
    BY <2>3 DEF StartupMessages
  <2>8. Reported'
    BY <2>2, <2>3, <2>4, <2>5 DEF Reported
  <2>9. FirstStreams'
    BY <1>1, <2>5 DEF Startup, FirstStreams
  <2> QED
    BY <2>6, <2>7, <2>8, <2>9 DEF Startup
<1> QED
  BY <1>4, <1>5

(* on_result and its case PREPARED: the stream is in use and holds a       *)
(* request of a user, so that get_stream does not fail and no NULL is      *)
(* notified.                                                               *)
LEMMA StartupResult ==
  ASSUME ConnInv, Startup, ServerConforms', NEW m \in wire \cup answered,
         on_result(m) \/ on_result_prepared(m)
  PROVE  Startup'
<1>1. PICK reply \in {"RESULT", "PREPARED"}, request \in StorageType \cup {Garbage} :
        /\ Reply(m, reply) /\ UNCHANGED <<uv_, state_, writes>>
        /\ \/ /\ get_stream(m.stream, request) /\ deliver(request, m) /\ UNCHANGED calls
           \/ get_stream_error(m.stream, request)
  BY DEF on_result, on_result_prepared
<1>2. /\ m \in InFlight /\ uv_ = "read" /\ wire' \cup Range(writes) = InFlight \ {m}
      /\ m.stream \in InUse /\ storage_[m.stream] = m.request
      /\ state_ \in {CLIENT_STATE_HANDSHAKE, CLIENT_STATE_SUPPORTED, CLIENT_STATE_READY}
  BY <1>1, Answered
<1>3. m.op \in {"QUERY", "PREPARE"}
  <2>1. m.op \in DOMAIN Replies
    <3>1. m \in MessageType
      BY DEF ConnInv, ConnTypeOK
    <3> QED
      BY <3>1 DEF MessageType
  <2>2. reply \in Replies[m.op]
    BY <1>1 DEF Reply
  <2> QED
    BY <2>1, <2>2 DEF Replies
<1>4. state_ = CLIENT_STATE_READY
  BY <1>2, <1>3 DEF Startup, StartupMessages
<1>5. state_ >= CLIENT_STATE_READY
  BY <1>4 DEF CLIENT_STATE_READY
<1>6. m.request # NULL
  BY <1>2, <1>3 DEF Startup, StartupMessages
<1>7. get_stream(m.stream, request) /\ deliver(request, m) /\ UNCHANGED calls
  BY <1>1, <1>2 DEF get_stream_error, InUse
<1>8. request # NULL
  BY <1>2, <1>6, <1>7 DEF get_stream
<1>9. UNCHANGED failure
  BY <1>7, <1>8 DEF deliver
<1>10. Sane' /\ InFlight' \subseteq InFlight
  BY <1>1, <1>2, <1>9 DEF InFlight, Startup, Sane
<1> QED
  BY <1>1, <1>5, <1>7, <1>10, NoNewMessages

(* Every reply.                                                            *)
LEMMA StartupConsumes ==
  ASSUME ConnInv, Startup, ServerConforms', Max >= 3, NEW m \in wire \cup answered, consume(m)
  PROVE  Startup'
<1>1. CASE on_authenticate(m) \/ on_result_set_keyspace(m)
  <2>1. PICK reply : Reply(m, reply)
    BY <1>1 DEF on_authenticate, on_result_set_keyspace
  <2>2. /\ UNCHANGED <<uv_, state_, calls, available_streams_, available_streams_index_,
                       connect_callback_, writes>>
        /\ failure' = failure \/ failure' = "assert body"
    BY <1>1 DEF on_authenticate, on_result_set_keyspace, streamVars
  <2>3. wire' \cup Range(writes) = InFlight \ {m}
    BY <2>1, Answered
  <2>4. InFlight' \subseteq InFlight /\ Sane'
    BY <2>2, <2>3 DEF InFlight, Startup, Sane
  <2> QED
    BY <2>2, <2>4, FewerMessages
<1> QED
  BY <1>1, StartupSupported, StartupReady, StartupError, StartupResult DEF consume

(* Every step.                                                             *)
LEMMA StartupNext ==
  ASSUME ConnInv, StartupInv, [ConnNext]_vars, Max >= 3
  PROVE  StartupInv'
<1> SUFFICES ASSUME ServerConforms' PROVE Startup'
  BY DEF StartupInv
<1>0. ServerConforms
  <2>1. CASE UNCHANGED duplicates
    BY <2>1 DEF ServerConforms
  <2>2. CASE \E m \in wire \cup answered : consume(m)
    <3>1. PICK m \in wire \cup answered, reply \in {"SUPPORTED", "READY", "AUTHENTICATE",
                "ERROR", "SET_KEYSPACE", "RESULT", "PREPARED"} : Reply(m, reply)
      BY <2>2 DEF consume, on_supported, on_ready, on_authenticate, on_error,
                  on_result_set_keyspace, on_result, on_result_prepared
    <3> QED
      BY <3>1, ReplyEffect DEF ConnInv
  <2> QED
    BY <2>1, <2>2 DEF ConnNext, vars, connVars, init, on_resolve, on_connect, on_write, exec,
                      CallerRequest_throws, set_keyspace, close, on_close
<1>1. Startup
  BY <1>0 DEF StartupInv
<1>2. CASE UNCHANGED vars
  <2>1. UNCHANGED <<uv_, state_, calls, available_streams_, available_streams_index_,
                    connect_callback_, writes, wire, failure>>
    BY <1>2 DEF vars, connVars, streamVars
  <2>2. InFlight' \subseteq InFlight /\ Sane'
    BY <1>1, <2>1 DEF InFlight, Startup, Sane
  <2> QED
    BY <1>1, <2>1, <2>2, FewerMessages
<1>3. CASE close \/ on_close
  <2>1. /\ UNCHANGED <<calls, writes, wire>>
        /\ failure' = failure \/ failure' = "assert event"
        /\ \/ uv_' = "close" /\ state_' = CLIENT_STATE_DISCONNECTING
           \/ uv_' = "none" /\ state_' = CLIENT_STATE_DISCONNECTED
    BY <1>3 DEF close, on_close
  <2>2. InFlight' \subseteq InFlight /\ Sane'
    BY <1>1, <2>1 DEF InFlight, Startup, Sane
  <2> QED
    BY <1>1, <2>1, <2>2, StartupClose
<1> QED
  BY <1>1, <1>2, <1>3, StartupStarts, StartupSends, StartupConsumes DEF ConnNext

(* For three or more streams (the driver has 127) the start-up parts hold  *)
(* along every run.                                                        *)
THEOREM StartupInvariant ==
  ASSUME Max >= 3
  PROVE  ConnSpec => []StartupInv
<1>1. ConnInv /\ StartupInv /\ [ConnNext]_vars => StartupInv'
  BY StartupNext
<1> QED
  BY <1>1, StartupInitial, ConnInvariant, PTL DEF ConnSpec

(* connect_callback_ is called at most once, with ready or with an error,  *)
(* for any number of requests and streams, if the server answers no        *)
(* message twice.                                                          *)
THEOREM ConnectIsReportedOnce ==
  ASSUME Max >= 3
  PROVE  ConnSpec => []ConnectReportedOnce
<1>1. StartupInv => ConnectReportedOnce
  BY DEF StartupInv, Startup, Reported, ConnectReportedOnce
<1> QED
  BY <1>1, StartupInvariant, PTL

(* With such a server no reply dereferences the NULL request of OPTIONS,   *)
(* STARTUP or USE, and connect_callback_ is never called after the request *)
(* of stream Max was stored over it.                                       *)
THEOREM BehaviourIsDefined ==
  ASSUME Max >= 3
  PROVE  ConnSpec => []NoUndefinedBehaviour
<1>1. StartupInv => NoUndefinedBehaviour
  BY DEF StartupInv, Startup, Sane, NoUndefinedBehaviour
<1> QED
  BY <1>1, StartupInvariant, PTL
=============================================================================
