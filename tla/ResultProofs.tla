---------------------------- MODULE ResultProofs ----------------------------
(***************************************************************************)
(* What a client is given, for every number of clients, workers, chunks and *)
(* columns: one answer to each question, with Finished the executed body,  *)
(* and with it what RemoteTask promises.  Requests arrive in one piece,    *)
(* and the number that precedes a result is not cut.                       *)
(***************************************************************************)
EXTENDS StreamProofs

(* The client reads the size of its result with one recv.                    *)
WholeSizes == ReplyCuts # "bytes"

Final == ExecutedMatrix

(* A delegate has written its chunk.                                        *)
Written(c, i) == IsDone(c, i) \/ \E w \in Workers : job[w] = Chunk(c, i) /\ wpc[w] = "done"
Extent(c, i) == Units(ChunkExtent(ExecutionChunks(c)[i]))

(* A body is the client's, executed as far as its chunks are.               *)
BodyAsFar(c) ==
  \A k \in DOMAIN m_contextMap[c].Body :
    /\ m_contextMap[c].Body[k] \in {Body[k], Final[k]}
    /\ \A i \in DOMAIN ExecutionChunks(c) :
         Written(c, i) /\ k \in Extent(c, i) => m_contextMap[c].Body[k] = Final[k]
BodyInv == \A c \in DOMAIN m_contextMap : BodyAsFar(c)

(* The handler of a result has copied the chunks behind it, and has sent m   *)
(* columns; when it has sent all it is gone.                                *)
CopiedSoFar(w, c) ==
  /\ Len(buf[w]) = NumCols
  /\ \A i \in DOMAIN ExecutionChunks(c) : i < loc[w].i => \A k \in Extent(c, i) : buf[w][k] = Final[k]
Sending(c, m) ==
  \/ CommunicatorFree(c) /\ m = NumCols
  \/ \E w \in Workers : Holds(w, c) /\ wpc[w] = "copy" /\ m = 0 /\ CopiedSoFar(w, c)
  \/ \E w \in Workers : Holds(w, c) /\ wpc[w] = "write" /\ m < NumCols /\ buf[w] = Without(Final, m)

(* A client that has been told Finished, and where its result is.           *)
Served(c) == cpc[c] \in {"size", "body"} \/ (cpc[c] = "ended" /\ status[c] # "Failed")
Pending(c) ==
  /\ cpc[c] = "size" /\ reply[c] = <<>>
  /\ \A w \in Workers : Holds(w, c) => wpc[w] = "result"
Delivering(c, m) ==
  /\ Sending(c, m)
  /\ \/ cpc[c] = "size" /\ reply[c] = Field("size", NumCols) \o First(Final, m)
     \/ cpc[c] = "body" /\ want[c] = NumCols /\ reply[c] = First(Final, m)
Delivered(c) == cpc[c] = "ended" /\ reply[c] = <<>> /\ CommunicatorFree(c)

ResultOf(c) ==
  /\ Served(c) => AllDone(c) /\ (Pending(c) \/ Delivered(c) \/ \E m \in 0 .. NumCols : Delivering(c, m))
  /\ cpc[c] = "status" /\ ToldFinished(c) => CommunicatorFree(c)
ResultInv == \A c \in Clients : ResultOf(c)

(* What a client has noted of its result.                                   *)
OutcomeOf(c) ==
  /\ status[c] = "Finished" => bytes[c] = Final
  /\ cpc[c] \notin {"ended", "left"} => status[c] \in {"Unknown", "InProgress"} /\ bytes[c] = <<>>
  /\ cpc[c] \in {"start", "failed", "submit"} => status[c] = "Unknown"
OutcomeInv == \A c \in Clients : OutcomeOf(c)

-----------------------------------------------------------------------------
(* Bodies and their parts. *)

LEMMA ExecuteUnit ==
  \A k \in 1 .. NumCols : Execute(Body[k]) = Final[k] /\ Execute(Final[k]) = Final[k]
  BY BodyType DEF Final, ExecutedMatrix, Execute

LEMMA FinalType ==
  /\ Final \in Seq(DataUnits) /\ Len(Final) = NumCols /\ NumCols \in Nat \ {0}
  /\ Final # <<>>
  <1>1. NumCols \in Nat \ {0}
    BY MatrixAssumption
  <1>2. \A k \in Nat : [kind |-> "final", half |-> 1, val |-> k] \in DataUnits
    BY KindsHas DEF DataUnits
  <1>3. \A k \in 1 .. NumCols : [kind |-> "final", half |-> 1, val |-> k] \in DataUnits
    <2>1. 1 .. NumCols \subseteq Nat
      BY <1>1
    <2>. QED  BY <1>2, <2>1, Zenon
  <1>4. Final \in [1 .. NumCols -> DataUnits]
    BY <1>3 DEF Final, ExecutedMatrix
  <1>5. Final \in Seq(DataUnits)
    BY <1>1, <1>4, SeqDef
  <1>6. Len(Final) = NumCols
    BY <1>1, <1>4, <1>5, LenProperties
  <1>. QED  BY <1>1, <1>5, <1>6

LEMMA SameSeq ==
  ASSUME NEW T, NEW s \in Seq(T), NEW u \in Seq(T), Len(s) = Len(u), \A k \in 1 .. Len(s) : s[k] = u[k]
  PROVE  s = u
  <1>1. s \in [1 .. Len(s) -> T] /\ u \in [1 .. Len(s) -> T]
    BY LenProperties
  <1>. QED  BY <1>1

LEMMA WholeDomains ==
  ASSUME ServerTypes, NEW c, NEW n, WholeTask(c, n)
  PROVE  /\ c \in Clients /\ DOMAIN ExecutionChunks(c) = 1 .. n
         /\ m_contextMap[c].Body \in Seq(DataUnits) /\ Len(m_contextMap[c].Body) = NumCols
         /\ DOMAIN m_contextMap[c].Body = 1 .. NumCols
  <1>1. c \in Clients /\ m_contextMap[c] \in Contexts
    BY ServerTypesDef DEF WholeTask, AllChunks, PartOfTask, HasTaskContext
  <1>2. Len(ExecutionChunks(c)) = n /\ Len(m_contextMap[c].Body) = NumCols
    BY DEF WholeTask, AllChunks
  <1>. QED  BY <1>1, <1>2, ContextType DEF ExecutionChunks

(* The extent of a chunk is the client's part of the matrix.                 *)
LEMMA ExtentPart ==
  ASSUME NEW c, NEW n \in Nat \ {0}, WholeTask(c, n), NEW i \in 1 .. n
  PROVE  Extent(c, i) = Units(Part(NumCols, n, i - 1))
  <1>1. i - 1 \in 0 .. n - 1
    OBVIOUS
  <1>2. ChunkAsSent(ExecutionChunks(c)[i], n, i)
    BY DEF WholeTask, AllChunks, PartOfTask
  <1>3. ChunkExtent(ExecutionChunks(c)[i]) = ChunkExtent(BodyChunk(n, i - 1))
    BY <1>2 DEF ChunkAsSent, ChunkExtent
  <1>4. ChunkExtent(BodyChunk(n, i - 1)) = Part(NumCols, n, i - 1)
    BY <1>1, ExtentColumns
  <1>. QED  BY <1>3, <1>4 DEF Extent

LEMMA ExtentsCover ==
  ASSUME NEW c, NEW n \in Nat \ {0}, WholeTask(c, n), NEW k \in 1 .. NumCols
  PROVE  \E i \in 1 .. n : k \in Extent(c, i)
  <1>1. NumCols \in Nat /\ k - 1 \in 0 .. NumCols - 1
    BY MatrixAssumption
  <1>2. PICK j \in 0 .. n - 1 : k - 1 \in Part(NumCols, n, j)
    BY <1>1, PartsCover
  <1>3. j + 1 \in 1 .. n /\ (j + 1) - 1 = j /\ (k - 1) + 1 = k
    OBVIOUS
  <1>4. k \in Units(Part(NumCols, n, j))
    BY <1>2, <1>3 DEF Units
  <1>5. Extent(c, j + 1) = Units(Part(NumCols, n, j))
    BY <1>3, ExtentPart
  <1>. QED  BY <1>3, <1>4, <1>5

-----------------------------------------------------------------------------
(* What delegates write. *)

LEMMA DelegateInside ==
  ASSUME WholeRequests, TypeInv, ChunkInv, StreamInv, NEW w \in Workers, wpc[w] = "compute"
  PROVE  /\ Client(w) \in DOMAIN m_contextMap /\ job[w] = Chunk(Client(w), job[w].chunk)
         /\ job[w].chunk \in DOMAIN ExecutionChunks(Client(w))
         /\ DOMAIN m_contextMap[Client(w)].Body = 1 .. NumCols
         /\ Context(w).Header # 0 /\ Columns(w) \subseteq DOMAIN Context(w).Body
         /\ Columns(w) = Extent(Client(w), job[w].chunk)
  <1>1. PICK n \in Partitions : WholeTask(Client(w), n) /\ job[w].chunk \in 1 .. n
    BY DelegateTask DEF ChunkPoints
  <1>2. job[w] = Chunk(Client(w), job[w].chunk)
    BY DelegateTask DEF ChunkPoints
  <1>3. /\ Columns(w) = Units(Part(NumCols, n, job[w].chunk - 1))
        /\ Context(w).Header = NumRows /\ DOMAIN Context(w).Body = 1 .. NumCols
        /\ job[w].chunk - 1 \in 0 .. n - 1 /\ n \in Nat \ {0}
    BY <1>1, DelegatePart
  <1>4. Columns(w) \subseteq DOMAIN Context(w).Body
    BY <1>3, UnitsInside
  <1>5. Columns(w) = Extent(Client(w), job[w].chunk)
    BY <1>1, <1>3, ExtentPart
  <1>6. NumRows # 0
    BY MatrixAssumption DEF NumRows
  <1>7. DOMAIN ExecutionChunks(Client(w)) = 1 .. n /\ DOMAIN m_contextMap[Client(w)].Body = 1 .. NumCols
    BY <1>1, WholeDomains DEF TypeInv, ServerInv
  <1>. QED  BY <1>1, <1>2, <1>3, <1>4, <1>5, <1>6, <1>7 DEF WholeTask, AllChunks, PartOfTask, HasTaskContext

LEMMA OtherContexts ==
  ASSUME NEW w \in Workers, WorkerStep(w) \/ ConnectionReset(w), NEW d, d # Client(w)
  PROVE  /\ d \in DOMAIN m_contextMap' <=> d \in DOMAIN m_contextMap
         /\ d \in DOMAIN m_contextMap => m_contextMap'[d] = m_contextMap[d]
  <1>1. UNCHANGED m_contextMap \/ \E x : SetContext(Client(w), x)
    BY DEF WorkerStep, PoolStep, RequestStep, ChunkStep, ConnectionReset,
      Take, FindEmpty, Wait, NothingRead, IgnoreRequest, ReadTaskSubmition, ReadTaskStatus, ReadTaskResult,
      ReadRequest, StartRequest, ShortRead, ReadHeader, RejectNumChunks, ReadNumChunks, ReadChunk,
      ReadNumBytes, ReadBody, SubmitChunk, ScanChunk, AnswerFinished, WriteNumBytes, CopyChunk, WriteResult,
      StartChunk, ComputeChunk, MarkDone
  <1>. QED  BY <1>1 DEF SetContext

LEMMA ChangedContext ==
  ASSUME NEW w \in Workers, WorkerStep(w) \/ ConnectionReset(w)
  PROVE  \/ UNCHANGED m_contextMap \/ ReadNumChunks(w) \/ ReadChunk(w) \/ ReadBody(w)
         \/ ComputeChunk(w) \/ MarkDone(w)
  BY DEF WorkerStep, PoolStep, RequestStep, ChunkStep, ConnectionReset,
    Take, FindEmpty, Wait, NothingRead, IgnoreRequest, ReadTaskSubmition, ReadTaskStatus, ReadTaskResult,
    ReadRequest, StartRequest, ShortRead, ReadHeader, RejectNumChunks, ReadNumBytes, SubmitChunk,
    ScanChunk, AnswerFinished, WriteNumBytes, CopyChunk, WriteResult, StartChunk

LEMMA ComesToDone ==
  ASSUME SockTypes, ServerInv, NEW w \in Workers, WorkerStep(w) \/ ConnectionReset(w), wpc'[w] = "done"
  PROVE  job'[w] = job[w] /\ (wpc[w] = "done" \/ ComputeChunk(w))
  <1>. ServerTypes /\ JobOK
    BY DEF ServerInv
  <1>1. Control(w)
    BY WorkerControl
  <1>2. Takes(w) => wpc'[w] \in {"work", "chunk"}
    <2>1. Takes(w) => Head(queue) \in Jobs \ {Idle}
      BY HeadTailProperties, ServerTypesDef DEF Takes
    <2>. QED  BY <2>1, JobKinds, WorkFields, ChunkJobFields DEF Takes
  <1>3. job'[w] = job[w] /\ wpc[w] \in ChunkPoints
    BY <1>1, <1>2 DEF Control, Stays, Rests, Ends, Begins, Handles, Executes, HandlerPoints, ChunkPoints
  <1>4. wpc \in [Workers -> Points]
    BY ServerTypesDef
  <1>5. wpc[w] # "chunk"
    <2>1. CASE wpc[w] = "chunk"
      <3>1. StartChunk(w)
        BY <2>1 DEF WorkerStep, PoolStep, RequestStep, ChunkStep, ConnectionReset,
          Take, FindEmpty, Wait, NothingRead, IgnoreRequest, ReadTaskSubmition, ReadTaskStatus, ReadTaskResult,
          ReadRequest, StartRequest, ReadField, ShortRead, ReadHeader, RejectNumChunks, ReadNumChunks, ReadChunk,
          ReadNumBytes, ReadBody, SubmitChunk, ScanChunk, AnswerFinished, WriteNumBytes, CopyChunk, WriteResult,
          StartChunk, ComputeChunk, MarkDone
      <3>. QED  BY <1>4, <3>1 DEF StartChunk, Goto
    <2>. QED  BY <2>1
  <1>6. wpc[w] = "compute" => ComputeChunk(w)
    BY DEF WorkerStep, PoolStep, RequestStep, ChunkStep, ConnectionReset,
      Take, FindEmpty, Wait, NothingRead, IgnoreRequest, ReadTaskSubmition, ReadTaskStatus, ReadTaskResult,
      ReadRequest, StartRequest, ReadField, ShortRead, ReadHeader, RejectNumChunks, ReadNumChunks, ReadChunk,
      ReadNumBytes, ReadBody, SubmitChunk, ScanChunk, AnswerFinished, WriteNumBytes, CopyChunk, WriteResult,
      StartChunk, ComputeChunk, MarkDone
  <1>. QED  BY <1>3, <1>5, <1>6 DEF ChunkPoints

LEMMA WrittenEffect ==
  ASSUME SockTypes, ServerInv, NEW w \in Workers, WorkerStep(w) \/ ConnectionReset(w),
         NEW c \in DOMAIN m_contextMap, NEW i \in DOMAIN ExecutionChunks(c), Written(c, i)'
  PROVE  Written(c, i) \/ (ComputeChunk(w) /\ job[w] = Chunk(c, i))
  <1>. ServerTypes /\ JobOK /\ c \in Clients
    BY ServerTypesDef DEF ServerInv
  <1>1. CASE IsDone(c, i)'
    <2>1. CASE SameChunks(c)
      BY <1>1, <2>1 DEF SameChunks, IsDone, Written, ExecutionChunks
    <2>2. CASE c = Client(w) /\ AddsTask(w)
      BY <2>2 DEF AddsTask
    <2>3. CASE c = Client(w) /\ AddsChunk(w)
      <3>1. PICK one : m_contextMap'[c].ExecutionChunks = Append(m_contextMap[c].ExecutionChunks, one)
        BY <2>3 DEF AddsChunk
      <3>2. m_contextMap[c].ExecutionChunks \in Seq(Chunks)
        BY ServerTypesDef, ContextType
      <3>3. m_contextMap'[c].ExecutionChunks[i] = m_contextMap[c].ExecutionChunks[i]
        BY <3>1, <3>2, AppendAt DEF ExecutionChunks
      <3>. QED  BY <1>1, <3>3 DEF IsDone, Written, ExecutionChunks
    <2>4. CASE c = Client(w) /\ MarksChunk(w)
      <3>1. CASE i = job[w].chunk
        <4>1. PICK d \in Clients, j \in 1 .. MaxChunks : job[w] = Chunk(d, j)
          BY <2>4 DEF MarksChunk, JobOK, ChunkPoints
        <4>2. job[w] = Chunk(c, i)
          BY <2>4, <3>1, <4>1, ChunkJobFields DEF Client
        <4>. QED  BY <2>4, <4>2 DEF MarksChunk, Written
      <3>2. CASE i # job[w].chunk
        BY <1>1, <2>4, <3>2 DEF MarksChunk, IsDone, Written, ExecutionChunks
      <3>. QED  BY <3>1, <3>2
    <2>. QED  BY <2>1, <2>2, <2>3, <2>4, ChunkEffect
  <1>2. CASE \E v \in Workers : job'[v] = Chunk(c, i) /\ wpc'[v] = "done"
    <2>1. PICK v \in Workers : job'[v] = Chunk(c, i) /\ wpc'[v] = "done"
      BY <1>2
    <2>2. CASE v = w
      BY <2>1, <2>2, ComesToDone DEF Written
    <2>3. CASE v # w
      <3>1. job'[v] = job[v] /\ wpc'[v] = wpc[v]
        BY <2>1, <2>3, WorkerControl DEF Control, Others
      <3>. QED  BY <2>1, <3>1 DEF Written
    <2>. QED  BY <2>2, <2>3
  <1>. QED  BY <1>1, <1>2 DEF Written

(* Nothing is written while the body is being read.                          *)
LEMMA NothingWritten ==
  ASSUME ChunkInv, NEW c \in DOMAIN m_contextMap, NEW i \in DOMAIN ExecutionChunks(c), Submitting(c)
  PROVE  ~Written(c, i)
  BY DEF ChunkInv, PresentUntilDone, Present, Written, NotYet

-----------------------------------------------------------------------------
(* The body, step by step. *)

LEMMA KeepsBody ==
  ASSUME NEW c, BodyAsFar(c), m_contextMap'[c].Body = m_contextMap[c].Body,
         DOMAIN ExecutionChunks(c)' = DOMAIN ExecutionChunks(c),
         \A i \in DOMAIN ExecutionChunks(c) :
           Extent(c, i)' = Extent(c, i) /\ (Written(c, i)' => Written(c, i))
  PROVE  BodyAsFar(c)'
  <1>1. \A k \in DOMAIN m_contextMap'[c].Body : m_contextMap'[c].Body[k] \in {Body[k], Final[k]}
    BY DEF BodyAsFar
  <1>2. ASSUME NEW k \in DOMAIN m_contextMap'[c].Body, NEW i \in DOMAIN ExecutionChunks(c)',
               Written(c, i)', k \in Extent(c, i)'
        PROVE  m_contextMap'[c].Body[k] = Final[k]
    BY <1>2 DEF BodyAsFar
  <1>3. Body' = Body /\ Final' = Final
    BY DEF Body, Final, ExecutedMatrix
  <1>. QED  BY <1>1, <1>2, <1>3 DEF BodyAsFar

LEMMA ComputeBody ==
  ASSUME WholeRequests, TypeInv, ChunkInv, StreamInv, BodyInv, NEW w \in Workers, ComputeChunk(w),
         NEW c, c = Client(w)
  PROVE  /\ SetContext(c, [Context(w) EXCEPT !.Body =
               [k \in DOMAIN @ |-> IF k \in Columns(w) THEN Execute(@[k]) ELSE @[k]]])
         /\ BodyAsFar(c)'
  <1>. SockTypes /\ ServerInv /\ ServerTypes
    BY DEF TypeInv, ServerInv
  <1>1. c = Client(w)
    OBVIOUS
  <1>2. wpc[w] = "compute"
    BY DEF ComputeChunk
  <1>3. /\ c \in DOMAIN m_contextMap /\ job[w] = Chunk(c, job[w].chunk)
        /\ job[w].chunk \in DOMAIN ExecutionChunks(c)
        /\ DOMAIN m_contextMap[c].Body = 1 .. NumCols
        /\ Context(w).Header # 0 /\ Columns(w) \subseteq DOMAIN Context(w).Body
        /\ Columns(w) = Extent(c, job[w].chunk)
    BY <1>1, <1>2, DelegateInside
  <1>4. SetContext(c, [Context(w) EXCEPT !.Body =
               [k \in DOMAIN @ |-> IF k \in Columns(w) THEN Execute(@[k]) ELSE @[k]]])
    BY <1>1, <1>3 DEF ComputeChunk
  <1>5. PICK body : body = [k \in DOMAIN m_contextMap[c].Body |->
                 IF k \in Columns(w) THEN Execute(m_contextMap[c].Body[k]) ELSE m_contextMap[c].Body[k]]
    OBVIOUS
  <1>6. m_contextMap'[c].Body = body /\ ExecutionChunks(c)' = ExecutionChunks(c)
    <2>1. m_contextMap'[c] = [m_contextMap[c] EXCEPT !.Body = body]
      BY <1>1, <1>4, <1>5 DEF SetContext, Context
    <2>2. m_contextMap[c] \in Contexts
      BY <1>3, ServerTypesDef
    <2>. QED  BY <2>1, <2>2 DEF Contexts, ExecutionChunks
  <1>7. BodyAsFar(c)
    BY <1>3 DEF BodyInv
  <1>8. \A k \in 1 .. NumCols : m_contextMap[c].Body[k] \in {Body[k], Final[k]}
    BY <1>3, <1>7 DEF BodyAsFar
  <1>9. \A k \in 1 .. NumCols :
          /\ body[k] \in {Body[k], Final[k]}
          /\ k \in Columns(w) \/ m_contextMap[c].Body[k] = Final[k] => body[k] = Final[k]
    BY <1>3, <1>5, <1>8, ExecuteUnit
  <1>10. ASSUME NEW k \in 1 .. NumCols, NEW i \in DOMAIN ExecutionChunks(c), Written(c, i)', k \in Extent(c, i)
         PROVE  body[k] = Final[k]
    <2>1. CASE Written(c, i)
      BY <1>3, <1>7, <1>9, <1>10, <2>1 DEF BodyAsFar
    <2>2. CASE job[w] = Chunk(c, i)
      <3>1. i = job[w].chunk
        BY <2>2, ChunkJobFields
      <3>. QED  BY <1>3, <1>9, <1>10, <3>1
    <2>3. WorkerStep(w)
      BY DEF WorkerStep, ChunkStep
    <2>. QED  BY <1>3, <1>10, <2>1, <2>2, <2>3, WrittenEffect
  <1>11. DOMAIN body = 1 .. NumCols
    BY <1>3, <1>5
  <1>12. Body' = Body /\ Final' = Final
    BY DEF Body, Final, ExecutedMatrix
  <1>13. \A i : Extent(c, i)' = Extent(c, i)
    BY <1>6 DEF Extent
  <1>14. BodyAsFar(c)'
    BY <1>6, <1>9, <1>10, <1>11, <1>12, <1>13 DEF BodyAsFar
  <1>. QED  BY <1>1, <1>4, <1>14

(* The bytes that come next are those of the client's matrix.                *)
LEMMA ReadBodyUnits ==
  ASSUME WholeRequests, TypeInv, ChunkInv, StreamInv, BodyInv, NEW w \in Workers, ReadBody(w),
         NEW c, c = Client(w)
  PROVE  BodyAsFar(c)'
  <1>. SockTypes /\ ServerInv /\ ServerTypes /\ JobOK
    BY DEF TypeInv, ServerInv
  <1>1. WorkerStep(w) /\ wpc[w] = "body"
    BY DEF WorkerStep, RequestStep, ReadBody, ReadField
  <1>2. c \in Clients /\ Holds(w, c) /\ Serves(w, c) /\ HasTaskContext(c)
    BY <1>1, WorkerClient DEF HandlerPoints, Holds, Serves, ServerInv, HandlerOK, HandlerAt
  <1>3. PICK n \in Partitions : Stream(c, n)
    BY <1>2 DEF StreamInv, ClientStream, Silent
  <1>4. n \in Nat \ {0}
    BY PartitionSize
  <1>5. PICK next \in Questions, r \in Nat : Arrived(c, n, next, r) /\ Progress(c, n, r)
    BY <1>3 DEF Stream
  <1>6. Reading(w, c, n, r)
    BY <1>1, <1>2, <1>5, Alone
  <1>7. PICK m : m = Len(m_contextMap[c].Body)
    OBVIOUS
  <1>8. r = HeadLen(n) + m /\ m <= NumCols /\ loc[w].num = NumCols
    BY <1>1, <1>6, <1>7 DEF Reading
  <1>9. /\ Context(w) = m_contextMap[c] /\ Sock(w) = sock[c] /\ m_contextMap[c] \in Contexts
        /\ m_contextMap[c].Body \in Seq(DataUnits) /\ m \in Nat
    BY <1>2, <1>7, ServedClient
  <1>10. NumCols \in Nat /\ HeadLen(n) \in Nat /\ TaskLen(n) = HeadLen(n) + NumCols /\ TaskLen(n) \in Nat
    BY <1>4, Sizes
  <1>11. PICK got : got = Read(w, NumCols - m)
    OBVIOUS
  <1>12. sock[c] \in Seq(DataUnits) /\ Len(sock[c]) \in Nat
    BY <1>2, SockTypesDef, LenProperties
  <1>13. /\ got \in Seq(DataUnits) /\ Len(got) \in Nat /\ Len(got) <= NumCols - m /\ Len(got) <= Len(sock[c])
         /\ \A k \in 1 .. Len(got) : got[k] = sock[c][k]
    <2>1. PICK q : q = IF Len(sock[c]) < NumCols - m THEN Len(sock[c]) ELSE NumCols - m
      OBVIOUS
    <2>2. q \in Nat /\ q <= Len(sock[c]) /\ q <= NumCols - m
      BY <1>8, <1>9, <1>10, <1>12, <2>1
    <2>3. got = First(sock[c], q)
      BY <1>9, <1>11, <2>1 DEF Read
    <2>4. got \in Seq(DataUnits) /\ Len(got) = q /\ \A k \in 1 .. q : got[k] = sock[c][k]
      BY <1>12, <2>2, <2>3, TakingData
    <2>. QED  BY <2>2, <2>4
  <1>14. PICK body : body = m_contextMap[c].Body \o got
    OBVIOUS
  <1>15. /\ DOMAIN body = 1 .. m + Len(got)
         /\ \A k \in 1 .. m : body[k] = m_contextMap[c].Body[k]
         /\ \A k \in 1 .. Len(got) : body[m + k] = sock[c][k]
    <2>1. body \in Seq(DataUnits) /\ Len(body) = m + Len(got)
      BY <1>7, <1>9, <1>13, <1>14, JoiningData
    <2>2. \A k \in 1 .. m : body[k] = m_contextMap[c].Body[k]
      BY <1>7, <1>9, <1>13, <1>14, JoiningData
    <2>3. \A k \in 1 .. Len(got) : body[m + k] = got[k]
      BY <1>7, <1>9, <1>13, <1>14, JoiningData
    <2>. QED  BY <1>13, <2>1, <2>2, <2>3, LenProperties
  <1>16. m_contextMap'[c].Body = body /\ ExecutionChunks(c)' = ExecutionChunks(c)
    <2>1. m_contextMap'[c] = [m_contextMap[c] EXCEPT !.Body = body]
      BY <1>8, <1>9, <1>7, <1>11, <1>14 DEF ReadBody, SetContext
    <2>. QED  BY <1>9, <2>1 DEF Contexts, ExecutionChunks
  <1>17. \A k \in 1 .. m : m_contextMap[c].Body[k] \in {Body[k], Final[k]}
    <2>1. DOMAIN m_contextMap[c].Body = 1 .. m
      BY <1>7, <1>9, LenProperties
    <2>. QED  BY <1>2, <2>1 DEF BodyInv, BodyAsFar, HasTaskContext
  <1>18. ASSUME NEW k \in 1 .. Len(got)
         PROVE  sock[c][k] = Body[m + k]
    <2>1. k \in 1 .. Len(sock[c]) /\ r + k = HeadLen(n) + (m + k) /\ m + k \in 1 .. NumCols
          /\ r + k \in 1 .. TaskLen(n)
      BY <1>8, <1>9, <1>10, <1>12, <1>13
    <2>2. sock[c][k] = Sent(n, next)[r + k]
      BY <1>5, <2>1 DEF Arrived
    <2>3. Sent(n, next)[r + k] = Submission(n)[r + k]
      BY <1>4, <2>1, SentAt
    <2>4. \A x \in 1 .. NumCols : Submission(n)[HeadLen(n) + x] = Body[x]
      BY <1>4, SubmissionAt
    <2>. QED  BY <2>1, <2>2, <2>3, <2>4
  <1>19. \A k \in DOMAIN body : body[k] \in {Body[k], Final[k]}
    <2>1. SUFFICES ASSUME NEW k \in 1 .. m + Len(got)
                   PROVE  body[k] \in {Body[k], Final[k]}
      BY <1>15
    <2>2. CASE k \in 1 .. m
      BY <1>15, <1>17, <2>2
    <2>3. CASE k \notin 1 .. m
      <3>1. PICK j \in 1 .. Len(got) : k = m + j
        <4>1. k - m \in 1 .. Len(got) /\ k = m + (k - m)
          BY <1>9, <1>13, <2>3
        <4>. QED  BY <4>1
      <3>. QED  BY <1>15, <1>18, <3>1
    <2>. QED  BY <2>2, <2>3
  <1>20. \A i \in DOMAIN ExecutionChunks(c) : ~Written(c, i)'
    <2>1. Submitting(c)
      BY <1>1, <1>2 DEF Submitting
    <2>2. ~ComputeChunk(w)
      BY <1>1 DEF ComputeChunk
    <2>. QED  BY <1>1, <1>2, <2>1, <2>2, NothingWritten, WrittenEffect DEF HasTaskContext
  <1>21. Body' = Body /\ Final' = Final
    BY DEF Body, Final, ExecutedMatrix
  <1>. QED  BY <1>16, <1>19, <1>20, <1>21 DEF BodyAsFar

(* A new task has no body; one that gets its chunks has none yet.            *)
LEMMA EmptyBody ==
  ASSUME WholeRequests, TypeInv, ChunkInv, StreamInv, NEW w \in Workers, ReadNumChunks(w) \/ ReadChunk(w),
         NEW c, c = Client(w)
  PROVE  BodyAsFar(c)'
  <1>. SockTypes /\ ServerInv /\ ServerTypes /\ JobOK
    BY DEF TypeInv, ServerInv
  <1>1. WorkerStep(w) /\ wpc[w] \in {"count", "chunks"}
    BY DEF WorkerStep, RequestStep, ReadNumChunks, ReadChunk, ReadField
  <1>2. c \in Clients /\ Holds(w, c) /\ Serves(w, c)
    BY <1>1, WorkerClient DEF HandlerPoints, Holds, Serves
  <1>3. CASE ReadNumChunks(w)
    <2>1. m_contextMap'[c].Body = <<>>
      BY <1>3 DEF ReadNumChunks, SetContext, TaskContext
    <2>2. DOMAIN m_contextMap'[c].Body = {}
      BY <2>1
    <2>. QED  BY <2>2 DEF BodyAsFar
  <1>4. CASE ReadChunk(w)
    <2>1. wpc[w] = "chunks" /\ HasTaskContext(c)
      BY <1>2, <1>4 DEF ReadChunk, ReadField, ServerInv, HandlerOK, HandlerAt, HandlerPoints
    <2>2. PICK n \in Partitions : Stream(c, n)
      BY <1>2, <2>1 DEF StreamInv, ClientStream, Silent
    <2>3. PICK next \in Questions, r \in Nat : Progress(c, n, r)
      BY <2>2 DEF Stream
    <2>4. Len(m_contextMap[c].Body) = 0
      BY <1>1, <1>2, <2>1, <2>3, Alone DEF Reading
    <2>5. m_contextMap[c] \in Contexts /\ Context(w) = m_contextMap[c] /\ m_contextMap[c].Body \in Seq(DataUnits)
      BY <1>2, <2>1, ServedClient
    <2>6. m_contextMap'[c].Body = m_contextMap[c].Body
      <3>1. PICK x : m_contextMap'[c] = [m_contextMap[c] EXCEPT !.ExecutionChunks = x]
        BY <1>4, <2>5 DEF ReadChunk, SetContext
      <3>. QED  BY <2>5, <3>1 DEF Contexts
    <2>7. DOMAIN m_contextMap'[c].Body = {}
      BY <2>4, <2>5, <2>6, LenProperties
    <2>. QED  BY <2>7 DEF BodyAsFar
  <1>. QED  BY <1>3, <1>4

(* To mark a chunk changes neither the body nor where its chunks are.        *)
LEMMA MarkBody ==
  ASSUME TypeInv, BodyInv, NEW w \in Workers, MarkDone(w), NEW c, c = Client(w)
  PROVE  BodyAsFar(c)'
  <1>. SockTypes /\ ServerInv /\ ServerTypes /\ JobOK
    BY DEF TypeInv, ServerInv
  <1>1. WorkerStep(w) /\ MarksChunk(w)
    BY ChunkEffect DEF WorkerStep, ChunkStep
  <1>2. c \in DOMAIN m_contextMap /\ job[w].chunk \in DOMAIN ExecutionChunks(c)
    BY <1>1 DEF MarksChunk, ExecutionChunks
  <1>3. m_contextMap[c] \in Contexts
    BY <1>2, ServerTypesDef
  <1>4. PICK i : i = job[w].chunk
    OBVIOUS
  <1>5. m_contextMap'[c] = [m_contextMap[c] EXCEPT !.ExecutionChunks[i].State = "Done"]
    BY <1>4 DEF MarkDone, SetContext, Context
  <1>6. i \in 1 .. Len(m_contextMap[c].ExecutionChunks) /\ DOMAIN ExecutionChunks(c) = 1 .. Len(ExecutionChunks(c))
    BY <1>2, <1>3, <1>4, ContextType DEF ExecutionChunks
  <1>a. PICK x : x = m_contextMap[c]
    OBVIOUS
  <1>b. PICK y : y = [x EXCEPT !.ExecutionChunks[i].State = "Done"]
    OBVIOUS
  <1>c. /\ y \in Contexts /\ y.Body = x.Body
        /\ Len(y.ExecutionChunks) = Len(x.ExecutionChunks)
        /\ y.ExecutionChunks[i] = [x.ExecutionChunks[i] EXCEPT !.State = "Done"]
        /\ \A j \in 1 .. Len(x.ExecutionChunks) : j # i => y.ExecutionChunks[j] = x.ExecutionChunks[j]
    <2>1. x \in Contexts /\ i \in 1 .. Len(x.ExecutionChunks)
      BY <1>3, <1>6, <1>a DEF ExecutionChunks
    <2>2. LET z == [x EXCEPT !.ExecutionChunks[i].State = "Done"]
          IN  /\ z \in Contexts /\ z.Body = x.Body /\ z.Header = x.Header
              /\ Len(z.ExecutionChunks) = Len(x.ExecutionChunks)
              /\ z.ExecutionChunks[i] = [x.ExecutionChunks[i] EXCEPT !.State = "Done"]
              /\ \A j \in 1 .. Len(x.ExecutionChunks) : j # i => z.ExecutionChunks[j] = x.ExecutionChunks[j]
      BY <2>1, MarkChunk
    <2>. QED  BY <1>b, <2>2
  <1>d. y = m_contextMap'[c]
    BY <1>5, <1>a, <1>b
  <1>7. /\ m_contextMap'[c].Body = m_contextMap[c].Body /\ m_contextMap'[c] \in Contexts
        /\ Len(ExecutionChunks(c)') = Len(ExecutionChunks(c))
        /\ ExecutionChunks(c)'[i] = [ExecutionChunks(c)[i] EXCEPT !.State = "Done"]
        /\ \A j \in 1 .. Len(ExecutionChunks(c)) : j # i => ExecutionChunks(c)'[j] = ExecutionChunks(c)[j]
    BY <1>a, <1>c, <1>d DEF ExecutionChunks
  <1>8. DOMAIN ExecutionChunks(c)' = DOMAIN ExecutionChunks(c)
    BY <1>6, <1>7, ContextType DEF ExecutionChunks
  <1>9. ASSUME NEW j \in DOMAIN ExecutionChunks(c)
        PROVE  Extent(c, j)' = Extent(c, j)
    <2>1. CASE j = i
      <3>1. ExecutionChunks(c)[i] \in Chunks
        BY <1>3, <1>6, ContextType, ElementOfSeq DEF ExecutionChunks
      <3>2. /\ ExecutionChunks(c)'[i].NumBytes = ExecutionChunks(c)[i].NumBytes
            /\ ExecutionChunks(c)'[i].BufferOffsetInBytes = ExecutionChunks(c)[i].BufferOffsetInBytes
        BY <1>7, <3>1 DEF Chunks
      <3>. QED  BY <2>1, <3>2 DEF Extent, ChunkExtent
    <2>2. CASE j # i
      BY <1>6, <1>7, <2>2 DEF Extent
    <2>. QED  BY <2>1, <2>2
  <1>10. \A j \in DOMAIN ExecutionChunks(c) : Written(c, j)' => Written(c, j)
    <2>1. ~ComputeChunk(w)
      BY DEF ComputeChunk, MarkDone
    <2>. QED  BY <1>1, <1>2, <2>1, WrittenEffect
  <1>. QED  BY <1>2, <1>7, <1>8, <1>9, <1>10, KeepsBody DEF BodyInv

(* The poll thread has nothing to do with tasks and handlers.                *)
LEMMA PollQuiet ==
  ASSUME SockTypes, ServerInv, InitStep \/ PollStep \/ AcceptFails
  PROVE  /\ UNCHANGED <<job, loc, buf, m_contextMap>>
         /\ \A w \in Workers : wpc'[w] = wpc[w] \/ (wpc[w] \in PoolPoints /\ wpc'[w] = "ready")
  <1>. ServerTypes
    BY DEF ServerInv
  <1>1. CASE StartListening \/ StartClientThread \/ PollRwClients \/ AcceptFails
    BY <1>1 DEF StartListening, StartClientThread, PollRwClients, AcceptFails
  <1>2. CASE MakePool
    <2>1. \A w \in Workers : wpc[w] \in PoolPoints
      BY <1>2 DEF MakePool, ServerInv, PoolUnborn, PoolPoints
    <2>. QED  BY <1>2, <2>1 DEF MakePool
  <1>3. CASE SubmitWork
    <2>1. UNCHANGED <<job, loc, buf, m_contextMap>>
      BY <1>3 DEF SubmitWork
    <2>2. \A w \in Workers : wpc'[w] = wpc[w] \/ (wpc[w] \in PoolPoints /\ wpc'[w] = "ready")
      BY <1>3, NotifyType, ServerTypesDef DEF SubmitWork, PoolPoints
    <2>. QED  BY <2>1, <2>2
  <1>. QED  BY <1>1, <1>2, <1>3 DEF InitStep, PollStep

LEMMA QuietBody ==
  ASSUME BodyInv, UNCHANGED <<job, m_contextMap>>,
         \A w \in Workers : wpc'[w] = wpc[w] \/ (wpc[w] \in PoolPoints /\ wpc'[w] = "ready")
  PROVE  BodyInv'
  <1>1. SUFFICES ASSUME NEW c \in DOMAIN m_contextMap PROVE BodyAsFar(c)'
    BY DEF BodyInv
  <1>2. \A i : Written(c, i)' => Written(c, i)
    BY DEF Written, IsDone, ExecutionChunks
  <1>3. DOMAIN ExecutionChunks(c)' = DOMAIN ExecutionChunks(c) /\ \A i : Extent(c, i)' = Extent(c, i)
    BY DEF ExecutionChunks, Extent
  <1>. QED  BY <1>1, <1>2, <1>3, KeepsBody DEF BodyInv

LEMMA WorkerBody ==
  ASSUME WholeRequests, TypeInv, ChunkInv, StreamInv, BodyInv, NEW w \in Workers, WorkerStep(w) \/ ConnectionReset(w)
  PROVE  BodyInv'
  <1>. SockTypes /\ ServerInv
    BY DEF TypeInv
  <1>. SUFFICES ASSUME NEW d \in DOMAIN m_contextMap' PROVE BodyAsFar(d)'
    BY DEF BodyInv
  <1>1. ASSUME d \in DOMAIN m_contextMap, m_contextMap'[d] = m_contextMap[d],
               ~(ComputeChunk(w) /\ d = Client(w))
        PROVE  BodyAsFar(d)'
    <2>1. \A i \in DOMAIN ExecutionChunks(d) : Written(d, i)' => Written(d, i)
      <3>1. \A i : job[w] = Chunk(d, i) => Client(w) = d
        BY ChunkJobFields DEF Client
      <3>. QED  BY <1>1, <3>1, WrittenEffect
    <2>2. DOMAIN ExecutionChunks(d)' = DOMAIN ExecutionChunks(d) /\ \A i : Extent(d, i)' = Extent(d, i)
      BY <1>1 DEF ExecutionChunks, Extent
    <2>. QED  BY <1>1, <2>1, <2>2, KeepsBody DEF BodyInv
  <1>2. CASE d # Client(w)
    BY <1>1, <1>2, OtherContexts
  <1>3. CASE d = Client(w)
    <2>1. CASE ComputeChunk(w)
      BY <1>3, <2>1, ComputeBody
    <2>2. CASE ReadNumChunks(w) \/ ReadChunk(w)
      BY <1>3, <2>2, EmptyBody
    <2>3. CASE ReadBody(w)
      BY <1>3, <2>3, ReadBodyUnits
    <2>4. CASE MarkDone(w)
      BY <1>3, <2>4, MarkBody
    <2>5. CASE UNCHANGED m_contextMap
      BY <1>1, <2>1, <2>5
    <2>. QED  BY <2>1, <2>2, <2>3, <2>4, <2>5, ChangedContext
  <1>. QED  BY <1>2, <1>3

LEMMA NextBody ==
  ASSUME WholeRequests, TypeInv, ChunkInv, StreamInv, BodyInv, [Next]_vars
  PROVE  BodyInv'
  <1>1. CASE UNCHANGED serverVars
    BY <1>1, QuietBody DEF serverVars
  <1>2. CASE ServerSide
    <2>1. CASE InitStep \/ PollStep \/ AcceptFails
      BY <2>1, PollQuiet, QuietBody DEF TypeInv
    <2>. QED  BY <1>2, <2>1, WorkerBody DEF ServerSide, ServerStep
  <1>. QED  BY <1>1, <1>2 DEF Next, ClientSide, Network, Over, vars

LEMMA BodyInvariant ==
  ASSUME WholeRequests
  PROVE  Spec => [](TypeInv /\ ChunkInv /\ StreamInv /\ BodyInv)
  <1>1. Init => BodyInv
    BY DEF Init, ServerInit, BodyInv
  <1>2. TypeInv /\ ChunkInv /\ StreamInv /\ BodyInv /\ [Next]_vars => BodyInv'
    BY NextBody
  <1>. QED  BY <1>1, <1>2, ChunkInvariant, StreamInvariant, PTL DEF Spec

-----------------------------------------------------------------------------
(* A task that is done stays as it is.                                       *)

(* Then its body is executed. *)
LEMMA FinalBody ==
  ASSUME ServerTypes, NEW c, NEW n \in Nat \ {0}, WholeTask(c, n), AllDone(c), BodyInv
  PROVE  m_contextMap[c].Body = Final
  <1>1. /\ c \in DOMAIN m_contextMap /\ DOMAIN ExecutionChunks(c) = 1 .. n
        /\ m_contextMap[c].Body \in Seq(DataUnits) /\ Len(m_contextMap[c].Body) = NumCols
        /\ DOMAIN m_contextMap[c].Body = 1 .. NumCols
    BY WholeDomains DEF AllDone, HasTaskContext
  <1>2. ASSUME NEW k \in 1 .. NumCols PROVE m_contextMap[c].Body[k] = Final[k]
    <2>1. PICK i \in 1 .. n : k \in Extent(c, i)
      BY ExtentsCover
    <2>. QED  BY <1>1, <2>1 DEF AllDone, Written, BodyInv, BodyAsFar
  <1>. QED  BY <1>1, <1>2, FinalType, SameSeq

(* Only the handler of a submission, or a delegate, changes a task; there is *)
(* none for a task that is done.                                            *)
LEMMA FrozenTask ==
  ASSUME SockTypes, ServerInv, ChunkInv, NEW w \in Workers, WorkerStep(w) \/ ConnectionReset(w),
         NEW c, AllDone(c), ~(Holds(w, c) /\ wpc[w] \in {"count", "chunks", "body"})
  PROVE  c \in DOMAIN m_contextMap' /\ m_contextMap'[c] = m_contextMap[c]
  <1>. ServerTypes /\ JobOK
    BY DEF ServerInv
  <1>1. c \in DOMAIN m_contextMap
    BY DEF AllDone, HasTaskContext
  <1>2. CASE c # Client(w)
    BY <1>1, <1>2, OtherContexts
  <1>3. CASE c = Client(w)
    <2>1. ~(ComputeChunk(w) \/ MarkDone(w))
      <3>1. SUFFICES ASSUME ComputeChunk(w) \/ MarkDone(w) PROVE FALSE
        OBVIOUS
      <3>2. wpc[w] \in ChunkPoints
        BY <3>1 DEF ComputeChunk, MarkDone, ChunkPoints
      <3>3. PICK d \in Clients, i \in 1 .. MaxChunks : job[w] = Chunk(d, i)
        BY <3>2 DEF JobOK
      <3>4. d = c /\ job[w].what = "chunk" /\ job[w].client = c /\ job[w].chunk = i
        BY <1>3, <3>3, ChunkJobFields DEF Client
      <3>5. i \in DOMAIN ExecutionChunks(c)
        BY <3>4 DEF ServerInv, ChunksKnown, Known
      <3>6. Present(c, i)
        BY <3>3, <3>4 DEF Present
      <3>. QED  BY <1>1, <3>5, <3>6 DEF ChunkInv, PresentUntilDone, AllDone
    <2>2. ~(ReadNumChunks(w) \/ ReadChunk(w) \/ ReadBody(w))
      BY <1>3 DEF ReadNumChunks, ReadChunk, ReadBody, ReadField, Holds, HandlerPoints
    <2>. QED  BY <1>1, <2>1, <2>2, ChangedContext
  <1>. QED  BY <1>2, <1>3

-----------------------------------------------------------------------------
(* Taking a sequence in parts. *)

LEMMA AllOrNothing ==
  ASSUME NEW s \in Seq(DataUnits)
  PROVE  First(s, 0) = <<>> /\ Without(s, 0) = s /\ First(s, Len(s)) = s /\ Without(s, Len(s)) = <<>>
  <1>1. Len(s) \in Nat /\ 0 \in Nat /\ 0 <= Len(s)
    BY LenProperties
  <1>2. First(s, 0) \in Seq(DataUnits) /\ Len(First(s, 0)) = 0
    BY <1>1, TakingData
  <1>3. Without(s, 0) \in Seq(DataUnits) /\ Len(Without(s, 0)) = Len(s) - 0
    BY <1>1, TakingData
  <1>4. \A k \in 1 .. Len(s) - 0 : Without(s, 0)[k] = s[0 + k]
    BY <1>1, TakingData
  <1>5. Without(s, 0) = s
    <2>1. \A k \in 1 .. Len(s) : Without(s, 0)[k] = s[k]
      BY <1>1, <1>4
    <2>2. Len(Without(s, 0)) = Len(s)
      BY <1>1, <1>3
    <2>. QED  BY <1>3, <2>1, <2>2, SameSeq
  <1>6. First(s, Len(s)) = s
    <2>1. PICK n \in Nat : n = Len(s)
      BY <1>1
    <2>2. n <= Len(s)
      BY <2>1
    <2>3. First(s, n) \in Seq(DataUnits) /\ Len(First(s, n)) = n /\ \A k \in 1 .. n : First(s, n)[k] = s[k]
      BY <2>2, TakingData
    <2>. QED  BY <2>1, <2>3, SameSeq
  <1>7. Without(s, Len(s)) \in Seq(DataUnits) /\ Len(Without(s, Len(s))) = Len(s) - Len(s)
    BY <1>1, TakingData
  <1>8. Len(s) - Len(s) = 0
    BY <1>1
  <1>. QED  BY <1>2, <1>5, <1>6, <1>7, <1>8, EmptySeq

LEMMA TakingOn ==
  ASSUME NEW s \in Seq(DataUnits), NEW m \in Nat, NEW k \in Nat, m + k <= Len(s)
  PROVE  /\ First(s, m) \o First(Without(s, m), k) = First(s, m + k)
         /\ Without(Without(s, m), k) = Without(s, m + k)
         /\ Len(Without(s, m)) = Len(s) - m
  <1>1. Len(s) \in Nat /\ m <= Len(s) /\ m + k \in Nat /\ k <= Len(s) - m
    BY LenProperties
  <1>2. PICK a, b : a = First(s, m) /\ b = Without(s, m)
    OBVIOUS
  <1>3. /\ a \in Seq(DataUnits) /\ Len(a) = m /\ \A j \in 1 .. m : a[j] = s[j]
        /\ b \in Seq(DataUnits) /\ Len(b) = Len(s) - m /\ \A j \in 1 .. Len(s) - m : b[j] = s[m + j]
    BY <1>1, <1>2, TakingData
  <1>4. PICK d, e : d = First(b, k) /\ e = Without(b, k)
    OBVIOUS
  <1>5. k <= Len(b)
    BY <1>1, <1>3
  <1>6. /\ d \in Seq(DataUnits) /\ Len(d) = k /\ \A j \in 1 .. k : d[j] = b[j]
        /\ e \in Seq(DataUnits) /\ Len(e) = Len(b) - k /\ \A j \in 1 .. Len(b) - k : e[j] = b[k + j]
    BY <1>3, <1>4, <1>5, TakingData
  <1>7. PICK f, g : f = First(s, m + k) /\ g = Without(s, m + k)
    OBVIOUS
  <1>8. /\ f \in Seq(DataUnits) /\ Len(f) = m + k /\ \A j \in 1 .. m + k : f[j] = s[j]
        /\ g \in Seq(DataUnits) /\ Len(g) = Len(s) - (m + k)
        /\ \A j \in 1 .. Len(s) - (m + k) : g[j] = s[(m + k) + j]
    BY <1>1, <1>7, TakingData
  <1>9. a \o d = f
    <2>1. PICK h : h = a \o d
      OBVIOUS
    <2>2. /\ h \in Seq(DataUnits) /\ Len(h) = m + k
          /\ \A j \in 1 .. m : h[j] = a[j]
          /\ \A j \in 1 .. k : h[m + j] = d[j]
      <3>1. /\ h \in Seq(DataUnits) /\ Len(h) = Len(a) + Len(d)
            /\ \A j \in 1 .. Len(a) : h[j] = a[j]
            /\ \A j \in 1 .. Len(d) : h[Len(a) + j] = d[j]
        <4>1. a \in Seq(DataUnits) /\ d \in Seq(DataUnits)
          BY <1>3, <1>6
        <4>. QED  BY <2>1, <4>1, JoiningData
      <3>. QED  BY <1>3, <1>6, <3>1
    <2>3. ASSUME NEW j \in 1 .. m + k PROVE h[j] = f[j]
      <3>1. CASE j \in 1 .. m
        BY <1>3, <1>8, <2>2, <3>1
      <3>2. CASE j \notin 1 .. m
        <4>1. PICK i \in 1 .. k : j = m + i /\ i \in 1 .. Len(s) - m
          <5>1. j - m \in 1 .. k /\ j = m + (j - m) /\ j - m \in 1 .. Len(s) - m
            BY <1>1, <3>2
          <5>. QED  BY <5>1
        <4>2. h[j] = d[i] /\ d[i] = b[i] /\ b[i] = s[m + i]
          BY <1>3, <1>6, <2>2, <4>1
        <4>. QED  BY <1>8, <2>3, <4>1, <4>2
      <3>. QED  BY <3>1, <3>2
    <2>. QED  BY <1>8, <2>1, <2>2, <2>3, SameSeq
  <1>10. e = g
    <2>1. Len(e) = Len(g) /\ Len(e) \in Nat /\ Len(b) - k = Len(e)
      BY <1>1, <1>3, <1>6, <1>8
    <2>2. ASSUME NEW j \in 1 .. Len(e) PROVE e[j] = g[j]
      <3>1. /\ j \in 1 .. Len(b) - k /\ k + j \in 1 .. Len(s) - m /\ j \in 1 .. Len(s) - (m + k)
            /\ m + (k + j) = (m + k) + j
        BY <1>1, <1>3, <2>1
      <3>2. e[j] = b[k + j]
        BY <1>6, <3>1
      <3>3. b[k + j] = s[m + (k + j)]
        BY <1>3, <3>1
      <3>4. g[j] = s[(m + k) + j]
        BY <1>8, <3>1
      <3>. QED  BY <3>1, <3>2, <3>3, <3>4
    <2>. QED  BY <1>6, <1>8, <2>1, <2>2, SameSeq
  <1>. QED  BY <1>2, <1>3, <1>4, <1>7, <1>9, <1>10

LEMMA JoiningOrder ==
  \A f, a, b \in Seq(DataUnits) : (f \o a) \o b = f \o (a \o b)
  BY ConcatAssociative

(* The number of bytes, and then some of them.                               *)
LEMMA SizeAndPart ==
  ASSUME NEW u \in Seq(DataUnits)
  PROVE  LET s == Field("size", NumCols) \o u
         IN  /\ Field("size", NumCols) \in Seq(DataUnits) /\ s \in Seq(DataUnits)
             /\ Len(s) = Len(u) + 2 /\ Len(s) \in Nat /\ s # <<>>
             /\ Head(s) = [kind |-> "size", half |-> 1, val |-> NumCols]
             /\ s[2] = [kind |-> "size", half |-> 2, val |-> NumCols]
             /\ Without(s, 2) = u
  <1>1. PICK f : f = Field("size", NumCols)
    OBVIOUS
  <1>2. NumCols \in Nat
    BY FinalType
  <1>3. f \in Seq(DataUnits) /\ Len(f) = 2
    BY <1>1, <1>2, StructType, KindsHas DEF Field
  <1>4. /\ f[1] = [kind |-> "size", half |-> 1, val |-> NumCols]
        /\ f[2] = [kind |-> "size", half |-> 2, val |-> NumCols]
    BY <1>1 DEF Field, Struct, Unit
  <1>5. PICK s : s = f \o u
    OBVIOUS
  <1>6. Len(u) \in Nat
    BY LenProperties
  <1>7. /\ s \in Seq(DataUnits) /\ Len(s) = 2 + Len(u)
        /\ \A k \in 1 .. 2 : s[k] = f[k]
        /\ \A k \in 1 .. Len(u) : s[2 + k] = u[k]
    <2>1. /\ s \in Seq(DataUnits) /\ Len(s) = Len(f) + Len(u)
          /\ \A k \in 1 .. Len(f) : s[k] = f[k]
          /\ \A k \in 1 .. Len(u) : s[Len(f) + k] = u[k]
      BY <1>3, <1>5, JoiningData
    <2>. QED  BY <1>3, <2>1
  <1>8. Len(s) = Len(u) + 2 /\ Len(s) \in Nat /\ s # <<>> /\ s[1] = f[1] /\ s[2] = f[2]
    BY <1>6, <1>7
  <1>9. Head(s) = s[1]
    BY <1>7, <1>8
  <1>10. Without(s, 2) = u
    <2>1. 2 \in Nat /\ 2 <= Len(s) /\ Len(s) - 2 = Len(u)
      BY <1>6, <1>8
    <2>2. PICK v : v = Without(s, 2)
      OBVIOUS
    <2>3. v \in Seq(DataUnits) /\ Len(v) = Len(u) /\ \A k \in 1 .. Len(u) : v[k] = s[2 + k]
      BY <1>7, <2>1, <2>2, TakingData
    <2>. QED  BY <1>7, <2>2, <2>3, SameSeq
  <1>. QED  BY <1>1, <1>3, <1>4, <1>5, <1>7, <1>8, <1>9, <1>10

-----------------------------------------------------------------------------
(* The answer to TaskResult, step by step.                                   *)

(* Steps that have nothing to do with the result of a client.                *)
LEMMA SameResult ==
  ASSUME NEW c, ResultOf(c), SameHandler(c), \A v \in Workers : Holds(v, c) => buf'[v] = buf[v],
         cpc'[c] = cpc[c], status'[c] = status[c], want'[c] = want[c], reply'[c] = reply[c],
         AllDone(c) => c \in DOMAIN m_contextMap' /\ m_contextMap'[c] = m_contextMap[c]
  PROVE  ResultOf(c)'
  <1>1. \A v \in Workers :
          /\ Holds(v, c)' <=> Holds(v, c)
          /\ Holds(v, c) => wpc'[v] = wpc[v] /\ loc'[v] = loc[v] /\ buf'[v] = buf[v]
    BY DEF SameHandler
  <1>2. CommunicatorFree(c)' <=> CommunicatorFree(c)
    BY <1>1 DEF CommunicatorFree
  <1>3. (Served(c)' <=> Served(c)) /\ (ToldFinished(c)' <=> ToldFinished(c))
    BY DEF Served, ToldFinished
  <1>4. ASSUME Served(c)
        PROVE  AllDone(c)' /\ (Pending(c)' \/ Delivered(c)' \/ \E m \in 0 .. NumCols : Delivering(c, m)')
    <2>1. AllDone(c) /\ (Pending(c) \/ Delivered(c) \/ \E m \in 0 .. NumCols : Delivering(c, m))
      BY <1>4 DEF ResultOf
    <2>2. /\ AllDone(c)' /\ ExecutionChunks(c)' = ExecutionChunks(c)
          /\ \A i : Extent(c, i)' = Extent(c, i)
      BY <2>1 DEF AllDone, HasTaskContext, ExecutionChunks, IsDone, Extent
    <2>3. CASE Pending(c)
      BY <1>1, <2>2, <2>3 DEF Pending
    <2>4. CASE Delivered(c)
      BY <1>2, <2>2, <2>4 DEF Delivered
    <2>5. ASSUME NEW m \in 0 .. NumCols, Delivering(c, m) PROVE Delivering(c, m)'
      <3>1. ASSUME NEW v \in Workers, Holds(v, c), CopiedSoFar(v, c) PROVE CopiedSoFar(v, c)'
        <4>1. buf'[v] = buf[v] /\ loc'[v] = loc[v] /\ Final' = Final
          BY <1>1, <3>1 DEF Final, ExecutedMatrix
        <4>. QED  BY <2>2, <3>1, <4>1 DEF CopiedSoFar
      <3>2. Sending(c, m)'
        <4>1. CASE CommunicatorFree(c) /\ m = NumCols
          BY <1>2, <4>1 DEF Sending
        <4>2. ASSUME NEW v \in Workers, Holds(v, c), wpc[v] = "copy", m = 0, CopiedSoFar(v, c)
              PROVE  Sending(c, m)'
          BY <1>1, <3>1, <4>2 DEF Sending
        <4>3. ASSUME NEW v \in Workers, Holds(v, c), wpc[v] = "write", m < NumCols, buf[v] = Without(Final, m)
              PROVE  Sending(c, m)'
          BY <1>1, <4>3 DEF Sending, Final, ExecutedMatrix
        <4>. QED  BY <2>5, <4>1, <4>2, <4>3 DEF Delivering, Sending
      <3>. QED  BY <2>5, <3>2 DEF Delivering, Final, ExecutedMatrix
    <2>. QED  BY <2>1, <2>2, <2>3, <2>4, <2>5
  <1>5. cpc[c] = "status" /\ ToldFinished(c) => CommunicatorFree(c)
    BY DEF ResultOf
  <1>. QED  BY <1>2, <1>3, <1>4, <1>5 DEF ResultOf

LEMMA ElsewhereResult ==
  ASSUME SockTypes, ServerInv, ChunkInv, NEW w \in Workers, WorkerStep(w) \/ ConnectionReset(w), UNCHANGED clientVars,
         NEW c \in Clients, ResultOf(c), ~Serves(w, c)
  PROVE  ResultOf(c)'
  <1>1. SameHandler(c) /\ SameStream(c) /\ OwnLocals(w)
    BY OthersStep, WorkerLocals DEF ServerInv
  <1>2. \A v \in Workers : Holds(v, c) => buf'[v] = buf[v]
    BY <1>1 DEF OwnLocals, Serves, Holds
  <1>3. AllDone(c) => c \in DOMAIN m_contextMap' /\ m_contextMap'[c] = m_contextMap[c]
    BY FrozenTask DEF Serves, Holds
  <1>. QED  BY <1>1, <1>2, <1>3, SameResult DEF SameStream, clientVars

(* The talk after a step: who has been answered, and who is not asking.      *)
LEMMA TalkAfter ==
  ASSUME StreamInv', NEW c \in Clients, cpc'[c] \notin {"start", "failed", "submit"}
  PROVE  /\ cpc'[c] = "status" /\ reply'[c] # <<>> => ~At(c, Answerers)'
         /\ cpc'[c] = "size" => ~At(c, Answerers)' \/ At(c, {"result"})' \/ ~At(c, {"scan", "result"})'
         /\ cpc'[c] = "size" /\ reply'[c] # <<>> => ~At(c, {"scan", "result"})'
         /\ cpc'[c] = "size" /\ reply'[c] = <<>> => ~At(c, Answerers)' \/ At(c, {"result"})'
         /\ cpc'[c] \in {"body", "ended"} => ~At(c, {"scan", "result"})'
  <1>1. PICK n \in Partitions : Stream(c, n)'
    BY DEF StreamInv, ClientStream
  <1>2. PICK next \in Questions : Talk(c, next)'
    BY <1>1 DEF Stream
  <1>3. ~At(c, Answerers)' => ~At(c, {"scan", "result"})'
    BY DEF At, Answerers
  <1>. QED  BY <1>2, <1>3 DEF Talk

(* A job of a client that has a task: nothing, or a question it has asked.   *)
LEMMA JobBegins ==
  ASSUME SockTypes, ServerInv, NEW w \in Workers, WorkerStep(w) \/ ConnectionReset(w),
         NEW c \in Clients, Serves(w, c), wpc[w] = "work", HasTaskContext(c)
  PROVE  reply'[c] = reply[c] /\ wpc'[w] \in {"work", "ready", "scan", "result"}
  <1>1. wpc \in [Workers -> Points] /\ Client(w) = c
    BY ServerTypesDef DEF ServerInv, Serves
  <1>2. CASE ConnectionReset(w)
    BY <1>1, <1>2 DEF ConnectionReset, sockVars
  <1>3. CASE NothingRead(w) \/ IgnoreRequest(w) \/ ReadTaskSubmition(w) \/ ReadTaskStatus(w) \/ ReadTaskResult(w)
    BY <1>1, <1>3 DEF NothingRead, IgnoreRequest, ReadTaskSubmition, ReadTaskStatus, ReadTaskResult, Finish, Goto
  <1>4. CASE ~ConnectionReset(w)
    <2>1. NothingRead(w) \/ IgnoreRequest(w) \/ ReadTaskSubmition(w) \/ ReadTaskStatus(w) \/ ReadTaskResult(w)
      BY <1>4 DEF WorkerStep, PoolStep, RequestStep, ChunkStep, Take, FindEmpty, Wait, ReadField,
        ShortRead, ReadHeader, RejectNumChunks, ReadNumChunks, ReadChunk,
        ReadNumBytes, ReadBody, SubmitChunk, ScanChunk, AnswerFinished, WriteNumBytes, CopyChunk, WriteResult,
        StartChunk, ComputeChunk, MarkDone
    <2>. QED  BY <1>3, <2>1
  <1>. QED  BY <1>2, <1>4

LEMMA BeginsResult ==
  ASSUME SockTypes, ServerInv, ChunkInv, StreamInv', NEW w \in Workers, WorkerStep(w) \/ ConnectionReset(w),
         UNCHANGED clientVars, NEW c \in Clients, ResultOf(c), Serves(w, c), wpc[w] = "work",
         Served(c) \/ (cpc[c] = "status" /\ ToldFinished(c)), AllDone(c)
  PROVE  ResultOf(c)'
  <1>1. CommunicatorFree(c) /\ HasTaskContext(c)
    BY Alone DEF AllDone
  <1>2. reply'[c] = reply[c] /\ wpc'[w] \in {"work", "ready", "scan", "result"}
    BY <1>1, JobBegins
  <1>3. cpc'[c] = cpc[c] /\ status'[c] = status[c] /\ want'[c] = want[c]
    BY DEF clientVars
  <1>4. AllDone(c)'
    <2>1. c \in DOMAIN m_contextMap' /\ m_contextMap'[c] = m_contextMap[c]
      BY FrozenTask
    <2>. QED  BY <2>1 DEF AllDone, HasTaskContext, ExecutionChunks, IsDone
  <1>5. CASE wpc'[w] \in {"work", "ready"}
    <2>1. CommunicatorFree(c)'
      BY <1>5, Alone DEF HandlerPoints
    <2>2. \A v \in Workers : ~Holds(v, c)'
      BY <2>1 DEF CommunicatorFree
    <2>3. Pending(c) => Pending(c)'
      BY <1>2, <1>3, <2>2 DEF Pending
    <2>4. Delivered(c) => Delivered(c)'
      BY <1>2, <1>3, <2>1 DEF Delivered
    <2>5. \A m : Delivering(c, m) => Delivering(c, m)'
      <3>1. \A m : Sending(c, m) => m = NumCols
        BY <1>1 DEF Sending, CommunicatorFree
      <3>2. Sending(c, NumCols)'
        BY <2>1 DEF Sending
      <3>3. Final' = Final
        BY DEF Final, ExecutedMatrix
      <3>. QED  BY <1>2, <1>3, <3>1, <3>2, <3>3 DEF Delivering
    <2>6. Served(c)' => Served(c)
      BY <1>3 DEF Served
    <2>. QED  BY <1>4, <2>1, <2>3, <2>4, <2>5, <2>6 DEF ResultOf
  <1>6. CASE wpc'[w] \in {"scan", "result"}
    <2>1. At(c, {"scan", "result"})' /\ At(c, Answerers)'
      <3>1. {"scan", "result"} \subseteq HandlerPoints /\ Answerers \subseteq HandlerPoints
        BY DEF HandlerPoints, Answerers
      <3>2. wpc'[w] \in Answerers
        BY <1>6 DEF Answerers
      <3>. QED  BY <1>6, <3>1, <3>2, Alone
    <2>2. cpc[c] = "size" /\ reply[c] = <<>>
      <3>1. cpc[c] = "status" /\ ToldFinished(c) => reply[c] # <<>>
        BY DEF ToldFinished
      <3>2. cpc'[c] \in {"status", "size", "body", "ended"}
        BY <1>3 DEF Served
      <3>. QED  BY <1>2, <1>3, <2>1, <3>1, <3>2, TalkAfter DEF Served
    <2>3. wpc'[w] = "result"
      <3>1. At(c, {"result"})' <=> wpc'[w] \in {"result"}
        <4>1. {"result"} \subseteq HandlerPoints
          BY DEF HandlerPoints
        <4>. QED  BY <4>1, Alone
      <3>. QED  BY <1>2, <1>3, <2>1, <2>2, <3>1, TalkAfter
    <2>4. Pending(c)'
      <3>1. \A v \in Workers \ {w} : ~Holds(v, c)'
        BY Alone
      <3>. QED  BY <1>2, <1>3, <2>2, <2>3, <3>1 DEF Pending
    <2>. QED  BY <1>3, <1>4, <2>2, <2>4 DEF ResultOf
  <1>. QED  BY <1>2, <1>5, <1>6

(* What the handler of a result knows of the task.                           *)
LEMMA ResultTask ==
  ASSUME WholeRequests, TypeInv, StreamInv, BodyInv, NEW w \in Workers, WorkerStep(w) \/ ConnectionReset(w),
         NEW c \in Clients, Holds(w, c), wpc[w] \in {"result", "copy", "write"}, AllDone(c)
  PROVE  /\ Context(w) = m_contextMap[c] /\ m_contextMap[c].Body = Final
         /\ \E n \in Nat \ {0} : WholeTask(c, n) /\ (wpc[w] = "copy" => loc[w].i \in 1 .. n)
  <1>. SockTypes /\ ServerInv /\ ServerTypes
    BY DEF TypeInv, ServerInv
  <1>1. Serves(w, c)
    BY DEF Serves, Holds
  <1>2. PICK n \in Partitions : Stream(c, n)
    BY DEF StreamInv, ClientStream, Silent, AllDone
  <1>3. PICK next \in Questions, r \in Nat : Progress(c, n, r)
    BY <1>2 DEF Stream
  <1>4. Reading(w, c, n, r)
    BY <1>1, <1>3, Alone
  <1>5. WholeTask(c, n) /\ (wpc[w] = "copy" => loc[w].i <= n)
    BY <1>4 DEF Reading
  <1>6. n \in Nat \ {0}
    BY PartitionSize
  <1>7. loc[w].i \in Nat /\ Context(w) = m_contextMap[c]
    BY <1>1, ServedClient
  <1>8. wpc[w] = "copy" => loc[w].i >= 1
    BY DEF ServerInv, HandlerOK, HandlerAt
  <1>9. m_contextMap[c].Body = Final
    BY <1>5, <1>6, FinalBody
  <1>. QED  BY <1>5, <1>6, <1>7, <1>8, <1>9

(* The number of bytes is sent before the chunks are copied.                 *)
LEMMA SizeResult ==
  ASSUME WholeRequests, TypeInv, ChunkInv, StreamInv, BodyInv, NEW w \in Workers, WriteNumBytes(w),
         UNCHANGED clientVars, NEW c \in Clients, Holds(w, c), AllDone(c), Pending(c), ResultOf(c)
  PROVE  ResultOf(c)'
  <1>. SockTypes /\ ServerInv /\ ServerTypes
    BY DEF TypeInv, ServerInv
  <1>1. WorkerStep(w) /\ wpc[w] = "result" /\ Client(w) = c /\ Serves(w, c) /\ UNCHANGED <<m_contextMap, job>>
    BY DEF WorkerStep, RequestStep, WriteNumBytes, Holds, Serves
  <1>2. Context(w) = m_contextMap[c] /\ m_contextMap[c].Body = Final
    BY <1>1, ResultTask
  <1>3. Final \in Seq(DataUnits) /\ Len(Final) = NumCols /\ NumCols \in Nat \ {0} /\ DOMAIN Final = 1 .. NumCols
    BY FinalType, LenProperties
  <1>4. wpc \in [Workers -> Points] /\ loc \in [Workers -> Locals] /\ buf \in [Workers -> Seq(DataUnits)]
        /\ reply \in [Clients -> Seq(StreamUnits)]
    BY ServerTypesDef, SockTypesDef DEF Locals
  <1>5. Holds(w, c)' /\ wpc'[w] = "copy" /\ loc'[w].i = 1
    BY <1>1, <1>4 DEF WriteNumBytes, Goto, Holds, Client, HandlerPoints, Locals
  <1>6. Len(buf'[w]) = NumCols
    <2>1. PICK b : b = [k \in 1 .. NumCols |-> ZeroByte]
      OBVIOUS
    <2>2. b \in Seq({ZeroByte}) /\ Len(b) = NumCols
      BY <1>3, <2>1
    <2>3. buf'[w] = b
      BY <1>2, <1>3, <1>4, <2>1 DEF WriteNumBytes
    <2>. QED  BY <2>2, <2>3
  <1>7. reply'[c] = Field("size", NumCols) \o First(Final, 0)
    <2>1. First(Final, 0) = <<>>
      BY <1>3, AllOrNothing
    <2>2. Field("size", NumCols) \in Seq(DataUnits)
      BY <1>3, SizeAndPart, EmptySeq
    <2>3. reply[c] = <<>>
      BY DEF Pending
    <2>4. reply'[c] = reply[c] \o Field("size", NumCols)
      BY <1>1, <1>2, <1>3, <1>4 DEF WriteNumBytes, Answer
    <2>. QED  BY <2>1, <2>2, <2>3, <2>4, ConcatEmptySeq
  <1>8. CopiedSoFar(w, c)'
    <2>1. \A i \in DOMAIN ExecutionChunks(c) : ~(i < 1)
      <3>1. m_contextMap[c] \in Contexts
        BY ServerTypesDef DEF AllDone, HasTaskContext
      <3>2. DOMAIN ExecutionChunks(c) = 1 .. Len(ExecutionChunks(c))
        BY <3>1, ContextType DEF ExecutionChunks
      <3>. QED  BY <3>2
    <2>2. ExecutionChunks(c)' = ExecutionChunks(c)
      BY <1>1 DEF ExecutionChunks
    <2>. QED  BY <1>5, <1>6, <2>1, <2>2 DEF CopiedSoFar
  <1>9. Final' = Final /\ AllDone(c)' /\ cpc'[c] = "size"
    BY <1>1 DEF Final, ExecutedMatrix, AllDone, HasTaskContext, ExecutionChunks, IsDone, Pending, clientVars
  <1>10. Delivering(c, 0)'
    BY <1>5, <1>7, <1>8, <1>9 DEF Delivering, Sending
  <1>11. 0 \in 0 .. NumCols
    BY <1>3
  <1>. QED  BY <1>9, <1>10, <1>11 DEF ResultOf

(* The body is copied chunk by chunk; the chunks are all of it.              *)
LEMMA CopyResult ==
  ASSUME WholeRequests, TypeInv, ChunkInv, StreamInv, BodyInv, NEW w \in Workers, CopyChunk(w),
         UNCHANGED clientVars, NEW c \in Clients, Holds(w, c), AllDone(c), Delivering(c, 0), CopiedSoFar(w, c)
  PROVE  ResultOf(c)'
  <1>. SockTypes /\ ServerInv /\ ServerTypes
    BY DEF TypeInv, ServerInv
  <1>1. /\ WorkerStep(w) /\ wpc[w] = "copy" /\ Client(w) = c /\ Serves(w, c)
        /\ UNCHANGED <<m_contextMap, job, reply>>
    BY DEF WorkerStep, RequestStep, CopyChunk, Holds, Serves
  <1>2. Context(w) = m_contextMap[c] /\ m_contextMap[c].Body = Final
    BY <1>1, ResultTask
  <1>3. Final \in Seq(DataUnits) /\ Len(Final) = NumCols /\ NumCols \in Nat \ {0} /\ DOMAIN Final = 1 .. NumCols
    BY FinalType, LenProperties
  <1>4. wpc \in [Workers -> Points] /\ loc \in [Workers -> Locals] /\ buf \in [Workers -> Seq(DataUnits)]
    BY ServerTypesDef DEF Locals
  <1>5. PICK n \in Nat \ {0} : WholeTask(c, n) /\ loc[w].i \in 1 .. n
    BY <1>1, ResultTask
  <1>6. PICK i : i = loc[w].i
    OBVIOUS
  <1>7. DOMAIN ExecutionChunks(c) = 1 .. n /\ Len(ExecutionChunks(c)) = n
    BY <1>5, WholeDomains DEF WholeTask, AllChunks
  <1>8. Extent(c, i) \subseteq 1 .. NumCols
        /\ Units(ChunkExtent(Context(w).ExecutionChunks[loc[w].i])) = Extent(c, i)
    BY <1>1, <1>2, <1>3, <1>5, <1>6, CopiesInside DEF Extent, ExecutionChunks
  <1>9. /\ buf'[w] = [k \in 1 .. NumCols |-> IF k \in Extent(c, i) THEN Final[k] ELSE buf[w][k]]
        /\ loc'[w].i = i + 1 /\ wpc'[w] = IF i = n THEN "write" ELSE "copy"
    <2>1. buf'[w] = [k \in 1 .. NumCols |-> IF k \in Extent(c, i) THEN Final[k] ELSE buf[w][k]]
      <3>. DEFINE part == Units(ChunkExtent(Context(w).ExecutionChunks[loc[w].i]))
      <3>1. part \subseteq DOMAIN Context(w).Body
        BY <1>2, <1>3, <1>8
      <3>2. buf' = [buf EXCEPT ![w] =
               [k \in DOMAIN Context(w).Body |-> IF k \in part THEN Context(w).Body[k] ELSE buf[w][k]]]
        BY <3>1 DEF CopyChunk
      <3>3. part = Extent(c, i)
        BY <1>8
      <3>. HIDE DEF part
      <3>4. buf'[w] = [k \in DOMAIN Context(w).Body |-> IF k \in part THEN Context(w).Body[k] ELSE buf[w][k]]
        BY <1>4, <3>2
      <3>. QED  BY <1>2, <1>3, <3>3, <3>4
    <2>2. loc'[w].i = i + 1
      BY <1>4, <1>6 DEF CopyChunk, Locals
    <2>3. Copied(w) <=> i = n
      BY <1>2, <1>6, <1>7 DEF Copied, ExecutionChunks
    <2>. QED  BY <1>4, <2>1, <2>2, <2>3 DEF CopyChunk, Goto
  <1>10. buf[w] \in Seq(DataUnits) /\ Len(buf[w]) = NumCols
    BY <1>4 DEF CopiedSoFar
  <1>11. buf'[w] \in Seq(DataUnits) /\ Len(buf'[w]) = NumCols
    <2>1. \A k \in 1 .. NumCols : Final[k] \in DataUnits /\ buf[w][k] \in DataUnits
      BY <1>3, <1>10, ElementOfSeq
    <2>2. PICK b : b = [k \in 1 .. NumCols |-> IF k \in Extent(c, i) THEN Final[k] ELSE buf[w][k]]
      OBVIOUS
    <2>3. b \in [1 .. NumCols -> DataUnits]
      BY <2>1, <2>2
    <2>4. b \in Seq(DataUnits) /\ Len(b) = NumCols
      BY <1>3, <2>3
    <2>. QED  BY <1>9, <2>2, <2>4
  <1>12. \A j \in 1 .. n : j <= i => \A k \in Extent(c, j) : k \in 1 .. NumCols => buf'[w][k] = Final[k]
    <2>1. ASSUME NEW j \in 1 .. n, j <= i, NEW k \in Extent(c, j), k \in 1 .. NumCols
          PROVE  buf'[w][k] = Final[k]
      <3>1. CASE j = i
        BY <1>9, <2>1, <3>1
      <3>2. CASE j # i
        <4>1. j < i
          BY <1>5, <1>6, <2>1, <3>2
        <4>2. buf[w][k] = Final[k]
          BY <1>6, <1>7, <2>1, <4>1 DEF CopiedSoFar
        <4>. QED  BY <1>9, <2>1, <4>2
      <3>. QED  BY <3>1, <3>2
    <2>. QED  BY <2>1
  <1>13. \A j \in 1 .. n : Extent(c, j) \subseteq 1 .. NumCols
    <2>1. SUFFICES ASSUME NEW j \in 1 .. n PROVE Extent(c, j) \subseteq 1 .. NumCols
      OBVIOUS
    <2>2. j - 1 \in 0 .. n - 1
      OBVIOUS
    <2>3. Extent(c, j) = Units(Part(NumCols, n, j - 1))
      BY <1>5, ExtentPart
    <2>. QED  BY <2>2, <2>3, UnitsInside
  <1>14. /\ Holds(w, c)' /\ AllDone(c)' /\ Final' = Final /\ ExecutionChunks(c)' = ExecutionChunks(c)
         /\ \A j : Extent(c, j)' = Extent(c, j)
    BY <1>1, <1>9
    DEF Final, ExecutedMatrix, AllDone, HasTaskContext, ExecutionChunks, IsDone, Holds, Client, HandlerPoints, Extent
  <1>15. Sending(c, 0)'
    <2>1. CASE i = n
      <3>1. \A k \in 1 .. NumCols : buf'[w][k] = Final[k]
        <4>1. \A j \in 1 .. n : j <= i
          BY <1>5, <2>1
        <4>. QED  BY <1>5, <1>12, <4>1, ExtentsCover
      <3>2. buf'[w] = Final
        BY <1>3, <1>11, <3>1, SameSeq
      <3>3. Final = Without(Final, 0) /\ 0 < NumCols
        BY <1>3, AllOrNothing
      <3>. QED  BY <1>9, <1>14, <2>1, <3>2, <3>3 DEF Sending
    <2>2. CASE i # n
      <3>1. \A j \in 1 .. n : j < i + 1 => j <= i
        BY <1>5, <1>6
      <3>2. CopiedSoFar(w, c)'
        BY <1>7, <1>9, <1>11, <1>12, <1>13, <1>14, <3>1 DEF CopiedSoFar
      <3>. QED  BY <1>9, <1>14, <2>2, <3>2 DEF Sending
    <2>. QED  BY <2>1, <2>2
  <1>16. cpc'[c] = cpc[c] /\ want'[c] = want[c]
    BY DEF clientVars
  <1>17. Delivering(c, 0)'
    BY <1>1, <1>14, <1>15, <1>16 DEF Delivering
  <1>18. 0 \in 0 .. NumCols
    BY <1>3
  <1>. QED  BY <1>14, <1>16, <1>17, <1>18 DEF ResultOf, Delivering

(* The buffer is sent from its front, until all of it is.                    *)
LEMMA SendResult ==
  ASSUME SockTypes, ServerInv, ChunkInv, NEW w \in Workers, WriteResult(w),
         UNCHANGED clientVars, NEW c \in Clients, Holds(w, c), AllDone(c),
         NEW m \in 0 .. NumCols, Delivering(c, m), m < NumCols, buf[w] = Without(Final, m)
  PROVE  ResultOf(c)'
  <1>. ServerTypes
    BY DEF ServerInv
  <1>1. WorkerStep(w) /\ wpc[w] = "write" /\ Client(w) = c /\ Serves(w, c) /\ UNCHANGED m_contextMap
    BY DEF WorkerStep, RequestStep, WriteResult, Holds, Serves
  <1>2. Final \in Seq(DataUnits) /\ Len(Final) = NumCols /\ NumCols \in Nat \ {0} /\ m \in Nat /\ m <= Len(Final)
    BY FinalType
  <1>3. wpc \in [Workers -> Points] /\ buf \in [Workers -> Seq(DataUnits)]
        /\ reply \in [Clients -> Seq(StreamUnits)]
    BY ServerTypesDef, SockTypesDef
  <1>4. Len(buf[w]) = NumCols - m
    BY <1>2, TakingData
  <1>5. PICK k \in 0 .. NumCols - m :
          /\ Answer(w, First(buf[w], k))
          /\ IF k = NumCols - m THEN Finish(w)
             ELSE buf' = [buf EXCEPT ![w] = Without(@, k)] /\ UNCHANGED <<wpc, job, loc>>
    BY <1>4 DEF WriteResult
  <1>6. k \in Nat /\ m + k <= Len(Final) /\ m + k \in 0 .. NumCols /\ k <= Len(Final) - m
    BY <1>2, <1>5
  <1>7. PICK a, b : a = First(Final, m) /\ b = First(buf[w], k)
    OBVIOUS
  <1>8. /\ a \in Seq(DataUnits) /\ b \in Seq(DataUnits) /\ a \o b = First(Final, m + k)
        /\ Without(buf[w], k) = Without(Final, m + k)
    <2>1. a \in Seq(DataUnits)
      BY <1>2, <1>7, TakingData
    <2>2. b \in Seq(DataUnits)
      <3>1. buf[w] \in Seq(DataUnits) /\ k <= Len(buf[w])
        BY <1>3, <1>4, <1>5
      <3>. QED  BY <1>6, <1>7, <3>1, TakingData
    <2>3. a \o b = First(Final, m + k) /\ Without(buf[w], k) = Without(Final, m + k)
      <3>1. /\ First(Final, m) \o First(Without(Final, m), k) = First(Final, m + k)
            /\ Without(Without(Final, m), k) = Without(Final, m + k)
        BY <1>2, <1>6, TakingOn
      <3>. QED  BY <1>7, <3>1
    <2>. QED  BY <2>1, <2>2, <2>3
  <1>9. reply'[c] = reply[c] \o b
    BY <1>1, <1>3, <1>5, <1>7 DEF Answer
  <1>10. /\ cpc'[c] = cpc[c] /\ want'[c] = want[c] /\ Final' = Final
         /\ \/ cpc[c] = "size" /\ reply'[c] = Field("size", NumCols) \o First(Final, m + k)
            \/ cpc[c] = "body" /\ want[c] = NumCols /\ reply'[c] = First(Final, m + k)
    <2>1. (Field("size", NumCols) \o a) \o b = Field("size", NumCols) \o (a \o b)
      <3>1. Field("size", NumCols) \in Seq(DataUnits)
        BY SizeAndPart, EmptySeq
      <3>2. \A f \in Seq(DataUnits) : (f \o a) \o b = f \o (a \o b)
        BY <1>8, JoiningOrder
      <3>. QED  BY <3>1, <3>2
    <2>2. cpc'[c] = cpc[c] /\ want'[c] = want[c] /\ Final' = Final
      BY DEF clientVars, Final, ExecutedMatrix
    <2>3. CASE cpc[c] = "size" /\ reply[c] = Field("size", NumCols) \o a
      BY <1>8, <1>9, <2>1, <2>2, <2>3
    <2>4. CASE cpc[c] = "body" /\ want[c] = NumCols /\ reply[c] = a
      BY <1>8, <1>9, <2>2, <2>4
    <2>. QED  BY <1>7, <2>2, <2>3, <2>4 DEF Delivering
  <1>11. Sending(c, m + k)'
    <2>1. CASE k = NumCols - m
      <3>1. wpc'[w] = "ready"
        BY <1>3, <1>5, <2>1 DEF Finish
      <3>2. CommunicatorFree(c)'
        BY <1>1, <3>1, Alone DEF HandlerPoints
      <3>3. m + k = NumCols
        BY <1>2, <2>1
      <3>. QED  BY <3>2, <3>3 DEF Sending
    <2>2. CASE k # NumCols - m
      <3>1. m + k < NumCols
        BY <1>2, <1>5, <2>2
      <3>2. buf'[w] = Without(Final, m + k) /\ Holds(w, c)' /\ wpc'[w] = "write"
        BY <1>1, <1>3, <1>5, <1>8, <2>2 DEF Holds, Client, HandlerPoints
      <3>. QED  BY <1>10, <3>1, <3>2 DEF Sending
    <2>. QED  BY <2>1, <2>2
  <1>12. Delivering(c, m + k)'
    BY <1>10, <1>11 DEF Delivering
  <1>13. AllDone(c)'
    BY <1>1 DEF AllDone, HasTaskContext, ExecutionChunks, IsDone
  <1>14. PICK q \in 0 .. NumCols : q = m + k
    BY <1>6
  <1>. QED  BY <1>10, <1>12, <1>13, <1>14 DEF ResultOf

LEMMA WorkerResult ==
  ASSUME WholeRequests, TypeInv, ChunkInv, StreamInv, BodyInv, FinishInv, StreamInv',
         NEW w \in Workers, WorkerStep(w) \/ ConnectionReset(w),
         UNCHANGED clientVars, NEW c \in Clients, ResultOf(c)
  PROVE  ResultOf(c)'
  <1>. SockTypes /\ ServerInv /\ ServerTypes
    BY DEF TypeInv, ServerInv
  <1>1. CASE ~Serves(w, c)
    BY <1>1, ElsewhereResult
  <1>2. CASE Serves(w, c)
    <2>1. cpc'[c] = cpc[c] /\ (Served(c)' <=> Served(c))
      BY DEF clientVars, Served
    <2>2. CASE Served(c)
      <3>1. AllDone(c) /\ (Pending(c) \/ Delivered(c) \/ \E m \in 0 .. NumCols : Delivering(c, m))
        BY <2>2 DEF ResultOf
      <3>2. CASE wpc[w] = "work"
        BY <1>2, <2>2, <3>1, <3>2, BeginsResult
      <3>3. CASE wpc[w] # "work"
        <4>1. Holds(w, c)
          BY <1>2, <3>3 DEF Serves, Holds
        <4>2. CASE Pending(c)
          <5>1. wpc[w] = "result"
            BY <4>1, <4>2 DEF Pending
          <5>2. CASE WriteNumBytes(w)
            BY <3>1, <4>1, <4>2, <5>2, SizeResult
          <5>3. CASE ~WriteNumBytes(w)
            <6>1. ConnectionReset(w)
              BY <5>1, <5>3 DEF WorkerStep, PoolStep, RequestStep, ChunkStep, Take, FindEmpty, Wait, ReadField,
                NothingRead, IgnoreRequest, ReadTaskSubmition, ReadTaskStatus, ReadTaskResult, ReadRequest,
                StartRequest, ShortRead, ReadHeader, RejectNumChunks, ReadNumChunks, ReadChunk,
                ReadNumBytes, ReadBody, SubmitChunk, ScanChunk, AnswerFinished, CopyChunk, WriteResult,
                StartChunk, ComputeChunk, MarkDone
            <6>2. SameHandler(c) /\ reply'[c] = reply[c] /\ UNCHANGED <<buf, m_contextMap>>
              BY <6>1, ResetStream DEF SameStream, ConnectionReset
            <6>. QED  BY <3>1, <6>2, SameResult DEF clientVars, AllDone, HasTaskContext
          <5>. QED  BY <5>2, <5>3
        <4>3. CASE Delivered(c)
          BY <4>1, <4>3 DEF Delivered, CommunicatorFree
        <4>4. ASSUME NEW m \in 0 .. NumCols, Delivering(c, m)
              PROVE  ResultOf(c)'
          <5>1. \/ wpc[w] = "copy" /\ m = 0 /\ CopiedSoFar(w, c)
                \/ wpc[w] = "write" /\ m < NumCols /\ buf[w] = Without(Final, m)
            <6>1. \A v \in Workers : Holds(v, c) => v = w
              BY <4>1 DEF ServerInv, HandlersApart
            <6>. QED  BY <4>1, <4>4, <6>1 DEF Delivering, Sending, CommunicatorFree
          <5>2. CopyChunk(w) \/ WriteResult(w)
            BY <5>1 DEF WorkerStep, PoolStep, RequestStep, ChunkStep, Take, FindEmpty, Wait, ReadField,
              NothingRead, IgnoreRequest, ReadTaskSubmition, ReadTaskStatus, ReadTaskResult, ReadRequest,
              StartRequest, ShortRead, ReadHeader, RejectNumChunks, ReadNumChunks, ReadChunk,
              ReadNumBytes, ReadBody, SubmitChunk, ScanChunk, AnswerFinished, WriteNumBytes,
              StartChunk, ComputeChunk, MarkDone, ConnectionReset
          <5>3. CASE CopyChunk(w)
            <6>1. wpc[w] = "copy"
              BY <5>3 DEF CopyChunk
            <6>2. m = 0 /\ CopiedSoFar(w, c)
              BY <5>1, <6>1
            <6>. QED  BY <3>1, <4>1, <4>4, <5>3, <6>2, CopyResult
          <5>4. CASE WriteResult(w)
            <6>1. wpc[w] = "write"
              BY <5>4 DEF WriteResult
            <6>2. m < NumCols /\ buf[w] = Without(Final, m)
              BY <5>1, <6>1
            <6>. QED  BY <3>1, <4>1, <4>4, <5>4, <6>2, SendResult
          <5>. QED  BY <5>2, <5>3, <5>4
        <4>. QED  BY <3>1, <4>2, <4>3, <4>4
      <3>. QED  BY <3>2, <3>3
    <2>3. CASE ~Served(c)
      <3>1. SUFFICES ASSUME cpc'[c] = "status", ToldFinished(c)'
                     PROVE  ResultOf(c)'
        BY <2>1, <2>3 DEF ResultOf
      <3>2. CASE AnswerFinished(w)
        <4>1. wpc'[w] = "ready"
          BY <3>2, ServerTypesDef DEF AnswerFinished, Finish
        <4>2. CommunicatorFree(c)'
          BY <1>2, <4>1, Alone DEF HandlerPoints
        <4>. QED  BY <2>1, <2>3, <4>2 DEF ResultOf
      <3>3. CASE ToldFinished(c)
        <4>1. CommunicatorFree(c) /\ AllDone(c)
          BY <2>1, <3>1, <3>3 DEF ResultOf, FinishInv
        <4>2. wpc[w] = "work"
          BY <1>2, <4>1 DEF Serves, CommunicatorFree, Holds
        <4>. QED  BY <1>2, <2>1, <3>1, <3>3, <4>1, <4>2, BeginsResult
      <3>. QED  BY <3>1, <3>2, <3>3, ReplyEffect
    <2>. QED  BY <2>2, <2>3
  <1>. QED  BY <1>1, <1>2

-----------------------------------------------------------------------------
(* The reading of the answer. *)

(* The number of bytes comes in one piece, so that it is read in full.       *)
LEMMA SizeRead ==
  ASSUME WholeSizes, SockTypes, ClientTypes, NEW c \in Clients, ReadResultSize(c),
         NEW m \in 0 .. NumCols, reply[c] = Field("size", NumCols) \o First(Final, m)
  PROVE  cpc'[c] = "body" /\ want'[c] = NumCols /\ reply'[c] = First(Final, m) /\ UNCHANGED <<bytes, status>>
  <1>1. Final \in Seq(DataUnits) /\ Len(Final) = NumCols /\ NumCols \in Nat \ {0} /\ m \in Nat /\ m <= Len(Final)
    BY FinalType
  <1>2. PICK u, s : u = First(Final, m) /\ s = reply[c]
    OBVIOUS
  <1>3. u \in Seq(DataUnits) /\ Len(u) = m
    BY <1>1, <1>2, TakingData
  <1>4. /\ Len(s) = m + 2 /\ Len(s) \in Nat /\ s # <<>> /\ Without(s, 2) = u
        /\ Head(s) = [kind |-> "size", half |-> 1, val |-> NumCols]
        /\ s[2] = [kind |-> "size", half |-> 2, val |-> NumCols]
    <2>1. s = Field("size", NumCols) \o u
      BY <1>2
    <2>. QED  BY <1>3, <2>1, SizeAndPart
  <1>5. Recv(s, 2) \subseteq {2}
    <2>1. SUFFICES ASSUME NEW p \in Pieces(s, ReplyCuts) PROVE p \in Nat /\ ~(p < 2)
      BY DEF Recv
    <2>2. p \in 1 .. Len(s) /\ (p = Len(s) \/ MayBeginPiece(s[p + 1], ReplyCuts))
      BY DEF Pieces
    <2>3. ~MayBeginPiece(s[2], ReplyCuts)
      BY <1>4 DEF MayBeginPiece, WholeSizes
    <2>4. p # 1
      <3>1. SUFFICES ASSUME p = 1 PROVE FALSE
        OBVIOUS
      <3>2. p # Len(s) /\ p + 1 = 2
        BY <1>1, <1>4, <3>1
      <3>. QED  BY <2>2, <2>3, <3>2
    <2>. QED  BY <1>4, <2>2, <2>4
  <1>6. PICK k \in Recv(s, 2) :
          /\ reply' = [reply EXCEPT ![c] = Without(@, k)]
          /\ \/ /\ k = 2 /\ Head(s).val = 0
                /\ ClientGoto(c, "threw") /\ UNCHANGED want
             \/ /\ k = 2 /\ Head(s).val > 0
                /\ want' = [want EXCEPT ![c] = Head(s).val]
                /\ ClientGoto(c, "body")
             \/ /\ k < 2
                /\ \E v \in 0 .. Head(s).val : want' = [want EXCEPT ![c] = v]
                /\ ClientGoto(c, "body")
    BY <1>2 DEF ReadResultSize
  <1>7. k = 2 /\ ~(k < 2) /\ Head(s).val = NumCols /\ NumCols # 0
    BY <1>1, <1>4, <1>5
  <1>8. /\ reply \in [Clients -> Seq(StreamUnits)] /\ want \in [Clients -> Nat]
        /\ cpc \in [Clients -> ClientPoints]
    BY SockTypesDef, ClientTypesDef
  <1>9. cpc'[c] = "body" /\ want'[c] = NumCols
    BY <1>6, <1>7, <1>8 DEF ClientGoto
  <1>10. reply'[c] = u
    BY <1>2, <1>4, <1>6, <1>7, <1>8
  <1>. QED  BY <1>2, <1>9, <1>10 DEF ReadResultSize

(* One recv gives the whole body, or the client takes the task for failed.   *)
LEMMA BodyRead ==
  ASSUME SockTypes, ClientTypes, NEW c \in Clients, ReadResult(c),
         NEW m \in 0 .. NumCols, reply[c] = First(Final, m), want[c] = NumCols
  PROVE  /\ cpc'[c] = "ended"
         /\ \/ m = NumCols /\ reply'[c] = <<>> /\ bytes'[c] = Final /\ status'[c] = "Finished"
            \/ bytes'[c] = <<>> /\ status'[c] = "Failed"
  <1>1. Final \in Seq(DataUnits) /\ Len(Final) = NumCols /\ NumCols \in Nat \ {0} /\ m \in Nat /\ m <= Len(Final)
    BY FinalType
  <1>2. PICK s : s = reply[c]
    OBVIOUS
  <1>3. s \in Seq(DataUnits) /\ Len(s) = m
    BY <1>1, <1>2, TakingData
  <1>4. /\ reply \in [Clients -> Seq(StreamUnits)] /\ bytes \in [Clients -> Seq(StreamUnits)]
        /\ cpc \in [Clients -> ClientPoints] /\ status \in [Clients -> ETaskStatus]
    BY SockTypesDef, ClientTypesDef
  <1>5. PICK k \in Recv(s, NumCols) :
          /\ reply' = [reply EXCEPT ![c] = Without(@, k)]
          /\ \/ /\ k = NumCols
                /\ bytes' = [bytes EXCEPT ![c] = First(s, k)]
                /\ status' = [status EXCEPT ![c] = "Finished"]
             \/ /\ k # NumCols
                /\ bytes' = [bytes EXCEPT ![c] = <<>>]
                /\ status' = [status EXCEPT ![c] = "Failed"]
    BY <1>1, <1>2 DEF ReadResult
  <1>6. cpc'[c] = "ended"
    BY <1>4 DEF ReadResult, ClientGoto
  <1>7. CASE k # NumCols
    BY <1>4, <1>5, <1>6, <1>7
  <1>8. CASE k = NumCols
    <2>1. k <= m
      <3>1. PICK p \in Pieces(s, ReplyCuts) : k = IF p < NumCols THEN p ELSE NumCols
        BY DEF Recv
      <3>2. p \in 1 .. Len(s)
        BY DEF Pieces
      <3>. QED  BY <1>1, <1>3, <3>1, <3>2
    <2>2. m = NumCols
      BY <1>1, <1>8, <2>1
    <2>3. s = Final
      BY <1>1, <1>2, <2>2, AllOrNothing
    <2>4. First(s, k) = Final /\ Without(s, k) = <<>>
      BY <1>1, <1>8, <2>3, AllOrNothing
    <2>. QED  BY <1>2, <1>4, <1>5, <1>6, <1>8, <2>2, <2>4
  <1>. QED  BY <1>7, <1>8

(* Where the answer is when the client reads.                                *)
LEMMA SizeThere ==
  ASSUME NEW c, ResultOf(c), cpc[c] = "size", reply[c] # <<>>
  PROVE  /\ AllDone(c)
         /\ \E m \in 0 .. NumCols : Sending(c, m) /\ reply[c] = Field("size", NumCols) \o First(Final, m)
  <1>1. Served(c) /\ ~Pending(c) /\ ~Delivered(c)
    BY DEF Served, Pending, Delivered
  <1>2. AllDone(c) /\ \E m \in 0 .. NumCols : Delivering(c, m)
    BY <1>1 DEF ResultOf
  <1>. QED  BY <1>2 DEF Delivering

LEMMA BodyThere ==
  ASSUME NEW c, ResultOf(c), cpc[c] = "body"
  PROVE  /\ AllDone(c)
         /\ \E m \in 0 .. NumCols : Sending(c, m) /\ want[c] = NumCols /\ reply[c] = First(Final, m)
  <1>1. Served(c) /\ ~Pending(c) /\ ~Delivered(c)
    BY DEF Served, Pending, Delivered
  <1>2. AllDone(c) /\ \E m \in 0 .. NumCols : Delivering(c, m)
    BY <1>1 DEF ResultOf
  <1>. QED  BY <1>2 DEF Delivering

(* The status a client reads is one it has been sent.                        *)
LEMMA StatusRead ==
  ASSUME StreamInv, SockTypes, ClientTypes, NEW c \in Clients, ReadStatus(c)
  PROVE  /\ reply'[c] = <<>> /\ UNCHANGED bytes
         /\ \/ ToldFinished(c) /\ cpc'[c] = "size" /\ status'[c] = status[c]
            \/ cpc'[c] = "ask" /\ status'[c] = "InProgress"
  <1>1. cpc[c] = "status" /\ reply[c] # <<>> /\ UNCHANGED bytes
    BY DEF ReadStatus, ClientAt
  <1>2. PICK n \in Partitions : Stream(c, n)
    BY <1>1 DEF StreamInv, ClientStream
  <1>3. PICK s \in {"InProgress", "Finished"} : reply[c] = Unit(s, 0)
    BY <1>1, <1>2 DEF Stream, Talk
  <1>4. /\ reply \in [Clients -> Seq(StreamUnits)] /\ cpc \in [Clients -> ClientPoints]
        /\ status \in [Clients -> ETaskStatus]
    BY SockTypesDef, ClientTypesDef
  <1>5. StatusOf(Head(reply[c])) = {s} /\ AfterByte(reply[c]) = <<>>
    <2>1. Head(reply[c]) = [kind |-> s, half |-> 1, val |-> 0] /\ Tail(reply[c]) = <<>>
      BY <1>3 DEF Unit
    <2>. QED  BY <2>1 DEF StatusOf, ETaskStatus, AfterByte, Rest
  <1>6. AfterStatus(c, s) /\ reply'[c] = <<>>
    BY <1>4, <1>5 DEF ReadStatus
  <1>7. CASE s = "Finished"
    <2>1. cpc'[c] = "size" /\ status'[c] = status[c]
      BY <1>4, <1>6, <1>7 DEF AfterStatus, ClientGoto
    <2>2. ToldFinished(c)
      BY <1>3, <1>7 DEF ToldFinished, Unit
    <2>. QED  BY <1>1, <1>6, <2>1, <2>2
  <1>8. CASE s = "InProgress"
    BY <1>1, <1>4, <1>6, <1>8 DEF AfterStatus, ClientGoto
  <1>. QED  BY <1>7, <1>8

(* The steps of a client, and of its connection.                             *)
LEMMA OwnResult ==
  ASSUME WholeSizes, TypeInv, StreamInv, FinishInv, NEW c \in Clients, ResultOf(c), ClientSide(c) \/ Network(c)
  PROVE  ResultOf(c)'
  <1>. SockTypes /\ ClientTypes
    BY DEF TypeInv
  <1>0. cpc \in [Clients -> ClientPoints]
    BY ClientTypesDef
  <1>1. UNCHANGED serverVars
    BY DEF ClientSide, Network
  <1>2. /\ SameHandler(c) /\ UNCHANGED <<buf, m_contextMap>>
        /\ (CommunicatorFree(c)' <=> CommunicatorFree(c)) /\ (AllDone(c)' <=> AllDone(c))
        /\ \A m : Sending(c, m)' <=> Sending(c, m)
        /\ Final' = Final
    BY <1>1 DEF serverVars, SameHandler, CommunicatorFree, Holds, Client, AllDone, HasTaskContext, IsDone,
      ExecutionChunks, Sending, CopiedSoFar, Extent, Final, ExecutedMatrix
  <1>3. CASE Quit(c) \/ Network(c)
    <2>1. UNCHANGED <<cpc, status, want, reply>>
      BY <1>3 DEF Quit, Network, Arrive, ResetByPeer, Disappear, clientVars
    <2>. QED  BY <1>2, <2>1, SameResult DEF AllDone, HasTaskContext
  <1>4. CASE cpc'[c] \notin {"status", "size", "body", "ended"}
    BY <1>4 DEF ResultOf, Served
  <1>5. CASE AskStatus(c)
    <2>1. cpc[c] = "ask" /\ cpc'[c] = "status" /\ reply'[c] = reply[c]
      BY <1>0, <1>5 DEF AskStatus, ClientAt, ClientGoto
    <2>2. reply[c] = <<>>
      BY <2>1 DEF StreamInv, ClientStream, Stream, Talk
    <2>3. ~ToldFinished(c)'
      BY <2>1, <2>2 DEF ToldFinished
    <2>. QED  BY <2>1, <2>3 DEF ResultOf, Served
  <1>6. CASE ReadStatus(c)
    <2>1. CASE ToldFinished(c) /\ cpc'[c] = "size"
      <3>1. AllDone(c) /\ CommunicatorFree(c)
        BY <1>6, <2>1 DEF ResultOf, FinishInv, ReadStatus, ClientAt
      <3>2. Pending(c)'
        BY <1>2, <1>6, <2>1, <3>1, StatusRead DEF Pending, CommunicatorFree
      <3>. QED  BY <1>2, <2>1, <3>1, <3>2 DEF ResultOf
    <2>2. CASE cpc'[c] = "ask"
      BY <1>4, <2>2
    <2>. QED  BY <1>6, <2>1, <2>2, StatusRead
  <1>7. CASE ReadResultSize(c)
    <2>1. cpc[c] = "size" /\ reply[c] # <<>>
      BY <1>7 DEF ReadResultSize, ClientAt
    <2>2. PICK m \in 0 .. NumCols : Sending(c, m) /\ reply[c] = Field("size", NumCols) \o First(Final, m)
      BY <2>1, SizeThere
    <2>3. AllDone(c)
      BY <2>1, SizeThere
    <2>4. cpc'[c] = "body" /\ want'[c] = NumCols /\ reply'[c] = First(Final, m)
      BY <1>7, <2>2, SizeRead
    <2>5. Delivering(c, m)'
      BY <1>2, <2>2, <2>4 DEF Delivering
    <2>. QED  BY <1>2, <2>3, <2>4, <2>5 DEF ResultOf
  <1>8. CASE ReadResult(c)
    <2>1. cpc[c] = "body"
      BY <1>8 DEF ReadResult, ClientAt
    <2>2. PICK m \in 0 .. NumCols : Sending(c, m) /\ want[c] = NumCols /\ reply[c] = First(Final, m)
      BY <2>1, BodyThere
    <2>3. AllDone(c)
      BY <2>1, BodyThere
    <2>4. /\ cpc'[c] = "ended"
          /\ \/ m = NumCols /\ reply'[c] = <<>>
             \/ status'[c] = "Failed"
      BY <1>8, <2>2, BodyRead
    <2>5. CASE m = NumCols /\ reply'[c] = <<>>
      <3>1. CommunicatorFree(c)
        <4>1. NumCols # 0 /\ ~(NumCols < NumCols)
          BY FinalType
        <4>. QED  BY <2>2, <2>5, <4>1 DEF Sending
      <3>2. Delivered(c)'
        BY <1>2, <2>4, <2>5, <3>1 DEF Delivered
      <3>. QED  BY <1>2, <2>3, <2>4, <3>2 DEF ResultOf
    <2>6. CASE status'[c] = "Failed"
      BY <2>4, <2>6 DEF ResultOf, Served
    <2>. QED  BY <2>4, <2>5, <2>6
  <1>9. CASE Connect(c) \/ ConnectFails(c) \/ GiveUp(c) \/ SubmitTask(c) \/ Leave(c)
    <2>1. cpc'[c] \in {"submit", "start", "failed", "ask", "left"}
      BY <1>0, <1>9 DEF Connect, ConnectFails, GiveUp, SubmitTask, Leave, ClientAt, ClientGoto
    <2>. QED  BY <1>4, <2>1
  <1>. QED  BY <1>3, <1>5, <1>6, <1>7, <1>8, <1>9 DEF ClientSide, ClientStep

(* The others' steps, and those that are nobody's.                          *)
LEMMA StillResult ==
  ASSUME NEW c, ResultOf(c), SameHandler(c), UNCHANGED <<buf, m_contextMap>>,
         cpc'[c] = cpc[c], status'[c] = status[c], want'[c] = want[c], reply'[c] = reply[c]
  PROVE  ResultOf(c)'
  BY SameResult DEF AllDone, HasTaskContext

LEMMA OtherNotes ==
  ASSUME ClientTypes, NEW c \in Clients, NEW d \in Clients, c # d, ClientSide(c) \/ Network(c)
  PROVE  status'[d] = status[d] /\ want'[d] = want[d] /\ bytes'[d] = bytes[d]
  BY ClientTypesDef
  DEF ClientSide, Network, ClientStep, Connect, ConnectFails, GiveUp, SubmitTask, AskStatus, ReadStatus, AfterStatus,
    ReadResultSize, ReadResult, Leave, Quit, clientVars

LEMMA NextResult ==
  ASSUME WholeRequests, WholeSizes, TypeInv, ChunkInv, StreamInv, BodyInv, FinishInv, ResultInv, [Next]_vars
  PROVE  ResultInv'
  <1>. SockTypes /\ ClientTypes /\ ServerInv
    BY DEF TypeInv
  <1>. SUFFICES ASSUME NEW d \in Clients PROVE ResultOf(d)'
    BY DEF ResultInv
  <1>0. ResultOf(d) /\ StreamInv'
    BY NextStream DEF ResultInv
  <1>1. CASE ServerSide
    <2>1. UNCHANGED clientVars
      BY <1>1 DEF ServerSide
    <2>2. CASE InitStep \/ PollStep \/ AcceptFails
      <3>1. SameHandler(d) /\ SameStream(d) /\ UNCHANGED <<buf, m_contextMap>>
        BY <2>2, PollStream, PollQuiet
      <3>. QED  BY <1>0, <2>1, <3>1, StillResult DEF clientVars, SameStream
    <2>3. ASSUME NEW w \in Workers, WorkerStep(w) \/ ConnectionReset(w) PROVE ResultOf(d)'
      BY <1>0, <2>1, <2>3, WorkerResult
    <2>. QED  BY <1>1, <2>2, <2>3 DEF ServerSide, ServerStep
  <1>2. ASSUME NEW c \in Clients, ClientSide(c) \/ Network(c)
        PROVE  ResultOf(d)'
    <2>1. CASE c = d
      BY <1>0, <1>2, <2>1, OwnResult
    <2>2. CASE c # d
      <3>1. SameStream(d) /\ cpc'[d] = cpc[d]
        BY <1>2, <2>2, OtherClients DEF ClientSide, Network
      <3>2. SameHandler(d) /\ UNCHANGED <<buf, m_contextMap>>
        BY <1>2, ServerStill DEF ClientSide, Network, serverVars
      <3>3. status'[d] = status[d] /\ want'[d] = want[d]
        BY <1>2, <2>2, OtherNotes
      <3>. QED  BY <1>0, <3>1, <3>2, <3>3, StillResult DEF SameStream
    <2>. QED  BY <2>1, <2>2
  <1>3. CASE UNCHANGED vars
    <2>1. SameHandler(d) /\ UNCHANGED <<buf, m_contextMap>>
      BY <1>3, ServerStill DEF vars, serverVars
    <2>. QED  BY <1>0, <1>3, <2>1, StillResult DEF vars, sockVars, clientVars
  <1>. QED  BY <1>1, <1>2, <1>3 DEF Next, Over

LEMMA ResultInvariant ==
  ASSUME WholeRequests, WholeSizes
  PROVE  Spec => [](TypeInv /\ ChunkInv /\ StreamInv /\ BodyInv /\ FinishInv /\ ResultInv)
  <1>1. Init => FinishInv /\ ResultInv
    BY DEF Init, SockInit, ClientInit, ServerInit, FinishInv, ScannedDone, ToldFinished, ResultInv, ResultOf, Served
  <1>2. TypeInv /\ FinishInv /\ [Next]_vars => FinishInv'
    BY NextFinish
  <1>3. /\ TypeInv /\ ChunkInv /\ StreamInv /\ BodyInv /\ FinishInv /\ ResultInv /\ [Next]_vars
        => ResultInv'
    BY NextResult
  <1>. QED  BY <1>1, <1>2, <1>3, BodyInvariant, PTL DEF Spec

-----------------------------------------------------------------------------
(* What the client notes.                                                    *)

LEMMA OwnOutcome ==
  ASSUME WholeSizes, TypeInv, StreamInv, NEW c \in Clients, ResultOf(c), OutcomeOf(c), ClientSide(c) \/ Network(c)
  PROVE  OutcomeOf(c)'
  <1>. SockTypes /\ ClientTypes
    BY DEF TypeInv
  <1>1. cpc \in [Clients -> ClientPoints] /\ status \in [Clients -> ETaskStatus] /\ Final' = Final
    BY ClientTypesDef DEF Final, ExecutedMatrix
  <1>2. CASE UNCHANGED <<status, bytes>> /\ cpc'[c] = cpc[c]
    BY <1>1, <1>2 DEF OutcomeOf
  <1>3. CASE UNCHANGED <<status, bytes>> /\ cpc[c] \notin {"ended", "left"} /\ cpc'[c] \notin {"start", "failed", "submit"}
    BY <1>1, <1>3 DEF OutcomeOf
  <1>4. CASE Quit(c) \/ Network(c)
    BY <1>2, <1>4 DEF Quit, Network, clientVars
  <1>5. CASE Connect(c) \/ ConnectFails(c) \/ GiveUp(c)
    <2>1. UNCHANGED <<status, bytes>> /\ cpc[c] = "start" /\ cpc'[c] \in {"start", "submit", "failed"}
      BY <1>1, <1>5 DEF Connect, ConnectFails, GiveUp, ClientAt, ClientGoto
    <2>. QED  BY <1>1, <2>1 DEF OutcomeOf
  <1>6. CASE SubmitTask(c) \/ AskStatus(c)
    <2>1. UNCHANGED <<status, bytes>> /\ cpc[c] \in {"submit", "ask"} /\ cpc'[c] \in {"ask", "status"}
      BY <1>1, <1>6 DEF SubmitTask, AskStatus, ClientAt, ClientGoto
    <2>. QED  BY <1>3, <2>1
  <1>7. CASE ReadStatus(c)
    <2>1. cpc[c] = "status" /\ UNCHANGED bytes
      BY <1>7, StatusRead DEF ReadStatus, ClientAt
    <2>2. bytes[c] = <<>> /\ status[c] \in {"Unknown", "InProgress"}
      BY <2>1 DEF OutcomeOf
    <2>. QED  BY <1>7, <2>1, <2>2, StatusRead DEF OutcomeOf
  <1>8. CASE ReadResultSize(c)
    <2>1. cpc[c] = "size" /\ reply[c] # <<>> /\ UNCHANGED <<status, bytes>>
      BY <1>8 DEF ReadResultSize, ClientAt
    <2>2. PICK m \in 0 .. NumCols : reply[c] = Field("size", NumCols) \o First(Final, m)
      BY <2>1, SizeThere
    <2>3. cpc'[c] = "body"
      BY <1>8, <2>2, SizeRead
    <2>. QED  BY <1>3, <2>1, <2>3
  <1>9. CASE ReadResult(c)
    <2>1. cpc[c] = "body"
      BY <1>9 DEF ReadResult, ClientAt
    <2>2. PICK m \in 0 .. NumCols : want[c] = NumCols /\ reply[c] = First(Final, m)
      BY <2>1, BodyThere
    <2>3. cpc'[c] = "ended" /\ (bytes'[c] = Final \/ status'[c] = "Failed")
      BY <1>9, <2>2, BodyRead
    <2>. QED  BY <1>1, <2>3 DEF OutcomeOf
  <1>10. CASE Leave(c)
    <2>1. UNCHANGED <<status, bytes>> /\ cpc'[c] = "left"
      BY <1>1, <1>10 DEF Leave, ClientGoto
    <2>. QED  BY <1>1, <2>1 DEF OutcomeOf
  <1>. QED  BY <1>4, <1>5, <1>6, <1>7, <1>8, <1>9, <1>10 DEF ClientSide, ClientStep

LEMMA NextOutcome ==
  ASSUME WholeSizes, TypeInv, StreamInv, ResultInv, OutcomeInv, [Next]_vars
  PROVE  OutcomeInv'
  <1>. SockTypes /\ ClientTypes
    BY DEF TypeInv
  <1>. SUFFICES ASSUME NEW d \in Clients PROVE OutcomeOf(d)'
    BY DEF OutcomeInv
  <1>0. ResultOf(d) /\ OutcomeOf(d) /\ Final' = Final
    BY DEF ResultInv, OutcomeInv, Final, ExecutedMatrix
  <1>1. ASSUME cpc'[d] = cpc[d], status'[d] = status[d], bytes'[d] = bytes[d] PROVE OutcomeOf(d)'
    BY <1>0, <1>1 DEF OutcomeOf
  <1>2. CASE ServerSide \/ UNCHANGED vars
    BY <1>1, <1>2 DEF ServerSide, vars, clientVars
  <1>3. ASSUME NEW c \in Clients, ClientSide(c) \/ Network(c) PROVE OutcomeOf(d)'
    <2>1. CASE c = d
      BY <1>0, <1>3, <2>1, OwnOutcome
    <2>2. CASE c # d
      <3>1. cpc'[d] = cpc[d]
        BY <1>3, <2>2, OtherClients DEF ClientSide, Network
      <3>. QED  BY <1>1, <1>3, <2>2, <3>1, OtherNotes
    <2>. QED  BY <2>1, <2>2
  <1>. QED  BY <1>2, <1>3 DEF Next, Over

(* A client that is told Finished has been given the executed body, whole,   *)
(* whatever order its chunks were executed in, by whom, and however its body  *)
(* and its result were cut on their way.                                     *)
THEOREM ResultIsWhole == ASSUME WholeRequests, WholeSizes PROVE Spec => []ResultIsComplete
  <1>1. Init => OutcomeInv
    BY DEF Init, ClientInit, OutcomeInv, OutcomeOf
  <1>2. TypeInv /\ StreamInv /\ ResultInv /\ OutcomeInv /\ [Next]_vars => OutcomeInv'
    BY NextOutcome
  <1>3. OutcomeInv => ResultIsComplete
    BY DEF OutcomeInv, OutcomeOf, ResultIsComplete, Final
  <1>. QED  BY <1>1, <1>2, <1>3, ResultInvariant, PTL DEF Spec

-----------------------------------------------------------------------------
(* One answer to each question: the places where it may be are counted.      *)

LEMMA AtMostOne ==
  ASSUME NEW S, \A x, y \in S : x = y
  PROVE  Cardinality(S) = IF S = {} THEN 0 ELSE 1
  <1>1. CASE S = {}
    BY <1>1, FS_EmptySet
  <1>2. CASE S # {}
    <2>1. PICK x : x \in S
      BY <1>2
    <2>2. S = {x}
      BY <2>1
    <2>. QED  BY <1>2, <2>2, FS_Singleton
  <1>. QED  BY <1>1, <1>2

(* How much of the stream has been read is no more than the submission.      *)
LEMMA ReadSoFar ==
  ASSUME ServerTypes, NEW c \in Clients, NEW n \in Nat \ {0}, NEW r \in Nat, Progress(c, n, r)
  PROVE  r <= TaskLen(n)
  <1>1. HeadLen(n) \in Nat /\ HeadLen(n) = 7 + 2 * n /\ TaskLen(n) = HeadLen(n) + NumCols /\ NumCols \in Nat
    BY Sizes
  <1>2. ASSUME NEW w \in Workers, Reading(w, c, n, r) PROVE r <= TaskLen(n)
    <2>1. CASE wpc[w] \in {"header", "count", "size", "submit", "scan", "result", "copy", "write"}
      <3>1. r \in {1, 3, 5 + 2 * n, TaskLen(n)}
        BY <1>2, <2>1 DEF Reading
      <3>. QED  BY <1>1, <3>1
    <2>2. CASE wpc[w] = "chunks"
      <3>1. c \in DOMAIN m_contextMap /\ Len(ExecutionChunks(c)) <= n /\ r = 5 + 2 * Len(ExecutionChunks(c))
        BY <1>2, <2>2 DEF Reading, PartOfTask, HasTaskContext
      <3>2. Len(ExecutionChunks(c)) \in Nat
        BY <3>1, ServerTypesDef, ContextType, LenProperties DEF ExecutionChunks
      <3>. QED  BY <1>1, <3>1, <3>2
    <2>3. CASE wpc[w] = "body"
      <3>1. /\ c \in DOMAIN m_contextMap /\ Len(m_contextMap[c].Body) <= NumCols
            /\ r = HeadLen(n) + Len(m_contextMap[c].Body)
        BY <1>2, <2>3 DEF Reading, AllChunks, PartOfTask, HasTaskContext
      <3>2. Len(m_contextMap[c].Body) \in Nat
        BY <3>1, ServerTypesDef, ContextType, LenProperties
      <3>. QED  BY <1>1, <3>1, <3>2
    <2>. QED  BY <1>2, <2>1, <2>2, <2>3 DEF Reading
  <1>. QED  BY <1>1, <1>2 DEF Progress

(* A question that has been sent and not read is in the stream once.         *)
LEMMA UnreadQuestion ==
  ASSUME SockTypes, ServerTypes, NEW c \in Clients, c \notin gone, NEW n \in Nat \ {0}, NEW next \in Questions,
         NEW r \in Nat, Arrived(c, n, next, r), Progress(c, n, r), NEW kind \in {"TaskStatus", "TaskResult"}
  PROVE  /\ next = Unit(kind, 0) => Unread(c, {kind}) = 1
         /\ next = <<>> => Unread(c, {kind}) = 0
  <1>. DEFINE under == {k \in DOMAIN flight[c] : flight[c][k].kind \in {kind}}
              there == {k \in DOMAIN sock[c] : sock[c][k].kind \in {kind}}
  <1>1. /\ Len(sock[c]) \in Nat /\ DOMAIN sock[c] = 1 .. Len(sock[c])
        /\ Len(flight[c]) \in Nat /\ DOMAIN flight[c] = 1 .. Len(flight[c])
    BY SockTypesDef, LenProperties
  <1>2. TaskLen(n) \in Nat /\ r <= TaskLen(n) /\ Len(next) \in {0, 1} /\ (Len(next) = 0 <=> next = <<>>)
    BY Sizes, ReadSoFar, SentAt
  <1>3. PICK s, f, m, l, q \in Nat :
          s = Len(sock[c]) /\ f = Len(flight[c]) /\ m = Len(next) /\ l = TaskLen(n) /\ q = Len(Sent(n, next))
    <2>1. Len(Sent(n, next)) = TaskLen(n) + Len(next) /\ Len(next) \in Nat
      BY <1>2, SentAt
    <2>. QED  BY <1>1, <1>2, <2>1
  <1>4. q = l + m /\ m \in {0, 1} /\ (m = 0 <=> next = <<>>) /\ r <= l
    BY <1>2, <1>3, SentAt
  <1>5. /\ r + s <= q /\ f = q - (r + s)
        /\ \A k \in 1 .. s : sock[c][k] = Sent(n, next)[r + k]
        /\ \A k \in 1 .. f : flight[c][k] = Sent(n, next)[r + s + k]
    BY <1>3 DEF Arrived
  <1>6. \A p \in 1 .. l : Sent(n, next)[p].kind # kind
    <2>1. ASSUME NEW p \in 1 .. TaskLen(n) PROVE Sent(n, next)[p].kind # kind
      <3>1. Sent(n, next)[p] = Submission(n)[p]
        BY SentAt
      <3>2. Submission(n)[p].kind \notin {"TaskStatus", "TaskResult"}
        BY SubmissionAt
      <3>. QED  BY <3>1, <3>2
    <2>. QED  BY <1>3, <2>1
  <1>7. Unread(c, {kind}) = Cardinality(under) + Cardinality(there)
    BY DEF Unread
  <1>8. /\ \A k \in under : k \in 1 .. f /\ Sent(n, next)[r + s + k].kind = kind
        /\ \A k \in there : k \in 1 .. s /\ Sent(n, next)[r + k].kind = kind
    BY <1>1, <1>3, <1>5
  <1>9. /\ \A k \in 1 .. f : Sent(n, next)[r + s + k].kind = kind => k \in under
        /\ \A k \in 1 .. s : Sent(n, next)[r + k].kind = kind => k \in there
    BY <1>1, <1>3, <1>5
  <1>. HIDE DEF under, there
  <1>10. /\ \A k \in under : m = 1 /\ k = l + 1 - r - s
         /\ \A k \in there : m = 1 /\ k = l + 1 - r
    <2>1. ASSUME NEW k \in under PROVE m = 1 /\ k = l + 1 - r - s
      <3>1. k \in 1 .. f /\ r + s + k \notin 1 .. l
        BY <1>6, <1>8, <2>1
      <3>. QED  BY <1>4, <1>5, <3>1
    <2>2. ASSUME NEW k \in there PROVE m = 1 /\ k = l + 1 - r
      <3>1. k \in 1 .. s /\ r + k \notin 1 .. l
        BY <1>6, <1>8, <2>2
      <3>. QED  BY <1>4, <1>5, <3>1
    <2>. QED  BY <2>1, <2>2
  <1>11. ASSUME next = <<>> PROVE Unread(c, {kind}) = 0
    <2>1. under = {} /\ there = {}
      BY <1>4, <1>10, <1>11
    <2>. QED  BY <1>7, <2>1, FS_EmptySet
  <1>12. ASSUME next = Unit(kind, 0) PROVE Unread(c, {kind}) = 1
    <2>1. next # <<>> /\ next[1].kind = kind
      BY <1>12 DEF Unit
    <2>2. Sent(n, next)[l + 1].kind = kind /\ m = 1
      BY <1>3, <1>4, <2>1, SentAt
    <2>3. Cardinality(under) = IF under = {} THEN 0 ELSE 1
      BY <1>10, AtMostOne
    <2>4. Cardinality(there) = IF there = {} THEN 0 ELSE 1
      BY <1>10, AtMostOne
    <2>5. CASE r + s = l + 1
      <3>1. l + 1 - r \in 1 .. s /\ r + (l + 1 - r) = l + 1 /\ f = 0
        BY <1>4, <1>5, <2>2, <2>5
      <3>2. there # {}
        BY <1>9, <2>2, <3>1
      <3>3. under = {}
        BY <1>8, <3>1
      <3>. QED  BY <1>7, <2>3, <2>4, <3>2, <3>3
    <2>6. CASE r + s # l + 1
      <3>1. l + 1 - r - s \in 1 .. f /\ r + s + (l + 1 - r - s) = l + 1 /\ l + 1 - r \notin 1 .. s
        <4>1. r + s <= l + 1 /\ f = l + 1 - (r + s)
          BY <1>4, <1>5, <2>2
        <4>2. f >= 1 /\ l + 1 - r > s /\ l + 1 - r - s = f
          BY <2>6, <4>1
        <4>. QED  BY <4>1, <4>2
      <3>2. under # {}
        BY <1>9, <2>2, <3>1
      <3>3. there = {}
        BY <1>8, <1>10, <3>1
      <3>. QED  BY <1>7, <2>3, <2>4, <3>2, <3>3
    <2>. QED  BY <2>5, <2>6
  <1>. QED  BY <1>11, <1>12

(* The CommunicatorMutex leaves one answerer.                                *)
LEMMA OneAnswerer ==
  ASSUME HandlersApart, NEW c \in Clients, NEW points \in SUBSET HandlerPoints
  PROVE  Answering(c, points) = IF At(c, points) THEN 1 ELSE 0
  <1>. DEFINE S == {w \in Workers : wpc[w] \in points /\ Client(w) = c}
  <1>1. \A w \in S : Holds(w, c)
    BY DEF Holds
  <1>2. \A v, w \in S : v = w
    BY <1>1 DEF HandlersApart
  <1>3. At(c, points) <=> S # {}
    <2>1. \A w \in Workers : w \in S <=> Holds(w, c) /\ wpc[w] \in points
      BY DEF Holds
    <2>. QED  BY <2>1 DEF At
  <1>4. Answering(c, points) = Cardinality(S)
    BY DEF Answering
  <1>. HIDE DEF S
  <1>. QED  BY <1>2, <1>3, <1>4, AtMostOne

(* Whatever jobs the poll thread queues for a client, its question is in the *)
(* stream, with one handler, or answered: it is neither swallowed nor        *)
(* answered twice, and when the client has its result nothing is left over.  *)
THEOREM QuestionsAnsweredOnce ==
  ASSUME WholeRequests, WholeSizes PROVE Spec => []OneAnswerPerRequest
  <1>1. ASSUME TypeInv, StreamInv, ResultInv, NEW c \in Clients \ gone
        PROVE  CASE cpc[c] = "status" ->
                      Unread(c, {"TaskStatus"}) + Answering(c, {"scan"}) + Len(reply[c]) = 1
                 [] cpc[c] = "size" ->
                      \/ /\ Unread(c, {"TaskResult"}) + Answering(c, {"result"}) = 1
                         /\ reply[c] = <<>>
                      \/ /\ Unread(c, {"TaskResult"}) + Answering(c, {"result"}) = 0
                         /\ Head(reply[c]).kind = "size"
                 [] cpc[c] = "ended" /\ status[c] # "Failed" ->
                      reply[c] = <<>> /\ Answering(c, HandlerPoints) = 0
                 [] OTHER -> TRUE
    <2>. SockTypes /\ ServerTypes /\ HandlersApart
      BY <1>1 DEF TypeInv, ServerInv
    <2>1. ASSUME NEW points \in SUBSET HandlerPoints
          PROVE  Answering(c, points) = IF At(c, points) THEN 1 ELSE 0
      BY OneAnswerer
    <2>2. ASSUME cpc[c] \in {"status", "size"}
          PROVE  \E next \in Questions :
                   /\ Talk(c, next)
                   /\ \A kind \in {"TaskStatus", "TaskResult"} :
                        /\ next = Unit(kind, 0) => Unread(c, {kind}) = 1
                        /\ next = <<>> => Unread(c, {kind}) = 0
      <3>1. PICK n \in Partitions : Stream(c, n)
        BY <1>1, <2>2 DEF StreamInv, ClientStream
      <3>2. n \in Nat \ {0}
        BY PartitionSize
      <3>3. PICK next \in Questions, r \in Nat : Arrived(c, n, next, r) /\ Progress(c, n, r) /\ Talk(c, next)
        BY <3>1 DEF Stream
      <3>. QED  BY <3>2, <3>3, UnreadQuestion
    <2>3. CASE cpc[c] = "status"
      <3>1. PICK next \in Questions :
              /\ Talk(c, next)
              /\ next = Unit("TaskStatus", 0) => Unread(c, {"TaskStatus"}) = 1
              /\ next = <<>> => Unread(c, {"TaskStatus"}) = 0
        BY <2>2, <2>3
      <3>2. Answering(c, {"scan"}) = IF At(c, {"scan"}) THEN 1 ELSE 0
        BY <2>1 DEF HandlerPoints
      <3>3. At(c, {"scan"}) => At(c, Answerers)
        BY DEF At, Answerers
      <3>4. Len(<<>>) = 0 /\ \A s : Len(Unit(s, 0)) = 1
        BY DEF Unit
      <3>5. Unread(c, {"TaskStatus"}) + Answering(c, {"scan"}) + Len(reply[c]) = 1
        <4>1. CASE next = Unit("TaskStatus", 0) /\ reply[c] = <<>> /\ ~At(c, Answerers)
          BY <3>1, <3>2, <3>3, <3>4, <4>1
        <4>2. CASE next = <<>> /\ reply[c] = <<>> /\ At(c, {"scan"})
          BY <3>1, <3>2, <3>4, <4>2
        <4>3. ASSUME next = <<>>, ~At(c, Answerers), NEW s, reply[c] = Unit(s, 0)
              PROVE  Unread(c, {"TaskStatus"}) + Answering(c, {"scan"}) + Len(reply[c]) = 1
          <5>1. Len(reply[c]) = 1
            BY <3>4, <4>3
          <5>. QED  BY <3>1, <3>2, <3>3, <4>3, <5>1
        <4>. QED  BY <2>3, <3>1, <4>1, <4>2, <4>3 DEF Talk
      <3>. QED  BY <2>3, <3>5
    <2>4. CASE cpc[c] = "size"
      <3>1. PICK next \in Questions :
              /\ Talk(c, next)
              /\ next = Unit("TaskResult", 0) => Unread(c, {"TaskResult"}) = 1
              /\ next = <<>> => Unread(c, {"TaskResult"}) = 0
        BY <2>2, <2>4
      <3>2. Answering(c, {"result"}) = IF At(c, {"result"}) THEN 1 ELSE 0
        BY <2>1 DEF HandlerPoints
      <3>3. /\ At(c, {"result"}) => At(c, Answerers)
            /\ At(c, {"result"}) => At(c, {"scan", "result"})
        BY DEF At, Answerers
      <3>4. \/ Unread(c, {"TaskResult"}) + Answering(c, {"result"}) = 1 /\ reply[c] = <<>>
            \/ Unread(c, {"TaskResult"}) + Answering(c, {"result"}) = 0 /\ Head(reply[c]).kind = "size"
        <4>1. CASE next = Unit("TaskResult", 0) /\ reply[c] = <<>> /\ ~At(c, Answerers)
          BY <3>1, <3>2, <3>3, <4>1
        <4>2. CASE next = <<>> /\ reply[c] = <<>> /\ At(c, {"result"})
          BY <3>1, <3>2, <4>2
        <4>3. CASE next = <<>> /\ Head(reply[c]).kind = "size" /\ ~At(c, {"scan", "result"})
          BY <3>1, <3>2, <3>3, <4>3
        <4>. QED  BY <2>4, <3>1, <4>1, <4>2, <4>3 DEF Talk
      <3>. QED  BY <2>4, <3>4
    <2>5. CASE cpc[c] = "ended" /\ status[c] # "Failed"
      <3>1. Delivered(c)
        BY <1>1, <2>5 DEF ResultInv, ResultOf, Served, Pending, Delivering
      <3>2. Answering(c, HandlerPoints) = IF At(c, HandlerPoints) THEN 1 ELSE 0
        BY <2>1
      <3>3. ~At(c, HandlerPoints)
        BY <3>1 DEF Delivered, CommunicatorFree, At
      <3>. QED  BY <2>5, <3>1, <3>2, <3>3 DEF Delivered
    <2>6. CASE cpc[c] \notin {"status", "size"} /\ ~(cpc[c] = "ended" /\ status[c] # "Failed")
      BY <2>6
    <2>. QED  BY <2>3, <2>4, <2>5, <2>6
  <1>2. TypeInv /\ StreamInv /\ ResultInv => OneAnswerPerRequest
    BY <1>1 DEF OneAnswerPerRequest
  <1>. QED  BY <1>2, ResultInvariant, PTL

-----------------------------------------------------------------------------
(* The refinement of RemoteTask.                                             *)

(* Every client divides its task the same way.                               *)
OnePartition == Partitions = {NumChunks}

Accepted == DOMAIN m_contextMap
DoneChunks(c) == IF c \notin DOMAIN m_contextMap THEN {} ELSE {i \in DOMAIN ExecutionChunks(c) : IsDone(c, i)}
ExecutedChunks == [c \in Clients |-> DoneChunks(c)]
Given == {c \in Clients : bytes[c] = Final}

(* Only a task there is has been answered for.                               *)
AnsweredOf(c) == cpc[c] = "status" /\ reply[c] # <<>> => HasTaskContext(c)
AnsweredInv == \A c \in Clients : AnsweredOf(c)

(* Who sends something to a client that waits for a status has its task.     *)
LEMMA AnswersForTask ==
  ASSUME SockTypes, ServerInv, StreamInv', NEW w \in Workers, WorkerStep(w) \/ ConnectionReset(w),
         UNCHANGED clientVars, NEW c \in Clients, AnsweredOf(c)
  PROVE  AnsweredOf(c)'
  <1>. SUFFICES ASSUME cpc'[c] = "status", reply'[c] # <<>> PROVE HasTaskContext(c)'
    BY DEF AnsweredOf
  <1>. ServerTypes /\ HandlerOK
    BY DEF ServerInv
  <1>1. HasTaskContext(c) => HasTaskContext(c)'
    BY WorkerMap DEF Grows, HasTaskContext
  <1>2. CASE reply'[c] = reply[c]
    BY <1>1, <1>2 DEF AnsweredOf, clientVars
  <1>3. CASE reply'[c] # reply[c]
    <2>1. Serves(w, c)
      BY <1>3, OthersStep DEF SameStream
    <2>2. CASE wpc[w] \in {"scan", "result", "copy", "write"}
      BY <1>1, <2>1, <2>2 DEF HandlerOK, HandlerAt, HandlerPoints, Serves
    <2>3. CASE wpc[w] \notin {"scan", "result", "copy", "write"}
      <3>1. ReadTaskStatus(w) /\ UNCHANGED m_contextMap
        BY <1>3, <2>3 DEF WorkerStep, PoolStep, RequestStep, ChunkStep, ConnectionReset, Take, FindEmpty, Wait,
          NothingRead, IgnoreRequest, ReadTaskSubmition, ReadTaskStatus, ReadTaskResult, ReadRequest, StartRequest,
          ReadField, ShortRead, ReadHeader, RejectNumChunks, ReadNumChunks, ReadChunk,
          ReadNumBytes, ReadBody, SubmitChunk, ScanChunk, AnswerFinished, WriteNumBytes, CopyChunk, WriteResult,
          StartChunk, ComputeChunk, MarkDone, sockVars
      <3>2. CASE ~HasTaskContext(c)
        <4>1. Answer(w, Unit("NotFound", 0)) /\ Client(w) = c
          BY <2>1, <3>1, <3>2 DEF ReadTaskStatus, Serves
        <4>2. \E k \in DOMAIN reply'[c] : reply'[c][k].kind = "NotFound"
          <5>1. reply[c] \in Seq(StreamUnits) /\ Unit("NotFound", 0) \in Seq(StreamUnits)
            BY SockTypesDef, UnitType, KindsHas DEF ETaskStatus
          <5>2. reply'[c] = reply[c] \o Unit("NotFound", 0)
            BY <4>1, SockTypesDef DEF Answer
          <5>3. Len(Unit("NotFound", 0)) = 1 /\ Unit("NotFound", 0)[1].kind = "NotFound"
            BY DEF Unit
          <5>. HIDE DEF Unit
          <5>4. PICK u \in Seq(StreamUnits) : u = Unit("NotFound", 0)
            BY <5>1
          <5>5. Len(u) = 1 /\ u[1].kind = "NotFound"
            BY <5>3, <5>4
          <5>6. PICK s \in Seq(StreamUnits) : s = reply[c]
            BY <5>1
          <5>7. /\ s \o u \in Seq(StreamUnits) /\ Len(s) \in Nat /\ Len(s \o u) = Len(s) + Len(u)
                /\ \A k \in 1 .. Len(u) : (s \o u)[Len(s) + k] = u[k]
            BY Joining
          <5>8. Len(s) + 1 \in DOMAIN (s \o u) /\ (s \o u)[Len(s) + 1] = u[1]
            BY <5>5, <5>7
          <5>. QED  BY <5>2, <5>4, <5>5, <5>6, <5>8
        <4>3. \E s \in {"InProgress", "Finished"} : reply'[c] = Unit(s, 0)
          <5>1. PICK n \in Partitions : Stream(c, n)'
            BY DEF StreamInv, ClientStream
          <5>2. PICK next \in Questions : Talk(c, next)'
            BY <5>1 DEF Stream
          <5>. QED  BY <5>2 DEF Talk
        <4>4. \A s \in {"InProgress", "Finished"} : \A k \in DOMAIN Unit(s, 0) : Unit(s, 0)[k].kind = s
          BY DEF Unit
        <4>. QED  BY <4>2, <4>3, <4>4
      <3>. QED  BY <1>1, <3>2
    <2>. QED  BY <2>2, <2>3
  <1>. QED  BY <1>2, <1>3

LEMMA NextAnswered ==
  ASSUME WholeRequests, TypeInv, StreamInv, AnsweredInv, [Next]_vars
  PROVE  AnsweredInv'
  <1>. SockTypes /\ ClientTypes /\ ServerInv
    BY DEF TypeInv
  <1>. SUFFICES ASSUME NEW d \in Clients PROVE AnsweredOf(d)'
    BY DEF AnsweredInv
  <1>0. AnsweredOf(d) /\ StreamInv'
    BY NextStream DEF AnsweredInv
  <1>1. ASSUME cpc'[d] = cpc[d], reply'[d] = reply[d], UNCHANGED m_contextMap PROVE AnsweredOf(d)'
    BY <1>0, <1>1 DEF AnsweredOf, HasTaskContext
  <1>2. CASE ServerSide
    <2>1. CASE InitStep \/ PollStep \/ AcceptFails
      <3>1. SameStream(d) /\ UNCHANGED m_contextMap
        BY <2>1, PollStream, PollQuiet
      <3>. QED  BY <1>1, <1>2, <3>1 DEF ServerSide, clientVars, SameStream
    <2>. QED  BY <1>0, <1>2, <2>1, AnswersForTask DEF ServerSide, ServerStep
  <1>3. ASSUME NEW c \in Clients, ClientSide(c) \/ Network(c) PROVE AnsweredOf(d)'
    <2>1. UNCHANGED m_contextMap
      BY <1>3 DEF ClientSide, Network, serverVars
    <2>2. CASE c # d
      <3>1. SameStream(d) /\ cpc'[d] = cpc[d]
        BY <1>3, <2>2, OtherClients DEF ClientSide, Network
      <3>. QED  BY <1>1, <2>1, <3>1 DEF SameStream
    <2>3. CASE c = d
      <3>0. cpc \in [Clients -> ClientPoints]
        BY ClientTypesDef
      <3>1. CASE cpc'[d] # "status"
        BY <3>1 DEF AnsweredOf
      <3>2. CASE AskStatus(d)
        <4>1. cpc[d] = "ask" /\ reply'[d] = reply[d]
          BY <3>2 DEF AskStatus, ClientAt
        <4>2. reply[d] = <<>>
          BY <4>1 DEF StreamInv, ClientStream, Stream, Talk
        <4>. QED  BY <4>1, <4>2 DEF AnsweredOf
      <3>3. CASE Quit(d) \/ Network(d)
        BY <1>1, <2>1, <3>3 DEF Quit, Network, Arrive, ResetByPeer, Disappear, clientVars
      <3>4. CASE ReadStatus(d)
        BY <3>1, <3>4, StatusRead
      <3>5. CASE ReadResultSize(d) \/ ReadResult(d) \/ Connect(d) \/ ConnectFails(d) \/ GiveUp(d) \/ SubmitTask(d)
                 \/ Leave(d)
        <4>1. cpc'[d] \in {"body", "threw", "ended", "submit", "start", "failed", "ask", "left"}
          BY <3>0, <3>5 DEF ReadResultSize, ReadResult, Connect, ConnectFails, GiveUp, SubmitTask, Leave, ClientAt,
            ClientGoto
        <4>. QED  BY <3>1, <4>1
      <3>. QED  BY <1>3, <2>3, <3>2, <3>3, <3>4, <3>5 DEF ClientSide, ClientStep
    <2>. QED  BY <2>2, <2>3
  <1>4. CASE UNCHANGED vars
    BY <1>1, <1>4 DEF vars, sockVars, clientVars, serverVars
  <1>. QED  BY <1>2, <1>3, <1>4 DEF Next, Over

(* The steps of RemoteTask, in the variables of the programs.                *)
LEMMA PromiseInit == Init => Promise!Init
  <1>1. Final # <<>>
    BY FinalType
  <1>. QED  BY <1>1 DEF Init, ClientInit, ServerInit, Promise!Init, Final

LEMMA PromiseStutters ==
  ASSUME UNCHANGED <<Accepted, ExecutedChunks, status, Given>>
  PROVE  [Promise!Next]_(Promise!vars)
  BY DEF Promise!vars, Accepted, ExecutedChunks, DoneChunks, ExecutionChunks, IsDone, Given, Final

LEMMA PromiseAccepts ==
  ASSUME NEW c \in Clients, c \notin Accepted, Accepted' = Accepted \cup {c}, UNCHANGED <<ExecutedChunks, status, Given>>
  PROVE  [Promise!Next]_(Promise!vars)
  BY DEF Promise!Next, Promise!Accept, Accepted, ExecutedChunks, DoneChunks, ExecutionChunks, IsDone, Given, Final

LEMMA PromiseExecutes ==
  ASSUME NEW c \in Clients, c \in Accepted, NEW i \in 1 .. NumChunks, i \notin ExecutedChunks[c],
         ExecutedChunks' = [ExecutedChunks EXCEPT ![c] = @ \cup {i}], UNCHANGED <<Accepted, status, Given>>
  PROVE  [Promise!Next]_(Promise!vars)
  BY DEF Promise!Next, Promise!Execute, Accepted, ExecutedChunks, DoneChunks, ExecutionChunks, IsDone, Given, Final

LEMMA PromiseTells ==
  ASSUME NEW c \in Clients, status[c] \in {"Unknown", "InProgress"}, UNCHANGED <<Accepted, ExecutedChunks>>,
         \/ c \in Accepted /\ status' = [status EXCEPT ![c] = "InProgress"] /\ UNCHANGED Given
         \/ c \in Accepted /\ status' = [status EXCEPT ![c] = "Failed"] /\ UNCHANGED Given
         \/ /\ ExecutedChunks[c] = 1 .. NumChunks
            /\ status' = [status EXCEPT ![c] = "Finished"] /\ Given' = Given \cup {c}
  PROVE  [Promise!Next]_(Promise!vars)
  BY DEF Promise!Next, Promise!TellInProgress, Promise!TellFinished, Promise!TellFailed,
    Accepted, ExecutedChunks, DoneChunks, ExecutionChunks, IsDone, Given, Final

(* What a worker does: a task is taken in with no chunk, a chunk is added    *)
(* that is not executed, or one is marked.                                   *)
LEMMA WorkerPromise ==
  ASSUME WholeRequests, OnePartition, TypeInv, ChunkInv, StreamInv,
         NEW w \in Workers, WorkerStep(w) \/ ConnectionReset(w), UNCHANGED clientVars
  PROVE  [Promise!Next]_(Promise!vars)
  <1>. SockTypes /\ ServerInv /\ ServerTypes
    BY DEF TypeInv, ServerInv
  <1>0. UNCHANGED <<status, Given>>
    BY DEF clientVars, Given, Final, ExecutedMatrix
  <1>1. ASSUME NEW d \in Clients, SameChunks(d)
        PROVE  DoneChunks(d)' = DoneChunks(d) /\ (d \in Accepted' <=> d \in Accepted)
    BY <1>1 DEF SameChunks, DoneChunks, ExecutionChunks, IsDone, Accepted
  <1>2. Accepted \subseteq Clients /\ Accepted' \subseteq Clients
    <2>1. SockTypes' /\ ServerInv'
      BY WorkerInv
    <2>. QED  BY <2>1 DEF ServerInv, ServerTypes, ServerTypeOK, Accepted
  <1>3. ASSUME NEW c \in Clients, c = Client(w), \A d \in Clients \ {c} : SameChunks(d),
               c \in Accepted, c \in Accepted', DoneChunks(c)' = DoneChunks(c)
        PROVE  [Promise!Next]_(Promise!vars)
    <2>1. Accepted' = Accepted
      BY <1>1, <1>2, <1>3
    <2>2. \A d \in Clients : DoneChunks(d)' = DoneChunks(d)
      BY <1>1, <1>3
    <2>3. ExecutedChunks' = ExecutedChunks
      BY <2>2 DEF ExecutedChunks
    <2>. QED  BY <1>0, <2>1, <2>3, PromiseStutters
  <1>4. CASE \A d \in Clients : SameChunks(d)
    <2>1. Accepted' = Accepted
      BY <1>1, <1>2, <1>4
    <2>2. ExecutedChunks' = ExecutedChunks
      BY <1>1, <1>4 DEF ExecutedChunks
    <2>. QED  BY <1>0, <2>1, <2>2, PromiseStutters
  <1>5. CASE (\A d \in Clients \ {Client(w)} : SameChunks(d)) /\ AddsTask(w)
    <2>1. PICK c \in Clients : c = Client(w)
      BY <1>5 DEF AddsTask
    <2>2. c \notin Accepted /\ c \in Accepted' /\ m_contextMap'[c].ExecutionChunks = <<>>
      BY <1>5, <2>1 DEF AddsTask, Accepted
    <2>3. Accepted' = Accepted \cup {c}
      BY <1>1, <1>2, <1>5, <2>1, <2>2
    <2>4. DoneChunks(c)' = {} /\ DoneChunks(c) = {}
      BY <2>2, EmptySeq DEF DoneChunks, ExecutionChunks, Accepted
    <2>5. \A d \in Clients : DoneChunks(d)' = DoneChunks(d)
      BY <1>1, <1>5, <2>1, <2>4
    <2>6. ExecutedChunks' = ExecutedChunks
      BY <2>5 DEF ExecutedChunks
    <2>. QED  BY <1>0, <2>2, <2>3, <2>6, PromiseAccepts
  <1>6. CASE (\A d \in Clients \ {Client(w)} : SameChunks(d)) /\ AddsChunk(w)
    <2>1. PICK c \in Clients : c = Client(w)
      BY <1>6 DEF AddsChunk
    <2>2. c \in DOMAIN m_contextMap /\ c \in DOMAIN m_contextMap'
      BY <1>6, <2>1 DEF AddsChunk
    <2>3. PICK one \in Chunks : one.State = "InProgress" /\ ExecutionChunks(c)' = Append(ExecutionChunks(c), one)
      BY <1>6, <2>1 DEF AddsChunk, ExecutionChunks
    <2>4. ExecutionChunks(c) \in Seq(Chunks)
      BY <2>2, ServerTypesDef, ContextType DEF ExecutionChunks
    <2>5. /\ DOMAIN ExecutionChunks(c)' = 1 .. Len(ExecutionChunks(c)) + 1
          /\ DOMAIN ExecutionChunks(c) = 1 .. Len(ExecutionChunks(c)) /\ Len(ExecutionChunks(c)) \in Nat
          /\ \A k \in DOMAIN ExecutionChunks(c) : ExecutionChunks(c)'[k] = ExecutionChunks(c)[k]
          /\ ExecutionChunks(c)'[Len(ExecutionChunks(c)) + 1] = one
      BY <2>3, <2>4, AppendAt, LenProperties
    <2>6. \A k \in DOMAIN ExecutionChunks(c)' : k \in DOMAIN ExecutionChunks(c) \/ k = Len(ExecutionChunks(c)) + 1
      BY <2>5
    <2>7. \A k \in DOMAIN ExecutionChunks(c) : k \in DOMAIN ExecutionChunks(c)'
      BY <2>5
    <2>8. DoneChunks(c)' = DoneChunks(c)
      BY <2>2, <2>3, <2>5, <2>6, <2>7 DEF DoneChunks, IsDone
    <2>. QED  BY <1>3, <1>6, <2>1, <2>2, <2>8 DEF Accepted
  <1>7. CASE (\A d \in Clients \ {Client(w)} : SameChunks(d)) /\ MarksChunk(w)
    <2>1. PICK c \in Clients : c = Client(w)
      BY <1>7 DEF MarksChunk
    <2>2. PICK i : i = job[w].chunk
      OBVIOUS
    <2>3. /\ wpc[w] = "done" /\ c \in DOMAIN m_contextMap /\ c \in DOMAIN m_contextMap'
          /\ i \in DOMAIN ExecutionChunks(c) /\ DOMAIN ExecutionChunks(c)' = DOMAIN ExecutionChunks(c)
          /\ ExecutionChunks(c)'[i].State = "Done"
          /\ \A k \in DOMAIN ExecutionChunks(c) \ {i} : ExecutionChunks(c)'[k] = ExecutionChunks(c)[k]
      BY <1>7, <2>1, <2>2 DEF MarksChunk, ExecutionChunks
    <2>4. job[w] = Chunk(c, i) /\ i \in 1 .. NumChunks
      <3>1. wpc[w] \in ChunkPoints
        BY <2>3 DEF ChunkPoints
      <3>. QED  BY <2>1, <2>2, <3>1, DelegateTask DEF OnePartition
    <2>5. i \notin DoneChunks(c)
      <3>1. Present(c, i)
        BY <2>4 DEF Present
      <3>. QED  BY <2>3, <3>1 DEF ChunkInv, PresentUntilDone, DoneChunks
    <2>6. DoneChunks(c)' = DoneChunks(c) \cup {i}
      BY <2>3 DEF DoneChunks, IsDone
    <2>7. Accepted' = Accepted
      BY <1>1, <1>2, <1>7, <2>1, <2>3 DEF Accepted
    <2>8. \A d \in Clients : DoneChunks(d)' = IF d = c THEN DoneChunks(d) \cup {i} ELSE DoneChunks(d)
      BY <1>1, <1>7, <2>1, <2>6
    <2>9. ExecutedChunks' = [ExecutedChunks EXCEPT ![c] = @ \cup {i}] /\ ExecutedChunks[c] = DoneChunks(c)
      BY <2>8 DEF ExecutedChunks
    <2>. QED  BY <1>0, <2>3, <2>4, <2>5, <2>7, <2>9, PromiseExecutes DEF Accepted
  <1>. QED  BY <1>4, <1>5, <1>6, <1>7, ChunkEffect

(* What a client does: it notes a status, or its result.                     *)
LEMMA ClientPromise ==
  ASSUME WholeRequests, WholeSizes, OnePartition, TypeInv, StreamInv, ResultInv, OutcomeInv, AnsweredInv,
         NEW c \in Clients, ClientSide(c) \/ Network(c)
  PROVE  [Promise!Next]_(Promise!vars)
  <1>. SockTypes /\ ClientTypes /\ ServerTypes
    BY DEF TypeInv, ServerInv
  <1>1. UNCHANGED <<Accepted, ExecutedChunks>> /\ Final' = Final
    BY DEF ClientSide, Network, serverVars, Accepted, ExecutedChunks, DoneChunks, ExecutionChunks, IsDone, Final, ExecutedMatrix
  <1>2. status \in [Clients -> ETaskStatus] /\ bytes \in [Clients -> Seq(StreamUnits)]
    BY ClientTypesDef
  <1>3. UNCHANGED bytes => UNCHANGED Given
    BY <1>1 DEF Given
  <1>4. CASE UNCHANGED <<status, bytes>>
    BY <1>1, <1>3, <1>4, PromiseStutters
  <1>5. OutcomeOf(c) /\ ResultOf(c) /\ AnsweredOf(c)
    BY DEF OutcomeInv, ResultInv, AnsweredInv
  <1>6. CASE ReadStatus(c)
    <2>1. cpc[c] = "status" /\ reply[c] # <<>>
      BY <1>6 DEF ReadStatus, ClientAt
    <2>2. c \in Accepted /\ status[c] \in {"Unknown", "InProgress"}
      BY <1>5, <2>1 DEF AnsweredOf, HasTaskContext, Accepted, OutcomeOf
    <2>3. UNCHANGED status \/ \E s : status' = [status EXCEPT ![c] = s]
      BY <1>6 DEF ReadStatus, AfterStatus
    <2>4. UNCHANGED bytes /\ (status'[c] = status[c] \/ status'[c] = "InProgress")
      BY <1>6, StatusRead
    <2>5. UNCHANGED status \/ status' = [status EXCEPT ![c] = "InProgress"]
      BY <1>2, <2>3, <2>4
    <2>. QED  BY <1>1, <1>3, <1>4, <2>2, <2>4, <2>5, PromiseTells
  <1>7. CASE ReadResult(c)
    <2>1. cpc[c] = "body" /\ status[c] \in {"Unknown", "InProgress"} /\ bytes[c] = <<>>
      BY <1>5, <1>7 DEF ReadResult, ClientAt, OutcomeOf
    <2>2. AllDone(c)
      BY <1>5, <2>1, BodyThere
    <2>3. PICK m \in 0 .. NumCols : Sending(c, m) /\ want[c] = NumCols /\ reply[c] = First(Final, m)
      BY <1>5, <2>1, BodyThere
    <2>4. \/ m = NumCols /\ bytes'[c] = Final /\ status'[c] = "Finished"
          \/ bytes'[c] = <<>> /\ status'[c] = "Failed"
      BY <1>7, <2>3, BodyRead
    <2>5. (\E s : status' = [status EXCEPT ![c] = s]) /\ (\E b : bytes' = [bytes EXCEPT ![c] = b])
      BY <1>7 DEF ReadResult
    <2>6. Final # <<>>
      BY FinalType
    <2>7. CASE m = NumCols /\ bytes'[c] = Final /\ status'[c] = "Finished"
      <3>1. status' = [status EXCEPT ![c] = "Finished"]
        BY <1>2, <2>5, <2>7
      <3>2. Given' = Given \cup {c}
        BY <1>1, <1>2, <2>5, <2>7 DEF Given
      <3>3. WholeTask(c, NumChunks)
        <4>1. CommunicatorFree(c)
          <5>1. NumCols # 0 /\ ~(NumCols < NumCols)
            BY FinalType
          <5>. QED  BY <2>3, <2>7, <5>1 DEF Sending
        <4>2. Stream(c, NumChunks)
          BY <2>1 DEF StreamInv, ClientStream, OnePartition
        <4>3. PICK r : Progress(c, NumChunks, r)
          BY <4>2 DEF Stream
        <4>. QED  BY <2>2, <4>1, <4>3 DEF Progress, CommunicatorFree, AllDone
      <3>4. ExecutedChunks[c] = 1 .. NumChunks
        <4>1. DOMAIN ExecutionChunks(c) = 1 .. NumChunks
          BY <3>3, WholeDomains
        <4>. QED  BY <2>2, <4>1 DEF ExecutedChunks, DoneChunks, AllDone, HasTaskContext
      <3>. QED  BY <1>1, <2>1, <3>1, <3>2, <3>4, PromiseTells
    <2>8. CASE bytes'[c] = <<>> /\ status'[c] = "Failed"
      <3>1. status' = [status EXCEPT ![c] = "Failed"]
        BY <1>2, <2>5, <2>8
      <3>2. Given' = Given
        <4>1. bytes' = bytes
          BY <1>2, <2>1, <2>5, <2>8
        <4>. QED  BY <1>3, <4>1
      <3>3. c \in Accepted
        BY <2>2 DEF AllDone, HasTaskContext, Accepted
      <3>. QED  BY <1>1, <2>1, <3>1, <3>2, <3>3, PromiseTells
    <2>. QED  BY <2>4, <2>7, <2>8
  <1>. QED
    BY <1>4, <1>6, <1>7
    DEF ClientSide, Network, ClientStep, Connect, ConnectFails, GiveUp, SubmitTask, AskStatus, ReadResultSize, Leave,
      Quit, clientVars

LEMMA NextRemoteTask ==
  ASSUME WholeRequests, WholeSizes, OnePartition, TypeInv, ChunkInv, StreamInv, ResultInv, OutcomeInv, AnsweredInv,
         [Next]_vars
  PROVE  [Promise!Next]_(Promise!vars)
  <1>1. ASSUME UNCHANGED <<m_contextMap, status, bytes>> PROVE [Promise!Next]_(Promise!vars)
    BY <1>1, PromiseStutters DEF Accepted, ExecutedChunks, DoneChunks, ExecutionChunks, IsDone, Given, Final, ExecutedMatrix
  <1>2. CASE ServerSide
    <2>1. CASE InitStep \/ PollStep \/ AcceptFails
      <3>1. UNCHANGED m_contextMap
        BY <2>1, PollQuiet DEF TypeInv
      <3>. QED  BY <1>1, <1>2, <3>1 DEF ServerSide, clientVars
    <2>. QED  BY <1>2, <2>1, WorkerPromise DEF ServerSide, ServerStep
  <1>3. CASE UNCHANGED vars
    BY <1>1, <1>3 DEF vars, clientVars, serverVars
  <1>. QED  BY <1>2, <1>3, ClientPromise DEF Next, Over

(* The programs keep the promise of RemoteTask for any number of clients,    *)
(* workers, chunks and columns: sockets, polling, duplicate jobs and locks    *)
(* are not seen by who uses ClientTaskHandler.                               *)
THEOREM ProgramsImplementRemoteTask ==
  ASSUME WholeRequests, WholeSizes, OnePartition PROVE Spec => ImplementsRemoteTask
  <1>1. Init => OutcomeInv /\ AnsweredInv
    BY DEF Init, SockInit, ClientInit, OutcomeInv, OutcomeOf, AnsweredInv, AnsweredOf
  <1>2. TypeInv /\ StreamInv /\ ResultInv /\ OutcomeInv /\ [Next]_vars => OutcomeInv'
    BY NextOutcome
  <1>3. TypeInv /\ StreamInv /\ AnsweredInv /\ [Next]_vars => AnsweredInv'
    BY NextAnswered
  <1>4. /\ TypeInv /\ ChunkInv /\ StreamInv /\ ResultInv /\ OutcomeInv /\ AnsweredInv /\ [Next]_vars
        => [Promise!Next]_(Promise!vars)
    BY NextRemoteTask
  <1>. QED  BY <1>1, <1>2, <1>3, <1>4, PromiseInit, ResultInvariant, PTL DEF Spec, ImplementsRemoteTask, Promise!Spec
=============================================================================
