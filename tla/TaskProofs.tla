----------------------------- MODULE TaskProofs -----------------------------
(***************************************************************************)
(* What becomes of a task, for every number of clients, workers and chunks *)
(* and however the network cuts what is sent: each of its chunks is        *)
(* executed once, and Finished is not said before all of them are.         *)
(***************************************************************************)
EXTENDS AsyncSocketsProofs

IsDone(c, i) == ExecutionChunks(c)[i].State = "Done"

(* The job of a chunk waits in the queue or is being executed.               *)
Present(c, i) ==
  \/ \E k \in DOMAIN queue : queue[k] = Chunk(c, i)
  \/ \E w \in Workers : job[w] = Chunk(c, i)

(* No two jobs are for one chunk.                                           *)
QueuedApart == \A j, k \in DOMAIN queue : queue[j].what = "chunk" /\ queue[j] = queue[k] => j = k
TakenApart  == \A v, w \in Workers : job[v].what = "chunk" /\ job[v] = job[w] => v = w
TakenFromQueue == \A k \in DOMAIN queue, w \in Workers : queue[k].what = "chunk" => job[w] # queue[k]

(* There is a job for the chunks that are submitted and not done.            *)
PresentUntilDone ==
  \A c \in DOMAIN m_contextMap : \A i \in DOMAIN ExecutionChunks(c) :
    /\ Present(c, i) <=> ~(IsDone(c, i) \/ NotYet(c, i))
    /\ NotYet(c, i) => ~IsDone(c, i)

ChunkInv == QueuedApart /\ TakenApart /\ TakenFromQueue /\ PresentUntilDone

(* The handler of a status request has seen that the chunks behind it are    *)
(* done; what it and others have answered stays true, because no task grows  *)
(* once a client has been told that it is finished.                          *)
ToldFinished(c) == \E k \in DOMAIN reply[c] : reply[c][k].kind = "Finished"
AllDone(c) == HasTaskContext(c) /\ \A i \in DOMAIN ExecutionChunks(c) : IsDone(c, i)
ScannedDone(w) ==
  wpc[w] = "scan" =>
    \A i \in DOMAIN ExecutionChunks(Client(w)) : i < loc[w].i => IsDone(Client(w), i)

FinishInv ==
  /\ \A w \in Workers : ScannedDone(w)
  /\ \A w \in Workers : wpc[w] = "chunks" => ~ToldFinished(Client(w))
  /\ \A c \in Clients : ToldFinished(c) => AllDone(c)

-----------------------------------------------------------------------------
(* What a worker's step does to the chunks of the tasks.                     *)

SameChunks(d) ==
  /\ d \in DOMAIN m_contextMap' <=> d \in DOMAIN m_contextMap
  /\ d \in DOMAIN m_contextMap => m_contextMap'[d].ExecutionChunks = m_contextMap[d].ExecutionChunks

AddsTask(w) ==
  /\ wpc[w] = "count" /\ wpc'[w] = "chunks"
  /\ Client(w) \in Clients /\ Client(w) \notin DOMAIN m_contextMap
  /\ Client(w) \in DOMAIN m_contextMap' /\ m_contextMap'[Client(w)].ExecutionChunks = <<>>

AddsChunk(w) ==
  /\ wpc[w] = "chunks" /\ wpc'[w] \in {"chunks", "size"}
  /\ Client(w) \in Clients /\ Client(w) \in DOMAIN m_contextMap /\ Client(w) \in DOMAIN m_contextMap'
  /\ \E one \in Chunks :
       /\ one.State = "InProgress"
       /\ m_contextMap'[Client(w)].ExecutionChunks = Append(m_contextMap[Client(w)].ExecutionChunks, one)

MarksChunk(w) ==
  LET chunks == m_contextMap[Client(w)].ExecutionChunks
      after  == m_contextMap'[Client(w)].ExecutionChunks
  IN  /\ wpc[w] = "done"
      /\ Client(w) \in Clients /\ Client(w) \in DOMAIN m_contextMap /\ Client(w) \in DOMAIN m_contextMap'
      /\ job[w].chunk \in DOMAIN chunks /\ DOMAIN after = DOMAIN chunks
      /\ after[job[w].chunk].State = "Done"
      /\ \A i \in DOMAIN chunks \ {job[w].chunk} : after[i] = chunks[i]

LEMMA ChunkEffect ==
  ASSUME SockTypes, ServerInv, NEW w \in Workers, WorkerStep(w) \/ ConnectionReset(w)
  PROVE  /\ \/ \A d \in Clients : SameChunks(d)
            \/ /\ \A d \in Clients \ {Client(w)} : SameChunks(d)
               /\ \/ ReadNumChunks(w) /\ AddsTask(w)
                  \/ ReadChunk(w) /\ AddsChunk(w)
                  \/ MarkDone(w) /\ MarksChunk(w)
         /\ ReadNumChunks(w) => AddsTask(w)
         /\ MarkDone(w) => MarksChunk(w)
  <1>. DataTypes /\ ServerTypes /\ JobOK /\ HandlerOK /\ StreamTypes /\ ChunksKnown
    BY DataTypesDef DEF ServerInv, SockTypes
  <1>1. ASSUME NEW c \in Clients, NEW x \in Contexts, SetContext(c, x)
        PROVE  /\ \A d \in Clients \ {c} : SameChunks(d)
               /\ c \in DOMAIN m_contextMap' /\ m_contextMap'[c] = x
    BY <1>1, SetContextType DEF SameChunks
  <1>2. ASSUME ReadNumChunks(w)
        PROVE  AddsTask(w) /\ \A d \in Clients \ {Client(w)} : SameChunks(d)
    <2>. DEFINE x == TaskContext(loc[w].header, <<>>, <<>>)
    <2>1. wpc[w] = "count" /\ wpc'[w] = "chunks" /\ SetContext(Client(w), x)
      BY <1>2, ServerTypesDef DEF ReadNumChunks, ReadField, Goto
    <2>2. Client(w) \in Clients /\ Client(w) \notin DOMAIN m_contextMap
      BY <2>1, WorkerClient DEF HandlerOK, HandlerAt, HandlerPoints, HasTaskContext
    <2>3. x \in Contexts /\ x.ExecutionChunks = <<>>
      BY GetLocal, EmptySeq DEF TaskContext, Contexts
    <2>. HIDE DEF x
    <2>. QED  BY <1>1, <1>2, <2>1, <2>2, <2>3 DEF AddsTask
  <1>. DEFINE chunks == Context(w).ExecutionChunks
  <1>3. wpc[w] \in ChunkPoints =>
          /\ Client(w) \in Clients /\ Client(w) \in DOMAIN m_contextMap
          /\ Context(w) \in Contexts /\ Context(w) = m_contextMap[Client(w)]
          /\ job[w].chunk \in 1 .. Len(chunks) /\ DOMAIN chunks = 1 .. Len(chunks)
    <2>1. wpc[w] \in ChunkPoints => Client(w) \in Clients /\ job[w].what = "chunk"
      BY WorkerClient, ChunkJobFields DEF JobOK
    <2>2. wpc[w] \in ChunkPoints =>
            /\ Client(w) \in DOMAIN m_contextMap
            /\ job[w].chunk \in DOMAIN chunks
      BY <2>1 DEF ChunksKnown, Known, Client, Context, ExecutionChunks
    <2>. QED  BY <2>1, <2>2, ServerTypesDef, ContextType DEF Context
  <1>4. ASSUME MarkDone(w)
        PROVE  MarksChunk(w) /\ \A d \in Clients \ {Client(w)} : SameChunks(d)
    <2>. DEFINE i == job[w].chunk
                x == [Context(w) EXCEPT !.ExecutionChunks[i].State = "Done"]
    <2>1. wpc[w] = "done" /\ wpc[w] \in ChunkPoints /\ SetContext(Client(w), x)
      BY <1>4 DEF MarkDone, ChunkPoints
    <2>2. Context(w) \in Contexts /\ i \in 1 .. Len(chunks)
      BY <1>3, <2>1
    <2>3. /\ x \in Contexts /\ Len(x.ExecutionChunks) = Len(chunks)
          /\ x.ExecutionChunks[i] = [chunks[i] EXCEPT !.State = "Done"]
          /\ \A j \in 1 .. Len(chunks) : j # i => x.ExecutionChunks[j] = chunks[j]
      BY <2>2, MarkChunk
    <2>4. chunks[i] \in Chunks
      BY <2>2, ContextType, ElementOfSeq
    <2>5. x.ExecutionChunks[i].State = "Done"
      BY <2>3, <2>4 DEF Chunks
    <2>6. DOMAIN x.ExecutionChunks = 1 .. Len(chunks)
      BY <2>3, ContextType
    <2>. HIDE DEF x
    <2>. QED  BY <1>1, <1>3, <1>4, <2>1, <2>2, <2>3, <2>5, <2>6 DEF MarksChunk
  <1>5. CASE UNCHANGED m_contextMap
    BY <1>2, <1>4, <1>5 DEF SameChunks
  <1>6. CASE ReadChunk(w)
    <2>1. wpc[w] = "chunks" /\ wpc'[w] \in {"chunks", "size"}
      BY <1>6, ServerTypesDef DEF ReadChunk, ReadField, Goto
    <2>2. Client(w) \in Clients /\ Client(w) \in DOMAIN m_contextMap
      BY <2>1, WorkerClient DEF HandlerOK, HandlerAt, HandlerPoints, HasTaskContext
    <2>3. PICK n \in Numbers(Read(w, 2), "chunk") :
            SetContext(Client(w),
              [Context(w) EXCEPT !.ExecutionChunks = Append(@, ExecutionChunk(n[1], n[2]))])
      BY <1>6 DEF ReadChunk
    <2>. DEFINE one == ExecutionChunk(n[1], n[2])
                x == [Context(w) EXCEPT !.ExecutionChunks = Append(@, one)]
    <2>4. one \in Chunks /\ one.State = "InProgress"
      <3>1. Read(w, 2) \in Seq(DataUnits)
        BY <2>2, ReadType
      <3>2. n[1] \in Nat /\ n[2] \in Nat
        BY <1>6, <3>1, NumbersType DEF ReadChunk
      <3>. QED  BY <3>2 DEF ExecutionChunk, Chunks, EChunkState
    <2>5. Context(w) \in Contexts /\ Context(w) = m_contextMap[Client(w)]
      BY <2>2, ServerTypesDef DEF Context
    <2>. HIDE DEF one
    <2>6. x \in Contexts /\ x.ExecutionChunks = Append(Context(w).ExecutionChunks, one)
      BY <2>4, <2>5, AppendProperties DEF Contexts
    <2>7. SetContext(Client(w), x)
      BY <2>3 DEF one
    <2>. HIDE DEF x
    <2>. QED  BY <1>1, <1>2, <1>4, <1>6, <2>1, <2>2, <2>4, <2>5, <2>6, <2>7 DEF AddsChunk
  <1>7. CASE ReadBody(w)
    <2>. DEFINE body == Context(w).Body \o Read(w, loc[w].num - Len(Context(w).Body))
                x == [Context(w) EXCEPT !.Body = body]
    <2>1. wpc[w] = "body"
      BY <1>7 DEF ReadBody, ReadField
    <2>2. Client(w) \in Clients /\ Client(w) \in DOMAIN m_contextMap
      BY <2>1, WorkerClient DEF HandlerOK, HandlerAt, HandlerPoints, HasTaskContext
    <2>3. Context(w) \in Contexts /\ Context(w) = m_contextMap[Client(w)]
      BY <2>2, ServerTypesDef DEF Context
    <2>4. loc[w].num - Len(Context(w).Body) \in Int
      <3>1. Len(Context(w).Body) \in Nat /\ loc[w].num \in Nat
        BY <2>3, ContextType, GetLocal
      <3>. QED  BY <3>1
    <2>5. body \in Seq(DataUnits)
      BY <2>2, <2>3, <2>4, ReadType, ConcatProperties, ContextType
    <2>. HIDE DEF body
    <2>6. x \in Contexts /\ x.ExecutionChunks = Context(w).ExecutionChunks
      BY <2>3, <2>5 DEF Contexts
    <2>7. SetContext(Client(w), x)
      BY <1>7 DEF ReadBody, body
    <2>. HIDE DEF x
    <2>8. SameChunks(Client(w)) /\ \A d \in Clients \ {Client(w)} : SameChunks(d)
      BY <1>1, <2>2, <2>3, <2>6, <2>7 DEF SameChunks
    <2>. QED  BY <1>2, <1>4, <2>8
  <1>8. CASE ComputeChunk(w) /\ m_contextMap' # m_contextMap
    <2>. DEFINE body == [k \in DOMAIN Context(w).Body |->
                           IF k \in Columns(w) THEN Execute(Context(w).Body[k]) ELSE Context(w).Body[k]]
                x == [Context(w) EXCEPT !.Body = body]
    <2>1. wpc[w] \in ChunkPoints /\ SetContext(Client(w), x)
      BY <1>8 DEF ComputeChunk, ChunkPoints
    <2>2. Context(w) \in Contexts
      BY <1>3, <2>1
    <2>3. body \in Seq(DataUnits)
      BY <2>2, ExecuteBody
    <2>. HIDE DEF body
    <2>4. x \in Contexts /\ x.ExecutionChunks = chunks
      BY <2>2, <2>3 DEF Contexts
    <2>. HIDE DEF x
    <2>5. SameChunks(Client(w)) /\ \A d \in Clients \ {Client(w)} : SameChunks(d)
      BY <1>1, <1>3, <2>1, <2>4 DEF SameChunks
    <2>. QED  BY <1>2, <1>4, <2>5
  <1>9. \/ UNCHANGED m_contextMap \/ ReadNumChunks(w) \/ ReadChunk(w) \/ ReadBody(w)
        \/ ComputeChunk(w) \/ MarkDone(w)
    BY DEF WorkerStep, PoolStep, RequestStep, ChunkStep, ConnectionReset,
      Take, FindEmpty, Wait, NothingRead, IgnoreRequest, ReadTaskSubmition, ReadTaskStatus, ReadTaskResult,
      ReadRequest, StartRequest, ShortRead, ReadHeader, RejectNumChunks, ReadNumBytes, SubmitChunk,
      ScanChunk, AnswerFinished, WriteNumBytes, CopyChunk, WriteResult, StartChunk
  <1>. QED  BY <1>5, <1>2, <1>6, <1>7, <1>8, <1>4, <1>9

-----------------------------------------------------------------------------
(* What has been answered. *)

LEMMA ConcatAt ==
  ASSUME NEW S, NEW s \in Seq(S), NEW u \in Seq(S)
  PROVE  \A k \in DOMAIN (s \o u) :
           \/ k \in DOMAIN s /\ (s \o u)[k] = s[k]
           \/ k - Len(s) \in DOMAIN u /\ (s \o u)[k] = u[k - Len(s)]
  <1>. SUFFICES ASSUME NEW k \in DOMAIN (s \o u)
                PROVE  \/ k \in DOMAIN s /\ (s \o u)[k] = s[k]
                       \/ k - Len(s) \in DOMAIN u /\ (s \o u)[k] = u[k - Len(s)]
    OBVIOUS
  <1>1. Len(s) \in Nat /\ Len(u) \in Nat /\ DOMAIN s = 1 .. Len(s) /\ DOMAIN u = 1 .. Len(u)
    OBVIOUS
  <1>2. DOMAIN (s \o u) = 1 .. Len(s) + Len(u)
    BY ConcatProperties
  <1>3. (s \o u)[k] = IF k <= Len(s) THEN s[k] ELSE u[k - Len(s)]
    BY <1>2, ConcatProperties
  <1>4. CASE k <= Len(s)
    BY <1>1, <1>2, <1>3, <1>4
  <1>5. CASE k > Len(s)
    BY <1>1, <1>2, <1>3, <1>5
  <1>. QED  BY <1>1, <1>2, <1>4, <1>5

LEMMA ToldMore ==
  ASSUME SockTypes, NEW w \in Workers, Client(w) \in Clients,
         NEW units \in Seq(StreamUnits), \A k \in DOMAIN units : units[k].kind # "Finished",
         Answer(w, units), NEW c \in Clients, ToldFinished(c)'
  PROVE  ToldFinished(c)
  <1>1. reply \in [Clients -> Seq(StreamUnits)] /\ reply[Client(w)] \in Seq(StreamUnits)
    BY SockTypesDef
  <1>2. PICK k \in DOMAIN reply'[c] : reply'[c][k].kind = "Finished"
    BY DEF ToldFinished
  <1>3. CASE c # Client(w)
    BY <1>1, <1>2, <1>3 DEF Answer, ToldFinished
  <1>4. CASE c = Client(w)
    <2>. DEFINE s == reply[Client(w)]
    <2>1. reply'[c] = s \o units
      BY <1>1, <1>4 DEF Answer
    <2>2. \/ k \in DOMAIN s /\ (s \o units)[k] = s[k]
          \/ k - Len(s) \in DOMAIN units /\ (s \o units)[k] = units[k - Len(s)]
      <3>1. s \in Seq(StreamUnits) /\ k \in DOMAIN (s \o units)
        BY <1>1, <1>2, <2>1
      <3>2. \A i \in DOMAIN (s \o units) :
              \/ i \in DOMAIN s /\ (s \o units)[i] = s[i]
              \/ i - Len(s) \in DOMAIN units /\ (s \o units)[i] = units[i - Len(s)]
        <4>. HIDE DEF s
        <4>. QED  BY <3>1, ConcatAt
      <3>. QED  BY <3>1, <3>2
    <2>. QED  BY <1>2, <1>4, <2>1, <2>2 DEF ToldFinished
  <1>. QED  BY <1>3, <1>4

LEMMA UnitKinds ==
  ASSUME NEW kind
  PROVE  \A k \in DOMAIN Unit(kind, 0) : Unit(kind, 0)[k].kind = kind
  BY DEF Unit

LEMMA DataKinds ==
  ASSUME NEW s \in Seq(DataUnits)
  PROVE  \A k \in DOMAIN s : s[k].kind \notin ETaskStatus
  <1>1. \A k \in DOMAIN s : s[k] \in DataUnits
    BY ElementOfSeq
  <1>. QED  BY <1>1 DEF DataUnits

LEMMA ReplyEffect ==
  ASSUME SockTypes, ServerInv, NEW w \in Workers, WorkerStep(w) \/ ConnectionReset(w),
         NEW c \in Clients, ToldFinished(c)'
  PROVE  ToldFinished(c) \/ (AnswerFinished(w) /\ c = Client(w))
  <1>. DataTypes /\ ServerTypes /\ JobOK /\ HandlerOK /\ StreamTypes
    BY DataTypesDef DEF ServerInv, SockTypes
  <1>0. "Finished" \in ETaskStatus
    BY DEF ETaskStatus
  <1>1. CASE UNCHANGED reply
    BY <1>1 DEF ToldFinished
  <1>2. wpc[w] \in {"work"} \cup HandlerPoints => Client(w) \in Clients
    BY WorkerClient
  <1>3. ASSUME NEW kind \in Kinds \ {"Finished"}, Answer(w, Unit(kind, 0)), Client(w) \in Clients
        PROVE  ToldFinished(c)
    BY <1>3, UnitType, UnitKinds, ToldMore
  <1>4. ASSUME NEW units \in Seq(DataUnits), Answer(w, units), Client(w) \in Clients
        PROVE  ToldFinished(c)
    BY <1>0, <1>4, DataUnitsType, DataKinds, ToldMore
  <1>5. CASE ReadTaskStatus(w) /\ reply' # reply
    <2>1. wpc[w] = "work" /\ Answer(w, Unit("NotFound", 0))
      BY <1>5 DEF ReadTaskStatus, ReadRequest, StartRequest
    <2>. QED  BY <1>2, <1>3, <2>1, KindsHas DEF ETaskStatus
  <1>6. CASE ScanChunk(w) /\ reply' # reply
    <2>. DEFINE state == Context(w).ExecutionChunks[loc[w].i].State
    <2>1. wpc[w] = "scan" /\ Answer(w, Unit(StatusOfChunk[state], 0)) /\ state # "Done"
      BY <1>6 DEF ScanChunk, Passes
    <2>2. Client(w) \in Clients /\ Context(w) \in Contexts
      BY <1>2, <2>1, ServerTypesDef DEF HandlerOK, HandlerAt, HandlerPoints, HasTaskContext, Context
    <2>3. loc[w].i \in 1 .. Len(Context(w).ExecutionChunks)
      <3>1. loc[w].i >= 1 /\ loc[w].i <= Len(Context(w).ExecutionChunks)
        BY <1>6 DEF ScanChunk, HandlerOK, HandlerAt
      <3>2. loc[w].i \in Nat /\ Len(Context(w).ExecutionChunks) \in Nat
        BY <2>2, ContextType, GetLocal
      <3>. QED  BY <3>1, <3>2
    <2>4. state \in EChunkState
      <3>1. Context(w).ExecutionChunks[loc[w].i] \in Chunks
        BY <2>2, <2>3, ContextType, ElementOfSeq
      <3>. QED  BY <3>1 DEF Chunks
    <2>5. StatusOfChunk[state] \in Kinds \ {"Finished"}
      BY <2>1, <2>4, KindsHas DEF StatusOfChunk, EChunkState, ETaskStatus
    <2>. HIDE DEF state
    <2>. QED  BY <1>3, <2>1, <2>2, <2>5
  <1>7. CASE AnswerFinished(w)
    <2>1. Answer(w, Unit("Finished", 0))
      BY <1>7 DEF AnswerFinished
    <2>2. c # Client(w) => reply'[c] = reply[c]
      BY <2>1, SockTypesDef DEF Answer
    <2>. QED  BY <1>7, <2>2 DEF ToldFinished
  <1>8. CASE WriteNumBytes(w)
    <2>1. wpc[w] = "result" /\ Answer(w, Field("size", Len(Context(w).Body)))
      BY <1>8 DEF WriteNumBytes
    <2>2. Client(w) \in Clients /\ Context(w) \in Contexts
      BY <1>2, <2>1, ServerTypesDef DEF HandlerOK, HandlerAt, HandlerPoints, HasTaskContext, Context
    <2>3. Len(Context(w).Body) \in Nat
      BY <2>2, ContextType
    <2>4. Field("size", Len(Context(w).Body)) \in Seq(DataUnits)
      BY <2>3, StructType, KindsHas DEF Field
    <2>. QED  BY <1>4, <2>1, <2>2, <2>4
  <1>9. CASE WriteResult(w)
    <2>1. PICK n \in 0 .. Len(buf[w]) : Answer(w, First(buf[w], n))
      BY <1>9 DEF WriteResult
    <2>2. wpc[w] = "write" /\ buf[w] \in Seq(DataUnits) /\ Len(buf[w]) \in Nat
      BY <1>9, LenProperties DEF WriteResult, DataTypes
    <2>3. First(buf[w], n) \in Seq(DataUnits) /\ Client(w) \in Clients
      BY <1>2, <2>2, FirstType DEF HandlerPoints
    <2>. QED  BY <1>4, <2>1, <2>3
  <1>10. UNCHANGED reply \/ ReadTaskStatus(w) \/ ScanChunk(w) \/ AnswerFinished(w) \/ WriteNumBytes(w)
         \/ WriteResult(w)
    BY DEF WorkerStep, PoolStep, RequestStep, ChunkStep, ConnectionReset, Take, FindEmpty, Wait, NothingRead,
      IgnoreRequest, ReadTaskSubmition, ReadTaskResult, ShortRead, ReadHeader, RejectNumChunks, ReadNumChunks,
      ReadChunk, ReadNumBytes, ReadBody, ReadField, SubmitChunk, CopyChunk, StartChunk, ComputeChunk, MarkDone,
      sockVars
  <1>. QED  BY <1>1, <1>5, <1>6, <1>7, <1>8, <1>9, <1>10

(* How a worker comes to a point of a handler: it was there, or by one of     *)
(* these steps.                                                             *)
Unmoved(w) == UNCHANGED <<wpc, job, loc, m_contextMap, reply>>

LEMMA ComesTo ==
  ASSUME ServerTypes, JobOK, NEW w \in Workers, WorkerStep(w) \/ ConnectionReset(w)
  PROVE  /\ wpc'[w] = "scan" => Unmoved(w) \/ ReadTaskStatus(w) \/ ScanChunk(w)
         /\ wpc'[w] = "chunks" => Unmoved(w) \/ ReadNumChunks(w) \/ ReadChunk(w)
         /\ wpc'[w] = "size" => Unmoved(w) \/ ReadChunk(w)
         /\ wpc'[w] = "body" => Unmoved(w) \/ ReadNumBytes(w) \/ ReadBody(w)
         /\ wpc'[w] = "submit" => Unmoved(w) \/ ReadBody(w) \/ SubmitChunk(w)
  <1>. DEFINE Claim ==
         /\ wpc'[w] = "scan" => Unmoved(w) \/ ReadTaskStatus(w) \/ ScanChunk(w)
         /\ wpc'[w] = "chunks" => Unmoved(w) \/ ReadNumChunks(w) \/ ReadChunk(w)
         /\ wpc'[w] = "size" => Unmoved(w) \/ ReadChunk(w)
         /\ wpc'[w] = "body" => Unmoved(w) \/ ReadNumBytes(w) \/ ReadBody(w)
         /\ wpc'[w] = "submit" => Unmoved(w) \/ ReadBody(w) \/ SubmitChunk(w)
  <1>1. wpc \in [Workers -> Points]
    BY ServerTypesDef
  <1>2. CASE Take(w)
    <2>1. Head(queue) \in Jobs \ {Idle}
      BY <1>2, ServerTypesDef, HeadTailProperties DEF Take
    <2>2. Head(queue).what \in {"work", "chunk"}
      BY <2>1, JobKinds, WorkFields, ChunkJobFields
    <2>. QED  BY <1>1, <1>2, <2>2 DEF Take, Goto
  <1>3. CASE FindEmpty(w) \/ Wait(w) \/ ChunkStep(w)
    BY <1>1, <1>3 DEF FindEmpty, Wait, ChunkStep, StartChunk, ComputeChunk, MarkDone, Goto, Finish
  <1>4. CASE NothingRead(w) \/ IgnoreRequest(w) \/ ReadTaskSubmition(w) \/ ReadTaskResult(w)
    BY <1>1, <1>4
    DEF NothingRead, IgnoreRequest, ReadTaskSubmition, ReadTaskResult, ReadRequest, StartRequest, Goto, Finish
  <1>5. CASE ShortRead(w) \/ ReadHeader(w) \/ RejectNumChunks(w) \/ ConnectionReset(w)
    BY <1>1, <1>5
    DEF ShortRead, ReadHeader, RejectNumChunks, ConnectionReset, ReadField, Unmoved, Goto, Finish, sockVars
  <1>6. CASE ReadTaskStatus(w) \/ ScanChunk(w) \/ AnswerFinished(w)
    BY <1>1, <1>6 DEF ReadTaskStatus, ScanChunk, AnswerFinished, ReadRequest, StartRequest, Goto, Finish
  <1>7. CASE WriteNumBytes(w) \/ CopyChunk(w) \/ WriteResult(w)
    BY <1>1, <1>7 DEF WriteNumBytes, CopyChunk, WriteResult, Goto, Finish
  <1>8. CASE ReadNumChunks(w) \/ ReadChunk(w)
    BY <1>1, <1>8 DEF ReadNumChunks, ReadChunk, ReadField, Goto
  <1>9. CASE ReadNumBytes(w) \/ ReadBody(w)
    BY <1>1, <1>9 DEF ReadNumBytes, ReadBody, ReadField, Goto, Unmoved
  <1>10. CASE SubmitChunk(w)
    <2>1. wpc'[w] \in {"submit", "ready"}
      <3>1. CASE Notify(wpc)
        BY <1>1, <1>10, <3>1, NotifyType DEF SubmitChunk
      <3>2. CASE Notify([wpc EXCEPT ![w] = "ready"])
        <4>. DEFINE pc == [wpc EXCEPT ![w] = "ready"]
        <4>1. pc \in [Workers -> Points] /\ pc[w] = "ready"
          BY <1>1 DEF Points, PoolPoints
        <4>. HIDE DEF pc
        <4>. QED  BY <3>2, <4>1, NotifyType DEF pc
      <3>. QED  BY <1>10, <3>1, <3>2 DEF SubmitChunk
    <2>. QED  BY <1>10, <2>1
  <1>. QED
    BY <1>2, <1>3, <1>4, <1>5, <1>6, <1>7, <1>8, <1>9, <1>10 DEF WorkerStep, PoolStep, RequestStep

(* The handler of w is the only one its client has.                         *)
LEMMA OnlyHandler ==
  ASSUME ServerInv, NEW v \in Workers, NEW w \in Workers,
         wpc[v] \in HandlerPoints, wpc[w] \in HandlerPoints, Client(v) = Client(w)
  PROVE  v = w
  <1>1. Client(w) \in Clients
    BY WorkerClient DEF ServerInv
  <1>. QED  BY <1>1 DEF ServerInv, HandlersApart, Holds

LEMMA WorkerFinish ==
  ASSUME SockTypes, ServerInv, FinishInv, NEW w \in Workers, WorkerStep(w) \/ ConnectionReset(w)
  PROVE  FinishInv'
  <1>. DataTypes /\ ServerTypes /\ JobOK /\ HandlerOK /\ StreamTypes
    BY DataTypesDef DEF ServerInv, SockTypes
  <1>. DEFINE c == Client(w)
  <1>1. Control(w) /\ OwnLocals(w)
    BY WorkerControl, WorkerLocals
  <1>2. \A d \in Clients : SameChunks(d) /\ AllDone(d) => AllDone(d)'
    BY DEF SameChunks, AllDone, HasTaskContext, ExecutionChunks, IsDone
  <1>3. ASSUME NEW d \in Clients, d = c, MarksChunk(w), AllDone(d)
        PROVE  AllDone(d)'
    BY <1>3 DEF MarksChunk, AllDone, HasTaskContext, ExecutionChunks, IsDone
  <1>4. ASSUME NEW v \in Workers \ {w}, wpc'[v] \in HandlerPoints
        PROVE  /\ wpc'[v] = wpc[v] /\ job'[v] = job[v] /\ loc'[v] = loc[v]
               /\ Client(v)' = Client(v) /\ Client(v) \in Clients
               /\ wpc[w] \in HandlerPoints => Client(v) # Client(w)
    <2>1. wpc'[v] = wpc[v] /\ job'[v] = job[v] /\ loc'[v] = loc[v] /\ wpc[v] \in HandlerPoints
      BY <1>1, <1>4 DEF Control, Others, OwnLocals, HandlerPoints
    <2>. QED  BY <2>1, WorkerClient, OnlyHandler DEF Client
  <1>5. ASSUME NEW v \in Workers, ScannedDone(v), wpc[v] = "scan",
               v # w, Client(v) \in Clients, wpc[w] \in HandlerPoints => Client(v) # Client(w)
        PROVE  \A i \in DOMAIN m_contextMap'[Client(v)].ExecutionChunks : i < loc[v].i =>
                 m_contextMap'[Client(v)].ExecutionChunks[i].State = "Done"
    <2>1. HasTaskContext(Client(v))
      BY <1>5 DEF HandlerOK, HandlerAt, HandlerPoints
    <2>2. CASE SameChunks(Client(v))
      BY <1>5, <2>1, <2>2 DEF SameChunks, ScannedDone, HasTaskContext, ExecutionChunks, IsDone
    <2>3. CASE MarksChunk(w) /\ Client(v) = Client(w)
      BY <1>5, <2>3 DEF MarksChunk, ScannedDone, ExecutionChunks, IsDone
    <2>. QED  BY <1>5, <2>2, <2>3, ChunkEffect DEF AddsTask, AddsChunk, HandlerPoints
  <1>6. ASSUME NEW v \in Workers PROVE ScannedDone(v)'
    <2>1. SUFFICES ASSUME wpc'[v] = "scan"
                   PROVE  \A i \in DOMAIN m_contextMap'[Client(v)'].ExecutionChunks : i < loc'[v].i =>
                            m_contextMap'[Client(v)'].ExecutionChunks[i].State = "Done"
      BY DEF ScannedDone, ExecutionChunks, IsDone
    <2>2. CASE v # w
      <3>1. /\ wpc[v] = "scan" /\ loc'[v] = loc[v] /\ Client(v)' = Client(v) /\ Client(v) \in Clients
            /\ wpc[w] \in HandlerPoints => Client(v) # Client(w)
        BY <1>4, <2>1, <2>2 DEF HandlerPoints
      <3>2. ScannedDone(v)
        BY DEF FinishInv
      <3>3. \A i \in DOMAIN m_contextMap'[Client(v)].ExecutionChunks : i < loc[v].i =>
                 m_contextMap'[Client(v)].ExecutionChunks[i].State = "Done"
        BY <1>5, <2>2, <3>1, <3>2
      <3>. QED  BY <3>1, <3>3
    <2>3. CASE v = w /\ Unmoved(w)
      <3>1. ScannedDone(w)
        BY DEF FinishInv
      <3>. QED  BY <2>1, <2>3, <3>1 DEF Unmoved, Client, ScannedDone, ExecutionChunks, IsDone
    <2>4. CASE v = w /\ ReadTaskStatus(w)
      <3>1. loc'[w].i = 1 /\ UNCHANGED <<m_contextMap, job>> /\ HasTaskContext(c)
        BY <2>1, <2>4, ServerTypesDef DEF ReadTaskStatus, ReadRequest, StartRequest, Finish, DataTypes, Locals
      <3>2. DOMAIN m_contextMap[c].ExecutionChunks \subseteq Nat \ {0}
        <4>1. m_contextMap[c] \in Contexts
          BY <3>1, ServerTypesDef DEF HasTaskContext
        <4>. QED  BY <4>1, ContextType
      <3>3. Client(w)' = c
        BY <3>1 DEF Client
      <3>. HIDE DEF c
      <3>. QED  BY <2>4, <3>1, <3>2, <3>3
    <2>5. CASE v = w /\ ScanChunk(w)
      <3>1. /\ loc' = [loc EXCEPT ![w].i = @ + 1] /\ UNCHANGED <<m_contextMap, job>>
            /\ Context(w).ExecutionChunks[loc[w].i].State = "Done" /\ wpc[w] = "scan"
        BY <2>1, <2>5, ServerTypesDef DEF ScanChunk, Finish, Passes
      <3>2. loc'[w].i = loc[w].i + 1 /\ loc[w].i \in Nat /\ Client(w)' = c
        BY <3>1, NextLocal, GetLocal DEF Client
      <3>3. \A i \in DOMAIN m_contextMap[c].ExecutionChunks : i < loc[w].i =>
              m_contextMap[c].ExecutionChunks[i].State = "Done"
        BY <3>1 DEF FinishInv, ScannedDone, ExecutionChunks, IsDone
      <3>4. DOMAIN m_contextMap[c].ExecutionChunks \subseteq Nat
        <4>1. m_contextMap[c] \in Contexts
          BY <3>1, ServerTypesDef DEF HandlerOK, HandlerAt, HandlerPoints, HasTaskContext
        <4>. QED  BY <4>1, ContextType
      <3>5. m_contextMap[c].ExecutionChunks[loc[w].i].State = "Done"
        BY <3>1 DEF Context
      <3>. HIDE DEF c
      <3>. QED  BY <2>5, <3>1, <3>2, <3>3, <3>4, <3>5
    <2>. QED  BY <2>1, <2>2, <2>3, <2>4, <2>5, ComesTo
  <1>7. ASSUME NEW v \in Workers, wpc'[v] = "chunks"
        PROVE  ~ToldFinished(Client(v))'
    <2>1. CASE v # w
      <3>1. /\ wpc[v] = "chunks" /\ Client(v)' = Client(v) /\ Client(v) \in Clients
            /\ wpc[w] \in HandlerPoints => Client(v) # Client(w)
        BY <1>4, <1>7, <2>1 DEF HandlerPoints
      <3>2. ~ToldFinished(Client(v)) /\ (AnswerFinished(w) => wpc[w] \in HandlerPoints)
        BY <3>1 DEF FinishInv, AnswerFinished, HandlerPoints
      <3>3. \A d \in Clients : ToldFinished(d)' => ToldFinished(d) \/ (AnswerFinished(w) /\ d = Client(w))
        BY ReplyEffect
      <3>4. PICK d \in Clients : d = Client(v)
        BY <3>1
      <3>5. ~ToldFinished(d)'
        BY <3>1, <3>2, <3>3, <3>4
      <3>. QED  BY <3>1, <3>4, <3>5 DEF ToldFinished
    <2>2. CASE v = w /\ Unmoved(w)
      BY <1>7, <2>2 DEF Unmoved, FinishInv, ToldFinished, Client
    <2>3. CASE v = w /\ (ReadNumChunks(w) \/ ReadChunk(w))
      <3>1. /\ wpc[w] \in {"count", "chunks"} /\ UNCHANGED <<job, reply>>
        BY <2>3 DEF ReadNumChunks, ReadChunk, ReadField
      <3>2. c \in Clients
        BY <3>1, WorkerClient DEF HandlerPoints
      <3>3. ~ToldFinished(c)
        BY <3>1, <3>2 DEF FinishInv, AllDone, HandlerOK, HandlerAt
      <3>. QED  BY <2>3, <3>1, <3>3 DEF ToldFinished, Client
    <2>. QED  BY <1>7, <2>1, <2>2, <2>3, ComesTo
  <1>8. ASSUME NEW d \in Clients, ToldFinished(d)' PROVE AllDone(d)'
    <2>1. CASE ToldFinished(d)
      <3>1. AllDone(d)
        BY <2>1 DEF FinishInv
      <3>2. CASE SameChunks(d)
        BY <1>2, <3>1, <3>2
      <3>3. CASE d = c /\ AddsTask(w)
        BY <3>1, <3>3 DEF AddsTask, AllDone, HasTaskContext
      <3>4. CASE d = c /\ AddsChunk(w)
        BY <2>1, <3>4 DEF AddsChunk, FinishInv
      <3>5. CASE d = c /\ MarksChunk(w)
        BY <1>3, <3>1, <3>5
      <3>. QED  BY <3>2, <3>3, <3>4, <3>5, ChunkEffect
    <2>2. CASE AnswerFinished(w) /\ d = c
      <3>1. /\ wpc[w] = "scan" /\ loc[w].i > Len(Context(w).ExecutionChunks) /\ UNCHANGED m_contextMap
        BY <2>2 DEF AnswerFinished
      <3>2. HasTaskContext(c) /\ ScannedDone(w)
        BY <3>1 DEF HandlerOK, HandlerAt, HandlerPoints, FinishInv
      <3>3. m_contextMap[c] \in Contexts
        BY <3>2, ServerTypesDef DEF HasTaskContext
      <3>4. DOMAIN ExecutionChunks(c) = 1 .. Len(ExecutionChunks(c)) /\ Len(ExecutionChunks(c)) \in Nat
            /\ loc[w].i \in Nat /\ loc[w].i > Len(ExecutionChunks(c))
        BY <3>1, <3>3, ContextType, GetLocal DEF ExecutionChunks, Context
      <3>5. AllDone(c)
        BY <3>1, <3>2, <3>4 DEF ScannedDone, AllDone
      <3>. QED  BY <2>2, <3>1, <3>5 DEF AllDone, HasTaskContext, ExecutionChunks, IsDone
    <2>. QED  BY <1>8, <2>1, <2>2, ReplyEffect
  <1>. QED  BY <1>6, <1>7, <1>8 DEF FinishInv, ToldFinished, AllDone

LEMMA NextFinish ==
  ASSUME TypeInv, FinishInv, [Next]_vars
  PROVE  FinishInv'
  <1>. SockTypes /\ ClientTypes /\ ServerInv
    BY DEF TypeInv
  <1>1. ASSUME \A c \in Clients : ToldFinished(c)' => ToldFinished(c),
               UNCHANGED <<job, loc, m_contextMap>>,
               \A w \in Workers : wpc'[w] = wpc[w] \/ wpc'[w] = "ready"
        PROVE  FinishInv'
    <2>1. \A c \in Clients : AllDone(c)' <=> AllDone(c)
      BY <1>1 DEF AllDone, HasTaskContext, ExecutionChunks, IsDone
    <2>2. ASSUME NEW w \in Workers PROVE ScannedDone(w)'
      BY <1>1 DEF FinishInv, ScannedDone, Client, ExecutionChunks, IsDone
    <2>3. ASSUME NEW w \in Workers, wpc'[w] = "chunks" PROVE ~ToldFinished(Client(w))'
      <3>1. wpc[w] = "chunks" /\ Client(w)' = Client(w)
        BY <1>1, <2>3 DEF Client
      <3>2. PICK c \in Clients : c = Client(w)
        BY <3>1, WorkerClient DEF ServerInv, HandlerPoints
      <3>3. ~ToldFinished(c)'
        BY <1>1, <3>1, <3>2 DEF FinishInv
      <3>. QED  BY <3>1, <3>2, <3>3 DEF ToldFinished
    <2>. QED  BY <1>1, <2>1, <2>2, <2>3 DEF FinishInv
  <1>2. ASSUME NEW c \in Clients, ClientSide(c) PROVE FinishInv'
    <2>1. UNCHANGED serverVars
      BY <1>2 DEF ClientSide
    <2>2. ASSUME NEW d \in Clients, ToldFinished(d)' PROVE ToldFinished(d)
      <3>1. reply \in [Clients -> Seq(StreamUnits)] /\ reply[c] \in Seq(StreamUnits) /\ Len(reply[c]) \in Nat
        BY SockTypesDef, LenProperties
      <3>2. CASE UNCHANGED reply \/ (c # d /\ reply'[d] = reply[d])
        BY <2>2, <3>2 DEF ToldFinished
      <3>3. CASE c = d /\ \E n \in Nat : reply'[d] = Without(reply[d], n)
        <4>1. PICK n \in Nat : reply'[d] = Without(reply[d], n)
          BY <3>3
        <4>2. PICK k \in DOMAIN Without(reply[d], n) : Without(reply[d], n)[k].kind = "Finished"
          BY <2>2, <4>1 DEF ToldFinished
        <4>3. n + k \in DOMAIN reply[d] /\ Without(reply[d], n)[k] = reply[d][n + k]
          <5>1. reply[d] \in Seq(StreamUnits) /\ Len(reply[d]) \in Nat /\ DOMAIN reply[d] = 1 .. Len(reply[d])
            BY <3>1, <3>3
          <5>2. Without(reply[d], n) \in Seq(StreamUnits)
            BY <5>1, WithoutType
          <5>3. /\ Len(Without(reply[d], n)) = IF n < Len(reply[d]) THEN Len(reply[d]) - n ELSE 0
                /\ \A i \in 1 .. Len(reply[d]) - n : Without(reply[d], n)[i] = reply[d][n + i]
            BY <5>1, WithoutType
          <5>4. k \in 1 .. Len(Without(reply[d], n))
            BY <4>2, <5>2
          <5>. QED  BY <5>1, <5>3, <5>4
        <4>. QED  BY <4>2, <4>3 DEF ToldFinished
      <3>4. \/ UNCHANGED reply
            \/ reply' = [reply EXCEPT ![c] = AfterByte(@)] /\ reply[c] # <<>>
            \/ \E n \in Nat : reply' = [reply EXCEPT ![c] = Without(@, n)]
        <4>1. CASE ReadStatus(c)
          BY <4>1 DEF ReadStatus
        <4>2. CASE ReadResultSize(c)
          BY <4>2, RecvType DEF ReadResultSize
        <4>3. CASE ReadResult(c)
          <5>1. PICK k \in IF want[c] = 0 THEN {0} ELSE Recv(reply[c], want[c]) :
                  reply' = [reply EXCEPT ![c] = Without(@, k)]
            BY <4>3 DEF ReadResult
          <5>2. k \in Nat
            BY <5>1, RecvType, ClientTypesDef
          <5>. QED  BY <5>1, <5>2
        <4>. QED
          BY <1>2, <4>1, <4>2, <4>3
          DEF ClientSide, ClientStep, Connect, ConnectFails, GiveUp, SubmitTask, AskStatus, Leave, Quit, Disappear,
            sockVars
      <3>5. CASE c = d /\ reply'[d] = AfterByte(reply[d]) /\ reply[d] # <<>>
        <4>1. CASE reply'[d] = Without(reply[d], 1)
          BY <3>3, <3>5, <4>1
        <4>2. CASE reply'[d] # Without(reply[d], 1)
          <5>1. /\ reply'[d] \in Seq(StreamUnits) /\ Len(reply'[d]) = Len(reply[d])
                /\ reply'[d][1] = Rest(reply[d][1])
                /\ \A k \in 2 .. Len(reply[d]) : reply'[d][k] = reply[d][k]
            BY <3>1, <3>5, <4>2, AfterByteType, RestType
          <5>2. PICK k \in DOMAIN reply'[d] : reply'[d][k].kind = "Finished"
            BY <2>2 DEF ToldFinished
          <5>3. k \in 1 .. Len(reply[d]) /\ DOMAIN reply[d] = 1 .. Len(reply[d]) /\ reply[d][k] \in StreamUnits
            BY <3>1, <3>5, <5>1, ElementOfSeq
          <5>4. reply'[d][k].kind = reply[d][k].kind
            BY <5>1, <5>3, RestType
          <5>. QED  BY <5>2, <5>3, <5>4 DEF ToldFinished
        <4>. QED  BY <4>1, <4>2
      <3>. QED  BY <3>1, <3>2, <3>3, <3>4, <3>5
    <2>. QED  BY <1>1, <2>1, <2>2 DEF serverVars
  <1>3. CASE ServerSide
    <2>1. CASE InitStep \/ PollStep \/ AcceptFails
      <3>1. UNCHANGED <<reply, job, loc, m_contextMap>>
        BY <2>1 DEF InitStep, PollStep, StartListening, StartClientThread, MakePool, PollRwClients, SubmitWork,
          AcceptFails, sockVars
      <3>2. \A w \in Workers : wpc'[w] = wpc[w] \/ wpc'[w] = "ready"
        <4>1. CASE SubmitWork
          BY <4>1, NotifyType, ServerTypesDef DEF SubmitWork, ServerInv
        <4>. QED
          BY <2>1, <4>1 DEF InitStep, PollStep, StartListening, StartClientThread, MakePool, PollRwClients,
            AcceptFails
      <3>. QED  BY <1>1, <3>1, <3>2 DEF ToldFinished
    <2>. QED  BY <1>3, <2>1, WorkerFinish DEF ServerSide, ServerStep
  <1>4. ASSUME UNCHANGED <<reply, serverVars>> PROVE FinishInv'
    BY <1>1, <1>4 DEF serverVars, ToldFinished
  <1>5. ASSUME NEW c \in Clients, Network(c) PROVE FinishInv'
    BY <1>4, <1>5 DEF Network, Arrive, ResetByPeer, Disappear
  <1>. QED  BY <1>2, <1>3, <1>4, <1>5 DEF Next, Over, vars, sockVars

(* A client that is told Finished is told the truth, whatever bytes a server  *)
(* has made of its requests: ProcessTaskStatus looks at the chunks one by one *)
(* under the CommunicatorMutex only, while workers mark them.                *)
THEOREM FinishedIsTrue == Spec => []FinishedMeansAllDone
  <1>1. Init => FinishInv
    BY DEF Init, SockInit, ServerInit, FinishInv, ScannedDone, ToldFinished
  <1>2. TypeInv /\ FinishInv /\ [Next]_vars => FinishInv'
    BY NextFinish
  <1>3. FinishInv => FinishedMeansAllDone
    BY DEF FinishInv, FinishedMeansAllDone, ToldFinished, AllDone, ExecutionChunks, IsDone
  <1>. QED  BY <1>1, <1>2, <1>3, TypeInvariant, PTL DEF Spec

-----------------------------------------------------------------------------
(* The jobs of the chunks: how a step changes which of them there are.       *)

(* A step of w leaves the jobs alone, takes one, submits one, or ends one.   *)
TakesJob(w) ==
  /\ queue # <<>> /\ queue' = Tail(queue)
  /\ job[w] = Idle /\ job' = [job EXCEPT ![w] = Head(queue)]
AddsJob(w) ==
  /\ wpc[w] = "submit"
  /\ queue' = Append(queue, Chunk(Client(w), loc[w].i))
  /\ \A v \in Workers : job'[v] = job[v] \/ (job[v].what # "chunk" /\ job'[v] = Idle)
EndsJob(w) == UNCHANGED queue /\ job' = [job EXCEPT ![w] = Idle]

LEMMA JobEffect ==
  ASSUME ServerTypes, JobOK, NEW w \in Workers, WorkerStep(w) \/ ConnectionReset(w)
  PROVE  \/ UNCHANGED <<queue, job>>
         \/ Take(w) /\ TakesJob(w)
         \/ SubmitChunk(w) /\ AddsJob(w)
         \/ EndsJob(w) /\ (job[w].what = "chunk" => MarkDone(w))
  <1>. JobOK
    OBVIOUS
  <1>1. wpc[w] \in {"work"} \cup HandlerPoints => job[w].what # "chunk"
    BY WorkFields DEF JobOK
  <1>2. CASE Take(w)
    BY <1>2 DEF Take, TakesJob, JobOK, PoolPoints
  <1>3. CASE SubmitChunk(w)
    <2>1. /\ wpc[w] = "submit" /\ queue' = Append(queue, Chunk(Client(w), loc[w].i))
          /\ job' = job \/ job' = [job EXCEPT ![w] = Idle]
      BY <1>3 DEF SubmitChunk
    <2>2. job[w].what # "chunk"
      BY <1>1, <2>1 DEF HandlerPoints
    <2>. QED  BY <1>3, <2>1, <2>2, ServerTypesDef DEF AddsJob
  <1>4. CASE MarkDone(w)
    BY <1>4 DEF MarkDone, EndsJob, Finish
  <1>5. CASE NothingRead(w) \/ IgnoreRequest(w) \/ ReadTaskSubmition(w) \/ ReadTaskStatus(w) \/ ReadTaskResult(w)
    BY <1>1, <1>5
    DEF NothingRead, IgnoreRequest, ReadTaskSubmition, ReadTaskStatus, ReadTaskResult, ReadRequest, StartRequest,
      Handling, Finish, EndsJob
  <1>6. CASE ShortRead(w) \/ ReadHeader(w) \/ RejectNumChunks(w) \/ ReadNumChunks(w)
    BY <1>1, <1>6
    DEF ShortRead, ReadHeader, RejectNumChunks, ReadNumChunks, ReadField, Handling, Finish, EndsJob, HandlerPoints
  <1>7. CASE ReadChunk(w) \/ ReadNumBytes(w) \/ ReadBody(w)
    BY <1>7 DEF ReadChunk, ReadNumBytes, ReadBody, ReadField, Handling
  <1>8. CASE ScanChunk(w) \/ AnswerFinished(w) \/ WriteNumBytes(w) \/ CopyChunk(w) \/ WriteResult(w)
    BY <1>1, <1>8
    DEF ScanChunk, AnswerFinished, WriteNumBytes, CopyChunk, WriteResult, Handling, Finish, EndsJob, HandlerPoints
  <1>9. CASE FindEmpty(w) \/ Wait(w) \/ StartChunk(w) \/ ComputeChunk(w) \/ ConnectionReset(w)
    BY <1>9 DEF FindEmpty, Wait, StartChunk, ComputeChunk, ConnectionReset
  <1>. QED
    BY <1>2, <1>3, <1>4, <1>5, <1>6, <1>7, <1>8, <1>9 DEF WorkerStep, PoolStep, RequestStep, ChunkStep

(* What becomes of the jobs for one chunk.                                   *)
PresentSame(c, i)  == (Present(c, i))' <=> Present(c, i)

LEMMA SameJobs ==
  ASSUME ChunkInv, UNCHANGED <<queue, job>>
  PROVE  /\ QueuedApart' /\ TakenApart' /\ TakenFromQueue'
         /\ \A c, i : PresentSame(c, i)
  BY DEF ChunkInv, QueuedApart, TakenApart, TakenFromQueue, PresentSame, Present

LEMMA TakenJobs ==
  ASSUME ServerTypes, ChunkInv, NEW w \in Workers, TakesJob(w)
  PROVE  /\ QueuedApart' /\ TakenApart' /\ TakenFromQueue'
         /\ \A c, i : PresentSame(c, i)
  <1>1. /\ queue \in Seq(Jobs \ {Idle}) /\ queue # <<>> /\ queue' = Tail(queue)
        /\ job \in [Workers -> Jobs]
    BY ServerTypesDef DEF TakesJob
  <1>2. /\ 1 \in DOMAIN queue /\ Head(queue) = queue[1] /\ DOMAIN queue = 1 .. Len(queue) /\ Len(queue) \in Nat
        /\ DOMAIN queue' = 1 .. Len(queue) - 1
        /\ \A k \in DOMAIN queue' : queue'[k] = queue[k + 1]
    BY <1>1
  <1>3. /\ \A k \in DOMAIN queue' : k + 1 \in DOMAIN queue /\ k + 1 # 1 /\ queue'[k] = queue[k + 1]
        /\ \A k \in DOMAIN queue : k = 1 \/ (k - 1 \in DOMAIN queue' /\ queue'[k - 1] = queue[k])
        /\ \A k, j \in DOMAIN queue' : k + 1 = j + 1 => k = j
    BY <1>2
  <1>4. /\ job'[w] = queue[1] /\ job[w] = Idle
        /\ \A v \in Workers \ {w} : job'[v] = job[v]
    BY <1>1, <1>2 DEF TakesJob
  <1>5. QueuedApart' /\ TakenApart' /\ TakenFromQueue'
    <2>1. QueuedApart'
      <3>1. ASSUME NEW j \in DOMAIN queue', NEW k \in DOMAIN queue', queue'[j].what = "chunk", queue'[j] = queue'[k]
            PROVE  j = k
        <4>1. j + 1 \in DOMAIN queue /\ k + 1 \in DOMAIN queue /\ queue[j + 1].what = "chunk" /\ queue[j + 1] = queue[k + 1]
          BY <1>3, <3>1
        <4>2. j + 1 = k + 1
          BY <4>1 DEF ChunkInv, QueuedApart
        <4>. QED  BY <1>3, <4>2
      <3>. QED  BY <3>1 DEF QueuedApart
    <2>2. TakenApart'
      BY <1>2, <1>4 DEF ChunkInv, TakenApart, TakenFromQueue
    <2>3. TakenFromQueue'
      <3>1. ASSUME NEW k \in DOMAIN queue', NEW v \in Workers, queue'[k].what = "chunk", job'[v] = queue'[k]
            PROVE  FALSE
        <4>1. k + 1 \in DOMAIN queue /\ k + 1 # 1 /\ queue[k + 1].what = "chunk" /\ job'[v] = queue[k + 1]
          BY <1>3, <3>1
        <4>2. CASE v = w
          <5>1. queue[1] = queue[k + 1] /\ 1 \in DOMAIN queue /\ queue[1].what = "chunk"
            BY <1>2, <1>4, <4>1, <4>2
          <5>. QED  BY <4>1, <5>1 DEF ChunkInv, QueuedApart
        <4>3. CASE v # w
          BY <1>4, <4>1, <4>3 DEF ChunkInv, TakenFromQueue
        <4>. QED  BY <4>2, <4>3
      <3>. QED  BY <3>1 DEF TakenFromQueue
    <2>. QED  BY <2>1, <2>2, <2>3
  <1>6. ASSUME NEW c, NEW i PROVE PresentSame(c, i)
    <2>1. Idle # Chunk(c, i)
      BY IdleFields, ChunkJobFields
    <2>2. ASSUME Present(c, i)' PROVE Present(c, i)
      <3>1. CASE \E k \in DOMAIN queue' : queue'[k] = Chunk(c, i)
        BY <1>3, <3>1 DEF Present
      <3>2. CASE \E v \in Workers : job'[v] = Chunk(c, i)
        BY <1>2, <1>4, <3>2 DEF Present
      <3>. QED  BY <2>2, <3>1, <3>2 DEF Present
    <2>3. ASSUME Present(c, i) PROVE Present(c, i)'
      <3>1. CASE \E k \in DOMAIN queue : queue[k] = Chunk(c, i)
        BY <1>3, <1>4, <3>1 DEF Present
      <3>2. CASE \E v \in Workers : job[v] = Chunk(c, i)
        BY <1>4, <2>1, <3>2 DEF Present
      <3>. QED  BY <2>3, <3>1, <3>2 DEF Present
    <2>. QED  BY <2>2, <2>3 DEF PresentSame
  <1>. QED  BY <1>5, <1>6

LEMMA AddedJob ==
  ASSUME ServerTypes, ChunkInv, NEW w \in Workers, AddsJob(w), ~Present(Client(w), loc[w].i)
  PROVE  /\ QueuedApart' /\ TakenApart' /\ TakenFromQueue'
         /\ \A c, i : Present(c, i)' <=> (Present(c, i) \/ Chunk(c, i) = Chunk(Client(w), loc[w].i))
  <1>. DEFINE one == Chunk(Client(w), loc[w].i)
  <1>1. queue \in Seq(Jobs \ {Idle}) /\ queue' = Append(queue, one) /\ one.what = "chunk"
    <2>1. queue \in Seq(Jobs \ {Idle})
      BY ServerTypesDef
    <2>2. one.what = "chunk"
      BY ChunkJobFields
    <2>. QED  BY <2>1, <2>2 DEF AddsJob
  <1>2. /\ \A v \in Workers : job'[v] = job[v] \/ (job[v].what # "chunk" /\ job'[v] = Idle)
        /\ Idle.what # "chunk" /\ \A c, i : Chunk(c, i).what = "chunk"
    BY IdleFields, ChunkJobFields DEF AddsJob
  <1>3. /\ \A k \in DOMAIN queue : queue[k] # one
        /\ \A v \in Workers : job[v] # one
    BY DEF Present
  <1>. HIDE DEF one
  <1>4. /\ DOMAIN queue = 1 .. Len(queue) /\ Len(queue) \in Nat /\ DOMAIN queue' = 1 .. Len(queue) + 1
        /\ \A k \in 1 .. Len(queue) : queue'[k] = queue[k]
        /\ queue'[Len(queue) + 1] = one
    BY <1>1
  <1>. DEFINE last == Len(queue) + 1
  <1>5. /\ \A k \in DOMAIN queue' : k = last \/ k \in DOMAIN queue
        /\ last \in DOMAIN queue' /\ DOMAIN queue \subseteq DOMAIN queue'
        /\ \A k \in DOMAIN queue : queue'[k] = queue[k]
        /\ queue'[last] = one
    BY <1>4
  <1>. HIDE DEF last
  <1>6. QueuedApart'
    BY <1>3, <1>5 DEF ChunkInv, QueuedApart
  <1>7. TakenApart'
    BY <1>2 DEF ChunkInv, TakenApart
  <1>8. TakenFromQueue'
    BY <1>2, <1>3, <1>5 DEF ChunkInv, TakenFromQueue
  <1>9. ASSUME NEW c, NEW i
        PROVE  Present(c, i)' <=> (Present(c, i) \/ Chunk(c, i) = one)
    <2>1. (\E k \in DOMAIN queue' : queue'[k] = Chunk(c, i))
            <=> ((\E k \in DOMAIN queue : queue[k] = Chunk(c, i)) \/ Chunk(c, i) = one)
      BY <1>5
    <2>2. (\E v \in Workers : job'[v] = Chunk(c, i)) <=> (\E v \in Workers : job[v] = Chunk(c, i))
      BY <1>2
    <2>. QED  BY <2>1, <2>2 DEF Present
  <1>. QED  BY <1>6, <1>7, <1>8, <1>9 DEF one

LEMMA EndedJob ==
  ASSUME ServerTypes, ChunkInv, NEW w \in Workers, EndsJob(w)
  PROVE  /\ QueuedApart' /\ TakenApart' /\ TakenFromQueue'
         /\ \A c, i : Present(c, i)' <=> (Present(c, i) /\ job[w] # Chunk(c, i))
  <1>1. /\ UNCHANGED queue /\ job'[w] = Idle /\ \A v \in Workers \ {w} : job'[v] = job[v]
        /\ Idle.what # "chunk" /\ \A c, i : Chunk(c, i).what = "chunk"
    <2>1. job \in [Workers -> Jobs]
      BY ServerTypesDef
    <2>2. Idle.what # "chunk" /\ \A c, i : Chunk(c, i).what = "chunk"
      BY IdleFields, ChunkJobFields
    <2>. QED  BY <2>1, <2>2 DEF EndsJob
  <1>2. QueuedApart' /\ TakenApart' /\ TakenFromQueue'
    BY <1>1 DEF ChunkInv, QueuedApart, TakenApart, TakenFromQueue
  <1>3. ASSUME NEW c, NEW i
        PROVE  Present(c, i)' <=> (Present(c, i) /\ job[w] # Chunk(c, i))
    BY <1>1 DEF ChunkInv, Present, TakenApart, TakenFromQueue
  <1>. QED  BY <1>2, <1>3

-----------------------------------------------------------------------------
(* The chunks that wait for the rest of the submission.                      *)

NotYetBy(v, c, i) ==
  /\ wpc[v] \in HandlerPoints /\ Client(v) = c
  /\ wpc[v] \in {"chunks", "size", "body"} \/ (wpc[v] = "submit" /\ loc[v].i <= i)

LEMMA NotYetDef == \A c, i : NotYet(c, i) <=> \E v \in Workers : NotYetBy(v, c, i)
  BY DEF NotYet, Submitting, Holds, NotYetBy

(* A handler that is reading a submission goes on until it has the body.     *)
LEMMA GoesOn ==
  ASSUME ServerTypes, DataTypes, NEW w \in Workers, WorkerStep(w) \/ ConnectionReset(w)
  PROVE  /\ wpc[w] \in {"chunks", "size", "body"} =>
              /\ job'[w] = job[w]
              /\ \/ wpc'[w] \in {"chunks", "size", "body"}
                 \/ wpc'[w] = "submit" /\ loc'[w].i = 1
         /\ wpc[w] = "submit" => SubmitChunk(w)
  <1>1. wpc \in [Workers -> Points] /\ loc \in [Workers -> Locals]
    BY ServerTypesDef DEF Locals
  <1>2. CASE ShortRead(w) \/ ConnectionReset(w)
    BY <1>2 DEF ShortRead, ConnectionReset, ReadField
  <1>3. CASE ReadChunk(w) \/ ReadNumBytes(w)
    BY <1>1, <1>3 DEF ReadChunk, ReadNumBytes, ReadField, Goto
  <1>4. CASE ReadBody(w)
    BY <1>1, <1>4 DEF ReadBody, ReadField, Goto, Locals
  <1>5. CASE PoolStep(w) \/ ChunkStep(w)
    BY <1>5 DEF PoolStep, Take, FindEmpty, Wait, ChunkStep, StartChunk, ComputeChunk, MarkDone
  <1>6. CASE NothingRead(w) \/ IgnoreRequest(w) \/ ReadTaskSubmition(w) \/ ReadTaskStatus(w) \/ ReadTaskResult(w)
    BY <1>6 DEF NothingRead, IgnoreRequest, ReadTaskSubmition, ReadTaskStatus, ReadTaskResult, ReadRequest,
      StartRequest
  <1>7. CASE ReadHeader(w) \/ RejectNumChunks(w) \/ ReadNumChunks(w)
    BY <1>7 DEF ReadHeader, RejectNumChunks, ReadNumChunks, ReadField
  <1>8. CASE ScanChunk(w) \/ AnswerFinished(w) \/ WriteNumBytes(w) \/ CopyChunk(w) \/ WriteResult(w)
    BY <1>8 DEF ScanChunk, AnswerFinished, WriteNumBytes, CopyChunk, WriteResult
  <1>9. CASE SubmitChunk(w)
    BY <1>9 DEF SubmitChunk
  <1>. QED  BY <1>2, <1>3, <1>4, <1>5, <1>6, <1>7, <1>8, <1>9 DEF WorkerStep, RequestStep

LEMMA NotYetOfOthers ==
  ASSUME ServerTypes, JobOK, NEW w \in Workers, WorkerStep(w) \/ ConnectionReset(w),
         NEW v \in Workers \ {w}, NEW c, NEW i
  PROVE  NotYetBy(v, c, i)' <=> NotYetBy(v, c, i)
  <1>1. Control(w) /\ OwnLocals(w)
    BY WorkerControl, WorkerLocals
  <1>2. job'[v] = job[v] /\ loc'[v] = loc[v] /\ (wpc'[v] = wpc[v] \/ (wpc[v] = "waiting" /\ wpc'[v] = "ready"))
    BY <1>1 DEF Control, Others, OwnLocals
  <1>. QED  BY <1>2 DEF NotYetBy, HandlerPoints, Client

LEMMA SubmitEffect ==
  ASSUME ServerTypes, DataTypes, NEW w \in Workers, SubmitChunk(w)
  PROVE  /\ wpc[w] = "submit"
         /\ IF MoreChunks(w) THEN wpc'[w] = "submit" /\ job'[w] = job[w] /\ loc'[w].i = loc[w].i + 1
                             ELSE wpc'[w] = "ready"
  <1>1. wpc \in [Workers -> Points] /\ wpc[w] = "submit"
    BY ServerTypesDef DEF SubmitChunk
  <1>2. CASE MoreChunks(w)
    <2>1. Notify(wpc) /\ UNCHANGED job /\ loc'[w].i = loc[w].i + 1
      BY <1>2, NextLocal DEF SubmitChunk
    <2>. QED  BY <1>1, <1>2, <2>1, NotifyType
  <1>3. CASE ~MoreChunks(w)
    <2>. DEFINE pc == [wpc EXCEPT ![w] = "ready"]
    <2>1. Notify(pc) /\ pc \in [Workers -> Points] /\ pc[w] = "ready"
      BY <1>1, <1>3 DEF SubmitChunk, Points, PoolPoints
    <2>. HIDE DEF pc
    <2>. QED  BY <1>1, <1>3, <2>1, NotifyType
  <1>. QED  BY <1>1, <1>2, <1>3

LEMMA NotYetOfOwn ==
  ASSUME SockTypes, ServerInv, NEW w \in Workers, WorkerStep(w) \/ ConnectionReset(w),
         NEW c, NEW i \in Nat \ {0},
         ~(ReadNumChunks(w) /\ c = Client(w)),
         SubmitChunk(w) /\ c = Client(w) => i <= Len(ExecutionChunks(c))
  PROVE  NotYetBy(w, c, i)' <=> NotYetBy(w, c, i) /\ ~(SubmitChunk(w) /\ i = loc[w].i)
  <1>. DataTypes /\ ServerTypes /\ JobOK /\ HandlerOK
    BY DataTypesDef DEF ServerInv, SockTypes
  <1>. USE DEF HandlerPoints
  <1>1. wpc' \in [Workers -> Points] /\ Control(w)
    BY WorkerControl DEF Control
  <1>2. CASE SubmitChunk(w)
    <2>1. CASE c # Client(w)
      BY <1>2, <2>1, SubmitEffect DEF NotYetBy, Client
    <2>2. CASE c = Client(w)
      <3>1. wpc[w] = "submit" /\ Len(ExecutionChunks(c)) \in Nat /\ loc[w].i \in 1 .. Len(ExecutionChunks(c))
            /\ i <= Len(ExecutionChunks(c))
        BY <1>2, <2>2 DEF SubmitChunk, HandlerOK, HandlerAt
      <3>2. MoreChunks(w) <=> loc[w].i < Len(ExecutionChunks(c))
        BY <2>2 DEF MoreChunks, Context, ExecutionChunks
      <3>3. CASE MoreChunks(w)
        <4>1. wpc'[w] = "submit" /\ Client(w)' = c /\ loc'[w].i = loc[w].i + 1
          BY <1>2, <2>2, <3>3, SubmitEffect DEF Client
        <4>2. loc[w].i + 1 <= i <=> loc[w].i <= i /\ i # loc[w].i
          BY <3>1
        <4>. QED  BY <1>2, <2>2, <3>1, <4>1, <4>2 DEF NotYetBy
      <3>4. CASE ~MoreChunks(w)
        <4>1. wpc'[w] = "ready"
          BY <1>2, <3>4, SubmitEffect
        <4>2. loc[w].i <= i => i = loc[w].i
          BY <3>1, <3>2, <3>4
        <4>. QED  BY <1>2, <3>1, <4>1, <4>2 DEF NotYetBy
      <3>. QED  BY <3>3, <3>4
    <2>. QED  BY <2>1, <2>2
  <1>3. CASE ~SubmitChunk(w)
    <2>1. CASE wpc[w] \in {"chunks", "size", "body"}
      <3>1. Client(w)' = Client(w) /\ (wpc'[w] \in {"chunks", "size", "body"} \/ (wpc'[w] = "submit" /\ loc'[w].i = 1))
        BY <2>1, GoesOn DEF Client
      <3>2. 1 <= i
        OBVIOUS
      <3>. QED  BY <1>3, <2>1, <3>1, <3>2 DEF NotYetBy
    <2>2. CASE wpc[w] \notin {"chunks", "size", "body"}
      <3>1. wpc[w] # "submit" /\ ~NotYetBy(w, c, i)
        BY <1>3, <2>2, GoesOn DEF NotYetBy
      <3>2. ASSUME NotYetBy(w, c, i)' PROVE FALSE
        <4>1. wpc'[w] \in {"chunks", "size", "body", "submit"} /\ Client(w)' = c
          BY <3>2 DEF NotYetBy
        <4>2. wpc'[w] # wpc[w]
          BY <2>2, <3>1, <4>1
        <4>3. ReadNumChunks(w)
          BY <1>3, <2>2, <3>1, <4>1, <4>2, ComesTo
          DEF Unmoved, ReadChunk, ReadNumBytes, ReadBody, ReadField
        <4>4. Client(w)' = Client(w)
          BY <4>3 DEF ReadNumChunks, Client
        <4>. QED  BY <4>1, <4>3, <4>4
      <3>. QED  BY <1>3, <3>1, <3>2
    <2>. QED  BY <2>1, <2>2
  <1>. QED  BY <1>2, <1>3

LEMMA NotYetEffect ==
  ASSUME SockTypes, ServerInv, NEW w \in Workers, WorkerStep(w) \/ ConnectionReset(w),
         NEW c, NEW i \in Nat \ {0},
         ~(ReadNumChunks(w) /\ c = Client(w)),
         SubmitChunk(w) /\ c = Client(w) => i <= Len(ExecutionChunks(c))
  PROVE  NotYet(c, i)' <=> NotYet(c, i) /\ ~(SubmitChunk(w) /\ c = Client(w) /\ i = loc[w].i)
  <1>. ServerTypes /\ JobOK
    BY DEF ServerInv
  <1>1. \A v \in Workers \ {w} : NotYetBy(v, c, i)' <=> NotYetBy(v, c, i)
    BY NotYetOfOthers
  <1>2. NotYetBy(w, c, i)' <=> NotYetBy(w, c, i) /\ ~(SubmitChunk(w) /\ i = loc[w].i)
    BY NotYetOfOwn
  <1>3. ASSUME SubmitChunk(w), c = Client(w), NEW v \in Workers \ {w} PROVE ~NotYetBy(v, c, i)
    BY <1>3, OnlyHandler DEF SubmitChunk, NotYetBy, HandlerPoints
  <1>4. c # Client(w) => ~NotYetBy(w, c, i)
    BY DEF NotYetBy
  <1>5. (\E v \in Workers : NotYetBy(v, c, i)') <=>
          (\E v \in Workers : NotYetBy(v, c, i)) /\ ~(SubmitChunk(w) /\ c = Client(w) /\ i = loc[w].i)
    BY <1>1, <1>2, <1>3, <1>4
  <1>6. NotYet(c, i)' <=> \E v \in Workers : NotYetBy(v, c, i)'
    BY DEF NotYet, Submitting, Holds, NotYetBy
  <1>. QED  BY <1>5, <1>6, NotYetDef

-----------------------------------------------------------------------------
(* Every chunk is executed once. *)

(* The job of the chunk that w submits or ends.                              *)
Submits(w, c, i) == SubmitChunk(w) /\ c = Client(w) /\ i = loc[w].i
Executed(w, c, i) == MarkDone(w) /\ job[w] = Chunk(c, i)

LEMMA PresentEffect ==
  ASSUME ServerInv, ChunkInv, NEW w \in Workers, WorkerStep(w) \/ ConnectionReset(w)
  PROVE  /\ QueuedApart' /\ TakenApart' /\ TakenFromQueue'
         /\ \A c, i : Present(c, i)' <=> (Present(c, i) \/ Submits(w, c, i)) /\ ~Executed(w, c, i)
  <1>. ServerTypes /\ JobOK /\ HandlerOK
    BY DEF ServerInv
  <1>1. (SubmitChunk(w) => wpc[w] = "submit") /\ (MarkDone(w) => wpc[w] = "done") /\ (Take(w) => wpc[w] = "ready")
    BY DEF SubmitChunk, MarkDone, Take
  <1>2. \A c, i : Submits(w, c, i) <=> SubmitChunk(w) /\ Chunk(c, i) = Chunk(Client(w), loc[w].i)
    <2>1. \A c, i : Chunk(c, i) = Chunk(Client(w), loc[w].i) <=> c = Client(w) /\ i = loc[w].i
      BY ChunkJobFields
    <2>. QED  BY <2>1 DEF Submits
  <1>3. SubmitChunk(w) => queue' # queue
    <2>1. queue \in Seq(Jobs \ {Idle})
      BY ServerTypesDef
    <2>2. \A j : Append(queue, j) # queue
      BY <2>1
    <2>. QED  BY <2>2 DEF SubmitChunk
  <1>4. CASE UNCHANGED <<queue, job>> /\ ~SubmitChunk(w)
    <2>1. ~MarkDone(w)
      <3>1. ASSUME MarkDone(w) PROVE FALSE
        <4>1. job'[w] = Idle /\ \E c \in Clients, i \in 1 .. MaxChunks : job[w] = Chunk(c, i)
          BY <1>1, <3>1, ServerTypesDef DEF MarkDone, Finish, JobOK, ChunkPoints
        <4>. QED  BY <1>4, <4>1, IdleFields, ChunkJobFields
      <3>. QED  BY <3>1
    <2>. QED  BY <1>2, <1>4, <2>1, SameJobs DEF Executed, PresentSame
  <1>5. CASE Take(w) /\ TakesJob(w)
    BY <1>1, <1>2, <1>5, TakenJobs DEF Executed, PresentSame
  <1>6. CASE SubmitChunk(w) /\ AddsJob(w)
    <2>1. /\ Client(w) \in Clients /\ Client(w) \in DOMAIN m_contextMap
          /\ loc[w].i \in 1 .. Len(ExecutionChunks(Client(w)))
      BY <1>1, <1>6, WorkerClient DEF HandlerOK, HandlerAt, HandlerPoints, HasTaskContext
    <2>2. loc[w].i \in DOMAIN ExecutionChunks(Client(w)) /\ loc[w].i \in Nat
      BY <2>1, ServerTypesDef, ContextType DEF ExecutionChunks
    <2>3. NotYet(Client(w), loc[w].i)
      BY <1>1, <1>6, <2>2, NotYetDef DEF NotYetBy, HandlerPoints
    <2>4. ~Present(Client(w), loc[w].i)
      BY <2>1, <2>2, <2>3 DEF ChunkInv, PresentUntilDone
    <2>. QED  BY <1>1, <1>2, <1>6, <2>4, AddedJob DEF Executed
  <1>7. CASE EndsJob(w) /\ (job[w].what = "chunk" => MarkDone(w))
    <2>1. ~SubmitChunk(w)
      BY <1>7, <1>3 DEF EndsJob
    <2>2. \A c, i : job[w] = Chunk(c, i) => MarkDone(w)
      BY <1>7, ChunkJobFields
    <2>. QED  BY <1>2, <1>7, <2>1, <2>2, EndedJob DEF Executed
  <1>. QED  BY <1>4, <1>5, <1>6, <1>7, <1>3, JobEffect

LEMMA WorkerChunks ==
  ASSUME SockTypes, ServerInv, ChunkInv, NEW w \in Workers, WorkerStep(w) \/ ConnectionReset(w)
  PROVE  ChunkInv'
  <1>. ServerTypes /\ JobOK /\ HandlerOK /\ ChunksKnown
    BY DEF ServerInv
  <1>. DEFINE c == Client(w)
  <1>1. /\ QueuedApart' /\ TakenApart' /\ TakenFromQueue'
        /\ \A d, i : Present(d, i)' <=> (Present(d, i) \/ Submits(w, d, i)) /\ ~Executed(w, d, i)
    BY PresentEffect
  <1>2. \A d \in Clients, i \in Nat \ {0} :
          ~(ReadNumChunks(w) /\ d = c) /\ (SubmitChunk(w) /\ d = c => i <= Len(ExecutionChunks(d))) =>
            (NotYet(d, i)' <=> NotYet(d, i) /\ ~Submits(w, d, i))
    BY NotYetEffect DEF Submits
  <1>3. \A d, i : Present(d, i) => d \in DOMAIN m_contextMap /\ i \in DOMAIN ExecutionChunks(d)
    BY ChunkJobFields DEF Present, ChunksKnown, Known
  <1>4. \A d \in DOMAIN m_contextMap :
          /\ d \in Clients /\ Len(ExecutionChunks(d)) \in Nat
          /\ DOMAIN ExecutionChunks(d) = 1 .. Len(ExecutionChunks(d))
    BY ServerTypesDef, ContextType DEF ExecutionChunks
  <1>5. /\ (SubmitChunk(w) => wpc[w] = "submit") /\ (MarkDone(w) => wpc[w] = "done")
        /\ (ReadNumChunks(w) => wpc[w] = "count") /\ (ReadChunk(w) => wpc[w] = "chunks")
    BY DEF SubmitChunk, MarkDone, ReadNumChunks, ReadChunk, ReadField
  <1>6. ASSUME NEW d \in DOMAIN m_contextMap, NEW i \in DOMAIN ExecutionChunks(d),
               ~(ReadNumChunks(w) /\ d = c), IsDone(d, i)' <=> IsDone(d, i) \/ Executed(w, d, i)
        PROVE  /\ (Present(d, i) <=> ~(IsDone(d, i) \/ NotYet(d, i)))'
               /\ (NotYet(d, i) => ~IsDone(d, i))'
    <2>1. NotYet(d, i)' <=> NotYet(d, i) /\ ~Submits(w, d, i)
      BY <1>2, <1>4, <1>6
    <2>2. Present(d, i)' <=> (Present(d, i) \/ Submits(w, d, i)) /\ ~Executed(w, d, i)
      BY <1>1
    <2>3. Submits(w, d, i) => NotYet(d, i) /\ ~Executed(w, d, i)
      <3>1. Submits(w, d, i) => NotYetBy(w, d, i)
        BY <1>4, <1>5 DEF Submits, NotYetBy, HandlerPoints
      <3>2. Submits(w, d, i) => ~Executed(w, d, i)
        BY <1>5 DEF Submits, Executed
      <3>. QED  BY <3>1, <3>2, NotYetDef
    <2>4. Executed(w, d, i) => Present(d, i)
      BY DEF Executed, Present
    <2>5. /\ Present(d, i) <=> ~(IsDone(d, i) \/ NotYet(d, i))
          /\ NotYet(d, i) => ~IsDone(d, i)
      BY DEF ChunkInv, PresentUntilDone
    <2>. QED  BY <1>6, <2>1, <2>2, <2>3, <2>4, <2>5
  <1>7. ASSUME NEW d \in DOMAIN m_contextMap', NEW i \in DOMAIN ExecutionChunks(d)'
        PROVE  /\ (Present(d, i) <=> ~(IsDone(d, i) \/ NotYet(d, i)))'
               /\ (NotYet(d, i) => ~IsDone(d, i))'
    <2>0. d \in Clients
      BY <1>7, WorkerData DEF DataTypes, MapTypes
    <2>1. CASE ReadNumChunks(w) /\ d = c
      BY <1>7, <2>1, ChunkEffect DEF AddsTask, ExecutionChunks
    <2>2. CASE MarkDone(w) /\ d = c
      <3>1. MarksChunk(w) /\ \E e \in Clients, j \in 1 .. MaxChunks : job[w] = Chunk(e, j)
        BY <1>5, <2>2, ChunkEffect DEF JobOK, ChunkPoints
      <3>2. \A j : Executed(w, d, j) <=> j = job[w].chunk
        BY <2>2, <3>1, ChunkJobFields DEF Executed, Client
      <3>3. /\ d \in DOMAIN m_contextMap /\ i \in DOMAIN ExecutionChunks(d)
            /\ IsDone(d, i)' <=> IsDone(d, i) \/ i = job[w].chunk
        BY <1>7, <2>2, <3>1 DEF MarksChunk, ExecutionChunks, IsDone
      <3>. QED  BY <1>5, <1>6, <2>2, <3>2, <3>3
    <2>3. CASE SameChunks(d) /\ ~(ReadNumChunks(w) /\ d = c) /\ ~(MarkDone(w) /\ d = c)
      <3>1. ~Executed(w, d, i)
        BY <2>3, ChunkJobFields DEF Executed, Client
      <3>2. d \in DOMAIN m_contextMap /\ i \in DOMAIN ExecutionChunks(d) /\ (IsDone(d, i)' <=> IsDone(d, i))
        BY <1>7, <2>3 DEF SameChunks, ExecutionChunks, IsDone
      <3>. QED  BY <1>6, <2>3, <3>1, <3>2
    <2>4. CASE d = c /\ ReadChunk(w) /\ AddsChunk(w)
      <3>1. PICK one \in Chunks :
              /\ one.State = "InProgress"
              /\ m_contextMap'[d].ExecutionChunks = Append(m_contextMap[d].ExecutionChunks, one)
        BY <2>4 DEF AddsChunk
      <3>2. d \in DOMAIN m_contextMap /\ wpc[w] = "chunks" /\ wpc'[w] \in {"chunks", "size"}
        BY <2>4 DEF AddsChunk
      <3>. DEFINE s == m_contextMap[d].ExecutionChunks
      <3>3. s \in Seq(Chunks) /\ DOMAIN s = 1 .. Len(s) /\ Len(s) \in Nat
        BY <3>2, ServerTypesDef, ContextType
      <3>4. /\ i \in DOMAIN s \/ i = Len(s) + 1
            /\ \A j \in DOMAIN s : m_contextMap'[d].ExecutionChunks[j] = s[j]
            /\ m_contextMap'[d].ExecutionChunks[Len(s) + 1] = one
        <4>1. i \in DOMAIN Append(s, one)
          BY <1>7, <3>1 DEF ExecutionChunks
        <4>. HIDE DEF s
        <4>. QED  BY <3>1, <3>3, <4>1 DEF s
      <3>5. ~ReadNumChunks(w) /\ ~MarkDone(w) /\ ~SubmitChunk(w)
        BY <1>5, <3>2
      <3>6. CASE i \in DOMAIN s
        <4>1. IsDone(d, i)' <=> IsDone(d, i)
          BY <3>4, <3>6 DEF IsDone, ExecutionChunks
        <4>. QED  BY <1>6, <3>2, <3>5, <3>6, <4>1 DEF Executed, ExecutionChunks
      <3>7. CASE i = Len(s) + 1
        <4>1. ~Present(d, i)'
          <5>1. i \notin DOMAIN s
            BY <3>3, <3>7
          <5>. QED  BY <1>1, <1>3, <3>5, <5>1 DEF ExecutionChunks, Submits
        <4>2. ~IsDone(d, i)'
          BY <3>1, <3>4, <3>7 DEF IsDone, ExecutionChunks
        <4>3. NotYet(d, i)'
          <5>1. Client(w)' = c
            BY <2>4 DEF ReadChunk, Client
          <5>2. Holds(w, d)'
            BY <2>4, <3>2, <5>1 DEF Holds, HandlerPoints
          <5>. QED  BY <3>2, <5>2 DEF NotYet, Submitting
        <4>. QED  BY <4>1, <4>2, <4>3
      <3>. QED  BY <3>4, <3>6, <3>7
    <2>. QED  BY <1>5, <2>0, <2>1, <2>2, <2>3, <2>4, ChunkEffect
  <1>8. PresentUntilDone'
    BY <1>7 DEF PresentUntilDone
  <1>. QED  BY <1>1, <1>8 DEF ChunkInv

LEMMA AppendAt ==
  ASSUME NEW S, NEW s \in Seq(S), NEW x
  PROVE  /\ DOMAIN Append(s, x) = 1 .. Len(s) + 1
         /\ \A k \in DOMAIN s : Append(s, x)[k] = s[k]
         /\ Append(s, x)[Len(s) + 1] = x
  OBVIOUS

LEMMA AddedWork ==
  ASSUME ServerTypes, ChunkInv, NEW c \in Clients, UNCHANGED job, queue' = Append(queue, Work(c))
  PROVE  QueuedApart' /\ TakenApart' /\ TakenFromQueue' /\ \A d, i : PresentSame(d, i)
  <1>1. queue \in Seq(Jobs \ {Idle}) /\ DOMAIN queue = 1 .. Len(queue) /\ Len(queue) \in Nat
    <2>1. queue \in Seq(Jobs \ {Idle})
      BY ServerTypesDef
    <2>. QED  BY <2>1
  <1>2. /\ DOMAIN queue' = 1 .. Len(queue) + 1
        /\ \A k \in DOMAIN queue : queue'[k] = queue[k]
        /\ queue'[Len(queue) + 1] = Work(c)
    BY <1>1, AppendAt
  <1>3. Work(c).what # "chunk" /\ \A d, i : Chunk(d, i) # Work(c)
    BY WorkFields, ChunkJobFields
  <1>4. \A k \in DOMAIN queue' : (k \in DOMAIN queue /\ queue'[k] = queue[k]) \/ queue'[k] = Work(c)
    BY <1>1, <1>2
  <1>5. DOMAIN queue \subseteq DOMAIN queue'
    BY <1>1, <1>2
  <1>6. QueuedApart'
    BY <1>3, <1>4 DEF ChunkInv, QueuedApart
  <1>7. TakenApart' /\ TakenFromQueue'
    BY <1>3, <1>4 DEF ChunkInv, TakenApart, TakenFromQueue
  <1>8. \A d, i : PresentSame(d, i)
    BY <1>2, <1>3, <1>4, <1>5 DEF PresentSame, Present
  <1>. QED  BY <1>6, <1>7, <1>8

(* What the poll thread does leaves the chunks' jobs alone.                  *)
LEMMA QuietChunks ==
  ASSUME ServerTypes, ChunkInv, UNCHANGED <<job, loc, m_contextMap>>,
         UNCHANGED queue \/ \E c \in Clients : queue' = Append(queue, Work(c)),
         \A w \in Workers : wpc'[w] = wpc[w] \/ (wpc[w] \in PoolPoints /\ wpc'[w] = "ready")
  PROVE  ChunkInv'
  <1>1. QueuedApart' /\ TakenApart' /\ TakenFromQueue' /\ \A c, i : PresentSame(c, i)
    <2>1. CASE UNCHANGED queue
      BY <2>1, SameJobs
    <2>2. CASE \E c \in Clients : queue' = Append(queue, Work(c))
      BY <2>2, AddedWork
    <2>. QED  BY <2>1, <2>2
  <1>2. \A c, i : \A w \in Workers : NotYetBy(w, c, i)' <=> NotYetBy(w, c, i)
    BY DEF NotYetBy, Client, HandlerPoints, PoolPoints
  <1>3. \A c, i : NotYet(c, i)' <=> NotYet(c, i)
    <2>1. \A c, i : NotYet(c, i)' <=> \E w \in Workers : NotYetBy(w, c, i)'
      BY DEF NotYet, Submitting, Holds, NotYetBy
    <2>. QED  BY <1>2, <2>1, NotYetDef
  <1>4. PresentUntilDone'
    <2>1. \A c, i : Present(c, i)' <=> Present(c, i)
      BY <1>1 DEF PresentSame
    <2>. QED  BY <1>3, <2>1 DEF ChunkInv, PresentUntilDone, IsDone, ExecutionChunks
  <1>. QED  BY <1>1, <1>4 DEF ChunkInv

LEMMA NextChunks ==
  ASSUME TypeInv, ChunkInv, [Next]_vars
  PROVE  ChunkInv'
  <1>. SockTypes /\ ServerInv /\ ServerTypes
    BY DEF TypeInv, ServerInv
  <1>1. CASE UNCHANGED serverVars
    BY <1>1, QuietChunks DEF serverVars
  <1>2. CASE ServerSide
    <2>1. CASE StartListening \/ StartClientThread \/ PollRwClients \/ AcceptFails
      <3>1. UNCHANGED <<queue, wpc, job, loc, m_contextMap>>
        BY <2>1 DEF StartListening, StartClientThread, PollRwClients, AcceptFails
      <3>. QED  BY <3>1, QuietChunks
    <2>2. CASE MakePool
      <3>1. \A w \in Workers : wpc[w] \in PoolPoints
        BY <2>2 DEF MakePool, ServerInv, PoolUnborn, PoolPoints
      <3>2. UNCHANGED <<queue, job, loc, m_contextMap>> /\ \A w \in Workers : wpc'[w] = "ready"
        BY <2>2 DEF MakePool
      <3>. QED  BY <3>1, <3>2, QuietChunks
    <2>3. CASE SubmitWork
      <3>1. UNCHANGED <<job, loc, m_contextMap>>
        BY <2>3 DEF SubmitWork
      <3>2. UNCHANGED queue \/ \E c \in Clients : queue' = Append(queue, Work(c))
        <4>1. Head(rwClients) \in Clients
          BY <2>3, ServerTypesDef, HeadTailProperties DEF SubmitWork
        <4>. QED  BY <2>3, <4>1 DEF SubmitWork
      <3>3. \A w \in Workers : wpc'[w] = wpc[w] \/ (wpc[w] \in PoolPoints /\ wpc'[w] = "ready")
        BY <2>3, NotifyType, ServerTypesDef DEF SubmitWork, PoolPoints
      <3>. QED  BY <3>1, <3>2, <3>3, QuietChunks
    <2>. QED  BY <1>2, <2>1, <2>2, <2>3, WorkerChunks DEF ServerSide, ServerStep, InitStep, PollStep
  <1>. QED  BY <1>1, <1>2 DEF Next, ClientSide, Network, Over, vars

(* Uses counts the jobs of a chunk: there is one, or none.                   *)
LEMMA UsesOfChunk ==
  ASSUME ChunkInv, NEW c, NEW i
  PROVE  Uses(Chunk(c, i)) = IF Present(c, i) THEN 1 ELSE 0
  <1>. DEFINE one == Chunk(c, i)
              places == {k \in DOMAIN queue : queue[k] = one}
              takers == {w \in Workers : job[w] = one}
  <1>1. one.what = "chunk"
    BY ChunkJobFields
  <1>2. /\ \A j, k \in places : j = k
        /\ \A v, w \in takers : v = w
        /\ places = {} \/ takers = {}
    BY <1>1 DEF ChunkInv, QueuedApart, TakenApart, TakenFromQueue
  <1>3. Uses(one) = Cardinality(places) + Cardinality(takers)
    BY DEF Uses
  <1>4. Present(c, i) <=> places # {} \/ takers # {}
    BY DEF Present
  <1>. HIDE DEF one, places, takers
  <1>5. ASSUME NEW S, \A x, y \in S : x = y
        PROVE  Cardinality(S) = IF S = {} THEN 0 ELSE 1
    <2>1. CASE S = {}
      BY <2>1, FS_EmptySet
    <2>2. CASE S # {}
      <3>1. PICK x : x \in S
        BY <2>2
      <3>2. S = {x}
        BY <1>5, <3>1
      <3>. QED  BY <2>2, <3>2, FS_Singleton
    <2>. QED  BY <2>1, <2>2
  <1>6. Cardinality(places) = IF places = {} THEN 0 ELSE 1
    BY <1>2, <1>5
  <1>7. Cardinality(takers) = IF takers = {} THEN 0 ELSE 1
    BY <1>2, <1>5
  <1>. QED  BY <1>2, <1>3, <1>4, <1>6, <1>7 DEF one

LEMMA ChunkInvariant == Spec => [](TypeInv /\ ChunkInv)
  <1>1. Init => ChunkInv
    BY DEF Init, ServerInit, ChunkInv, QueuedApart, TakenApart, TakenFromQueue, PresentUntilDone, Idle
  <1>2. TypeInv /\ ChunkInv /\ [Next]_vars => ChunkInv'
    BY NextChunks
  <1>. QED  BY <1>1, <1>2, TypeInvariant, PTL DEF Spec

(* Each chunk of a task is executed once, and not before the whole body is   *)
(* there, however many jobs a client has and whatever they read.             *)
THEOREM ChunksExecutedOnce == Spec => []EachChunkOnce
  <1>1. ChunkInv => EachChunkOnce
    BY UsesOfChunk DEF ChunkInv, PresentUntilDone, EachChunkOnce, ExecutionChunks, IsDone
  <1>. QED  BY <1>1, ChunkInvariant, PTL
=============================================================================
