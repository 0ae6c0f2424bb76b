------------------------- MODULE AsyncSocketsProofs -------------------------
(***************************************************************************)
(* What holds of AsyncSockets for every number of clients, workers, chunks *)
(* and columns, and however the network cuts what is sent: the types, and  *)
(* the mutual exclusion of the CommunicatorMutex, on which they rest.      *)
(***************************************************************************)
EXTENDS AsyncSockets, SequenceTheorems, FiniteSetTheorems, MatrixPartitionProofs

(* What the clients send, and so what bodies are made of: everything but the *)
(* answers of the server.                                                   *)
DataUnits == [kind : Kinds \ ETaskStatus, half : {1, 2}, val : Nat]

ExecutionChunks(c) == m_contextMap[c].ExecutionChunks

(* A worker has the job that goes with where it is, and none at a pool point.*)
JobOK ==
  \A w \in Workers :
    /\ wpc[w] \in PoolPoints => job[w] = Idle
    /\ wpc[w] \in HandlerPoints \cup {"work"} => \E c \in Clients : job[w] = Work(c)
    /\ wpc[w] \in ChunkPoints => \E c \in Clients, i \in 1 .. MaxChunks : job[w] = Chunk(c, i)

(* No worker runs before the pool is made.                                  *)
PoolUnborn == initialized # "ready" => \A w \in Workers : wpc[w] = "unborn"

(* The CommunicatorMutex: one worker at a time handles a client's request.   *)
HandlersApart ==
  \A c \in Clients : \A v, w \in Workers : Holds(v, c) /\ Holds(w, c) => v = w

(* A job for a chunk is a job for a chunk there is.                          *)
Known(j) ==
  j.what = "chunk" => j.client \in DOMAIN m_contextMap /\ j.chunk \in DOMAIN ExecutionChunks(j.client)
ChunksKnown ==
  /\ \A k \in DOMAIN queue : Known(queue[k])
  /\ \A w \in Workers : Known(job[w])

(* How far a task's context is when its handler is at each point.            *)
HandlerAt(w) ==
  /\ wpc[w] \in {"header", "count"} => ~HasTaskContext(Client(w))
  /\ wpc[w] \in HandlerPoints \ {"header", "count"} => HasTaskContext(Client(w))
  /\ wpc[w] = "chunks" =>
       loc[w].num \in 1 .. MaxChunks /\ Len(ExecutionChunks(Client(w))) < loc[w].num
  /\ wpc[w] \in {"size", "body", "submit"} => Len(ExecutionChunks(Client(w))) \in 1 .. MaxChunks
  /\ wpc[w] = "submit" => loc[w].i \in 1 .. Len(ExecutionChunks(Client(w)))
  /\ wpc[w] \in {"scan", "copy"} => loc[w].i >= 1
  /\ wpc[w] = "copy" => Len(buf[w]) = Len(Context(w).Body)
HandlerOK == \A w \in Workers : HandlerAt(w)

StreamTypes == flight \in [Clients -> Seq(DataUnits)] /\ sock \in [Clients -> Seq(DataUnits)]

SockTypes   == SockTypeOK(StreamUnits) /\ StreamTypes
ClientTypes == ClientTypeOK(StreamUnits)
ServerTypes == ServerTypeOK(DataUnits)
ServerInv   == ServerTypes /\ JobOK /\ PoolUnborn /\ HandlersApart /\ ChunksKnown /\ HandlerOK
TypeInv     == SockTypes /\ ClientTypes /\ ServerInv

-----------------------------------------------------------------------------
(* Helpers: functions, jobs, streams.                                       *)

(* What an assignment to one element of a function preserves.               *)
LEMMA SetOne ==
  ASSUME NEW S, NEW T, NEW f \in [S -> T], NEW x \in S, NEW v \in T
  PROVE  [f EXCEPT ![x] = v] \in [S -> T]
  OBVIOUS

LEMMA IdleFields == Idle.what = "none"
  BY DEF Idle

LEMMA WorkFields ==
  ASSUME NEW c
  PROVE  Work(c).what = "work" /\ Work(c).client = c
  BY DEF Work

LEMMA ChunkJobFields ==
  ASSUME NEW c, NEW i
  PROVE  Chunk(c, i).what = "chunk" /\ Chunk(c, i).client = c /\ Chunk(c, i).chunk = i
  BY DEF Chunk

LEMMA JobKinds ==
  ASSUME NEW j \in Jobs \ {Idle}
  PROVE  \/ \E c \in Clients : j = Work(c)
         \/ \E c \in Clients, i \in 1 .. MaxChunks : j = Chunk(c, i)
  BY DEF Jobs

LEMMA JobTypes ==
  /\ Idle \in Jobs
  /\ \A c \in Clients : Work(c) \in Jobs \ {Idle}
  /\ \A c \in Clients, i \in 1 .. MaxChunks : Chunk(c, i) \in Jobs \ {Idle}
  BY IdleFields, WorkFields, ChunkJobFields DEF Jobs

LEMMA DataUnitsType ==
  /\ DataUnits \subseteq StreamUnits
  /\ \A S, T : S \subseteq T => Seq(S) \subseteq Seq(T)
  /\ Seq(DataUnits) \subseteq Seq(StreamUnits)
  <1>1. DataUnits \subseteq StreamUnits
    BY DEF DataUnits, StreamUnits
  <1>2. \A S, T : S \subseteq T => Seq(S) \subseteq Seq(T)
    BY SeqMonotonic, Zenon
  <1>. QED  BY <1>1, <1>2

LEMMA UnitType ==
  ASSUME NEW kind \in Kinds, NEW val \in Nat
  PROVE  /\ Unit(kind, val) \in Seq(StreamUnits) /\ Len(Unit(kind, val)) = 1
         /\ kind \notin ETaskStatus => Unit(kind, val) \in Seq(DataUnits)
  BY DEF Unit, StreamUnits, DataUnits

LEMMA StructType ==
  ASSUME NEW kind \in Kinds \ ETaskStatus, NEW u \in Nat, NEW v \in Nat
  PROVE  /\ Struct(kind, u, v) \in Seq(DataUnits)
         /\ Len(Struct(kind, u, v)) = 2
         /\ Struct(kind, u, v)[1] \in DataUnits /\ Struct(kind, u, v)[2] \in DataUnits
  <1>. DEFINE fst == [kind |-> kind, half |-> 1, val |-> u]
              snd == [kind |-> kind, half |-> 2, val |-> v]
  <1>1. fst \in DataUnits /\ snd \in DataUnits
    BY DEF DataUnits
  <1>2. Struct(kind, u, v) = <<fst>> \o <<snd>>
    BY DEF Struct, Unit
  <1>. HIDE DEF fst, snd
  <1>. QED  BY <1>1, <1>2

LEMMA FirstType ==
  ASSUME NEW T, NEW s \in Seq(T), NEW n \in Int, n <= Len(s)
  PROVE  /\ First(s, n) \in Seq(T)
         /\ Len(First(s, n)) = IF n > 0 THEN n ELSE 0
         /\ \A k \in 1 .. n : First(s, n)[k] = s[k]
  <1>1. \A i \in 1 .. n : s[i] \in T
    BY ElementOfSeq
  <1>. QED  BY <1>1, SubSeqProperties DEF First

LEMMA WithoutType ==
  ASSUME NEW T, NEW s \in Seq(T), NEW n \in Nat
  PROVE  /\ Without(s, n) \in Seq(T)
         /\ Len(Without(s, n)) = IF n < Len(s) THEN Len(s) - n ELSE 0
         /\ \A k \in 1 .. Len(s) - n : Without(s, n)[k] = s[n + k]
  <1>1. Len(s) \in Nat /\ \A i \in n + 1 .. Len(s) : s[i] \in T
    BY ElementOfSeq, LenProperties
  <1>. QED  BY <1>1, SubSeqProperties DEF Without

(* What one byte read leaves of a stream: all but the first unit, or all and *)
(* of the first unit the rest.                                              *)
LEMMA AfterByteType ==
  ASSUME NEW T, \A u \in T : Rest(u) \in T, NEW s \in Seq(T), s # <<>>
  PROVE  /\ AfterByte(s) \in Seq(T)
         /\ \/ AfterByte(s) = Without(s, 1)
            \/ /\ Head(s).kind \notin ERequestType \cup ETaskStatus
               /\ Len(AfterByte(s)) = Len(s) /\ AfterByte(s)[1] = Rest(s[1])
               /\ \A k \in 2 .. Len(s) : AfterByte(s)[k] = s[k]
  <1>1. /\ Len(s) \in Nat \ {0} /\ Head(s) = s[1] /\ Head(s) \in T
        /\ Tail(s) \in Seq(T) /\ Len(Tail(s)) = Len(s) - 1 /\ Tail(s) = Without(s, 1)
        /\ \A k \in 1 .. Len(s) - 1 : Tail(s)[k] = s[k + 1]
    BY HeadTailProperties DEF Without
  <1>2. CASE AfterByte(s) = Tail(s)
    BY <1>1, <1>2
  <1>3. CASE AfterByte(s) # Tail(s)
    <2>. DEFINE u == Rest(Head(s))
    <2>1. u \in T
      BY <1>1
    <2>2. AfterByte(s) = <<u>> \o Tail(s) /\ Head(s).kind \notin ERequestType \cup ETaskStatus
      BY <1>3, Zenon DEF AfterByte
    <2>. HIDE DEF u
    <2>3. /\ <<u>> \o Tail(s) \in Seq(T) /\ Len(<<u>> \o Tail(s)) = Len(s)
          /\ (<<u>> \o Tail(s))[1] = u
          /\ \A k \in 2 .. Len(s) : (<<u>> \o Tail(s))[k] = s[k]
      BY <1>1, <2>1
    <2>4. u = Rest(s[1])
      BY <1>1 DEF u
    <2>. QED  BY <2>2, <2>3, <2>4
  <1>. QED  BY <1>2, <1>3

LEMMA RestType ==
  /\ \A u \in DataUnits : Rest(u) \in DataUnits /\ Rest(u).kind = u.kind /\ Rest(u).half = 2
  /\ \A u \in StreamUnits : Rest(u) \in StreamUnits /\ Rest(u).kind = u.kind /\ Rest(u).half = 2
  BY DEF DataUnits, StreamUnits, Rest

-----------------------------------------------------------------------------
(* What a worker finds: its client, the client's context, what it reads.    *)

Points == PoolPoints \cup {"work"} \cup HandlerPoints \cup ChunkPoints
Chunks == [State : EChunkState, NumBytes : Nat, BufferOffsetInBytes : Nat]
Contexts == [Header : Nat, Body : Seq(DataUnits), ExecutionChunks : Seq(Chunks)]

LEMMA ServerTypesDef ==
  ServerTypes <=>
    /\ initialized \in {"constructed", "listening", "polling", "ready"}
    /\ m_clients \in Seq(Clients) /\ rwClients \in Seq(Clients)
    /\ queue \in Seq(Jobs \ {Idle})
    /\ wpc \in [Workers -> Points]
    /\ job \in [Workers -> Jobs]
    /\ loc \in [Workers -> [num : Nat, i : Nat, header : Nat]]
    /\ buf \in [Workers -> Seq(DataUnits)]
    /\ DOMAIN m_contextMap \subseteq Clients
    /\ \A c \in DOMAIN m_contextMap : m_contextMap[c] \in Contexts
    /\ died \in {"no", "null pool", "exception", "out of range"}
  BY DEF ServerTypes, ServerTypeOK, Points, Contexts, Chunks

LEMMA WorkerClient ==
  ASSUME JobOK, NEW w \in Workers, wpc[w] \in {"work"} \cup HandlerPoints \cup ChunkPoints
  PROVE  Client(w) \in Clients
  BY WorkFields, ChunkJobFields DEF JobOK, Client

LEMMA ContextType ==
  ASSUME NEW x \in Contexts
  PROVE  /\ x.Header \in Nat
         /\ x.Body \in Seq(DataUnits) /\ Len(x.Body) \in Nat
         /\ x.ExecutionChunks \in Seq(Chunks) /\ Len(x.ExecutionChunks) \in Nat
         /\ DOMAIN x.ExecutionChunks = 1 .. Len(x.ExecutionChunks)
         /\ DOMAIN x.Body = 1 .. Len(x.Body)
  BY DEF Contexts

LEMMA ReadType ==
  ASSUME StreamTypes, NEW w \in Workers, Client(w) \in Clients, NEW n \in Int
  PROVE  /\ Sock(w) \in Seq(DataUnits) /\ Len(Sock(w)) \in Nat
         /\ Read(w, n) \in Seq(DataUnits)
         /\ Len(Read(w, n)) \in Nat /\ Len(Read(w, n)) <= Len(Sock(w))
         /\ n >= 0 => Len(Read(w, n)) <= n
  <1>1. Sock(w) \in Seq(DataUnits) /\ Len(Sock(w)) \in Nat
    BY LenProperties DEF StreamTypes, Sock
  <1>. QED  BY <1>1, FirstType DEF Read

(* The numbers a reader can make of what it reads are numbers.              *)
LEMMA ValuesType ==
  ASSUME NEW got \in Seq(DataUnits), NEW kind
  PROVE  Values(got, kind) \subseteq Nat
  <1>1. got # <<>> => Head(got) \in DataUnits
    BY HeadTailProperties
  <1>. QED  BY <1>1, ServerAssumption DEF Values, DataUnits, ServerAssumption

LEMMA NumbersType ==
  ASSUME NEW got \in Seq(DataUnits), NEW kind, Len(got) = 2
  PROVE  \A n \in Numbers(got, kind) : n[1] \in Nat /\ n[2] \in Nat
  <1>1. got[1] \in DataUnits /\ got[2] \in DataUnits
    BY ElementOfSeq
  <1>2. got[1].val \in Nat /\ got[2].val \in Nat /\ Misread \subseteq Nat
    BY <1>1, ServerAssumption DEF DataUnits, ServerAssumption
  <1>3. \A n \in {<<got[1].val, got[2].val>>} : n[1] \in Nat /\ n[2] \in Nat
    BY <1>2
  <1>4. \A n \in Misread \X Misread : n[1] \in Nat /\ n[2] \in Nat
    BY <1>2
  <1>. QED  BY <1>3, <1>4, Zenon DEF Numbers

LEMMA ConsumeType ==
  ASSUME StreamTypes, NEW w \in Workers, Client(w) \in Clients, NEW n \in Nat, Consume(w, n)
  PROVE  sock' \in [Clients -> Seq(DataUnits)]
  <1>1. Without(sock[Client(w)], n) \in Seq(DataUnits)
    BY WithoutType DEF StreamTypes
  <1>. QED  BY <1>1, SetOne DEF Consume, StreamTypes

LEMMA AnswerType ==
  ASSUME SockTypes, NEW w \in Workers, Client(w) \in Clients,
         NEW units \in Seq(StreamUnits), Answer(w, units)
  PROVE  reply' \in [Clients -> Seq(StreamUnits)]
  <1>1. reply[Client(w)] \o units \in Seq(StreamUnits)
    BY ConcatProperties DEF SockTypes, SockTypeOK
  <1>. QED  BY <1>1, SetOne DEF Answer, SockTypes, SockTypeOK

(* emplace, and an assignment to an element of the map.                      *)
LEMMA SetContextType ==
  ASSUME ServerTypes, NEW c \in Clients, NEW x \in Contexts, SetContext(c, x)
  PROVE  /\ DOMAIN m_contextMap' = DOMAIN m_contextMap \cup {c}
         /\ m_contextMap'[c] = x
         /\ \A d \in DOMAIN m_contextMap : d # c => m_contextMap'[d] = m_contextMap[d]
         /\ DOMAIN m_contextMap' \subseteq Clients
         /\ \A d \in DOMAIN m_contextMap' : m_contextMap'[d] \in Contexts
  BY ServerTypesDef DEF SetContext

LEMMA NotifyType ==
  ASSUME NEW pc \in [Workers -> Points], Notify(pc)
  PROVE  /\ wpc' \in [Workers -> Points]
         /\ \A v \in Workers : wpc'[v] = pc[v] \/ (wpc[v] = "waiting" /\ wpc'[v] = "ready")
  <1>1. "ready" \in Points
    BY DEF Points, PoolPoints
  <1>2. CASE wpc' = pc
    BY <1>2
  <1>3. CASE \E w \in Waiting : wpc' = [pc EXCEPT ![w] = "ready"]
    <2>1. PICK w \in Waiting : wpc' = [pc EXCEPT ![w] = "ready"]
      BY <1>3
    <2>2. w \in Workers /\ wpc[w] = "waiting"
      BY DEF Waiting
    <2>. QED  BY <1>1, <2>1, <2>2
  <1>. QED  BY <1>2, <1>3, Zenon DEF Notify

-----------------------------------------------------------------------------
(* Where a step of worker w can lead it, and what it does to the others.    *)

Others(w) ==
  \A v \in Workers \ {w} :
    job'[v] = job[v] /\ (wpc'[v] = wpc[v] \/ (wpc[v] = "waiting" /\ wpc'[v] = "ready"))

Stays(w)  == wpc'[w] = wpc[w] /\ job'[w] = job[w]
Takes(w)  == wpc[w] = "ready" /\ queue # <<>> /\ job'[w] = Head(queue) /\ wpc'[w] = Head(queue).what
Rests(w)  == wpc[w] \in {"ready", "dozing"} /\ wpc'[w] \in {"dozing", "waiting"} /\ job'[w] = job[w]
Ends(w)   == wpc[w] \notin PoolPoints /\ wpc'[w] = "ready" /\ job'[w] = Idle
Begins(w) ==
  wpc[w] = "work" /\ CommunicatorFree(Client(w)) /\ wpc'[w] \in HandlerPoints /\ job'[w] = job[w]
Handles(w) == wpc[w] \in HandlerPoints /\ wpc'[w] \in HandlerPoints /\ job'[w] = job[w]
Executes(w) == wpc[w] \in ChunkPoints /\ wpc'[w] \in ChunkPoints /\ job'[w] = job[w]

Control(w) ==
  /\ wpc' \in [Workers -> Points] /\ job' \in [Workers -> Jobs]
  /\ UNCHANGED initialized
  /\ Others(w)
  /\ Stays(w) \/ Takes(w) \/ Rests(w) \/ Ends(w) \/ Begins(w) \/ Handles(w) \/ Executes(w)

LEMMA GotoControl ==
  ASSUME ServerTypes, NEW w \in Workers, NEW point \in Points,
         Goto(w, point), UNCHANGED <<job, initialized>>,
         \/ wpc[w] \in {"ready", "dozing"} /\ point \in {"dozing", "waiting"}
         \/ wpc[w] = "work" /\ CommunicatorFree(Client(w)) /\ point \in HandlerPoints
         \/ wpc[w] \in HandlerPoints /\ point \in HandlerPoints
         \/ wpc[w] \in ChunkPoints /\ point \in ChunkPoints
  PROVE  Control(w)
  <1>1. wpc' \in [Workers -> Points] /\ job' \in [Workers -> Jobs] /\ wpc'[w] = point /\ Others(w)
    BY SetOne, ServerTypesDef DEF Goto, Others
  <1>. QED  BY <1>1 DEF Control, Rests, Begins, Handles, Executes

LEMMA StayControl ==
  ASSUME ServerTypes, NEW w \in Workers, UNCHANGED <<wpc, job, initialized>>
  PROVE  Control(w)
  BY ServerTypesDef DEF Control, Others, Stays

LEMMA FinishControl ==
  ASSUME ServerTypes, NEW w \in Workers, Finish(w), UNCHANGED initialized, wpc[w] \notin PoolPoints
  PROVE  Control(w)
  <1>1. "ready" \in Points
    BY DEF Points, PoolPoints
  <1>. QED  BY <1>1, JobTypes, ServerTypesDef DEF Control, Others, Ends, Finish

LEMMA WorkerControl ==
  ASSUME ServerTypes, JobOK, NEW w \in Workers, WorkerStep(w) \/ ConnectionReset(w)
  PROVE  Control(w)
  <1>. USE DEF Points, PoolPoints, HandlerPoints, ChunkPoints
  <1>1. CASE Take(w)
    <2>1. Head(queue) \in Jobs \ {Idle}
      BY <1>1, ServerTypesDef, HeadTailProperties DEF Take
    <2>2. Head(queue).what \in {"work", "chunk"}
      BY <2>1, JobKinds, WorkFields, ChunkJobFields
    <2>. QED  BY <1>1, <2>1, <2>2, ServerTypesDef DEF Take, Goto, Control, Others, Takes, pollVars
  <1>2. CASE FindEmpty(w) \/ Wait(w)
    BY <1>2, GotoControl DEF FindEmpty, Wait, pollVars
  <1>3. CASE NothingRead(w) \/ IgnoreRequest(w)
    BY <1>3, FinishControl DEF NothingRead, IgnoreRequest, ReadRequest, StartRequest, Handling, pollVars
  <1>4. CASE ReadTaskSubmition(w)
    BY <1>4, FinishControl, GotoControl
    DEF ReadTaskSubmition, ReadRequest, StartRequest, Handling, pollVars
  <1>5. CASE ReadTaskStatus(w)
    BY <1>5, FinishControl, GotoControl
    DEF ReadTaskStatus, ReadRequest, StartRequest, Handling, pollVars
  <1>6. CASE ReadTaskResult(w)
    BY <1>6, StayControl, GotoControl
    DEF ReadTaskResult, ReadRequest, StartRequest, Handling, pollVars
  <1>7. CASE ShortRead(w)
    BY <1>7, StayControl DEF ShortRead, ReadField, Handling, pollVars
  <1>8. CASE ReadHeader(w) \/ ReadNumChunks(w) \/ ReadChunk(w) \/ ReadNumBytes(w) \/ ReadBody(w)
    BY <1>8, GotoControl, StayControl
    DEF ReadHeader, ReadNumChunks, ReadChunk, ReadNumBytes, ReadBody, ReadField, Handling, pollVars
  <1>9. CASE RejectNumChunks(w)
    BY <1>9, FinishControl DEF RejectNumChunks, Handling, pollVars
  <1>10. CASE SubmitChunk(w)
    <2>1. CASE MoreChunks(w)
      BY <1>10, <2>1, NotifyType, ServerTypesDef DEF SubmitChunk, Control, Others, Stays, Handles, pollVars
    <2>2. CASE ~MoreChunks(w)
      <3>. DEFINE pc == [wpc EXCEPT ![w] = "ready"]
      <3>1. pc \in [Workers -> Points] /\ pc[w] = "ready" /\ \A v \in Workers \ {w} : pc[v] = wpc[v]
        BY ServerTypesDef
      <3>2. job' = [job EXCEPT ![w] = Idle] /\ Notify(pc) /\ wpc[w] = "submit" /\ UNCHANGED initialized
        BY <1>10, <2>2 DEF SubmitChunk, pollVars
      <3>. HIDE DEF pc
      <3>3. /\ wpc' \in [Workers -> Points]
            /\ \A v \in Workers : wpc'[v] = pc[v] \/ (wpc[v] = "waiting" /\ wpc'[v] = "ready")
        BY <3>1, <3>2, NotifyType, Zenon
      <3>. QED  BY <3>1, <3>2, <3>3, JobTypes, ServerTypesDef DEF Control, Others, Ends
    <2>. QED  BY <2>1, <2>2
  <1>11. CASE ScanChunk(w) \/ AnswerFinished(w)
    BY <1>11, FinishControl, StayControl DEF ScanChunk, AnswerFinished, Handling, pollVars
  <1>12. CASE WriteNumBytes(w) \/ CopyChunk(w)
    BY <1>12, GotoControl DEF WriteNumBytes, CopyChunk, Handling, pollVars
  <1>13. CASE WriteResult(w)
    BY <1>13, FinishControl, StayControl DEF WriteResult, Handling, pollVars
  <1>14. CASE StartChunk(w) \/ ComputeChunk(w)
    BY <1>14, GotoControl DEF StartChunk, ComputeChunk, pollVars
  <1>15. CASE MarkDone(w)
    BY <1>15, FinishControl DEF MarkDone, pollVars
  <1>16. CASE ConnectionReset(w)
    BY <1>16, StayControl DEF ConnectionReset, pollVars
  <1>. QED
    BY <1>1, <1>2, <1>3, <1>4, <1>5, <1>6, <1>7, <1>8, <1>9, <1>10, <1>11, <1>12, <1>13, <1>14,
       <1>15, <1>16
    DEF WorkerStep, PoolStep, RequestStep, ChunkStep

LEMMA JobOKKept ==
  ASSUME ServerTypes, JobOK, NEW w \in Workers, Control(w)
  PROVE  JobOK'
  <1>. USE DEF PoolPoints, HandlerPoints, ChunkPoints
  <1>1. \A v \in Workers \ {w} :
          \/ wpc'[v] = wpc[v] /\ job'[v] = job[v]
          \/ wpc[v] \in PoolPoints /\ wpc'[v] = "ready" /\ job'[v] = job[v]
    BY DEF Control, Others
  <1>2. Takes(w) => Head(queue) \in Jobs \ {Idle}
    BY HeadTailProperties, ServerTypesDef DEF Takes
  <1>3. Takes(w) => \/ wpc'[w] = "work" /\ \E c \in Clients : job'[w] = Work(c)
                    \/ wpc'[w] = "chunk" /\ \E c \in Clients, i \in 1 .. MaxChunks : job'[w] = Chunk(c, i)
    BY <1>2, JobKinds, WorkFields, ChunkJobFields DEF Takes
  <1>4. \A v \in Workers \ {w} :
          /\ wpc'[v] \in PoolPoints => job'[v] = Idle
          /\ wpc'[v] \in HandlerPoints \cup {"work"} => \E c \in Clients : job'[v] = Work(c)
          /\ wpc'[v] \in ChunkPoints => \E c \in Clients, i \in 1 .. MaxChunks : job'[v] = Chunk(c, i)
    BY <1>1 DEF JobOK
  <1>5. /\ wpc'[w] \in PoolPoints => job'[w] = Idle
        /\ wpc'[w] \in HandlerPoints \cup {"work"} => \E c \in Clients : job'[w] = Work(c)
        /\ wpc'[w] \in ChunkPoints => \E c \in Clients, i \in 1 .. MaxChunks : job'[w] = Chunk(c, i)
    BY <1>3 DEF JobOK, Control, Stays, Rests, Ends, Begins, Handles, Executes
  <1>. QED  BY <1>4, <1>5 DEF JobOK

LEMMA HandlersApartKept ==
  ASSUME ServerTypes, JobOK, HandlersApart, NEW w \in Workers, Control(w)
  PROVE  HandlersApart'
  <1>. USE DEF PoolPoints, HandlerPoints, ChunkPoints
  <1>1. \A v \in Workers \ {w}, c \in Clients : Holds(v, c)' => Holds(v, c)
    BY DEF Control, Others, Holds, Client
  <1>2. Takes(w) => wpc'[w] \in {"work", "chunk"}
    <2>1. Takes(w) => Head(queue) \in Jobs \ {Idle}
      BY HeadTailProperties, ServerTypesDef DEF Takes
    <2>. QED  BY <2>1, JobKinds, WorkFields, ChunkJobFields DEF Takes
  <1>3. \A c \in Clients : Holds(w, c)' => Holds(w, c) \/ CommunicatorFree(c)
    BY <1>2 DEF Control, Holds, Client, Stays, Rests, Ends, Begins, Handles, Executes
  <1>. QED  BY <1>1, <1>3 DEF HandlersApart, CommunicatorFree

LEMMA PoolUnbornKept ==
  ASSUME ServerTypes, PoolUnborn, NEW w \in Workers, Control(w)
  PROVE  PoolUnborn'
  BY DEF PoolUnborn, Control, Others, Stays, Takes, Rests, Ends, Begins, Handles, Executes, PoolPoints,
         HandlerPoints, ChunkPoints

-----------------------------------------------------------------------------
(* The types of what a step of a worker assigns.                            *)

Locals == [num : Nat, i : Nat, header : Nat]
MapTypes == DOMAIN m_contextMap \subseteq Clients /\ \A c \in DOMAIN m_contextMap : m_contextMap[c] \in Contexts

(* What is left of ServerTypes and SockTypes beside Control.                 *)
DataTypes ==
  /\ sock \in [Clients -> Seq(DataUnits)] /\ reply \in [Clients -> Seq(StreamUnits)]
  /\ queue \in Seq(Jobs \ {Idle})
  /\ loc \in [Workers -> Locals] /\ buf \in [Workers -> Seq(DataUnits)]
  /\ MapTypes
  /\ died \in {"no", "null pool", "exception", "out of range"}

LEMMA SockTypesDef ==
  SockTypes <=>
    /\ listening \in BOOLEAN
    /\ backlog \subseteq Clients /\ closed \subseteq Clients /\ gone \subseteq Clients
    /\ flight \in [Clients -> Seq(DataUnits)] /\ sock \in [Clients -> Seq(DataUnits)]
    /\ reply \in [Clients -> Seq(StreamUnits)]
  <1>1. \A f : f \in [Clients -> Seq(DataUnits)] => f \in [Clients -> Seq(StreamUnits)]
    BY DataUnitsType
  <1>. QED  BY <1>1 DEF SockTypes, SockTypeOK, StreamTypes

LEMMA ZeroLocals == ZeroLoc \in Locals /\ ZeroLoc = [num |-> 0, i |-> 0, header |-> 0]
  BY DEF ZeroLoc, Locals

(* The values of the local variables a step leaves behind.                   *)
LEMMA FinishData ==
  ASSUME DataTypes, NEW w \in Workers, Finish(w)
  PROVE  loc' \in [Workers -> Locals] /\ buf' \in [Workers -> Seq(DataUnits)]
  BY ZeroLocals, EmptySeq, SetOne DEF DataTypes, Finish

LEMMA SetLocal ==
  ASSUME DataTypes, NEW w \in Workers, NEW n \in Nat
  PROVE  /\ [loc EXCEPT ![w].i = n] \in [Workers -> Locals]
         /\ [loc EXCEPT ![w].num = n] \in [Workers -> Locals]
         /\ [loc EXCEPT ![w].header = n] \in [Workers -> Locals]
  BY DEF DataTypes, Locals

LEMMA GetLocal ==
  ASSUME DataTypes, NEW w \in Workers
  PROVE  /\ loc[w].num \in Nat /\ loc[w].i \in Nat /\ loc[w].header \in Nat
         /\ [loc EXCEPT ![w].i = @ + 1] \in [Workers -> Locals]
         /\ [loc EXCEPT ![w] = ZeroLoc] \in [Workers -> Locals]
  <1>1. loc[w] \in Locals
    BY DEF DataTypes
  <1>2. loc[w].num \in Nat /\ loc[w].i \in Nat /\ loc[w].header \in Nat
    BY <1>1 DEF Locals
  <1>3. loc[w].i + 1 \in Nat
    BY <1>2
  <1>4. [loc EXCEPT ![w].i = loc[w].i + 1] \in [Workers -> Locals]
    BY <1>3, SetLocal
  <1>5. [loc EXCEPT ![w] = ZeroLoc] \in [Workers -> Locals]
    BY ZeroLocals, SetOne DEF DataTypes
  <1>. QED  BY <1>2, <1>4, <1>5

LEMMA NextLocal ==
  ASSUME DataTypes, NEW w \in Workers, loc' = [loc EXCEPT ![w].i = @ + 1]
  PROVE  loc'[w].i = loc[w].i + 1 /\ loc'[w].num = loc[w].num
  <1>1. loc \in [Workers -> Locals]
    BY DEF DataTypes
  <1>. QED  BY <1>1 DEF Locals

LEMMA DataTypesDef ==
  ASSUME SockTypes, ServerTypes
  PROVE  DataTypes
  BY SockTypesDef, ServerTypesDef DEF DataTypes, MapTypes, Locals

LEMMA SetMap ==
  ASSUME ServerTypes, NEW c \in Clients, NEW x \in Contexts, SetContext(c, x)
  PROVE  MapTypes'
  BY SetContextType DEF MapTypes

LEMMA AnswerUnit ==
  ASSUME SockTypes, NEW w \in Workers, Client(w) \in Clients, NEW kind \in Kinds,
         Answer(w, Unit(kind, 0))
  PROVE  reply' \in [Clients -> Seq(StreamUnits)]
  BY AnswerType, UnitType

LEMMA KindsHas ==
  /\ ETaskStatus \subseteq Kinds /\ ERequestType \subseteq Kinds
  /\ {"header", "count", "chunk", "size", "raw", "final", "zero"} \subseteq Kinds \ ETaskStatus
  /\ ERequestType \subseteq Kinds \ ETaskStatus
  BY DEF Kinds, ETaskStatus, ERequestType

(* The reading of a request.                                                *)
LEMMA ReadRequestData ==
  ASSUME SockTypes, ServerInv, NEW w \in Workers,
         \/ NothingRead(w) \/ IgnoreRequest(w) \/ ReadTaskSubmition(w)
         \/ ReadTaskStatus(w) \/ ReadTaskResult(w) \/ ConnectionReset(w)
  PROVE  DataTypes'
  <1>. DataTypes /\ ServerTypes /\ JobOK /\ StreamTypes
    BY DataTypesDef DEF ServerInv, SockTypes
  <1>1. CASE NothingRead(w)
    BY <1>1, FinishData DEF NothingRead, StartRequest, Handling, DataTypes, MapTypes
  <1>2. CASE ConnectionReset(w)
    BY <1>2 DEF ConnectionReset, DataTypes, MapTypes, Throw, pollVars, sockVars
  <1>3. ASSUME NEW type, ReadRequest(w, type)
        PROVE  /\ Client(w) \in Clients /\ sock' \in [Clients -> Seq(DataUnits)]
               /\ UNCHANGED <<queue, m_contextMap>>
    <2>1. Client(w) \in Clients
      BY <1>3, WorkerClient DEF ReadRequest, StartRequest
    <2>2. AfterByte(sock[Client(w)]) \in Seq(DataUnits)
      BY <1>3, <2>1, AfterByteType, RestType DEF ReadRequest, StreamTypes, Sock
    <2>. QED  BY <1>3, <2>1, <2>2, SetOne DEF ReadRequest, StartRequest, Handling, StreamTypes
  <1>4. CASE IgnoreRequest(w)
    BY <1>3, <1>4, FinishData DEF IgnoreRequest, DataTypes, MapTypes
  <1>5. CASE ReadTaskSubmition(w)
    BY <1>3, <1>5, FinishData DEF ReadTaskSubmition, DataTypes, MapTypes
  <1>6. CASE ReadTaskStatus(w)
    <2>1. /\ Client(w) \in Clients /\ sock' \in [Clients -> Seq(DataUnits)]
          /\ UNCHANGED <<queue, m_contextMap, died>>
      BY <1>3, <1>6 DEF ReadTaskStatus
    <2>2. CASE Answer(w, Unit("NotFound", 0)) /\ Finish(w)
      BY <2>1, <2>2, FinishData, AnswerUnit, KindsHas DEF DataTypes, MapTypes, ETaskStatus
    <2>3. CASE loc' = [loc EXCEPT ![w].i = 1] /\ UNCHANGED <<reply, job, buf>>
      BY <2>1, <2>3, SetLocal DEF DataTypes, MapTypes
    <2>. QED  BY <1>6, <2>2, <2>3 DEF ReadTaskStatus
  <1>7. CASE ReadTaskResult(w)
    BY <1>3, <1>7 DEF ReadTaskResult, Throw, DataTypes, MapTypes
  <1>. QED  BY <1>1, <1>2, <1>4, <1>5, <1>6, <1>7

(* ProcessTaskSubmition. *)
LEMMA SubmissionData ==
  ASSUME SockTypes, ServerInv, NEW w \in Workers,
         \/ ShortRead(w) \/ ReadHeader(w) \/ RejectNumChunks(w) \/ ReadNumChunks(w)
         \/ ReadChunk(w) \/ ReadNumBytes(w) \/ ReadBody(w) \/ SubmitChunk(w)
  PROVE  DataTypes'
  <1>. DataTypes /\ ServerTypes /\ JobOK /\ HandlerOK /\ StreamTypes
    BY DataTypesDef DEF ServerInv, SockTypes
  <1>1. wpc[w] \in {"header", "count", "chunks", "size", "body", "submit"}
    BY DEF ShortRead, ReadHeader, RejectNumChunks, ReadNumChunks, ReadChunk, ReadNumBytes, ReadBody,
           SubmitChunk, ReadField
  <1>2. Client(w) \in Clients
    BY <1>1, WorkerClient DEF HandlerPoints
  <1>3. wpc[w] \in {"chunks", "size", "body", "submit"} => Context(w) \in Contexts
    BY <1>1, ServerTypesDef DEF HandlerOK, HandlerAt, HandlerPoints, HasTaskContext, Context
  <1>4. ASSUME NEW point, NEW n \in Int, ReadField(w, point, n)
        PROVE  sock' \in [Clients -> Seq(DataUnits)] /\ UNCHANGED <<queue, reply, buf>>
    BY <1>2, <1>4, ReadType, ConsumeType DEF ReadField, Handling
  <1>5. Read(w, 2) \in Seq(DataUnits)
    BY <1>2, ReadType
  <1>6. CASE ShortRead(w)
    <2>1. sock' \in [Clients -> Seq(DataUnits)] /\ UNCHANGED <<queue, reply, buf>>
      BY <1>4, <1>6 DEF ShortRead
    <2>. QED  BY <1>6, <2>1 DEF ShortRead, Throw, DataTypes, MapTypes
  <1>7. CASE ReadHeader(w)
    <2>1. sock' \in [Clients -> Seq(DataUnits)] /\ UNCHANGED <<queue, reply, buf>>
      BY <1>4, <1>7 DEF ReadHeader
    <2>2. loc' \in [Workers -> Locals]
      <3>1. PICK n \in Numbers(Read(w, 2), "header") : loc' = [loc EXCEPT ![w].header = n[2]]
        BY <1>7 DEF ReadHeader
      <3>2. n[2] \in Nat
        BY <1>5, <1>7, NumbersType DEF ReadHeader
      <3>. QED  BY <3>1, <3>2, SetLocal
    <2>. QED  BY <1>7, <2>1, <2>2 DEF ReadHeader, DataTypes, MapTypes
  <1>8. CASE RejectNumChunks(w)
    <2>1. sock' \in [Clients -> Seq(DataUnits)]
      BY <1>2, <1>8, ConsumeType DEF RejectNumChunks
    <2>. QED  BY <1>8, <2>1, FinishData DEF RejectNumChunks, Handling, DataTypes, MapTypes
  <1>9. CASE ReadNumChunks(w)
    <2>1. sock' \in [Clients -> Seq(DataUnits)] /\ UNCHANGED <<queue, reply, buf>>
      BY <1>4, <1>9 DEF ReadNumChunks
    <2>2. loc' \in [Workers -> Locals]
      <3>1. PICK v \in Values(Read(w, 2), "count") : loc' = [loc EXCEPT ![w].num = v]
        BY <1>9 DEF ReadNumChunks
      <3>2. v \in Nat
        BY <1>5, ValuesType
      <3>. QED  BY <3>1, <3>2, SetLocal
    <2>3. TaskContext(loc[w].header, <<>>, <<>>) \in Contexts
      BY EmptySeq DEF TaskContext, Contexts, DataTypes, Locals
    <2>4. MapTypes'
      BY <1>2, <1>9, <2>3, SetMap DEF ReadNumChunks
    <2>. QED  BY <1>9, <2>1, <2>2, <2>4 DEF ReadNumChunks, DataTypes
  <1>10. CASE ReadChunk(w)
    <2>1. sock' \in [Clients -> Seq(DataUnits)] /\ UNCHANGED <<queue, reply, buf>>
      BY <1>4, <1>10 DEF ReadChunk
    <2>2. PICK n \in Numbers(Read(w, 2), "chunk") :
            SetContext(Client(w),
              [Context(w) EXCEPT !.ExecutionChunks = Append(@, ExecutionChunk(n[1], n[2]))])
      BY <1>10 DEF ReadChunk
    <2>3. ExecutionChunk(n[1], n[2]) \in Chunks
      BY <1>5, <1>10, NumbersType DEF ReadChunk, ExecutionChunk, Chunks, EChunkState
    <2>4. Context(w) \in Contexts
      BY <1>3, <1>10 DEF ReadChunk, ReadField
    <2>5. [Context(w) EXCEPT !.ExecutionChunks = Append(@, ExecutionChunk(n[1], n[2]))] \in Contexts
      BY <2>3, <2>4, AppendProperties DEF Contexts
    <2>6. MapTypes'
      BY <1>2, <2>2, <2>5, SetMap
    <2>. QED  BY <1>10, <2>1, <2>6 DEF ReadChunk, DataTypes
  <1>11. CASE ReadNumBytes(w)
    <2>1. sock' \in [Clients -> Seq(DataUnits)] /\ UNCHANGED <<queue, reply, buf>>
      BY <1>4, <1>11 DEF ReadNumBytes
    <2>2. loc' \in [Workers -> Locals] /\ died' \in {died, "exception"}
      <3>1. PICK v \in Values(Read(w, 2), "size") :
              loc' = [loc EXCEPT ![w].num = v] \/ loc' = loc
        BY <1>11 DEF ReadNumBytes
      <3>2. v \in Nat
        BY <1>5, ValuesType
      <3>3. loc' \in [Workers -> Locals]
        <4>1. [loc EXCEPT ![w].num = v] \in [Workers -> Locals] /\ loc \in [Workers -> Locals]
          BY <3>2, SetLocal DEF DataTypes
        <4>. QED  BY <3>1, <4>1
      <3>. QED  BY <1>11, <3>3 DEF ReadNumBytes, Throw
    <2>. QED  BY <1>11, <2>1, <2>2 DEF ReadNumBytes, DataTypes, MapTypes
  <1>12. CASE ReadBody(w)
    <2>. DEFINE n == loc[w].num - Len(Context(w).Body)
                body == Context(w).Body \o Read(w, n)
    <2>1. Context(w) \in Contexts /\ n \in Int
      <3>1. Context(w) \in Contexts
        BY <1>3, <1>12 DEF ReadBody, ReadField
      <3>2. Len(Context(w).Body) \in Nat /\ loc[w].num \in Nat
        BY <3>1, ContextType, GetLocal
      <3>. QED  BY <3>1, <3>2
    <2>2. sock' \in [Clients -> Seq(DataUnits)] /\ UNCHANGED <<queue, reply, buf>>
      BY <1>4, <1>12, <2>1 DEF ReadBody
    <2>3. body \in Seq(DataUnits)
      BY <1>2, <2>1, ReadType, ConcatProperties, ContextType
    <2>4. [Context(w) EXCEPT !.Body = body] \in Contexts
      BY <2>1, <2>3 DEF Contexts
    <2>5. MapTypes'
      BY <1>2, <1>12, <2>4, SetMap DEF ReadBody
    <2>6. loc' \in [Workers -> Locals]
      <3>1. loc' = [loc EXCEPT ![w].i = 1] \/ loc' = loc
        BY <1>12 DEF ReadBody
      <3>2. [loc EXCEPT ![w].i = 1] \in [Workers -> Locals] /\ loc \in [Workers -> Locals]
        BY SetLocal DEF DataTypes
      <3>. QED  BY <3>1, <3>2
    <2>. QED  BY <1>12, <2>2, <2>5, <2>6 DEF ReadBody, DataTypes
  <1>13. CASE SubmitChunk(w)
    <2>1. Chunk(Client(w), loc[w].i) \in Jobs \ {Idle}
      <3>1. loc[w].i \in 1 .. MaxChunks
        <4>1. Context(w) \in Contexts /\ Context(w).ExecutionChunks = ExecutionChunks(Client(w))
          BY <1>3, <1>13 DEF SubmitChunk, Context, ExecutionChunks
        <4>2. /\ loc[w].i \in 1 .. Len(ExecutionChunks(Client(w)))
              /\ Len(ExecutionChunks(Client(w))) \in 1 .. MaxChunks
          BY <1>13 DEF SubmitChunk, HandlerOK, HandlerAt
        <4>. QED  BY <4>1, <4>2, ContextType, ServerAssumption DEF ServerAssumption
      <3>. QED  BY <1>2, <3>1, JobTypes
    <2>2. queue' \in Seq(Jobs \ {Idle})
      BY <1>13, <2>1, AppendProperties DEF SubmitChunk, DataTypes
    <2>3. loc' \in [Workers -> Locals]
      BY <1>13, GetLocal DEF SubmitChunk
    <2>. QED  BY <1>13, <2>2, <2>3 DEF SubmitChunk, DataTypes, MapTypes, sockVars
  <1>. QED  BY <1>6, <1>7, <1>8, <1>9, <1>10, <1>11, <1>12, <1>13

(* ProcessTaskStatus and ProcessTaskResult. *)
LEMMA AnswersData ==
  ASSUME SockTypes, ServerInv, NEW w \in Workers,
         ScanChunk(w) \/ AnswerFinished(w) \/ WriteNumBytes(w) \/ CopyChunk(w) \/ WriteResult(w)
  PROVE  DataTypes'
  <1>. DataTypes /\ ServerTypes /\ JobOK /\ HandlerOK /\ StreamTypes
    BY DataTypesDef DEF ServerInv, SockTypes
  <1>1. wpc[w] \in {"scan", "result", "copy", "write"}
    BY DEF ScanChunk, AnswerFinished, WriteNumBytes, CopyChunk, WriteResult
  <1>2. Client(w) \in Clients
    BY <1>1, WorkerClient DEF HandlerPoints
  <1>3. Context(w) \in Contexts
    BY <1>1, ServerTypesDef DEF HandlerOK, HandlerAt, HandlerPoints, HasTaskContext, Context
  <1>4. UNCHANGED <<queue, m_contextMap, sock>>
    BY DEF ScanChunk, AnswerFinished, WriteNumBytes, CopyChunk, WriteResult, Handling
  <1>5. CASE ScanChunk(w)
    <2>. DEFINE i == loc[w].i
                state == Context(w).ExecutionChunks[i].State
    <2>1. i \in 1 .. Len(Context(w).ExecutionChunks)
      <3>1. loc[w].i >= 1 /\ loc[w].i <= Len(Context(w).ExecutionChunks)
        BY <1>5 DEF ScanChunk, HandlerOK, HandlerAt
      <3>2. loc[w].i \in Nat /\ Len(Context(w).ExecutionChunks) \in Nat
        BY <1>3, ContextType, GetLocal
      <3>. QED  BY <3>1, <3>2
    <2>2. state \in EChunkState
      <3>1. Context(w).ExecutionChunks \in Seq(Chunks)
        BY <1>3, ContextType
      <3>2. Context(w).ExecutionChunks[i] \in Chunks
        BY <2>1, <3>1, ElementOfSeq
      <3>. QED  BY <3>2 DEF Chunks
    <2>3. CASE state = "Done"
      <3>1. loc' = [loc EXCEPT ![w].i = @ + 1] /\ UNCHANGED <<buf, reply, died>>
        BY <1>5, <2>3 DEF ScanChunk, Passes
      <3>. QED  BY <1>4, <3>1, GetLocal DEF DataTypes, MapTypes
    <2>4. CASE state # "Done"
      <3>1. StatusOfChunk[state] \in ETaskStatus
        BY <2>2, <2>4 DEF StatusOfChunk, EChunkState, ETaskStatus
      <3>2. Answer(w, Unit(StatusOfChunk[state], 0)) /\ Finish(w) /\ UNCHANGED died
        BY <1>5, <2>4 DEF ScanChunk, Passes
      <3>3. StatusOfChunk[state] \in Kinds
        BY <3>1, KindsHas
      <3>. HIDE DEF state
      <3>. QED  BY <1>2, <1>4, <3>2, <3>3, AnswerUnit, FinishData DEF DataTypes, MapTypes
    <2>. QED  BY <2>3, <2>4
  <1>6. CASE AnswerFinished(w)
    <2>1. "Finished" \in Kinds
      BY KindsHas DEF ETaskStatus
    <2>. QED  BY <1>2, <1>4, <1>6, <2>1, AnswerUnit, FinishData DEF AnswerFinished, DataTypes, MapTypes
  <1>7. CASE WriteNumBytes(w)
    <2>. DEFINE body == Context(w).Body
    <2>1. body \in Seq(DataUnits) /\ Len(body) \in Nat /\ DOMAIN body = 1 .. Len(body)
      BY <1>3, ContextType
    <2>2. Field("size", Len(body)) \in Seq(StreamUnits)
      BY <2>1, StructType, KindsHas, DataUnitsType DEF Field
    <2>3. reply' \in [Clients -> Seq(StreamUnits)]
      BY <1>2, <1>7, <2>2, AnswerType DEF WriteNumBytes
    <2>4. ZeroByte \in DataUnits
      BY KindsHas DEF ZeroByte, DataUnits
    <2>5. [k \in DOMAIN body |-> ZeroByte] \in Seq(DataUnits)
      BY <2>1, <2>4
    <2>6. buf' \in [Workers -> Seq(DataUnits)]
      BY <1>7, <2>5, SetOne DEF WriteNumBytes, DataTypes
    <2>. QED  BY <1>4, <1>7, <2>3, <2>6, SetLocal DEF WriteNumBytes, DataTypes, MapTypes
  <1>8. CASE CopyChunk(w)
    <2>. DEFINE body == Context(w).Body
                part == Units(ChunkExtent(Context(w).ExecutionChunks[loc[w].i]))
                copy == [k \in DOMAIN body |-> IF k \in part THEN body[k] ELSE buf[w][k]]
    <2>1. body \in Seq(DataUnits) /\ Len(body) \in Nat /\ DOMAIN body = 1 .. Len(body)
      BY <1>3, ContextType
    <2>2. buf[w] \in Seq(DataUnits) /\ Len(buf[w]) = Len(body)
      BY <1>8 DEF CopyChunk, HandlerOK, HandlerAt, DataTypes
    <2>3. copy \in Seq(DataUnits)
      <3>1. \A k \in DOMAIN body : body[k] \in DataUnits /\ buf[w][k] \in DataUnits
        BY <2>1, <2>2, ElementOfSeq
      <3>2. \A k \in 1 .. Len(body) : copy[k] \in DataUnits
        BY <2>1, <3>1
      <3>3. copy \in [1 .. Len(body) -> DataUnits]
        BY <2>1, <3>2
      <3>. HIDE DEF copy, body
      <3>. QED  BY <2>1, <3>3, SeqDef
    <2>4. (buf' = [buf EXCEPT ![w] = copy] \/ buf' = buf) /\ died' \in {died, "out of range"}
      BY <1>8 DEF CopyChunk, OutOfRange
    <2>5. buf' \in [Workers -> Seq(DataUnits)]
      <3>. HIDE DEF copy
      <3>. QED  BY <2>3, <2>4, SetOne DEF DataTypes
    <2>. QED  BY <1>4, <1>8, <2>4, <2>5, GetLocal DEF CopyChunk, DataTypes, MapTypes
  <1>9. CASE WriteResult(w)
    <2>1. PICK n \in 0 .. Len(buf[w]) :
            /\ Answer(w, First(buf[w], n))
            /\ Finish(w) \/ (buf' = [buf EXCEPT ![w] = Without(@, n)] /\ UNCHANGED <<wpc, job, loc>>)
      BY <1>9 DEF WriteResult
    <2>2. buf[w] \in Seq(DataUnits) /\ Len(buf[w]) \in Nat
      BY LenProperties DEF DataTypes
    <2>3. First(buf[w], n) \in Seq(StreamUnits)
      BY <2>2, FirstType, DataUnitsType
    <2>4. reply' \in [Clients -> Seq(StreamUnits)]
      BY <1>2, <2>1, <2>3, AnswerType
    <2>5. [buf EXCEPT ![w] = Without(@, n)] \in [Workers -> Seq(DataUnits)]
      <3>1. Without(buf[w], n) \in Seq(DataUnits)
        BY <2>2, WithoutType
      <3>. QED  BY <3>1, SetOne DEF DataTypes
    <2>6. loc' \in [Workers -> Locals] /\ buf' \in [Workers -> Seq(DataUnits)]
      BY <2>1, <2>5, FinishData DEF DataTypes
    <2>. QED  BY <1>4, <1>9, <2>4, <2>6 DEF WriteResult, DataTypes, MapTypes
  <1>. QED  BY <1>5, <1>6, <1>7, <1>8, <1>9

(* What a delegate does to the body, and to the state of its chunk.          *)
LEMMA ExecuteBody ==
  ASSUME NEW x \in Contexts, NEW columns
  PROVE  LET body == [k \in DOMAIN x.Body |-> IF k \in columns THEN Execute(x.Body[k]) ELSE x.Body[k]]
         IN  /\ body \in Seq(DataUnits) /\ Len(body) = Len(x.Body)
             /\ [x EXCEPT !.Body = body] \in Contexts
  <1>. DEFINE body == [k \in DOMAIN x.Body |-> IF k \in columns THEN Execute(x.Body[k]) ELSE x.Body[k]]
  <1>1. \A u \in DataUnits : Execute(u) \in DataUnits
    BY KindsHas DEF Execute, DataUnits
  <1>2. x.Body \in Seq(DataUnits) /\ Len(x.Body) \in Nat /\ DOMAIN x.Body = 1 .. Len(x.Body)
    BY ContextType
  <1>3. \A k \in 1 .. Len(x.Body) : x.Body[k] \in DataUnits
    BY <1>2, ElementOfSeq
  <1>4. body \in [1 .. Len(x.Body) -> DataUnits]
    BY <1>1, <1>2, <1>3
  <1>. HIDE DEF body
  <1>5. body \in Seq(DataUnits) /\ Len(body) = Len(x.Body)
    BY <1>2, <1>4, SeqDef
  <1>6. [x EXCEPT !.Body = body] \in Contexts
    BY <1>5 DEF Contexts
  <1>. QED  BY <1>5, <1>6 DEF body

LEMMA MarkChunk ==
  ASSUME NEW x \in Contexts, NEW i \in 1 .. Len(x.ExecutionChunks)
  PROVE  LET y == [x EXCEPT !.ExecutionChunks[i].State = "Done"]
         IN  /\ y \in Contexts /\ y.Body = x.Body /\ y.Header = x.Header
             /\ Len(y.ExecutionChunks) = Len(x.ExecutionChunks)
             /\ y.ExecutionChunks[i] = [x.ExecutionChunks[i] EXCEPT !.State = "Done"]
             /\ \A j \in 1 .. Len(x.ExecutionChunks) :
                  j # i => y.ExecutionChunks[j] = x.ExecutionChunks[j]
  <1>. DEFINE chunks == x.ExecutionChunks
              y == [x EXCEPT !.ExecutionChunks[i].State = "Done"]
              one == [chunks[i] EXCEPT !.State = "Done"]
              all == [chunks EXCEPT ![i] = one]
  <1>1. chunks \in Seq(Chunks)
    BY ContextType
  <1>2. one \in Chunks
    <2>1. chunks[i] \in Chunks
      BY <1>1, ElementOfSeq
    <2>. HIDE DEF chunks
    <2>. QED  BY <2>1 DEF Chunks, EChunkState
  <1>3. y = [x EXCEPT !.ExecutionChunks = all]
    BY Zenon
  <1>4. /\ all \in Seq(Chunks) /\ Len(all) = Len(chunks) /\ all[i] = one
        /\ \A j \in 1 .. Len(chunks) : j # i => all[j] = chunks[j]
    <2>1. i \in 1 .. Len(chunks)
      OBVIOUS
    <2>. HIDE DEF one, chunks
    <2>. QED  BY <1>1, <1>2, <2>1, ExceptSeq
  <1>5. y \in Contexts /\ y.Body = x.Body /\ y.Header = x.Header /\ y.ExecutionChunks = all
    <2>. HIDE DEF all, y
    <2>. QED  BY <1>3, <1>4 DEF Contexts
  <1>. HIDE DEF all, y
  <1>. QED  BY <1>4, <1>5 DEF y

(* The pool and the delegate. *)
LEMMA ExecutionData ==
  ASSUME SockTypes, ServerInv, NEW w \in Workers, PoolStep(w) \/ ChunkStep(w)
  PROVE  DataTypes'
  <1>. DataTypes /\ ServerTypes /\ JobOK /\ ChunksKnown
    BY DataTypesDef DEF ServerInv
  <1>1. CASE Take(w)
    BY <1>1, HeadTailProperties DEF Take, DataTypes, MapTypes, sockVars
  <1>2. CASE FindEmpty(w) \/ Wait(w) \/ StartChunk(w)
    BY <1>2 DEF FindEmpty, Wait, StartChunk, DataTypes, MapTypes, sockVars
  <1>3. wpc[w] \in ChunkPoints =>
          /\ Client(w) \in Clients /\ Context(w) \in Contexts
          /\ job[w].chunk \in 1 .. Len(Context(w).ExecutionChunks)
    <2>1. wpc[w] \in ChunkPoints => Client(w) \in Clients /\ job[w].what = "chunk"
      BY WorkerClient, ChunkJobFields DEF JobOK
    <2>2. wpc[w] \in ChunkPoints =>
            /\ Client(w) \in DOMAIN m_contextMap
            /\ job[w].chunk \in DOMAIN Context(w).ExecutionChunks
      BY <2>1 DEF ChunksKnown, Known, Client, Context, ExecutionChunks
    <2>. QED  BY <2>1, <2>2, ServerTypesDef, ContextType DEF Context
  <1>4. CASE ComputeChunk(w)
    <2>. DEFINE body == [k \in DOMAIN Context(w).Body |->
                           IF k \in Columns(w) THEN Execute(Context(w).Body[k]) ELSE Context(w).Body[k]]
    <2>1. Client(w) \in Clients /\ Context(w) \in Contexts
      BY <1>3, <1>4 DEF ComputeChunk, ChunkPoints
    <2>3. [Context(w) EXCEPT !.Body = body] \in Contexts
      BY <2>1, ExecuteBody
    <2>4. MapTypes' /\ died' \in {died, "exception", "out of range"}
      <3>1. \/ SetContext(Client(w), [Context(w) EXCEPT !.Body = body]) /\ UNCHANGED died
            \/ UNCHANGED m_contextMap /\ died' \in {died, "exception", "out of range"}
        BY <1>4 DEF ComputeChunk, OutOfRange, Throw
      <3>. HIDE DEF body
      <3>. QED  BY <2>1, <2>3, <3>1, SetMap DEF DataTypes, MapTypes
    <2>5. UNCHANGED <<sock, reply, queue, loc, buf>>
      BY <1>4 DEF ComputeChunk, sockVars
    <2>. QED  BY <2>4, <2>5 DEF DataTypes
  <1>5. CASE MarkDone(w)
    <2>. DEFINE i == job[w].chunk
                chunks == Context(w).ExecutionChunks
    <2>1. Client(w) \in Clients /\ Context(w) \in Contexts /\ i \in 1 .. Len(chunks)
      BY <1>3, <1>5 DEF MarkDone, ChunkPoints
    <2>2. [Context(w) EXCEPT !.ExecutionChunks[i].State = "Done"] \in Contexts
      BY <2>1, MarkChunk
    <2>3. MapTypes'
      BY <1>5, <2>1, <2>2, SetMap DEF MarkDone
    <2>. QED  BY <1>5, <2>3, FinishData DEF MarkDone, DataTypes, sockVars
  <1>. QED  BY <1>1, <1>2, <1>4, <1>5 DEF PoolStep, ChunkStep

-----------------------------------------------------------------------------
(* What a step of a worker does to the tasks: those of the other clients keep*)
(* their shape, and none loses a chunk.                                     *)

KeepsShape(d) ==
  /\ d \in DOMAIN m_contextMap' <=> d \in DOMAIN m_contextMap
  /\ d \in DOMAIN m_contextMap =>
       /\ Len(m_contextMap'[d].ExecutionChunks) = Len(m_contextMap[d].ExecutionChunks)
       /\ Len(m_contextMap'[d].Body) = Len(m_contextMap[d].Body)

Grows ==
  \A d \in DOMAIN m_contextMap :
    d \in DOMAIN m_contextMap' /\ DOMAIN ExecutionChunks(d) \subseteq DOMAIN ExecutionChunks(d)'

LEMMA SameMap ==
  ASSUME UNCHANGED m_contextMap
  PROVE  (\A d \in Clients : KeepsShape(d)) /\ Grows
  BY DEF KeepsShape, Grows, ExecutionChunks

LEMMA SetMapShape ==
  ASSUME ServerTypes, NEW c \in Clients, NEW x \in Contexts, SetContext(c, x)
  PROVE  /\ \A d \in Clients \ {c} : KeepsShape(d)
         /\ c \notin DOMAIN m_contextMap => Grows
         /\ c \in DOMAIN m_contextMap /\ Len(ExecutionChunks(c)) <= Len(x.ExecutionChunks) => Grows
         /\ (/\ c \in DOMAIN m_contextMap
             /\ Len(ExecutionChunks(c)) = Len(x.ExecutionChunks)
             /\ Len(m_contextMap[c].Body) = Len(x.Body)) => KeepsShape(c)
  <1>1. /\ DOMAIN m_contextMap' = DOMAIN m_contextMap \cup {c}
        /\ m_contextMap'[c] = x
        /\ \A d \in DOMAIN m_contextMap : d # c => m_contextMap'[d] = m_contextMap[d]
    BY SetContextType
  <1>2. DOMAIN x.ExecutionChunks = 1 .. Len(x.ExecutionChunks) /\ Len(x.ExecutionChunks) \in Nat
    BY ContextType
  <1>3. c \in DOMAIN m_contextMap =>
          /\ DOMAIN ExecutionChunks(c) = 1 .. Len(ExecutionChunks(c))
          /\ Len(ExecutionChunks(c)) \in Nat
    BY ContextType, ServerTypesDef DEF ExecutionChunks
  <1>4. \A d \in Clients \ {c} : KeepsShape(d)
    BY <1>1 DEF KeepsShape, ExecutionChunks
  <1>5. c \notin DOMAIN m_contextMap => Grows
    BY <1>1 DEF Grows, ExecutionChunks
  <1>6. c \in DOMAIN m_contextMap /\ Len(ExecutionChunks(c)) <= Len(x.ExecutionChunks) => Grows
    BY <1>1, <1>2, <1>3 DEF Grows, ExecutionChunks
  <1>7. (/\ c \in DOMAIN m_contextMap
         /\ Len(ExecutionChunks(c)) = Len(x.ExecutionChunks)
         /\ Len(m_contextMap[c].Body) = Len(x.Body)) => KeepsShape(c)
    BY <1>1 DEF KeepsShape, ExecutionChunks
  <1>. QED  BY <1>4, <1>5, <1>6, <1>7

(* The local variables of the other workers are theirs.                      *)
OwnLocals(w) == \A v \in Workers \ {w} : loc'[v] = loc[v] /\ buf'[v] = buf[v]

LEMMA WorkerLocals ==
  ASSUME ServerTypes, NEW w \in Workers, WorkerStep(w) \/ ConnectionReset(w)
  PROVE  OwnLocals(w)
  <1>. USE DEF OwnLocals
  <1>0. loc \in [Workers -> Locals] /\ buf \in [Workers -> Seq(DataUnits)]
    BY ServerTypesDef DEF Locals
  <1>1. CASE PoolStep(w) \/ ConnectionReset(w) \/ StartChunk(w) \/ ComputeChunk(w)
    BY <1>1 DEF PoolStep, Take, FindEmpty, Wait, ConnectionReset, StartChunk, ComputeChunk
  <1>2. Finish(w) => OwnLocals(w)
    BY <1>0 DEF Finish
  <1>3. CASE \/ NothingRead(w) \/ IgnoreRequest(w) \/ ReadTaskSubmition(w) \/ ReadTaskStatus(w)
             \/ ReadTaskResult(w)
    BY <1>0, <1>2, <1>3
    DEF NothingRead, IgnoreRequest, ReadTaskSubmition, ReadTaskStatus, ReadTaskResult
  <1>4. CASE ShortRead(w) \/ ReadHeader(w) \/ RejectNumChunks(w) \/ ReadNumChunks(w)
    BY <1>0, <1>2, <1>4 DEF ShortRead, ReadHeader, RejectNumChunks, ReadNumChunks, ReadField
  <1>5. CASE ReadChunk(w) \/ ReadNumBytes(w) \/ ReadBody(w) \/ SubmitChunk(w)
    BY <1>0, <1>2, <1>5 DEF ReadChunk, ReadNumBytes, ReadBody, SubmitChunk, ReadField
  <1>6. CASE ScanChunk(w) \/ AnswerFinished(w) \/ MarkDone(w)
    BY <1>0, <1>2, <1>6 DEF ScanChunk, AnswerFinished, MarkDone
  <1>7. CASE WriteNumBytes(w) \/ CopyChunk(w) \/ WriteResult(w)
    BY <1>0, <1>2, <1>7 DEF WriteNumBytes, CopyChunk, WriteResult
  <1>. QED
    BY <1>1, <1>3, <1>4, <1>5, <1>6, <1>7 DEF WorkerStep, RequestStep, ChunkStep

LEMMA WorkerMap ==
  ASSUME SockTypes, ServerInv, NEW w \in Workers, WorkerStep(w) \/ ConnectionReset(w)
  PROVE  /\ \A d \in Clients : d # Client(w) => KeepsShape(d)
         /\ wpc[w] \notin {"count", "chunks", "body"} => \A d \in Clients : KeepsShape(d)
         /\ Grows
  <1>. DataTypes /\ ServerTypes /\ JobOK /\ HandlerOK /\ StreamTypes /\ ChunksKnown
    BY DataTypesDef DEF ServerInv, SockTypes
  <1>1. CASE UNCHANGED m_contextMap
    BY <1>1, SameMap
  <1>2. CASE ReadNumChunks(w)
    <2>1. wpc[w] = "count"
      BY <1>2 DEF ReadNumChunks, ReadField
    <2>2. Client(w) \in Clients /\ Client(w) \notin DOMAIN m_contextMap
      BY <2>1, WorkerClient DEF HandlerOK, HandlerAt, HandlerPoints, HasTaskContext
    <2>3. TaskContext(loc[w].header, <<>>, <<>>) \in Contexts
      BY GetLocal, EmptySeq DEF TaskContext, Contexts
    <2>. QED  BY <1>2, <2>1, <2>2, <2>3, SetMapShape DEF ReadNumChunks
  <1>3. CASE ReadChunk(w)
    <2>1. wpc[w] = "chunks"
      BY <1>3 DEF ReadChunk, ReadField
    <2>2. Client(w) \in Clients /\ Client(w) \in DOMAIN m_contextMap
      BY <2>1, WorkerClient DEF HandlerOK, HandlerAt, HandlerPoints, HasTaskContext
    <2>3. PICK n \in Numbers(Read(w, 2), "chunk") :
            SetContext(Client(w),
              [Context(w) EXCEPT !.ExecutionChunks = Append(@, ExecutionChunk(n[1], n[2]))])
      BY <1>3 DEF ReadChunk
    <2>. DEFINE one == ExecutionChunk(n[1], n[2])
                x == [Context(w) EXCEPT !.ExecutionChunks = Append(@, one)]
    <2>4. one \in Chunks
      <3>1. Read(w, 2) \in Seq(DataUnits)
        BY <2>2, ReadType
      <3>2. n[1] \in Nat /\ n[2] \in Nat
        BY <1>3, <3>1, NumbersType DEF ReadChunk
      <3>. QED  BY <3>2 DEF ExecutionChunk, Chunks, EChunkState
    <2>5. Context(w) \in Contexts
      BY <2>2, ServerTypesDef DEF Context
    <2>. HIDE DEF one
    <2>6. x \in Contexts /\ x.ExecutionChunks = Append(Context(w).ExecutionChunks, one)
      BY <2>4, <2>5, AppendProperties DEF Contexts
    <2>7. Len(ExecutionChunks(Client(w))) <= Len(x.ExecutionChunks)
      BY <2>4, <2>5, <2>6, AppendProperties, ContextType DEF Context, ExecutionChunks
    <2>8. SetContext(Client(w), x)
      BY <2>3 DEF one
    <2>. HIDE DEF x
    <2>. QED  BY <2>1, <2>2, <2>6, <2>7, <2>8, SetMapShape
  <1>4. CASE ReadBody(w)
    <2>. DEFINE body == Context(w).Body \o Read(w, loc[w].num - Len(Context(w).Body))
                x == [Context(w) EXCEPT !.Body = body]
    <2>1. wpc[w] = "body"
      BY <1>4 DEF ReadBody, ReadField
    <2>2. Client(w) \in Clients /\ Client(w) \in DOMAIN m_contextMap
      BY <2>1, WorkerClient DEF HandlerOK, HandlerAt, HandlerPoints, HasTaskContext
    <2>3. Context(w) \in Contexts
      BY <2>2, ServerTypesDef DEF Context
    <2>4. loc[w].num - Len(Context(w).Body) \in Int
      <3>1. Len(Context(w).Body) \in Nat /\ loc[w].num \in Nat
        BY <2>3, ContextType, GetLocal
      <3>. QED  BY <3>1
    <2>5. body \in Seq(DataUnits)
      BY <2>2, <2>3, <2>4, ReadType, ConcatProperties, ContextType
    <2>. HIDE DEF body
    <2>6. x \in Contexts /\ x.ExecutionChunks = ExecutionChunks(Client(w))
      BY <2>3, <2>5 DEF Contexts, Context, ExecutionChunks
    <2>7. SetContext(Client(w), x)
      BY <1>4 DEF ReadBody, body
    <2>. HIDE DEF x
    <2>8. Len(ExecutionChunks(Client(w))) <= Len(x.ExecutionChunks)
      <3>1. Len(x.ExecutionChunks) \in Nat
        BY <2>6, ContextType
      <3>. QED  BY <2>6, <3>1
    <2>. QED  BY <2>1, <2>2, <2>6, <2>7, <2>8, SetMapShape
  <1>. DEFINE chunks == Context(w).ExecutionChunks
  <1>5. wpc[w] \in ChunkPoints =>
          /\ Client(w) \in Clients /\ Client(w) \in DOMAIN m_contextMap /\ Context(w) \in Contexts
          /\ job[w].chunk \in 1 .. Len(chunks)
    <2>1. wpc[w] \in ChunkPoints => Client(w) \in Clients /\ job[w].what = "chunk"
      BY WorkerClient, ChunkJobFields DEF JobOK
    <2>2. wpc[w] \in ChunkPoints =>
            /\ Client(w) \in DOMAIN m_contextMap
            /\ job[w].chunk \in DOMAIN chunks
      BY <2>1 DEF ChunksKnown, Known, Client, Context, ExecutionChunks
    <2>. QED  BY <2>1, <2>2, ServerTypesDef, ContextType DEF Context
  <1>6. ASSUME NEW x \in Contexts, wpc[w] \in ChunkPoints, SetContext(Client(w), x),
               Len(x.ExecutionChunks) = Len(chunks),
               Len(x.Body) = Len(Context(w).Body)
        PROVE  (\A d \in Clients : KeepsShape(d)) /\ Grows
    <2>1. Len(chunks) = Len(ExecutionChunks(Client(w))) /\ Len(chunks) \in Nat
      BY <1>5, <1>6, ContextType DEF ExecutionChunks, Context
    <2>2. KeepsShape(Client(w)) /\ Grows /\ \A d \in Clients \ {Client(w)} : KeepsShape(d)
      <3>. HIDE DEF chunks
      <3>. QED  BY <1>5, <1>6, <2>1, SetMapShape DEF Context
    <2>. QED  BY <2>2
  <1>7. CASE ComputeChunk(w) /\ m_contextMap' # m_contextMap
    <2>. DEFINE body == [k \in DOMAIN Context(w).Body |->
                           IF k \in Columns(w) THEN Execute(Context(w).Body[k]) ELSE Context(w).Body[k]]
                x == [Context(w) EXCEPT !.Body = body]
    <2>1. wpc[w] \in ChunkPoints /\ SetContext(Client(w), x)
      BY <1>7 DEF ComputeChunk, ChunkPoints
    <2>2. Context(w) \in Contexts
      BY <1>5, <2>1
    <2>3. body \in Seq(DataUnits) /\ Len(body) = Len(Context(w).Body)
      BY <2>2, ExecuteBody
    <2>. HIDE DEF body
    <2>4. x \in Contexts /\ x.ExecutionChunks = chunks /\ x.Body = body
      BY <2>2, <2>3 DEF Contexts
    <2>. HIDE DEF x
    <2>. QED  BY <1>6, <2>1, <2>3, <2>4
  <1>8. CASE MarkDone(w)
    <2>. DEFINE i == job[w].chunk
                x == [Context(w) EXCEPT !.ExecutionChunks[i].State = "Done"]
    <2>1. wpc[w] \in ChunkPoints /\ SetContext(Client(w), x)
      BY <1>8 DEF MarkDone, ChunkPoints
    <2>2. Context(w) \in Contexts /\ i \in 1 .. Len(chunks)
      BY <1>5, <2>1
    <2>3. x \in Contexts /\ Len(x.ExecutionChunks) = Len(chunks) /\ x.Body = Context(w).Body
      BY <2>2, MarkChunk
    <2>. HIDE DEF x
    <2>. QED  BY <1>6, <2>1, <2>3
  <1>9. \/ UNCHANGED m_contextMap \/ ReadNumChunks(w) \/ ReadChunk(w) \/ ReadBody(w)
        \/ ComputeChunk(w) \/ MarkDone(w)
    BY DEF WorkerStep, PoolStep, RequestStep, ChunkStep, ConnectionReset,
      Take, FindEmpty, Wait, NothingRead, IgnoreRequest, ReadTaskSubmition, ReadTaskStatus, ReadTaskResult,
      ReadRequest, StartRequest, ShortRead, ReadHeader, RejectNumChunks, ReadNumBytes, SubmitChunk,
      ScanChunk, AnswerFinished, WriteNumBytes, CopyChunk, WriteResult, StartChunk
  <1>. QED  BY <1>1, <1>2, <1>3, <1>4, <1>7, <1>8, <1>9

-----------------------------------------------------------------------------
(* Jobs for chunks stay jobs for chunks there are.                          *)

KnownAfter(j) ==
  j.what = "chunk" =>
    j.client \in DOMAIN m_contextMap' /\ j.chunk \in DOMAIN m_contextMap'[j.client].ExecutionChunks

LEMMA KnownKept ==
  ASSUME NEW j, Known(j), Grows
  PROVE  KnownAfter(j)
  BY DEF Known, KnownAfter, Grows, ExecutionChunks

LEMMA WorkerQueue ==
  ASSUME NEW w \in Workers, WorkerStep(w) \/ ConnectionReset(w)
  PROVE  \/ UNCHANGED queue
         \/ Take(w) /\ queue' = Tail(queue)
         \/ SubmitChunk(w) /\ queue' = Append(queue, Chunk(Client(w), loc[w].i))
  BY DEF WorkerStep, PoolStep, RequestStep, ChunkStep, ConnectionReset, Take, FindEmpty, Wait,
    NothingRead, IgnoreRequest, ReadTaskSubmition, ReadTaskStatus, ReadTaskResult, ReadRequest,
    StartRequest, Handling, ReadField, ShortRead, ReadHeader, RejectNumChunks, ReadNumChunks, ReadChunk,
    ReadNumBytes, ReadBody, SubmitChunk, ScanChunk, AnswerFinished, WriteNumBytes, CopyChunk, WriteResult,
    StartChunk, ComputeChunk, MarkDone

LEMMA ChunksKnownKept ==
  ASSUME SockTypes, ServerInv, NEW w \in Workers, WorkerStep(w) \/ ConnectionReset(w)
  PROVE  ChunksKnown'
  <1>. ServerTypes /\ JobOK /\ HandlerOK /\ ChunksKnown
    BY DEF ServerInv
  <1>1. Grows /\ Control(w)
    BY WorkerMap, WorkerControl
  <1>2. queue \in Seq(Jobs \ {Idle})
    BY ServerTypesDef
  <1>3. \A k \in DOMAIN queue : KnownAfter(queue[k])
    BY <1>1, KnownKept DEF ChunksKnown
  <1>4. \A v \in Workers : Known(job[v])
    BY DEF ChunksKnown
  <1>5. \A k \in DOMAIN queue' : KnownAfter(queue'[k])
    <2>1. CASE UNCHANGED queue
      BY <1>3, <2>1
    <2>2. CASE Take(w) /\ queue' = Tail(queue)
      <3>1. queue # <<>>
        BY <2>2 DEF Take
      <3>2. \A k \in DOMAIN queue' : k + 1 \in DOMAIN queue /\ queue'[k] = queue[k + 1]
        BY <1>2, <2>2, <3>1, HeadTailProperties
      <3>. QED  BY <1>3, <3>2
    <2>3. CASE SubmitChunk(w) /\ queue' = Append(queue, Chunk(Client(w), loc[w].i))
      <3>1. \A k \in DOMAIN queue' :
              (k \in DOMAIN queue /\ queue'[k] = queue[k]) \/ queue'[k] = Chunk(Client(w), loc[w].i)
        BY <1>2, <2>3
      <3>2. /\ Client(w) \in DOMAIN m_contextMap
            /\ loc[w].i \in 1 .. Len(ExecutionChunks(Client(w)))
        BY <2>3 DEF SubmitChunk, HandlerOK, HandlerAt, HandlerPoints, HasTaskContext
      <3>3. loc[w].i \in DOMAIN ExecutionChunks(Client(w))
        BY <3>2, ServerTypesDef, ContextType DEF ExecutionChunks
      <3>4. Known(Chunk(Client(w), loc[w].i))
        BY <3>2, <3>3, ChunkJobFields DEF Known
      <3>5. KnownAfter(Chunk(Client(w), loc[w].i))
        BY <1>1, <3>4, KnownKept
      <3>. QED  BY <1>3, <3>1, <3>5
    <2>. QED  BY <2>1, <2>2, <2>3, WorkerQueue
  <1>6. \A v \in Workers : KnownAfter(job'[v])
    <2>1. KnownAfter(Idle)
      BY IdleFields DEF KnownAfter
    <2>2. Takes(w) => KnownAfter(Head(queue))
      <3>1. Takes(w) => 1 \in DOMAIN queue /\ Head(queue) = queue[1]
        BY <1>2 DEF Takes
      <3>. QED  BY <1>3, <3>1
    <2>3. \A v \in Workers : job'[v] \in {job[v], Idle} \/ (Takes(w) /\ job'[v] = Head(queue))
      BY <1>1 DEF Control, Others, Stays, Takes, Rests, Ends, Begins, Handles, Executes
    <2>4. \A v \in Workers : KnownAfter(job[v])
      BY <1>1, <1>4, KnownKept
    <2>. QED  BY <2>1, <2>2, <2>3, <2>4
  <1>. QED  BY <1>5, <1>6 DEF ChunksKnown, Known, KnownAfter, ExecutionChunks

-----------------------------------------------------------------------------
(* The handlers of the others are left where they are by a step of w, because*)
(* none of them has w's client.                                             *)

LEMMA OtherHandlers ==
  ASSUME SockTypes, ServerInv, NEW w \in Workers, WorkerStep(w) \/ ConnectionReset(w),
         NEW v \in Workers \ {w}
  PROVE  HandlerAt(v)'
  <1>. ServerTypes /\ JobOK /\ HandlersApart /\ HandlerAt(v)
    BY DEF ServerInv, HandlerOK
  <1>1. Control(w) /\ OwnLocals(w)
    BY WorkerControl, WorkerLocals
  <1>2. CASE wpc'[v] \notin HandlerPoints
    BY <1>2 DEF HandlerAt, HandlerPoints
  <1>3. CASE wpc'[v] \in HandlerPoints
    <2>1. /\ wpc'[v] = wpc[v] /\ job'[v] = job[v] /\ loc'[v] = loc[v] /\ buf'[v] = buf[v]
          /\ wpc[v] \in HandlerPoints
      BY <1>1, <1>3 DEF Control, Others, OwnLocals, HandlerPoints
    <2>2. Client(v) \in Clients /\ Client(v)' = Client(v)
      BY <2>1, WorkerClient DEF Client
    <2>3. KeepsShape(Client(v))
      <3>1. CASE wpc[w] \in {"count", "chunks", "body"}
        <4>1. Client(v) # Client(w)
          BY <2>1, <2>2, <3>1 DEF HandlersApart, Holds, HandlerPoints
        <4>. QED  BY <2>2, <4>1, WorkerMap
      <3>2. CASE wpc[w] \notin {"count", "chunks", "body"}
        BY <2>2, <3>2, WorkerMap
      <3>. QED  BY <3>1, <3>2
    <2>. QED
      BY <2>1, <2>2, <2>3
      DEF HandlerAt, KeepsShape, HasTaskContext, Context, ExecutionChunks, HandlerPoints
  <1>. QED  BY <1>2, <1>3

(* A handler comes to a point with what it needs there.                      *)
LEMMA OwnHandler ==
  ASSUME SockTypes, ServerInv, NEW w \in Workers, WorkerStep(w) \/ ConnectionReset(w)
  PROVE  HandlerAt(w)'
  <1>. DataTypes /\ ServerTypes /\ JobOK /\ HandlerAt(w) /\ StreamTypes
    BY DataTypesDef DEF ServerInv, HandlerOK, SockTypes
  <1>1. Control(w)
    BY WorkerControl
  <1>2. CASE wpc'[w] \notin HandlerPoints
    BY <1>2 DEF HandlerAt, HandlerPoints
  <1>3. ASSUME wpc[w] \in HandlerPoints \cup {"work"}
        PROVE  Client(w) \in Clients
    BY <1>3, WorkerClient
  <1>4. ASSUME HasTaskContext(Client(w))
        PROVE  /\ Context(w) \in Contexts /\ ExecutionChunks(Client(w)) = Context(w).ExecutionChunks
               /\ Len(Context(w).ExecutionChunks) \in Nat
    BY <1>4, ServerTypesDef, ContextType DEF HasTaskContext, Context, ExecutionChunks
  <1>5. UNCHANGED m_contextMap /\ UNCHANGED job => Client(w)' = Client(w) /\ Context(w)' = Context(w)
          /\ ExecutionChunks(Client(w))' = ExecutionChunks(Client(w))
          /\ (HasTaskContext(Client(w))' <=> HasTaskContext(Client(w)))
    BY DEF Client, Context, ExecutionChunks, HasTaskContext
  <1>. USE DEF HandlerAt, HandlerPoints
  <1>6. CASE UNCHANGED <<wpc, job, loc, buf, m_contextMap>>
    BY <1>5, <1>6
  <1>7. CASE ReadTaskSubmition(w) /\ wpc'[w] \in HandlerPoints
    <2>1. wpc'[w] = "header" /\ ~HasTaskContext(Client(w)) /\ UNCHANGED <<job, m_contextMap>>
      BY <1>7, ServerTypesDef
      DEF ReadTaskSubmition, ReadRequest, StartRequest, Goto, Finish
    <2>. QED  BY <1>5, <2>1
  <1>8. CASE ReadTaskStatus(w) /\ wpc'[w] \in HandlerPoints
    <2>1. /\ wpc'[w] = "scan" /\ HasTaskContext(Client(w)) /\ UNCHANGED <<job, m_contextMap>>
          /\ loc'[w].i = 1
      BY <1>8, ServerTypesDef DEF ReadTaskStatus, ReadRequest, StartRequest, Goto, Finish, DataTypes, Locals
    <2>. QED  BY <1>5, <2>1
  <1>9. CASE ReadTaskResult(w) /\ wpc'[w] \in HandlerPoints
    <2>1. wpc'[w] = "result" /\ HasTaskContext(Client(w)) /\ UNCHANGED <<job, m_contextMap>>
      BY <1>9, ServerTypesDef DEF ReadTaskResult, ReadRequest, StartRequest, Goto
    <2>. QED  BY <1>5, <2>1
  <1>10. CASE ReadHeader(w)
    <2>1. wpc[w] = "header" /\ wpc'[w] = "count" /\ UNCHANGED <<job, m_contextMap>>
      BY <1>10, ServerTypesDef DEF ReadHeader, ReadField, Goto
    <2>. QED  BY <1>5, <2>1
  <1>11. CASE ReadNumChunks(w)
    <2>1. /\ wpc[w] = "count" /\ wpc'[w] = "chunks" /\ UNCHANGED job
          /\ SetContext(Client(w), TaskContext(loc[w].header, <<>>, <<>>))
      BY <1>11, ServerTypesDef DEF ReadNumChunks, ReadField, Goto
    <2>2. TaskContext(loc[w].header, <<>>, <<>>) \in Contexts
      BY GetLocal, EmptySeq DEF TaskContext, Contexts
    <2>3. Client(w) \in DOMAIN m_contextMap' /\ m_contextMap'[Client(w)].ExecutionChunks = <<>>
      <3>1. Client(w) \in Clients
        BY <1>3, <2>1 DEF HandlerPoints
      <3>2. m_contextMap'[Client(w)] = TaskContext(loc[w].header, <<>>, <<>>)
              /\ Client(w) \in DOMAIN m_contextMap'
        BY <2>1, <2>2, <3>1, SetContextType
      <3>. QED  BY <3>2 DEF TaskContext
    <2>4. loc'[w].num \in 1 .. MaxChunks
      BY <1>11 DEF ReadNumChunks, ValidNumChunks, DataTypes, Locals
    <2>5. Len(m_contextMap'[Client(w)].ExecutionChunks) = 0
      BY <2>3
    <2>6. Client(w)' = Client(w)
      BY <2>1 DEF Client
    <2>. QED  BY <2>1, <2>3, <2>4, <2>5, <2>6 DEF HasTaskContext, ExecutionChunks
  <1>12. CASE ReadChunk(w)
    <2>. DEFINE last == Len(Context(w).ExecutionChunks) + 1 = loc[w].num
    <2>1. /\ wpc[w] = "chunks" /\ wpc'[w] = (IF last THEN "size" ELSE "chunks") /\ UNCHANGED <<job, loc>>
      BY <1>12, ServerTypesDef DEF ReadChunk, ReadField, Goto
    <2>2. /\ Client(w) \in Clients /\ HasTaskContext(Client(w)) /\ loc[w].num \in 1 .. MaxChunks
          /\ Len(Context(w).ExecutionChunks) < loc[w].num /\ Len(Context(w).ExecutionChunks) \in Nat
          /\ Context(w) \in Contexts
      BY <1>3, <1>4, <2>1
    <2>3. PICK n \in Numbers(Read(w, 2), "chunk") :
            SetContext(Client(w),
              [Context(w) EXCEPT !.ExecutionChunks = Append(@, ExecutionChunk(n[1], n[2]))])
      BY <1>12 DEF ReadChunk
    <2>. DEFINE one == ExecutionChunk(n[1], n[2])
                x == [Context(w) EXCEPT !.ExecutionChunks = Append(@, one)]
    <2>4. one \in Chunks
      <3>1. Read(w, 2) \in Seq(DataUnits)
        BY <2>2, ReadType
      <3>2. n[1] \in Nat /\ n[2] \in Nat
        BY <1>12, <3>1, NumbersType DEF ReadChunk
      <3>. QED  BY <3>2 DEF ExecutionChunk, Chunks, EChunkState
    <2>. HIDE DEF one
    <2>5. x \in Contexts /\ Len(x.ExecutionChunks) = Len(Context(w).ExecutionChunks) + 1
      <3>1. /\ Append(Context(w).ExecutionChunks, one) \in Seq(Chunks)
            /\ Len(Append(Context(w).ExecutionChunks, one)) = Len(Context(w).ExecutionChunks) + 1
        BY <2>2, <2>4, AppendProperties, ContextType
      <3>. QED  BY <2>2, <3>1 DEF Contexts
    <2>6. SetContext(Client(w), x)
      BY <2>3 DEF one
    <2>. HIDE DEF x
    <2>7. Client(w) \in DOMAIN m_contextMap' /\ m_contextMap'[Client(w)] = x
      BY <2>2, <2>5, <2>6, SetContextType
    <2>8. Client(w)' = Client(w) /\ HasTaskContext(Client(w))' /\ ExecutionChunks(Client(w))' = x.ExecutionChunks
      BY <2>1, <2>7 DEF Client, HasTaskContext, ExecutionChunks
    <2>9. MaxChunks \in Nat
      BY ServerAssumption DEF ServerAssumption
    <2>. QED  BY <2>1, <2>2, <2>5, <2>8, <2>9
  <1>13. CASE ReadNumBytes(w) /\ wpc' # wpc
    <2>1. wpc[w] = "size" /\ wpc'[w] = "body" /\ UNCHANGED <<job, m_contextMap>>
      BY <1>13, ServerTypesDef DEF ReadNumBytes, ReadField, Goto
    <2>. QED  BY <1>5, <2>1
  <1>14. CASE ReadBody(w)
    <2>. DEFINE body == Context(w).Body \o Read(w, loc[w].num - Len(Context(w).Body))
                x == [Context(w) EXCEPT !.Body = body]
    <2>1. /\ wpc[w] = "body" /\ UNCHANGED job /\ SetContext(Client(w), x)
          /\ wpc'[w] = "body" \/ (wpc'[w] = "submit" /\ loc'[w].i = 1)
      BY <1>14, ServerTypesDef DEF ReadBody, ReadField, Goto, DataTypes, Locals
    <2>2. /\ Client(w) \in Clients /\ HasTaskContext(Client(w)) /\ Context(w) \in Contexts
          /\ Len(Context(w).ExecutionChunks) \in 1 .. MaxChunks
      BY <1>3, <1>4, <2>1
    <2>3. loc[w].num - Len(Context(w).Body) \in Int
      <3>1. Len(Context(w).Body) \in Nat /\ loc[w].num \in Nat
        BY <2>2, ContextType, GetLocal
      <3>. QED  BY <3>1
    <2>4. body \in Seq(DataUnits)
      BY <2>2, <2>3, ReadType, ConcatProperties, ContextType
    <2>. HIDE DEF body
    <2>5. x \in Contexts /\ x.ExecutionChunks = Context(w).ExecutionChunks
      BY <2>2, <2>4 DEF Contexts
    <2>. HIDE DEF x
    <2>6. Client(w) \in DOMAIN m_contextMap' /\ m_contextMap'[Client(w)] = x
      BY <2>1, <2>2, <2>5, SetContextType
    <2>7. Client(w)' = Client(w) /\ HasTaskContext(Client(w))' /\ ExecutionChunks(Client(w))' = x.ExecutionChunks
      BY <2>1, <2>6 DEF Client, HasTaskContext, ExecutionChunks
    <2>. QED  BY <2>1, <2>2, <2>5, <2>7
  <1>15. CASE SubmitChunk(w) /\ wpc'[w] \in HandlerPoints
    <2>1. /\ wpc[w] = "submit" /\ UNCHANGED <<job, m_contextMap>> /\ wpc'[w] = "submit"
          /\ loc'[w].i = loc[w].i + 1 /\ loc[w].i < Len(Context(w).ExecutionChunks)
      <3>1. CASE MoreChunks(w)
        <4>1. /\ wpc[w] = "submit" /\ UNCHANGED <<job, m_contextMap>> /\ Notify(wpc)
              /\ loc' = [loc EXCEPT ![w].i = @ + 1] /\ loc[w].i < Len(Context(w).ExecutionChunks)
          BY <1>15, <3>1 DEF SubmitChunk, MoreChunks
        <4>2. wpc'[w] = "submit"
          BY <4>1, NotifyType, ServerTypesDef
        <4>. QED  BY <4>1, <4>2, NextLocal
      <3>2. CASE ~MoreChunks(w)
        <4>. DEFINE pc == [wpc EXCEPT ![w] = "ready"]
        <4>1. pc \in [Workers -> Points] /\ pc[w] = "ready"
          BY ServerTypesDef DEF Points, PoolPoints
        <4>2. Notify(pc)
          BY <1>15, <3>2 DEF SubmitChunk
        <4>. HIDE DEF pc
        <4>3. wpc'[w] = "ready"
          BY <4>1, <4>2, NotifyType
        <4>. QED  BY <1>15, <4>3
      <3>. QED  BY <3>1, <3>2
    <2>2. Len(ExecutionChunks(Client(w))) = Len(Context(w).ExecutionChunks) /\ Len(Context(w).ExecutionChunks) \in Nat
      BY <1>4, <2>1
    <2>3. loc'[w].i \in 1 .. Len(ExecutionChunks(Client(w)))
      BY <2>1, <2>2
    <2>. QED  BY <1>5, <2>1, <2>3
  <1>16. CASE ScanChunk(w) /\ wpc'[w] \in HandlerPoints
    <2>1. /\ wpc[w] = "scan" /\ wpc'[w] = "scan" /\ UNCHANGED <<job, m_contextMap>>
          /\ loc' = [loc EXCEPT ![w].i = @ + 1]
      BY <1>16, ServerTypesDef DEF ScanChunk, Finish
    <2>2. loc'[w].i = loc[w].i + 1 /\ loc[w].i \in Nat
      BY <2>1, GetLocal DEF DataTypes, Locals
    <2>. QED  BY <1>5, <2>1, <2>2
  <1>17. CASE WriteNumBytes(w)
    <2>1. /\ wpc[w] = "result" /\ wpc'[w] = "copy" /\ UNCHANGED <<job, m_contextMap>> /\ loc'[w].i = 1
          /\ buf'[w] = [k \in DOMAIN Context(w).Body |-> ZeroByte]
      BY <1>17, ServerTypesDef DEF WriteNumBytes, Goto, DataTypes, Locals
    <2>2. Len(Context(w).Body) \in Nat /\ DOMAIN Context(w).Body = 1 .. Len(Context(w).Body)
      BY <1>4, <2>1, ContextType
    <2>3. Len(buf'[w]) = Len(Context(w).Body)
      BY <2>1, <2>2
    <2>. QED  BY <1>5, <2>1, <2>3
  <1>18. CASE CopyChunk(w)
    <2>. DEFINE body == Context(w).Body
    <2>1. /\ wpc[w] = "copy" /\ wpc'[w] \in {"copy", "write"} /\ UNCHANGED <<job, m_contextMap>>
          /\ loc' = [loc EXCEPT ![w].i = @ + 1]
          /\ buf'[w] = buf[w] \/ DOMAIN buf'[w] = DOMAIN body
      BY <1>18, ServerTypesDef DEF CopyChunk, Goto
    <2>2. loc'[w].i = loc[w].i + 1 /\ loc[w].i \in Nat
      BY <2>1, GetLocal, NextLocal
    <2>3. Len(body) \in Nat /\ DOMAIN body = 1 .. Len(body)
      BY <1>4, <2>1, ContextType
    <2>4. buf'[w] \in Seq(DataUnits)
      BY AnswersData, <1>18 DEF DataTypes
    <2>5. Len(buf'[w]) = Len(body)
      BY <2>1, <2>3, <2>4
    <2>. QED  BY <1>5, <2>1, <2>2, <2>5
  <1>19. CASE WriteResult(w) /\ wpc'[w] \in HandlerPoints
    <2>1. wpc[w] = "write" /\ wpc'[w] = "write" /\ UNCHANGED <<job, m_contextMap>>
      BY <1>19, ServerTypesDef DEF WriteResult, Finish
    <2>. QED  BY <1>5, <2>1
  <1>20. CASE Take(w)
    <2>1. Head(queue) \in Jobs \ {Idle}
      BY <1>20, ServerTypesDef, HeadTailProperties DEF Take
    <2>2. Head(queue).what \in {"work", "chunk"}
      BY <2>1, JobKinds, WorkFields, ChunkJobFields
    <2>. QED  BY <1>2, <1>20, <2>2, ServerTypesDef DEF Take, Goto
  <1>21. CASE \/ FindEmpty(w) \/ Wait(w) \/ NothingRead(w) \/ IgnoreRequest(w) \/ RejectNumChunks(w)
              \/ AnswerFinished(w) \/ StartChunk(w) \/ ComputeChunk(w) \/ MarkDone(w)
    BY <1>2, <1>21, ServerTypesDef
    DEF FindEmpty, Wait, NothingRead, IgnoreRequest, RejectNumChunks, AnswerFinished, StartChunk,
        ComputeChunk, MarkDone, Goto, Finish
  <1>22. CASE ShortRead(w) \/ ConnectionReset(w)
    BY <1>6, <1>22 DEF ShortRead, ReadField, ConnectionReset
  <1>23. CASE ReadNumBytes(w) /\ wpc' = wpc
    <2>1. wpc[w] = "size" /\ UNCHANGED <<job, m_contextMap, buf>>
      BY <1>23 DEF ReadNumBytes, ReadField
    <2>. QED  BY <1>5, <1>23, <2>1
  <1>. QED
    BY <1>2, <1>7, <1>8, <1>9, <1>10, <1>11, <1>12, <1>13, <1>14, <1>15, <1>16, <1>17, <1>18, <1>19,
       <1>20, <1>21, <1>22, <1>23
    DEF WorkerStep, PoolStep, RequestStep, ChunkStep

(* A step of a worker leaves the poll thread's variables and the network's   *)
(* alone.                                                                   *)
LEMMA WorkerApart ==
  ASSUME NEW w \in Workers, WorkerStep(w) \/ ConnectionReset(w)
  PROVE  UNCHANGED <<pollVars, connVars, flight>>
  BY DEF WorkerStep, PoolStep, RequestStep, ChunkStep, ConnectionReset, Take, FindEmpty, Wait,
    NothingRead, IgnoreRequest, ReadTaskSubmition, ReadTaskStatus, ReadTaskResult, ReadRequest,
    StartRequest, Handling, ReadField, ShortRead, ReadHeader, RejectNumChunks, ReadNumChunks, ReadChunk,
    ReadNumBytes, ReadBody, SubmitChunk, ScanChunk, AnswerFinished, WriteNumBytes, CopyChunk, WriteResult,
    StartChunk, ComputeChunk, MarkDone, sockVars

LEMMA WorkerData ==
  ASSUME SockTypes, ServerInv, NEW w \in Workers, WorkerStep(w) \/ ConnectionReset(w)
  PROVE  DataTypes'
  BY ReadRequestData, SubmissionData, AnswersData, ExecutionData DEF WorkerStep, RequestStep

(* Every step of a worker keeps the types and the server's invariant.        *)
LEMMA WorkerInv ==
  ASSUME SockTypes, ServerInv, NEW w \in Workers, WorkerStep(w) \/ ConnectionReset(w)
  PROVE  SockTypes' /\ ServerInv'
  <1>1. ServerTypes /\ JobOK /\ PoolUnborn /\ HandlersApart
    BY DEF ServerInv
  <1>2. Control(w) /\ UNCHANGED <<pollVars, connVars, flight>> /\ DataTypes'
    BY <1>1, WorkerControl, WorkerApart, WorkerData
  <1>3. SockTypes'
    <2>1. \A f : f \in [Clients -> Seq(DataUnits)] => f \in [Clients -> Seq(StreamUnits)]
      BY DataUnitsType
    <2>. QED  BY <1>2, <2>1 DEF DataTypes, connVars, SockTypes, SockTypeOK, StreamTypes
  <1>4. ServerTypes'
    BY <1>1, <1>2, ServerTypesDef
    DEF DataTypes, MapTypes, Locals, pollVars, Control, ServerTypes, ServerTypeOK, Points, Contexts, Chunks
  <1>5. JobOK' /\ PoolUnborn' /\ HandlersApart'
    BY <1>1, <1>2, JobOKKept, PoolUnbornKept, HandlersApartKept
  <1>6. ChunksKnown'
    BY ChunksKnownKept
  <1>7. HandlerOK'
    BY OtherHandlers, OwnHandler DEF HandlerOK
  <1>. QED  BY <1>3, <1>4, <1>5, <1>6, <1>7 DEF ServerInv

-----------------------------------------------------------------------------
(* Init() and the poll thread. *)

LEMMA InOrderType ==
  ASSUME NEW s, NEW T, s \in Seq(T), NEW places \in SUBSET DOMAIN s, NEW p \in InOrder(places)
  PROVE  [i \in DOMAIN p |-> s[p[i]]] \in Seq(T)
  <1>1. Len(s) \in Nat /\ DOMAIN s = 1 .. Len(s)
    OBVIOUS
  <1>2. IsFiniteSet(1 .. Len(s))
    BY <1>1, FS_Interval
  <1>3. Cardinality(places) \in Nat
    BY <1>1, <1>2, FS_Subset, FS_CardinalityType
  <1>4. DOMAIN p = 1 .. Cardinality(places) /\ \A i \in DOMAIN p : p[i] \in DOMAIN s
    BY DEF InOrder
  <1>5. \A i \in DOMAIN p : s[p[i]] \in T
    BY <1>1, <1>4, ElementOfSeq
  <1>. QED  BY <1>3, <1>4, <1>5, SeqDef

(* A step that moves no worker but a waiting one, and no task.               *)
LEMMA QuietInv ==
  ASSUME ServerInv, ServerTypes', PoolUnborn', UNCHANGED <<job, loc, buf, m_contextMap>>,
         \A w \in Workers : wpc'[w] = wpc[w] \/ (wpc[w] \in PoolPoints /\ wpc'[w] \in PoolPoints),
         \A k \in DOMAIN queue' : (k \in DOMAIN queue /\ queue'[k] = queue[k]) \/ queue'[k].what = "work"
  PROVE  ServerInv'
  <1>. USE DEF PoolPoints, HandlerPoints, ChunkPoints
  <1>. ServerTypes /\ JobOK /\ HandlersApart /\ ChunksKnown /\ HandlerOK
    BY DEF ServerInv
  <1>1. \A w \in Workers : job'[w] = job[w] /\ Client(w)' = Client(w)
    BY DEF Client
  <1>2. JobOK'
    BY <1>1 DEF JobOK
  <1>3. HandlersApart'
    BY <1>1 DEF HandlersApart, Holds
  <1>4. ChunksKnown'
    BY DEF ChunksKnown, Known, ExecutionChunks
  <1>5. HandlerOK'
    <2>1. SUFFICES ASSUME NEW w \in Workers PROVE HandlerAt(w)'
      BY DEF HandlerOK
    <2>2. HandlerAt(w)
      BY DEF HandlerOK
    <2>3. CASE wpc'[w] = wpc[w]
      BY <1>1, <2>2, <2>3 DEF HandlerAt, HasTaskContext, Context, ExecutionChunks
    <2>4. CASE wpc'[w] # wpc[w]
      BY <2>4 DEF HandlerAt
    <2>. QED  BY <2>3, <2>4
  <1>. QED  BY <1>2, <1>3, <1>4, <1>5 DEF ServerInv

LEMMA PollInv ==
  ASSUME SockTypes, ServerInv, InitStep \/ PollStep \/ AcceptFails
  PROVE  SockTypes' /\ ServerInv'
  <1>. ServerTypes /\ JobOK /\ PoolUnborn
    BY DEF ServerInv
  <1>1. CASE StartListening \/ StartClientThread
    <2>1. SockTypes' /\ ServerTypes'
      BY <1>1 DEF StartListening, StartClientThread, SockTypes, SockTypeOK, StreamTypes, sockVars, connVars,
        ServerTypes, ServerTypeOK
    <2>2. PoolUnborn'
      BY <1>1 DEF PoolUnborn, StartListening, StartClientThread
    <2>3. UNCHANGED <<wpc, job, loc, buf, m_contextMap, queue>>
      BY <1>1 DEF StartListening, StartClientThread
    <2>. QED  BY <2>1, <2>2, <2>3, QuietInv
  <1>2. CASE MakePool
    <2>1. \A w \in Workers : wpc[w] = "unborn" /\ wpc'[w] = "ready"
      BY <1>2 DEF MakePool, PoolUnborn
    <2>2. SockTypes' /\ ServerTypes'
      BY <1>2 DEF MakePool, SockTypes, SockTypeOK, StreamTypes, sockVars, connVars, ServerTypes, ServerTypeOK,
        PoolPoints
    <2>3. PoolUnborn' /\ UNCHANGED <<job, loc, buf, m_contextMap, queue>>
      BY <1>2 DEF PoolUnborn, MakePool
    <2>. QED  BY <2>1, <2>2, <2>3, QuietInv DEF PoolPoints
  <1>3. CASE AcceptFails
    <2>1. SockTypes' /\ ServerTypes' /\ PoolUnborn' /\ UNCHANGED <<wpc, job, loc, buf, m_contextMap, queue>>
      BY <1>3 DEF AcceptFails, Throw, pollVars, SockTypes, SockTypeOK, StreamTypes, sockVars, connVars,
        ServerTypes, ServerTypeOK, PoolUnborn
    <2>. QED  BY <2>1, QuietInv
  <1>4. CASE PollRwClients
    <2>1. m_clients \in Seq(Clients)
      BY ServerTypesDef
    <2>2. rwClients' \in Seq(Clients)
      <3>1. PICK hungUp \in SUBSET (gone \cup closed) : \E ready \in InOrder(ReadyClients(hungUp)) :
              rwClients' = [i \in DOMAIN ready |-> m_clients[ready[i]]]
        BY <1>4 DEF PollRwClients
      <3>2. ReadyClients(hungUp) \in SUBSET DOMAIN m_clients
        BY DEF ReadyClients
      <3>. QED  BY <2>1, <3>1, <3>2, InOrderType
    <2>3. m_clients' \in Seq(Clients) /\ backlog' \subseteq Clients
      <3>1. backlog \subseteq Clients
        BY SockTypesDef
      <3>. QED  BY <1>4, <2>1, <3>1, AppendProperties DEF PollRwClients
    <2>4. /\ UNCHANGED <<initialized, queue, wpc, job, loc, buf, m_contextMap, died>>
          /\ UNCHANGED <<listening, closed, gone, flight, sock, reply>>
      BY <1>4 DEF PollRwClients
    <2>5. SockTypes' /\ ServerTypes' /\ PoolUnborn'
      BY <2>2, <2>3, <2>4 DEF SockTypes, SockTypeOK, StreamTypes, ServerTypes, ServerTypeOK, PoolUnborn
    <2>. QED  BY <2>4, <2>5, QuietInv
  <1>5. CASE SubmitWork
    <2>1. UNCHANGED <<initialized, m_clients, job, loc, buf, m_contextMap, sockVars>> /\ rwClients # <<>>
      BY <1>5 DEF SubmitWork
    <2>2. rwClients \in Seq(Clients) /\ queue \in Seq(Jobs \ {Idle}) /\ wpc \in [Workers -> Points]
      BY ServerTypesDef
    <2>3. Head(rwClients) \in Clients /\ Tail(rwClients) \in Seq(Clients)
      BY <2>1, <2>2, HeadTailProperties
    <2>4. queue' \in {queue, Append(queue, Work(Head(rwClients)))} /\ rwClients' \in Seq(Clients)
      BY <1>5, <2>2, <2>3 DEF SubmitWork
    <2>5. Work(Head(rwClients)) \in Jobs \ {Idle} /\ Work(Head(rwClients)).what = "work"
      BY <2>3, JobTypes, WorkFields
    <2>6. /\ queue' \in Seq(Jobs \ {Idle})
          /\ \A k \in DOMAIN queue' : (k \in DOMAIN queue /\ queue'[k] = queue[k]) \/ queue'[k].what = "work"
      <3>. DEFINE j == Work(Head(rwClients))
      <3>1. j \in Jobs \ {Idle} /\ j.what = "work" /\ (queue' = queue \/ queue' = Append(queue, j))
        BY <2>4, <2>5
      <3>. HIDE DEF j
      <3>2. CASE queue' = queue
        BY <2>2, <3>2
      <3>3. CASE queue' = Append(queue, j)
        <4>1. queue' \in Seq(Jobs \ {Idle}) /\ DOMAIN queue' = 1 .. Len(queue) + 1
          BY <2>2, <3>1, <3>3
        <4>2. \A k \in DOMAIN queue' : (k \in DOMAIN queue /\ queue'[k] = queue[k]) \/ queue'[k] = j
          BY <2>2, <3>3
        <4>. QED  BY <3>1, <4>1, <4>2
      <3>. QED  BY <3>1, <3>2, <3>3
    <2>7. /\ wpc' \in [Workers -> Points]
          /\ \A w \in Workers : wpc'[w] = wpc[w] \/ (wpc[w] = "waiting" /\ wpc'[w] = "ready")
      BY <1>5, <2>2, NotifyType DEF SubmitWork
    <2>8. died' \in {"no", "null pool", "exception", "out of range"}
      BY <1>5, ServerTypesDef DEF SubmitWork
    <2>9. SockTypes'
      BY <2>1 DEF SockTypes, SockTypeOK, StreamTypes, sockVars, connVars
    <2>10. ServerTypes'
      BY <2>1, <2>4, <2>6, <2>7, <2>8 DEF ServerTypes, ServerTypeOK, Points
    <2>11. PoolUnborn'
      BY <2>1, <2>7 DEF PoolUnborn
    <2>. QED  BY <2>1, <2>6, <2>7, <2>9, <2>10, <2>11, QuietInv DEF PoolPoints
  <1>. QED  BY <1>1, <1>2, <1>3, <1>4, <1>5 DEF InitStep, PollStep

-----------------------------------------------------------------------------
(* The clients and the network. *)

LEMMA SubmissionType ==
  ASSUME NEW n \in Nat
  PROVE  Submission(n) \in Seq(DataUnits)
  <1>1. NumCols \in Nat /\ NumRows \in Nat
    BY MatrixAssumption DEF NumRows
  <1>2. ChunkFields(n) \in Seq(DataUnits)
    <2>1. ASSUME NEW k \in 1 .. 2 * n
          PROVE  ChunkFields(n)[k] \in DataUnits
      <3>. DEFINE chunk == BodyChunk(n, (k - 1) \div 2)
                  pair == Struct("chunk", chunk.NumBytes, chunk.BufferOffsetInBytes)
      <3>1. n \in Nat \ {0} /\ (k - 1) \div 2 \in 0 .. n - 1 /\ ((k - 1) % 2) + 1 \in {1, 2}
        OBVIOUS
      <3>2. chunk.NumBytes \in Nat /\ chunk.BufferOffsetInBytes \in Nat
        BY <3>1, ChunkBytes
      <3>3. pair[1] \in DataUnits /\ pair[2] \in DataUnits
        BY <3>2, StructType, KindsHas
      <3>4. ChunkFields(n)[k] = pair[((k - 1) % 2) + 1]
        BY DEF ChunkFields
      <3>. HIDE DEF pair
      <3>. QED  BY <3>1, <3>3, <3>4
    <2>2. DOMAIN ChunkFields(n) = 1 .. 2 * n /\ ChunkFields(n) = [k \in 1 .. 2 * n |-> ChunkFields(n)[k]]
      BY DEF ChunkFields
    <2>3. 2 * n \in Nat
      OBVIOUS
    <2>. HIDE DEF ChunkFields
    <2>4. ChunkFields(n) \in [1 .. 2 * n -> DataUnits]
      BY <2>1, <2>2
    <2>. QED  BY <2>3, <2>4, SeqDef
  <1>3. Body \in Seq(DataUnits)
    <2>1. \A k \in 1 .. NumCols : Body[k] \in DataUnits
      BY <1>1, KindsHas DEF Body, DataUnits
    <2>2. Body = [k \in 1 .. NumCols |-> Body[k]]
      BY DEF Body
    <2>. HIDE DEF Body
    <2>3. Body \in [1 .. NumCols -> DataUnits]
      BY <2>1, <2>2
    <2>. QED  BY <1>1, <2>3, SeqDef
  <1>4. /\ Unit("TaskSubmition", 0) \in Seq(DataUnits)
        /\ Struct("header", NumCols, NumRows) \in Seq(DataUnits)
        /\ Field("count", n) \in Seq(DataUnits) /\ Field("size", NumCols) \in Seq(DataUnits)
    BY <1>1, UnitType, StructType, KindsHas DEF Field, ERequestType
  <1>. HIDE DEF Body, ChunkFields
  <1>. QED  BY <1>2, <1>3, <1>4, ConcatProperties DEF Submission

LEMMA SendsType ==
  ASSUME StreamTypes, NEW c \in Clients, NEW units \in Seq(DataUnits), Sends(c, units)
  PROVE  flight' \in [Clients -> Seq(DataUnits)]
  <1>1. flight[c] \o units \in Seq(DataUnits)
    BY ConcatProperties DEF StreamTypes
  <1>. QED  BY <1>1, SetOne DEF Sends, StreamTypes

LEMMA RequestType ==
  /\ Unit("TaskStatus", 0) \in Seq(DataUnits) /\ Unit("TaskResult", 0) \in Seq(DataUnits)
  BY UnitType, KindsHas DEF ERequestType

(* What a read of the client takes, and what it leaves.                      *)
LEMMA RecvType ==
  ASSUME SockTypes, NEW c \in Clients, NEW n \in Nat, NEW k \in Recv(reply[c], n)
  PROVE  /\ k \in Nat /\ k <= n /\ k <= Len(reply[c])
         /\ First(reply[c], k) \in Seq(StreamUnits)
         /\ [reply EXCEPT ![c] = Without(@, k)] \in [Clients -> Seq(StreamUnits)]
  <1>1. reply[c] \in Seq(StreamUnits) /\ Len(reply[c]) \in Nat /\ reply \in [Clients -> Seq(StreamUnits)]
    BY LenProperties, SockTypesDef
  <1>2. PICK m \in Pieces(reply[c], ReplyCuts) : k = IF m < n THEN m ELSE n
    BY DEF Recv
  <1>3. m \in Nat /\ m <= Len(reply[c])
    BY <1>1 DEF Pieces
  <1>4. k \in Nat /\ k <= n /\ k <= Len(reply[c])
    BY <1>1, <1>2, <1>3
  <1>5. First(reply[c], k) \in Seq(StreamUnits) /\ Without(reply[c], k) \in Seq(StreamUnits)
    BY <1>1, <1>4, FirstType, WithoutType
  <1>. QED  BY <1>1, <1>4, <1>5, SetOne

LEMMA ClientTypesDef ==
  ClientTypes <=>
    /\ cpc \in [Clients -> ClientPoints]
    /\ attempts \in [Clients -> 0 .. MaxConnectionAttempts]
    /\ m_socket \in [Clients -> {"open", "InvalidSocket"}]
    /\ want \in [Clients -> Nat]
    /\ bytes \in [Clients -> Seq(StreamUnits)]
    /\ status \in [Clients -> ETaskStatus]
  BY DEF ClientTypes, ClientTypeOK

(* Connecting, submitting, asking. *)
LEMMA AskData ==
  ASSUME SockTypes, ClientTypes, NEW c \in Clients,
         \/ Connect(c) \/ ConnectFails(c) \/ GiveUp(c) \/ SubmitTask(c) \/ AskStatus(c) \/ Leave(c) \/ Quit(c)
  PROVE  SockTypes' /\ ClientTypes'
  <1>. StreamTypes
    BY DEF SockTypes
  <1>. USE DEF ClientTypes, ClientTypeOK, ClientGoto, ClientPoints, sockVars, connVars, connectVars
  <1>1. \A point \in ClientPoints : [cpc EXCEPT ![c] = point] \in [Clients -> ClientPoints]
    OBVIOUS
  <1>2. UNCHANGED sockVars => SockTypes'
    BY DEF SockTypes, SockTypeOK, StreamTypes
  <1>3. UNCHANGED <<connVars, sock, reply>> /\ flight' \in [Clients -> Seq(DataUnits)] => SockTypes'
    BY DataUnitsType DEF SockTypes, SockTypeOK, StreamTypes
  <1>4. CASE Connect(c)
    <2>1. backlog' = backlog \cup {c} /\ UNCHANGED <<listening, closed, gone, flight, sock, reply>>
      BY <1>4 DEF Connect, Connects
    <2>2. SockTypes'
      BY <2>1 DEF SockTypes, SockTypeOK, StreamTypes
    <2>. QED  BY <1>1, <1>4, <2>2 DEF Connect
  <1>5. CASE ConnectFails(c)
    <2>1. attempts' \in [Clients -> 0 .. MaxConnectionAttempts]
      <3>1. attempts[c] \in Nat /\ attempts[c] < MaxConnectionAttempts /\ MaxConnectionAttempts \in Nat
        BY <1>5, ClientAssumption DEF ConnectFails, ClientAssumption
      <3>. QED  BY <1>5, <3>1 DEF ConnectFails
    <2>2. m_socket' \in [Clients -> {"open", "InvalidSocket"}]
      BY <1>5 DEF ConnectFails, Disconnect
    <2>. QED  BY <1>2, <1>5, <2>1, <2>2 DEF ConnectFails
  <1>6. CASE GiveUp(c)
    BY <1>1, <1>2, <1>6 DEF GiveUp
  <1>7. CASE SubmitTask(c)
    <2>1. flight' \in [Clients -> Seq(DataUnits)]
      BY <1>7, SubmissionType, SendsType, ClientAssumption DEF SubmitTask, ClientAssumption
    <2>. QED  BY <1>1, <1>3, <1>7, <2>1 DEF SubmitTask
  <1>8. CASE AskStatus(c)
    <2>1. flight' \in [Clients -> Seq(DataUnits)]
      BY <1>8, SendsType, RequestType DEF AskStatus
    <2>. QED  BY <1>1, <1>3, <1>8, <2>1 DEF AskStatus
  <1>9. CASE Leave(c)
    <2>1. closed' = closed \cup {c} /\ UNCHANGED <<listening, backlog, gone, flight, sock, reply>>
      BY <1>9 DEF Leave, Closes
    <2>2. SockTypes'
      BY <2>1 DEF SockTypes, SockTypeOK, StreamTypes
    <2>. QED  BY <1>1, <1>9, <2>2 DEF Leave, Disconnect
  <1>10. CASE Quit(c)
    <2>1. /\ gone' = gone \cup {c} /\ flight' = [flight EXCEPT ![c] = <<>>]
          /\ UNCHANGED <<listening, backlog, closed, sock, reply, clientVars>>
      BY <1>10 DEF Quit, Disappear
    <2>2. flight' \in [Clients -> Seq(DataUnits)]
      BY <2>1, EmptySeq, SetOne DEF StreamTypes
    <2>3. SockTypes'
      BY <2>1, <2>2, DataUnitsType DEF SockTypes, SockTypeOK, StreamTypes
    <2>. QED  BY <2>1, <2>3 DEF clientVars
  <1>. QED  BY <1>4, <1>5, <1>6, <1>7, <1>8, <1>9, <1>10

(* Reading an answer. *)
LEMMA AnswerData ==
  ASSUME SockTypes, ClientTypes, NEW c \in Clients, ReadStatus(c) \/ ReadResultSize(c) \/ ReadResult(c)
  PROVE  SockTypes' /\ ClientTypes'
  <1>. StreamTypes
    BY DEF SockTypes
  <1>1. \A point \in ClientPoints : [cpc EXCEPT ![c] = point] \in [Clients -> ClientPoints]
    BY ClientTypesDef
  <1>2. reply \in [Clients -> Seq(StreamUnits)] /\ reply[c] \in Seq(StreamUnits) /\ Len(reply[c]) \in Nat
    BY SockTypesDef, LenProperties
  <1>3. reply[c] # <<>> => Head(reply[c]) \in StreamUnits
    BY <1>2, HeadTailProperties
  <1>4. UNCHANGED <<connVars, sock>> /\ flight' \in [Clients -> Seq(DataUnits)]
          /\ reply' \in [Clients -> Seq(StreamUnits)] => SockTypes'
    BY DataUnitsType DEF SockTypes, SockTypeOK, StreamTypes, connVars
  <1>5. flight \in [Clients -> Seq(DataUnits)]
    BY DEF StreamTypes
  <1>6. CASE ReadStatus(c)
    <2>1. /\ reply[c] # <<>> /\ reply' = [reply EXCEPT ![c] = AfterByte(@)]
          /\ UNCHANGED <<connVars, sock, connectVars, want, bytes>>
      BY <1>6 DEF ReadStatus
    <2>2. reply' \in [Clients -> Seq(StreamUnits)]
      <3>1. AfterByte(reply[c]) \in Seq(StreamUnits)
        BY <1>2, <2>1, AfterByteType, RestType
      <3>. QED  BY <1>2, <2>1, <3>1, SetOne
    <2>3. PICK s \in StatusOf(Head(reply[c])) : AfterStatus(c, s)
      BY <1>6 DEF ReadStatus
    <2>4. s \in ETaskStatus
      BY DEF StatusOf
    <2>5. flight' \in [Clients -> Seq(DataUnits)]
      BY <1>5, <2>3, SendsType, RequestType DEF AfterStatus
    <2>6. status' \in [Clients -> ETaskStatus]
      <3>1. status' = status \/ status' = [status EXCEPT ![c] = s]
        BY <2>3 DEF AfterStatus
      <3>. QED  BY <2>4, <3>1, SetOne, ClientTypesDef
    <2>7. cpc' \in [Clients -> ClientPoints]
      BY <1>1, <2>3 DEF AfterStatus, ClientGoto, ClientPoints
    <2>8. ClientTypes'
      BY <2>1, <2>6, <2>7 DEF connectVars, ClientTypes, ClientTypeOK
    <2>. QED  BY <1>4, <2>1, <2>2, <2>5, <2>8
  <1>7. CASE ReadResultSize(c)
    <2>1. /\ reply[c] # <<>>
          /\ UNCHANGED <<connVars, flight, sock, connectVars, bytes, status>>
      BY <1>7 DEF ReadResultSize
    <2>. DEFINE val == Head(reply[c]).val
    <2>2. val \in Nat
      BY <1>3, <2>1 DEF StreamUnits
    <2>3. PICK k \in Recv(reply[c], 2) : reply' = [reply EXCEPT ![c] = Without(@, k)]
      BY <1>7 DEF ReadResultSize
    <2>4. reply' \in [Clients -> Seq(StreamUnits)]
      BY <2>3, RecvType
    <2>5. /\ ClientGoto(c, "threw") \/ ClientGoto(c, "body")
          /\ \/ want' = want
             \/ want' = [want EXCEPT ![c] = val]
             \/ \E v \in 0 .. val : want' = [want EXCEPT ![c] = v]
      BY <1>7 DEF ReadResultSize
    <2>. HIDE DEF val
    <2>6. want' \in [Clients -> Nat]
      <3>1. \A v \in Nat : [want EXCEPT ![c] = v] \in [Clients -> Nat]
        BY SetOne, ClientTypesDef
      <3>2. want \in [Clients -> Nat]
        BY ClientTypesDef
      <3>3. CASE \E v \in 0 .. val : want' = [want EXCEPT ![c] = v]
        <4>1. PICK v \in 0 .. val : want' = [want EXCEPT ![c] = v]
          BY <3>3
        <4>2. v \in Nat
          BY <2>2
        <4>. QED  BY <3>1, <4>1, <4>2
      <3>. QED  BY <2>2, <2>5, <3>1, <3>2, <3>3
    <2>7. cpc' \in [Clients -> ClientPoints]
      BY <1>1, <2>5 DEF ClientGoto, ClientPoints
    <2>8. ClientTypes'
      BY <2>1, <2>6, <2>7 DEF connectVars, ClientTypes, ClientTypeOK
    <2>. QED  BY <1>4, <1>5, <2>1, <2>4, <2>8
  <1>8. CASE ReadResult(c)
    <2>1. ClientGoto(c, "ended") /\ UNCHANGED <<connVars, flight, sock, connectVars, want>>
      BY <1>8 DEF ReadResult
    <2>2. PICK k \in (IF want[c] = 0 THEN {0} ELSE Recv(reply[c], want[c])) :
            /\ reply' = [reply EXCEPT ![c] = Without(@, k)]
            /\ \/ /\ bytes' = [bytes EXCEPT ![c] = First(reply[c], k)]
                  /\ status' = [status EXCEPT ![c] = "Finished"]
               \/ /\ bytes' = [bytes EXCEPT ![c] = <<>>]
                  /\ status' = [status EXCEPT ![c] = "Failed"]
      BY <1>8 DEF ReadResult
    <2>3. /\ First(reply[c], k) \in Seq(StreamUnits)
          /\ [reply EXCEPT ![c] = Without(@, k)] \in [Clients -> Seq(StreamUnits)]
      <3>1. want[c] \in Nat
        BY ClientTypesDef
      <3>2. CASE want[c] # 0
        BY <2>2, <3>1, <3>2, RecvType
      <3>3. CASE want[c] = 0
        <4>1. k = 0 /\ 0 <= Len(reply[c])
          BY <1>2, <2>2, <3>3
        <4>2. First(reply[c], k) \in Seq(StreamUnits) /\ Without(reply[c], k) \in Seq(StreamUnits)
          BY <1>2, <4>1, FirstType, WithoutType
        <4>. QED  BY <1>2, <4>2, SetOne
      <3>. QED  BY <3>2, <3>3
    <2>4. bytes' \in [Clients -> Seq(StreamUnits)] /\ status' \in [Clients -> ETaskStatus]
      <3>1. bytes \in [Clients -> Seq(StreamUnits)] /\ status \in [Clients -> ETaskStatus]
        BY ClientTypesDef
      <3>2. <<>> \in Seq(StreamUnits) /\ {"Finished", "Failed"} \subseteq ETaskStatus
        BY EmptySeq DEF ETaskStatus
      <3>3. \A s \in Seq(StreamUnits) : [bytes EXCEPT ![c] = s] \in [Clients -> Seq(StreamUnits)]
        BY <3>1, SetOne
      <3>4. \A s \in ETaskStatus : [status EXCEPT ![c] = s] \in [Clients -> ETaskStatus]
        BY <3>1, SetOne
      <3>. QED  BY <2>2, <2>3, <3>2, <3>3, <3>4
    <2>5. cpc' \in [Clients -> ClientPoints]
      BY <1>1, <2>1 DEF ClientGoto, ClientPoints
    <2>6. ClientTypes'
      BY <2>1, <2>4, <2>5, ClientTypesDef DEF connectVars, ClientTypes, ClientTypeOK
    <2>. QED  BY <1>4, <1>5, <2>1, <2>2, <2>3, <2>6
  <1>. QED  BY <1>6, <1>7, <1>8

LEMMA NetworkData ==
  ASSUME SockTypes, NEW c \in Clients, Arrive(c) \/ ResetByPeer(c)
  PROVE  SockTypes'
  <1>. StreamTypes
    BY DEF SockTypes
  <1>1. CASE Arrive(c)
    <2>1. PICK n \in Pieces(flight[c], RequestCuts) :
            /\ sock' = [sock EXCEPT ![c] = @ \o First(flight[c], n)]
            /\ flight' = [flight EXCEPT ![c] = Without(@, n)]
            /\ UNCHANGED <<connVars, reply>>
      BY <1>1 DEF Arrive
    <2>2. flight[c] \in Seq(DataUnits) /\ sock[c] \in Seq(DataUnits) /\ Len(flight[c]) \in Nat
      BY LenProperties DEF StreamTypes
    <2>3. n \in Nat /\ n <= Len(flight[c])
      BY <2>2 DEF Pieces
    <2>4. First(flight[c], n) \in Seq(DataUnits) /\ Without(flight[c], n) \in Seq(DataUnits)
      BY <2>2, <2>3, FirstType, WithoutType
    <2>5. sock[c] \o First(flight[c], n) \in Seq(DataUnits)
      BY <2>2, <2>4, ConcatProperties
    <2>6. sock' \in [Clients -> Seq(DataUnits)] /\ flight' \in [Clients -> Seq(DataUnits)]
      BY <2>1, <2>4, <2>5, SetOne DEF StreamTypes
    <2>. QED  BY <2>1, <2>6, DataUnitsType DEF SockTypes, SockTypeOK, StreamTypes, connVars
  <1>2. CASE ResetByPeer(c)
    <2>1. /\ gone' = gone \cup {c} /\ flight' = [flight EXCEPT ![c] = <<>>]
          /\ UNCHANGED <<listening, backlog, closed, sock, reply>>
      BY <1>2 DEF ResetByPeer, Disappear
    <2>2. flight' \in [Clients -> Seq(DataUnits)]
      BY <2>1, EmptySeq, SetOne DEF StreamTypes
    <2>. QED  BY <2>1, <2>2, DataUnitsType DEF SockTypes, SockTypeOK, StreamTypes
  <1>. QED  BY <1>1, <1>2

-----------------------------------------------------------------------------
(* The types hold, and two workers never handle one client's requests.       *)

LEMMA InitTypes ==
  ASSUME Init
  PROVE  TypeInv
  <1>. <<>> \in Seq(DataUnits) /\ <<>> \in Seq(StreamUnits)
       /\ <<>> \in Seq(Clients) /\ <<>> \in Seq(Jobs \ {Idle}) /\ Len(<<>>) = 0
    BY EmptySeq
  <1>1. SockTypes
    BY DEF Init, SockInit, SockTypes, SockTypeOK, StreamTypes
  <1>2. ClientTypes
    BY ClientAssumption DEF Init, ClientInit, ClientTypes, ClientTypeOK, ClientPoints, ClientAssumption, ETaskStatus
  <1>3. ServerTypes
    BY JobTypes DEF Init, ServerInit, ServerTypes, ServerTypeOK, ZeroLoc, PoolPoints
  <1>4. JobOK /\ PoolUnborn /\ HandlersApart /\ HandlerOK
    BY DEF Init, ServerInit, JobOK, PoolUnborn, HandlersApart, HandlerOK, HandlerAt, Holds, PoolPoints,
      HandlerPoints, ChunkPoints
  <1>5. ChunksKnown
    BY IdleFields DEF Init, ServerInit, ChunksKnown, Known
  <1>. QED  BY <1>1, <1>2, <1>3, <1>4, <1>5 DEF TypeInv, ServerInv

LEMMA SameServer ==
  ASSUME ServerInv, UNCHANGED serverVars
  PROVE  ServerInv'
  <1>1. ServerTypes' /\ PoolUnborn'
    BY DEF serverVars, ServerInv, ServerTypes, ServerTypeOK, PoolUnborn
  <1>. QED  BY <1>1, QuietInv DEF serverVars

LEMMA SameClients ==
  ASSUME ClientTypes, UNCHANGED clientVars
  PROVE  ClientTypes'
  BY DEF clientVars, connectVars, ClientTypes, ClientTypeOK

LEMMA NextTypes ==
  ASSUME TypeInv, [Next]_vars
  PROVE  TypeInv'
  <1>. SockTypes /\ ClientTypes /\ ServerInv
    BY DEF TypeInv
  <1>1. CASE ServerSide
    <2>1. SockTypes' /\ ServerInv'
      BY <1>1, PollInv, WorkerInv DEF ServerSide, ServerStep
    <2>. QED  BY <1>1, <2>1, SameClients DEF TypeInv, ServerSide
  <1>2. ASSUME NEW c \in Clients, ClientSide(c)
        PROVE  TypeInv'
    <2>1. SockTypes' /\ ClientTypes'
      BY <1>2, AskData, AnswerData DEF ClientSide, ClientStep
    <2>. QED  BY <1>2, <2>1, SameServer DEF TypeInv, ClientSide
  <1>3. ASSUME NEW c \in Clients, Network(c)
        PROVE  TypeInv'
    BY <1>3, NetworkData, SameClients, SameServer DEF TypeInv, Network
  <1>4. CASE UNCHANGED vars
    <2>1. SockTypes'
      BY <1>4 DEF vars, sockVars, connVars, SockTypes, SockTypeOK, StreamTypes
    <2>. QED  BY <1>4, <2>1, SameClients, SameServer DEF TypeInv, vars
  <1>. QED  BY <1>1, <1>2, <1>3, <1>4 DEF Next, Over

THEOREM TypeInvariant == Spec => []TypeInv
  <1>1. Init => TypeInv
    BY InitTypes
  <1>2. TypeInv /\ [Next]_vars => TypeInv'
    BY NextTypes
  <1>. QED  BY <1>1, <1>2, PTL DEF Spec

(* Sockets, tasks, jobs and local variables hold what their C++ types can,    *)
(* whatever bytes the readers misread.                                      *)
THEOREM TypesAreRespected == Spec => []TypeOK
  <1>1. TypeInv => TypeOK
    <2>1. \A f : f \in [Workers -> Seq(DataUnits)] => f \in [Workers -> Seq(StreamUnits)]
      BY DataUnitsType
    <2>2. \A x \in Contexts :
            x \in [Header : Nat, Body : Seq(StreamUnits), ExecutionChunks : Seq(Chunks)]
      BY DataUnitsType DEF Contexts
    <2>. QED
      BY <2>1, <2>2, ServerTypesDef
      DEF TypeInv, SockTypes, ClientTypes, ServerInv, TypeOK, ServerTypeOK, Points, Chunks
  <1>. QED  BY <1>1, TypeInvariant, PTL

(* ProcessClientRequest holds the client's CommunicatorMutex from the first   *)
(* byte of a request to the end of its answer, however many jobs the poll     *)
(* thread has queued for the client and whoever executes them.               *)
THEOREM RequestsHandledApart == Spec => []HandlersApart
  <1>1. TypeInv => HandlersApart
    BY DEF TypeInv, ServerInv
  <1>. QED  BY <1>1, TypeInvariant, PTL
=============================================================================
