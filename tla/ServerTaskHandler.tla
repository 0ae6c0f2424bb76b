-------------------------- MODULE ServerTaskHandler --------------------------
(***************************************************************************)
(* The server: ServerTaskHandler with its ClientTaskMap, over              *)
(* AsyncSock::Server.  Init starts a thread that polls the connections and *)
(* gives the pool one job for each that can be read; a worker handles one  *)
(* request under the client's CommunicatorMutex, and a submission gives the*)
(* pool one more job for each chunk of the task.                           *)
(*                                                                         *)
(* The pool is the one of module ThreadPool, reduced to what it does with  *)
(* jobs: a FIFO queue, workers that wait when they find it empty, and a    *)
(* notify_one that is lost while a worker is between the two.  Nobody      *)
(* terminates it, because the poll thread never ends.                      *)
(***************************************************************************)
EXTENDS Winsock, MatrixPartition

CONSTANTS
  Workers,       \* the pool's threads; hardware_concurrency() many
  MaxChunks,     \* the largest number of chunks a submission may have
  MaxDuplicates, \* bound: the jobs a client may have queued before the poll
                 \* thread's next one is not told from them any more
  Misread        \* what bytes that belong to something else can spell where a
                 \* number of rows or bytes is read

ASSUME ServerAssumption ==
  /\ Workers # {} /\ IsFiniteSet(Workers)
  /\ MaxChunks \in Nat \ {0} /\ MaxDuplicates \in Nat \ {0}
  /\ Misread \subseteq Nat

VARIABLES
  initialized,  \* how far Init() is
  m_clients,    \* the accepted clients, in order
  rwClients,    \* those the poll thread has yet to submit a job for
  queue,        \* the pool's queue
  wpc,          \* where each worker is
  job,          \* the job it executes
  loc,          \* its local variables: a count, a loop index, the header
  buf,          \* the local `bytes` of ProcessTaskResult
  m_contextMap, \* the tasks, by client
  died          \* how the process ended, or "no"

serverVars == <<initialized, m_clients, rwClients, queue, wpc, job, loc, buf,
                m_contextMap, died>>
(* All that the handling of a request leaves alone, but for the pool's.     *)
pollVars == <<initialized, m_clients, rwClients>>

Idle == [what |-> "none"]
Work(c) == [what |-> "work", client |-> c]
FirstChunk(c, i) == [what |-> "chunk", client |-> c, chunk |-> 1]
                   \* mutant: every job is bound to the first chunk
Chunk(c, i) == [what |-> "chunk", client |-> c, chunk |-> i]
Jobs == {Idle} \cup {Work(c) : c \in Clients}
          \cup {Chunk(c, i) : c \in Clients, i \in 1 .. MaxChunks}

PoolPoints    == {"unborn", "ready", "dozing", "waiting"}
HandlerPoints == {"header", "count", "chunks", "size", "body", "submit", "scan",
                  "result", "copy", "write"}
ChunkPoints   == {"chunk", "compute", "done"}

ZeroLoc == [num |-> 0, i |-> 0, header |-> 0]

ServerInit ==
  /\ initialized = "constructed"
  /\ m_clients = <<>> /\ rwClients = <<>> /\ queue = <<>>
  /\ wpc = [w \in Workers |-> "unborn"]
  /\ job = [w \in Workers |-> Idle]
  /\ loc = [w \in Workers |-> ZeroLoc]
  /\ buf = [w \in Workers |-> <<>>]
  /\ m_contextMap = [c \in {} |-> {}]
  /\ died = "no"

(* An exception leaves a noexcept binding or a thread function.             *)
Throw == died' = "exception"

-----------------------------------------------------------------------------
(* Init(): m_server.Init binds the socket and listens, the log says so; then *)
(* the poll thread, then the pool it uses.                                   *)

StartListening ==
  /\ initialized = "constructed" /\ initialized' = "listening"
  /\ listening' = TRUE
  /\ UNCHANGED <<m_clients, rwClients, queue, wpc, job, loc, buf, m_contextMap, died,
                 backlog, closed, gone, flight, sock, reply>>

StartClientThread ==
  /\ initialized = "listening" /\ initialized' = "polling"
  /\ UNCHANGED <<m_clients, rwClients, queue, wpc, job, loc, buf, m_contextMap, died, sockVars>>

MakePool ==
  /\ initialized = "polling" /\ initialized' = "ready"
  /\ wpc' = [w \in Workers |-> "ready"]
  /\ UNCHANGED <<m_clients, rwClients, queue, job, loc, buf, m_contextMap, died, sockVars>>

-----------------------------------------------------------------------------
(* The pool. *)

Goto(w, point) == wpc' = [wpc EXCEPT ![w] = point]
Waiting == {w \in Workers : wpc[w] = "waiting"}

NotifyNobody(pc) == wpc' = pc   \* mutant: notify_one is missing

(* notify_one, by a thread that goes on as pc says. *)
Notify(pc) ==
  IF Waiting = {} THEN wpc' = pc
  ELSE \E w \in Waiting : wpc' = [pc EXCEPT ![w] = "ready"]

Take(w) ==
  /\ wpc[w] = "ready" /\ queue # <<>>
  /\ queue' = Tail(queue)
  /\ job' = [job EXCEPT ![w] = Head(queue)]
  /\ Goto(w, Head(queue).what)
  /\ UNCHANGED <<pollVars, loc, buf, m_contextMap, died, sockVars>>

FindEmpty(w) ==
  /\ wpc[w] = "ready" /\ queue = <<>> /\ Goto(w, "dozing")
  /\ UNCHANGED <<pollVars, queue, job, loc, buf, m_contextMap, died, sockVars>>

Wait(w) ==
  /\ wpc[w] = "dozing" /\ Goto(w, "waiting")
  /\ UNCHANGED <<pollVars, queue, job, loc, buf, m_contextMap, died, sockVars>>

(* The job is over: the mutexes it holds are released with it.              *)
Finish(w) ==
  /\ wpc' = [wpc EXCEPT ![w] = "ready"]
  /\ job' = [job EXCEPT ![w] = Idle]
  /\ loc' = [loc EXCEPT ![w] = ZeroLoc]
  /\ buf' = [buf EXCEPT ![w] = <<>>]

-----------------------------------------------------------------------------
(* UpdateClients(), the poll thread.                                        *)

(* PollRwClients: one new connection is accepted; it is polled next time.    *)
(* The end of a stream may be readable too, for ever.                        *)
Readable(c, hungUp) == sock[c] # <<>> \/ c \in hungUp

ReadyClients(hungUp) == {k \in DOMAIN m_clients : Readable(m_clients[k], hungUp)}

(* The ways to count through a set of places from the first to the last; a   *)
(* finite set of numbers has one.                                           *)
InOrder(places) ==
  {p \in [1 .. Cardinality(places) -> places] : \A i, j \in DOMAIN p : i < j => p[i] < p[j]}

Polling == initialized \in {"polling", "ready"} /\ rwClients = <<>>

PollRwClients ==
  /\ Polling
  /\ \E hungUp \in SUBSET (gone \cup closed) : \E ready \in InOrder(ReadyClients(hungUp)) :
       rwClients' = [i \in DOMAIN ready |-> m_clients[ready[i]]]
  /\ \/ backlog = {} /\ UNCHANGED <<m_clients, backlog>>
     \/ \E c \in backlog : m_clients' = Append(m_clients, c) /\ backlog' = backlog \ {c}
  /\ UNCHANGED <<initialized, queue, wpc, job, loc, buf, m_contextMap, died,
                 listening, closed, gone, flight, sock, reply>>

(* A connection that was aborted in the backlog: accept gives no socket, or  *)
(* one that has no peer to name; both throw in the poll thread.              *)
AcceptFails ==
  /\ Polling /\ backlog \cap gone # {}
  /\ Throw
  /\ UNCHANGED <<pollVars, queue, wpc, job, loc, buf, m_contextMap, sockVars>>

Queued(j) == Cardinality({k \in DOMAIN queue : queue[k] = j})

SubmitWork ==
  /\ rwClients # <<>>
  /\ \/ /\ initialized # "ready"              \* m_workerThreadPool is null
        /\ died' = "null pool"
        /\ UNCHANGED <<rwClients, queue, wpc>>
     \/ /\ initialized = "ready"
        /\ rwClients' = Tail(rwClients)
        /\ queue' = IF Queued(Work(Head(rwClients))) < MaxDuplicates
                    THEN Append(queue, Work(Head(rwClients))) ELSE queue
        /\ Notify(wpc)
        /\ UNCHANGED died
  /\ UNCHANGED <<initialized, m_clients, job, loc, buf, m_contextMap, sockVars>>

-----------------------------------------------------------------------------
(* The job of a client: CommunicatorMutex, one byte, the request it names.   *)

Client(w) == job[w].client
Sock(w)   == sock[Client(w)]

Holds(w, c) == wpc[w] \in HandlerPoints /\ Client(w) = c
NotLocked(c) == TRUE   \* mutant: CommunicatorMutex is not acquired
CommunicatorFree(c) == \A w \in Workers : ~Holds(w, c)

Consume(w, n) == sock' = [sock EXCEPT ![Client(w)] = Without(@, n)]
Answer(w, units) == reply' = [reply EXCEPT ![Client(w)] = @ \o units]

(* Read(n): what has arrived of n units, possibly nothing.                   *)
Read(w, n) == First(Sock(w), IF Len(Sock(w)) < n THEN Len(Sock(w)) ELSE n)

(* The values a read of a two-unit field can give.  A complete and aligned   *)
(* field has one; the low bytes of a number that came short are kept; bytes  *)
(* that belong to something else can spell any number.                       *)
Values(got, kind) ==
  IF got = <<>> THEN {0}
  ELSE IF Head(got).kind # kind \/ Head(got).half # 1 THEN 0 .. MaxChunks + 1
  ELSE IF Len(got) = 2 THEN {Head(got).val} ELSE 0 .. Head(got).val

(* The halves of a struct of two numbers that was read in full.             *)
Numbers(got, kind) ==
  IF got[1].kind = kind /\ got[1].half = 1 THEN {<<got[1].val, got[2].val>>}
  ELSE Misread \X Misread

HasTaskContext(c) == c \in DOMAIN m_contextMap

Requests(u) == IF u.kind \in ERequestType THEN {u.kind} ELSE ERequestType \cup {"Invalid"}

(* The first read; the job that finds nothing to read is a duplicate.        *)
Handling(w) == UNCHANGED <<pollVars, queue, connVars, flight>>

StartRequest(w) ==
  /\ wpc[w] = "work" /\ CommunicatorFree(Client(w))
  /\ Handling(w) /\ UNCHANGED m_contextMap

NothingRead(w) ==
  /\ StartRequest(w) /\ Sock(w) = <<>> /\ Finish(w)
  /\ UNCHANGED <<died, sock, reply>>

ReadRequest(w, type) ==
  /\ StartRequest(w) /\ Sock(w) # <<>>
  /\ type \in Requests(Head(Sock(w)))
  /\ sock' = [sock EXCEPT ![Client(w)] = AfterByte(@)]

IgnoreRequest(w) ==
  /\ ReadRequest(w, "Invalid") /\ Finish(w)
  /\ UNCHANGED <<reply, died>>

ReadTaskSubmition(w) ==
  /\ ReadRequest(w, "TaskSubmition")
  /\ IF HasTaskContext(Client(w)) THEN Finish(w)
     ELSE Goto(w, "header") /\ UNCHANGED <<job, loc, buf>>
  /\ UNCHANGED <<reply, died>>

ReadTaskStatus(w) ==
  /\ ReadRequest(w, "TaskStatus")
  /\ \/ /\ ~HasTaskContext(Client(w))
        /\ Answer(w, Unit("NotFound", 0)) /\ Finish(w)
     \/ /\ HasTaskContext(Client(w)) /\ Goto(w, "scan")
        /\ loc' = [loc EXCEPT ![w].i = 1]
        /\ UNCHANGED <<reply, job, buf>>
  /\ UNCHANGED died

ReadTaskResult(w) ==           \* at() throws without a task
  /\ ReadRequest(w, "TaskResult")
  /\ \/ ~HasTaskContext(Client(w)) /\ Throw /\ UNCHANGED wpc
     \/ HasTaskContext(Client(w)) /\ Goto(w, "result") /\ UNCHANGED died
  /\ UNCHANGED <<reply, job, loc, buf>>

(* A client that has gone may also have reset its connection: recv throws,   *)
(* and so does the test of a send that is not in a loop.                     *)
ConnectionReset(w) ==
  /\ wpc[w] \in {"work", "header", "count", "chunks", "size", "body", "scan", "result"}
  /\ Client(w) \in gone
  /\ wpc[w] = "work" => CommunicatorFree(Client(w))
  /\ Throw
  /\ UNCHANGED <<pollVars, queue, wpc, job, loc, buf, m_contextMap, sockVars>>

-----------------------------------------------------------------------------
(* ProcessTaskSubmition().                                                  *)

Context(w) == m_contextMap[Client(w)]

(* Each job of the task has a copy of the header; its NumRows is what counts.*)
TaskContext(header, chunks, body) ==
  [Header |-> header, ExecutionChunks |-> chunks, Body |-> body]

ExecutionChunk(numBytes, offset) ==
  [State |-> "InProgress", NumBytes |-> numBytes, BufferOffsetInBytes |-> offset]

SetContext(c, context) ==
  m_contextMap' = [x \in DOMAIN m_contextMap \cup {c} |->
                     IF x = c THEN context ELSE m_contextMap[x]]

ReadField(w, point, n) ==
  /\ wpc[w] = point
  /\ Consume(w, Len(Read(w, n)))
  /\ Handling(w) /\ UNCHANGED <<buf, reply>>

(* ASOCK_THROW_IF_FALSE(client->Read(field) == sizeof(field))               *)
ShortRead(w) ==
  /\ \E point \in {"header", "count", "chunks"} : ReadField(w, point, 2)
  /\ Len(Read(w, 2)) < 2
  /\ Throw
  /\ UNCHANGED <<wpc, job, loc, m_contextMap>>

ReadHeader(w) ==
  /\ ReadField(w, "header", 2) /\ Len(Read(w, 2)) = 2
  /\ \E n \in Numbers(Read(w, 2), "header") : loc' = [loc EXCEPT ![w].header = n[2]]
  /\ Goto(w, "count")
  /\ UNCHANGED <<job, m_contextMap, died>>

BelowMax == 1 .. MaxChunks - 1   \* mutant: >= instead of >
ValidNumChunks == 1 .. MaxChunks

(* A wrong number of chunks ends the request, with the rest of it unread.    *)
RejectNumChunks(w) ==
  /\ wpc[w] = "count" /\ Len(Read(w, 2)) = 2
  /\ \E v \in Values(Read(w, 2), "count") : v \notin ValidNumChunks
  /\ Consume(w, 2) /\ Finish(w)
  /\ Handling(w) /\ UNCHANGED <<reply, m_contextMap, died>>

ReadNumChunks(w) ==
  /\ ReadField(w, "count", 2) /\ Len(Read(w, 2)) = 2
  /\ \E v \in Values(Read(w, 2), "count") \cap ValidNumChunks :
       loc' = [loc EXCEPT ![w].num = v]
  /\ SetContext(Client(w), TaskContext(loc[w].header, <<>>, <<>>))
  /\ Goto(w, "chunks")
  /\ UNCHANGED <<job, died>>

ReadChunk(w) ==
  /\ ReadField(w, "chunks", 2) /\ Len(Read(w, 2)) = 2
  /\ \E n \in Numbers(Read(w, 2), "chunk") :
       SetContext(Client(w),
                  [Context(w) EXCEPT !.ExecutionChunks = Append(@, ExecutionChunk(n[1], n[2]))])
  /\ Goto(w, IF Len(Context(w).ExecutionChunks) + 1 = loc[w].num THEN "size" ELSE "chunks")
  /\ UNCHANGED <<job, loc, died>>

(* Here the test is read == 8 && (numBytes > 0) == FALSE: only a complete    *)
(* zero throws.                                                             *)
ReadNumBytes(w) ==
  /\ ReadField(w, "size", 2)
  /\ \E v \in Values(Read(w, 2), "size") :
       \/ /\ Len(Read(w, 2)) = 2 /\ v = 0
          /\ Throw /\ UNCHANGED <<wpc, loc>>
       \/ /\ Len(Read(w, 2)) < 2 \/ v > 0
          /\ loc' = [loc EXCEPT ![w].num = v]
          /\ Goto(w, "body") /\ UNCHANGED died
  /\ UNCHANGED <<job, m_contextMap>>

AnythingRead(body, numBytes) == Len(body) > 0   \* mutant: if instead of while
AllRead(body, numBytes) == Len(body) = numBytes

(* One turn of the loop over the body; a turn that reads nothing changes     *)
(* nothing, whether the bytes are late or will never come.                   *)
ReadBody(w) ==
  LET body == Context(w).Body \o Read(w, loc[w].num - Len(Context(w).Body))
  IN  /\ ReadField(w, "body", loc[w].num - Len(Context(w).Body))
      /\ SetContext(Client(w), [Context(w) EXCEPT !.Body = body])
      /\ \/ AllRead(body, loc[w].num)
            /\ Goto(w, "submit") /\ loc' = [loc EXCEPT ![w].i = 1]
         \/ ~AllRead(body, loc[w].num) /\ UNCHANGED <<wpc, loc>>
      /\ UNCHANGED <<job, died>>

SkipsLast(w) == loc[w].i + 1 < Len(Context(w).ExecutionChunks)   \* mutant
MoreChunks(w) == loc[w].i < Len(Context(w).ExecutionChunks)

SubmitChunk(w) ==
  /\ wpc[w] = "submit"
  /\ queue' = Append(queue, Chunk(Client(w), loc[w].i))
  /\ IF MoreChunks(w)
     THEN /\ Notify(wpc)
          /\ loc' = [loc EXCEPT ![w].i = @ + 1]
          /\ UNCHANGED job
     ELSE /\ Notify([wpc EXCEPT ![w] = "ready"])
          /\ loc' = [loc EXCEPT ![w] = ZeroLoc]
          /\ job' = [job EXCEPT ![w] = Idle]
  /\ UNCHANGED <<pollVars, buf, m_contextMap, died, sockVars>>

-----------------------------------------------------------------------------
(* ProcessTaskStatus(): one chunk after the other.                          *)

StatusOfChunk ==
  [InProgress |-> "InProgress", Aborted |-> "Failed", Invalid |-> "NotFound"]

NotAborted(state) == state # "Aborted"   \* mutant: looks for failures only
Passes(state) == state = "Done"

ScanOn(w) ==     \* mutant: the scan goes on after it has answered
  /\ wpc[w] = "scan" /\ loc[w].i <= Len(Context(w).ExecutionChunks)
  /\ LET state == Context(w).ExecutionChunks[loc[w].i].State
     IN  Answer(w, IF Passes(state) THEN <<>> ELSE Unit(StatusOfChunk[state], 0))
  /\ loc' = [loc EXCEPT ![w].i = @ + 1]
  /\ Handling(w) /\ UNCHANGED <<wpc, job, buf, m_contextMap, died, sock>>

ScanChunk(w) ==
  /\ wpc[w] = "scan" /\ loc[w].i <= Len(Context(w).ExecutionChunks)
  /\ LET state == Context(w).ExecutionChunks[loc[w].i].State
     IN  IF Passes(state)
         THEN /\ loc' = [loc EXCEPT ![w].i = @ + 1]
              /\ UNCHANGED <<wpc, job, buf, reply>>
         ELSE Answer(w, Unit(StatusOfChunk[state], 0)) /\ Finish(w)
  /\ Handling(w) /\ UNCHANGED <<m_contextMap, died, sock>>

AnswerDone(w) ==   \* mutant: the chunk's state is sent for the task's status
  /\ wpc[w] = "scan" /\ loc[w].i > Len(Context(w).ExecutionChunks)
  /\ Answer(w, Unit("Done", 0)) /\ Finish(w)
  /\ Handling(w) /\ UNCHANGED <<m_contextMap, died, sock>>

AnswerFinished(w) ==
  /\ wpc[w] = "scan" /\ loc[w].i > Len(Context(w).ExecutionChunks)
  /\ Answer(w, Unit("Finished", 0)) /\ Finish(w)
  /\ Handling(w) /\ UNCHANGED <<m_contextMap, died, sock>>

-----------------------------------------------------------------------------
(* ProcessTaskResult().                                                     *)

ZeroByte == [kind |-> "zero", half |-> 1, val |-> 0]

WriteNumBytes(w) ==
  /\ wpc[w] = "result" /\ Goto(w, "copy")
  /\ Answer(w, Field("size", Len(Context(w).Body)))
  /\ buf' = [buf EXCEPT ![w] = [k \in DOMAIN Context(w).Body |-> ZeroByte]]
  /\ loc' = [loc EXCEPT ![w].i = 1]
  /\ Handling(w) /\ UNCHANGED <<job, m_contextMap, died, sock>>

(* ChunkMutex: a delegate holds it from "compute" on.                       *)
ChunkFree(c, i) ==
  \A w \in Workers : ~(job[w] = Chunk(c, i) /\ wpc[w] \in {"compute", "done"})

Copied(w) == loc[w].i = Len(Context(w).ExecutionChunks)

(* The units of Body a set of columns stands for.                           *)
Units(columns) == {col + 1 : col \in columns}

(* An access behind the end of Body does nothing good: it may end the process*)
(* or go unnoticed.                                                         *)
OutOfRange == died' \in {died, "out of range"}

CopyChunk(w) ==
  LET body == Context(w).Body
      part == Units(ChunkExtent(Context(w).ExecutionChunks[loc[w].i]))
  IN  /\ wpc[w] = "copy" /\ ChunkFree(Client(w), loc[w].i)
      /\ \/ /\ part \subseteq DOMAIN body
            /\ buf' = [buf EXCEPT ![w] =
                         [k \in DOMAIN body |-> IF k \in part THEN body[k] ELSE @[k]]]
            /\ UNCHANGED died
         \/ /\ ~(part \subseteq DOMAIN body)
            /\ OutOfRange /\ UNCHANGED buf
      /\ loc' = [loc EXCEPT ![w].i = @ + 1]
      /\ Goto(w, IF Copied(w) THEN "write" ELSE "copy")
      /\ Handling(w) /\ UNCHANGED <<job, m_contextMap, sock, reply>>

(* One turn of the loop that sends.  To a client that has gone send fails,   *)
(* Write returns 0, and the turn changes nothing.                            *)
WriteResult(w) ==
  /\ wpc[w] = "write" /\ (Client(w) \notin gone \/ buf[w] = <<>>)
  /\ \E n \in 0 .. Len(buf[w]) :
       /\ Answer(w, First(buf[w], n))
       /\ IF n = Len(buf[w]) THEN Finish(w)
          ELSE buf' = [buf EXCEPT ![w] = Without(@, n)] /\ UNCHANGED <<wpc, job, loc>>
  /\ Handling(w) /\ UNCHANGED <<m_contextMap, died, sock>>

-----------------------------------------------------------------------------
(* The task delegate of Main.cpp, on one chunk: it holds ChunkMutex while it *)
(* works on its part of Body, and marks the chunk before it lets go.         *)

StartChunk(w) ==
  /\ wpc[w] = "chunk" /\ ChunkFree(Client(w), job[w].chunk)
  /\ Goto(w, "compute")
  /\ UNCHANGED <<pollVars, queue, job, loc, buf, m_contextMap, died, sockVars>>

(* The units the delegate of a job works on.                                *)
Columns(w) ==
  Units(ChunkColumns(Context(w).ExecutionChunks[job[w].chunk], Context(w).Header))

Execute(u) == [u EXCEPT !.kind = IF @ = "raw" THEN "final" ELSE @]

(* A header without rows makes it divide by zero.                           *)
ComputeChunk(w) ==
  /\ wpc[w] = "compute" /\ Goto(w, "done")
  /\ \/ Context(w).Header = 0 /\ Throw /\ UNCHANGED m_contextMap
     \/ /\ Context(w).Header # 0 /\ Columns(w) \subseteq DOMAIN Context(w).Body
        /\ SetContext(Client(w), [Context(w) EXCEPT !.Body =
             [k \in DOMAIN @ |-> IF k \in Columns(w) THEN Execute(@[k]) ELSE @[k]]])
        /\ UNCHANGED died
     \/ /\ Context(w).Header # 0 /\ ~(Columns(w) \subseteq DOMAIN Context(w).Body)
        /\ OutOfRange /\ UNCHANGED m_contextMap
  /\ UNCHANGED <<pollVars, queue, job, loc, buf, sockVars>>

LeavesUnmarked(w) ==   \* mutant: the delegate does not say that it is done
  /\ wpc[w] = "done" /\ Finish(w)
  /\ UNCHANGED <<pollVars, queue, m_contextMap, died, sockVars>>

MarkDone(w) ==
  /\ wpc[w] = "done" /\ Finish(w)
  /\ SetContext(Client(w), [Context(w) EXCEPT !.ExecutionChunks[job[w].chunk].State = "Done"])
  /\ UNCHANGED <<pollVars, queue, died, sockVars>>

-----------------------------------------------------------------------------

PoolStep(w) == Take(w) \/ FindEmpty(w) \/ Wait(w)

RequestStep(w) ==
  \/ NothingRead(w) \/ IgnoreRequest(w)
  \/ ReadTaskSubmition(w) \/ ReadTaskStatus(w) \/ ReadTaskResult(w)
  \/ ShortRead(w) \/ ReadHeader(w) \/ RejectNumChunks(w) \/ ReadNumChunks(w)
  \/ ReadChunk(w) \/ ReadNumBytes(w) \/ ReadBody(w) \/ SubmitChunk(w)
  \/ ScanChunk(w) \/ AnswerFinished(w)
  \/ WriteNumBytes(w) \/ CopyChunk(w) \/ WriteResult(w)

ChunkStep(w) == StartChunk(w) \/ ComputeChunk(w) \/ MarkDone(w)

WorkerStep(w) == PoolStep(w) \/ RequestStep(w) \/ ChunkStep(w)
InitStep == StartListening \/ StartClientThread \/ MakePool
PollStep == PollRwClients \/ SubmitWork

ServerStep ==
  InitStep \/ PollStep \/ AcceptFails
  \/ \E w \in Workers : WorkerStep(w) \/ ConnectionReset(w)

EChunkState == {"Invalid", "InProgress", "Done", "Aborted"}

ServerTypeOK(StreamUnits) ==
  /\ initialized \in {"constructed", "listening", "polling", "ready"}
  /\ m_clients \in Seq(Clients) /\ rwClients \in Seq(Clients)
  /\ queue \in Seq(Jobs \ {Idle})
  /\ wpc \in [Workers -> PoolPoints \cup {"work"} \cup HandlerPoints \cup ChunkPoints]
  /\ job \in [Workers -> Jobs]
  /\ loc \in [Workers -> [num : Nat, i : Nat, header : Nat]]
  /\ buf \in [Workers -> Seq(StreamUnits)]
  /\ DOMAIN m_contextMap \subseteq Clients
  /\ \A c \in DOMAIN m_contextMap :
       m_contextMap[c] \in [Header : Nat, Body : Seq(StreamUnits), ExecutionChunks :
         Seq([State : EChunkState, NumBytes : Nat, BufferOffsetInBytes : Nat])]
  /\ died \in {"no", "null pool", "exception", "out of range"}
=============================================================================
