# A verification project for AsyncSockets

AsyncSockets is a client and a server that exchange tasks over Winsock. The
client sends a body of bytes cut into chunks; the server's thread pool runs a
user-supplied delegate on each chunk; the client asks until the task is finished
and fetches the body back. `AServer` and `AClient` are a server and a client
that put the maximum of every column of a matrix on its diagonal.

This directory holds TLA+ modules that model the thread pool and the two
programs, TLC configurations that check them on small instances, and proofs that
TLAPS checks for every instance. Paths below are relative to `src/`.

To run one configuration: `tlc -workers 2 -config MCThreadPool_safety.cfg
MCThreadPool`. To check proofs: `tlapm ThreadPoolProofs.tla`.

## 1. The system

| Part | Code | State | Operations |
|---|---|---|---|
| `TpExecutionQueue` | `Threadpool/src/ExecutionQueue.{h,cpp}` | a queue of bound calls, its own read-write lock | `PushTask`, `PopTask`, `GetNumTasks`, `Cleanup` |
| `ThreadPool` | `Threadpool/src/ThreadPool.h`, `Threadpool.cpp` | `m_State`, worker threads, two condition variables, `m_RwLock`, `m_Metrics` under `m_MetricsLock` | constructor, `SubmitTask`, `Work`, `Terminate` |
| Server sockets | `AServer/src/AsyncSock.*` | the listener, `m_clients`, `m_socketCommunicatorMap`, a `CommunicatorMutex` per client | `Init`, `PollRwClients`, `Accept`, `Read`, `Write` |
| `ClientTaskMap` | `AServer/src/AsyncTask.*` | `m_contextMap`: one `TaskContext` (chunks with state and mutex, body) per socket | `HasTaskContext`, `AddTaskContext`, `GetTaskContext` |
| `ServerTaskHandler` | `AServer/src/AsyncTask.h` | server, poll thread, delegate, pool, task map | `Init`, `UpdateClients`, `ProcessTask{Submition,Status,Result}`, destructor |
| Server program | `AServer/src/Main.cpp` | the matrix delegate | computes one chunk under its `ChunkMutex`, marks it `Done` |
| Client sockets | `AClient/src/AsyncSock.*` | one blocking socket | `Connect`, `Disconnect`, `Read`, `Write` |
| `ClientTaskHandler` | `AClient/src/AsyncTask.*` | a `Client` | `Connect` with retries, `SubmitTask`, `GetTaskStatus`, `GetTaskResult` |
| Client program | `AClient/src/Main.cpp` | a matrix | fills it with several threads, partitions it, submits it, asks every second |
| `Timings` | `Threadpool/src/Timings.h` | the system clock | `Now`, `Elapsed` |

How they interact. One poll thread (`UpdateClients`) waits for readable
connections and submits one `work` job per readable client to the pool. A worker
runs `work` under the client's `CommunicatorMutex`: it reads one byte, the
request type, and handles the request to its end. A submission reads the header,
the number of chunks, the chunks and the body, and submits one delegate job per
chunk *to the same pool*. Delegates and the result request share each chunk's
`ChunkMutex`; the status request reads atomics only. The client is one thread on
a blocking socket.

What is hard about it:

- *Threads.* The pool's queue, state and metrics are under three locks, and
  several operations touch them without the one that would protect them
  (`notify_one`, the queue size). `Terminate` races with submissions, with
  initialisation and with another `Terminate`.
- *Duplicated work.* The poll reports a client as readable until somebody has
  read, so any number of jobs can be queued for the same request.
- *A stream without boundaries.* The accepted sockets do not block, so a field
  that has not arrived in full is read short; nothing re-synchronises a reader
  that has lost its place.
- *Workers as a shared, finite resource.* Request handlers block on a mutex or
  spin on a socket while chunk jobs wait behind them.
- *Failure.* Clients disappear in the middle of a request, close with bytes
  unread, or are refused; exceptions on a worker or on the poll thread end the
  process.
- *Arithmetic.* Chunks are described in bytes by one program and turned back
  into columns by the other; the averages of the pool are rounded again and
  again, and mix signed and unsigned numbers.

What makes each part correct: the pool neither loses nor repeats a task, does
not strand one, and shuts down completely; the server reads requests in step
with the stream, answers each once, runs each chunk once and on a complete body;
the client gets *Finished* only with the executed body; everybody who asks is
answered. The hazards behind these are listed, each at its line, in
`PROJECT.json`.

## 2. Modules and plan

| Module | What it is | Status |
|---|---|---|
| `TaskPool` | abstract: what a pool promises its users | done |
| `ThreadPool` | the pool, thread by thread; implements `TaskPool` | done |
| `ThreadPoolProofs` | theorems about `ThreadPool` | done |
| `Winsock` | stream sockets, as the programs use them (external) | done |
| `ClientTaskHandler` | the client program over `Winsock` | done |
| `ServerTaskHandler` | the server program over `Winsock` and a reduced pool | done |
| `RemoteTask` | abstract: what the two programs promise the client's user | done |
| `AsyncSockets` | client and server composed; properties; implements `RemoteTask` | done |
| `MatrixPartition` | the matrix in columns, threads, chunks and bytes, on both sides | done |
| `MatrixPartitionProofs` | theorems about `MatrixPartition` | done |
| `TpAverages` | the two running averages of `TpMetrics`, their rounding and widths | done |
| `TpAveragesProofs` | theorems about `TpAverages` | done |
| `AsyncSocketsProofs` | theorems about the composition: types, `CommunicatorMutex` | done |
| `TaskProofs` | theorems about it: chunk jobs, *Finished* | done |
| `StreamProofs` | theorems about it: the reader's place in the stream, what it reads | done |
| `ResultProofs` | theorems about it: one answer per question, the result, `ImplementsRemoteTask` | done |

`ClientTaskHandler` and `ServerTaskHandler` both extend `Winsock` and
`MatrixPartition`, and `AsyncSockets` extends the two. `MCThreadPool`,
`MCTpAverages` and `MCAsyncSockets` give TLC model values, bounds and symmetry;
each `.cfg` is one instance. The proof modules of the composition extend one
another in the order of the table: `TaskProofs` needs the types, `StreamProofs`
needs both, and `ResultProofs` needs all three.

## 3. The thread pool

### Model

`ThreadPool` has one program counter per thread. A step is what a thread does
between two points where another can be seen: a critical section of `m_RwLock`,
a call on the queue, one unprotected access to `m_Metrics`, one operation on a
condition variable.

| Actions | Code |
|---|---|
| `SpawnWorker`, `NotifyInitialized` | the constructor |
| `SubmitTask`, `WaitUntilInitialized`, `InitWaitTimeout`, `InitWaitSpurious`, `InitWaitExpired`, `PushTask`, `LoadNumTasks`, `StoreQueueSize`, `NotifyOne` | `SubmitTask` from `IsTerminated()` to its return |
| `WorkEntry`, `Retrieve`, `Sleep`, `SpuriousWake`, `FinishTask`, `LoadMetrics`, `ReloadQueueSize`, `RecordMetrics` | one turn of `Work` |
| `Terminate`, `Cleanup`, `CheckInitialized`, `NotifyTerminated`, `Join`, `JoinRaces` | `Terminate` |

- `Retrieve` is the wait predicate: it pops first and looks at the state after,
  so a terminated pool drops what it popped. It keeps `m_RwLock` when there is
  nothing to do; `Sleep` is the release and the enqueueing on the condition
  variable. A `notify_one` between the two wakes nobody, because `SubmitTask`
  notifies without the lock; `missed` remembers that this has happened.
- `StoreQueueSize` and `RecordMetrics` race on `TaskQueueSize` (the store is
  outside `m_MetricsLock`). `if (x > 0) x--` may use the value it tested or load
  again (`ReloadQueueSize`), and it wraps modulo `SizeModulus`.
- The queued binding refers to the caller's callable (`[&task, args...]`). A
  temporary is gone when `SubmitTask` has returned: `Dangling`.
- A default-constructed pool has uninitialised metrics (`Garbage`) and no worker.
- A worker that is also a submitter calls `SubmitTask` inside the task it runs,
  as a server worker does for chunk jobs.
- Two calls of `Terminate` that both came before the flag join the same
  `std::thread`s and nothing orders their `joinable()` and `join()`: that is
  undefined, so a call that races with another may also throw (`JoinRaces`). A
  call that comes after the flag returns at once.
- An exception that leaves `SubmitTask` or `Terminate` is caught nowhere and ends
  the process (`Aborted`).
- `created`, `done`, `dropped`, `missed` are history variables; no guard of the
  program reads any of them, except that a task is created once.

`TaskPool` has a FIFO queue, a slot per worker, and two flags: `closing`, a
shutdown has begun, and `closed`. Nothing starts once it is closed, and nothing
is discarded before `closing`. `ThreadPool` implements it with `queue <-
m_Queue`, `slot <- task`, `closing <- ~NobodyTerminates` and `closed <- (m_State
= "Terminated")`.

### Runs

| Run | Instance | Shows |
|---|---|---|
| `pool_safety` | 2 workers that also submit, 1 submitter, 2 terminators, 3 tasks whose callables are temporaries | every task is in exactly one place; `NumTasksDone` is exact; a task is stranded only after a missed notification; while a worker is inside a terminated pool some call joins it, whichever of the two calls came first (`LiveWorkersAreJoined`); `SubmitTask` does not throw before somebody terminates; nothing is taken after termination; nothing is discarded before a shutdown begins, also by two at once (`ImplementsTaskPool`) |
| `pool_liveness` | 2 workers, one of which also submits, 1 submitter, 1 terminator, 2 tasks, fair | `Terminate` returns, also when a worker it joins is inside `SubmitTask`; a queued task leaves unless a notification was missed |
| `pool_lost_wakeup` | 1 worker, 1 task, fair | violated: a task stays queued for ever beside an idle worker (`ThreadPool.h:6` promises otherwise) |
| `pool_dangling` | 1 worker, 1 task that is a temporary | violated: a worker invokes a callable that has been destroyed |

What the model shows besides, and no property forbids, because the code does it
and the repository does not say what it should do:

- a second `Terminate` that finds the flag set returns while the first is still
  joining workers (`LiveWorkersAreJoined` says what is left: somebody joins them);
- a `SubmitTask` that finds the pool not terminated, and then waits while it is
  terminated, throws after two seconds; a little later it would have been queued,
  where nobody takes it any more;
- `SubmitTask` on a default-constructed pool, like the one of `Example.cpp`, waits
  and throws;
- `TaskQueueSize` drifts: two submitters store what they read in another order,
  and a 0 stored between a worker's test and its decrement makes it wrap. Nothing
  but the counter itself depends on it.

Bounds. The races involve at most two workers, one outside submitter and two
terminators; three tasks let one run, one be queued and one be on its way. That
all callables are temporaries only adds to what may go wrong (a worker that
invokes one may find it gone), and makes the tasks alike. `SizeModulus` is 4, so
that the counter can wrap with three tasks; it is 2 in `pool_liveness`, where
nothing depends on its value. Workers and tasks are interchangeable (`Symmetry`,
in `pool_safety` only). `JoinRaces` lets calls race only while they are joining
at the same time. `Tasks` bounds the calls of `SubmitTask`; nothing else is
capped. `NumTasksDone` is a natural number: it would need 2^64 tasks to wrap.

Fairness. A thread inside an operation keeps running (weak for the constructor,
which is never contended; strong for the others, because `m_RwLock` and
`m_MetricsLock` can be taken by others again and again and a mutex does not
starve one thread for ever). `wait_for` gives up at its deadline, however often
it woke up before: strong fairness of `InitWaitTimeout`. Nobody has to submit,
terminate or wake up spuriously; a task returns.

### The averages

`TpAverages` is the part of `Work` that `ThreadPool` leaves out: what one worker
at a time does to `AvgTaskExecutionTimeMs` and `AvgThreadStalledTimeMs` under
`m_MetricsLock`. `Record` is one such update; it stands on its own because the
lock makes the updates a sequence (`MetricsCountTasks`, proved for `ThreadPool`,
says that `NumTasksDone` is exact) and nobody else writes them. `ToSize` and
`ToMs` are the conversions between `size_t` and `Milliseconds`, modulo `Modulus`.
The two formulas differ: the execution average is a sum divided by a `size_t`,
hence without a sign; the stalled time is divided by a `uint32_t`, hence with
one. `executed`, `stalled`, `setBack` and `overflown` are history.

`pool_averages` records five tasks of -2, 0, 1 or 5 ms in numbers of ten bits. A
negative duration is what `Elapsed` gives when the system clock was set back;
its sum becomes an enormous unsigned number, which the states contain. What
holds: both values stay `Milliseconds` (`TypeOK`); while the clock runs forwards
the execution average is never above the mean of what was measured and, after n
tasks, at most (n - 1) / 2 ms below it (`ExecutionAverageError`: the error
*grows* with the number of tasks); the stalled time is the total, over all
workers, divided by their number, off by less than a millisecond per task
(`StallAverageError`). Nothing is said of the execution average after a negative
sum, when it is larger than any task was long. `AvgThreadStalledTimeMs` is
called an average, but it is a total over the tasks: while the clock runs
forwards it only grows. The run ends at `MaxTasks`, hence `CHECK_DEADLOCK
FALSE`.

### Proofs

`TpAveragesProofs` proves these three invariants for all durations, widths and
numbers of workers and tasks: `AveragesTypeOK`, `AveragesExecutionError`,
`AveragesStallError`. They are inductive together. The argument is that each
conversion is the identity on numbers that fit (`ToMsInverse`), that a division
loses at most its divisor less one (`Remainder`, `QuotientError`), and that these
losses add up.

`ThreadPoolProofs` proves, for any finite sets of workers and tasks and any
submitters and terminators:

| Theorem | Assumes besides `PoolAssumption` |
|---|---|
| `PoolTypeOK` | - |
| `PoolKeepsTasks`: `NoTaskLostOrDuplicated` | - |
| `PoolNoTaskTakenAfterTermination` | - |
| `PoolImplementsTaskPool` | - |
| `PoolStrandedOnlyByMissedNotify` | - |
| `PoolLiveWorkersAreJoined`: `LiveWorkersAreJoined` | - |
| `PoolMetricsCountTasks` | `~DefaultConstructed` (the counter starts as garbage otherwise) |
| `PoolNoThrowBeforeTerminate` | `~DefaultConstructed` (false otherwise) |

`PoolAssumption` says that terminators are neither workers nor submitters, that
the owner is a terminator, and that workers and tasks are finite. Argument:
`TypeInv` is `TypeOK` with `Hands`: a worker holds a task exactly while it runs
it, and a submitter an argument exactly while it is inside `SubmitTask`. It is
needed because `Held` and `Unpushed` are computed from these registers.
`TaskInv` adds to `NoTaskLostOrDuplicated` that no two submitters carry the same
argument; without it a push could duplicate a task. `QuietSteps` shows once that
the steps which touch neither queue nor registers preserve it. `CtorInv` (nobody
has begun to terminate while the constructor runs) makes termination final: a
late `NotifyInitialized` would revive the pool. `CountInv` says that a worker
inside `m_MetricsLock` has an up-to-date copy of the counter, and that it is
alone there. `ThrowInv` relates the submitters' program counters to the state.
`LiveWorkersAreJoined` is inductive on top of `TypeInv`: the call that flags the
pool goes on to join in the same step, and a call leaves `join` only with all
workers out, or by throwing. The refinement is proved step by step on top of
these invariants.

## 4. The client and the server

### Model

`Winsock` is the network. A connection is made when the server listens and its
backlog has room (`Refused`), and waits there to be accepted. What a client has
sent is in `flight`, what has arrived and was not read is in `sock`; the server's
answers are in `reply`. `Arrive` moves a prefix. A client that closes its
connection (`closed`) may still have bytes under way; bytes it did not read reset
the connection (`ResetByPeer`). A stream is a sequence of units: everything of one
byte (request type, status) and every column of the body is one unit; a number,
and a struct of two numbers, is two, so that it can be seen cut. The number of
bytes of a body is counted in columns. `RequestCuts` and `ReplyCuts` say where the
network may cut a stream:

- `"messages"`: the fields of one message (request type, header, number of
  chunks, chunks, size) arrive together; the body may be cut anywhere. This is
  the assumption under which the server's non-blocking reads work at all, since
  `ProcessTaskSubmition` asserts that every field is there when it asks for it.
- `"fields"`: fields of a message may arrive separately.
- `"bytes"`: a field may arrive in parts. This is what TCP guarantees.

`ClientTaskHandler` is the client program.

| Actions | Code |
|---|---|
| `Connect`, `ConnectFails` | one attempt of `InternalConnect`, with `Client::Connect` and its `Disconnect()` on failure |
| `GiveUp` | `Connect` returns `Failed`, and so does `Communicate()` |
| `SubmitTask` | the filled matrix, its chunks and the whole submission |
| `AskStatus`, `ReadStatus`, `ReadResultSize`, `ReadResult` | one turn of the loop around `GetTaskResult`, each `recv` taking what is there |
| `Leave` | the end of `Communicate()`: the handler and its socket are destroyed |
| `Quit` | external: the process or the machine stops; its unsent bytes are lost |

`MatrixPartition` is the arithmetic of the matrix: which columns each thread fills
(`FilledColumns`; a column that nobody filled is sent as zeros), the bytes of each
chunk (`BodyChunk`), and the columns the server's delegate computes back from
them (`ChunkColumns`). The two divisions that make the partition, by threads and
by chunks, are the same rule: equal parts, and what is left over to the last.

`ServerTaskHandler` has the poll thread and the workers.

| Actions | Code |
|---|---|
| `StartListening`, `StartClientThread`, `MakePool` | `Init`, in its order |
| `PollRwClients`, `SubmitWork`, `AcceptFails` | `UpdateClients` with `Server::PollRwClients` and `Accept` |
| `Take`, `FindEmpty`, `Wait`, with `Notify` and `Finish` | the pool, reduced: FIFO queue, workers, a `notify_one` that is lost between `FindEmpty` and `Wait` |
| `NothingRead`, `IgnoreRequest`, `ReadTaskSubmition`, `ReadTaskStatus`, `ReadTaskResult` | `work` under `CommunicatorMutex`: the first read and the switch |
| `ReadHeader`, `ReadNumChunks`, `RejectNumChunks`, `ReadChunk`, `ReadNumBytes`, `ReadBody`, `SubmitChunk`, `ShortRead` | `ProcessTaskSubmition`, one step per read |
| `ScanChunk`, `AnswerFinished` | `ProcessTaskStatus`, one step per chunk |
| `WriteNumBytes`, `CopyChunk`, `WriteResult` | `ProcessTaskResult`, one step per chunk and per `send` |
| `StartChunk`, `ComputeChunk`, `MarkDone` | the matrix delegate, under `ChunkMutex` |
| `ConnectionReset` | a `recv` (or asserted `send`) on a connection that was reset |

- *The macro.* `ASOCK_THROW_IF_FALSE(Read(n) == sizeof(n) && n > 0)` expands to
  `Read(n) == sizeof(n) && (n > 0) == FALSE`: it throws only for a complete zero.
  `ReadNumBytes` and `ReadResultSize` do what the expansion does; a number of
  which only the low bytes came is any smaller one.
- *A reader out of place.* A unit that is not what the reader expects can spell
  any request or count (`Requests`, `Values`), and any number of rows or bytes out
  of `Misread` (`Numbers`). A request type and a status are read as one byte
  (`AfterByte`): of a longer unit the rest stays in the stream (`Rest`) and is no
  beginning of anything; a column thus gives two wrong bytes where it has 8192.
- *The task map.* `AddTaskContext` tests and inserts under two locks and returns
  null for a client that has a task; under the client's `CommunicatorMutex` its
  test repeats the one of `ReadTaskSubmition`, so the model has it once.
- *The delegate* works on the columns it computes from its chunk's bytes and the
  rows in the header it was given a copy of. A header without rows makes it
  divide by zero, which ends the process like an exception. It holds the
  `ChunkMutex` of its chunk while other delegates write to the same `Body`.
- *Outside the body.* A chunk that lies behind the end of `Body` may end the
  process or go unnoticed, and both are explored.
- *Mutexes.* `CommunicatorMutex` is held exactly at `HandlerPoints`, `ChunkMutex`
  from `compute` on; both are released by the end of the job. `BodyMutex` is
  locked by one function only and has no effect.
- *The pool* is not the full `ThreadPool`: the handlers need only what
  `ImplementsTaskPool` promises (FIFO, one task per worker, nothing lost) and the
  one liveness defect of section 3, the lost notification. Push and `notify_one`
  are one step here; a worker may be between predicate and wait at that moment,
  which is where the notification is lost. A worker that wakes up spuriously is a
  worker that has not begun to wait. The server never terminates its pool.
- *The process ends* (`died`) on an exception that leaves a noexcept binding or a
  thread function, and on the use of the null pool.
- *A client that has gone* can make its end of stream readable for ever; jobs
  for it find nothing.

`RemoteTask` knows no sockets and no threads: a task is accepted once, each
chunk is executed once, *Finished* is told only when all are, together with the
whole result. The mapping takes `accepted` from the task map, `executed` from
the chunk states, `answer` from what the client was told, and `given` from the
bytes it was given: `ExecutedMatrix`, in which every column of the matrix was
filled and executed (a column that no thread filled would be zero).

### Runs

| Run | Instance | Shows |
|---|---|---|
| `net_safety` | 1 client with 2 attempts that may leave, 3 columns filled by 2 threads and sent in 2 chunks, 3 workers, messages whole, body in pieces, fair | the type invariant; requests are read in step (`RequestsInStep`); each question has one answer (`OneAnswerPerRequest`); each chunk has exactly one job, once its body is there, on columns inside the body and its own (`EachChunkOnce`, `ChunksInsideBody`, `DelegatesApart`); *Finished* is true and comes with the executed matrix, every column filled (`FinishedMeansAllDone`, `ResultIsComplete`); the process ends only for want of a pool or after a reset; `ImplementsRemoteTask`; every question is answered and the client ends, lost notifications included |
| `net_adverse` | 1 client, 1 worker, 1 chunk; fields cut anywhere; empty, right and oversized partitions; the client may disappear at any moment, with or without a reset, accepted or not | the server loses its place in the stream, takes the rest of a rejected submission for requests, a second submission among them, and may end, but no chunk is executed twice and no *Finished* is false |
| `net_null_pool` | 1 client | violated: the poll thread is started before the pool exists, after the log has said that the server is initialised; a client that is quick makes it use the null pool |
| `net_fields` | fields arrive separately | violated: a request type whose header has not arrived ends the server |
| `net_whole_body` | the array of chunks is left empty | violated: the server rejects the count 0 and the client is told *NotFound*, although `AClient/src/AsyncTask.h:56` offers this |
| `net_stalled` | 2 clients, 1 worker; one may disappear, fair | violated: a client that stops within its body keeps the worker for ever, and the other is never answered |
| `net_retry` | 1 client with 2 attempts, fair | violated: an attempt fails although the server is there, because the first failure has forgotten the socket (`FailsOnlyIfRefused`; the log says "Retrying") |

In `net_adverse` the other properties are false; what is left is what the locks
and the task map guarantee whatever is read. The steps that break them are in
the model: a rejected number of chunks leaves the rest of the submission in the
stream, to be read as request types, and so does a second submission (the client
program makes none, a reader out of place may find one); half of a size passes
the macro, on both sides; the loops that read a body from, or write a result to,
a client that has gone never end. That a result in pieces is reported as
*Failed* has a sequel that `net_safety` finds: such a client leaves with bytes
unread, its close resets the connection, and the next `recv` throws in the
server and ends it. `DiesOnlyOfPoolOrReset` therefore has to allow a death after
a reset. `PROJECT.json` quotes the lines of the departures that have a run.

Connecting. `Client::Connect` closes its socket when it fails and nobody makes
another, so that of the `MaxConnectionAttempts` attempts only the first can
succeed; a client that starts before the server listens, or finds the backlog
full, ends with `Failed` even if the server is there two seconds later.
`net_retry` shows it; `EveryClientEnds` counts it as an end.

Bounds. Interference between jobs of one client needs two jobs at a time and one
worker that runs chunks: three workers. Two chunks are the least for which the
scan of the states, the copy of the result and the order of the chunk jobs
matter, and three columns the least that neither two chunks nor two threads
divide evenly, so that a remainder that is forgotten in either division is seen.
`net_adverse`, where every misread number is explored together with every cut
and every end of the connection, has one worker, one chunk and one column.
`Partitions` adds 0 and one more than `MaxChunks`, which stands for the 256 of
the code. A field that is misread takes as many units as it would in its place,
two; a request type takes half of one (`AfterByte`). `Misread` has a number of
rows or bytes that is 0 and, in `net_adverse`, one that is a column's (4); an
offset of 4 lies behind a body of one column. `MaxConnectionAttempts` is 2 (1 in
`net_adverse`): what distinguishes attempts is whether one was made before.
`NumMaxConnections` is 1, so that the second of two clients can be refused.
`Leavers` and `Quitters` are the clients that may end in those two ways; each
run names the ones its question is about. `net_stalled` has two clients and one
worker, the least with which one client can wait for another; the other
violation runs have as little of everything as their question needs. Of several
clients the safety properties are proved for any number, while liveness is
checked of one. `MaxDuplicates` bounds the jobs queued for one client: beyond it
a poll still notifies but queues nothing. The real queue grows without bound
there, and what one more identical job could do, the one in the queue can do.
The status loop of the client is a loop in the state graph and needs no bound.
No symmetry is used here.

Fairness (`FairSpec`). Weak for `Init`, the poll thread, the network and each
client: their steps stay enabled until they are taken. Strong for each worker,
because `CommunicatorMutex`, `ChunkMutex` and the queue are contended and are
neither denied to one thread for ever. `Arrive` being fair says that TCP delivers
what was sent while both ends are there. Nothing is assumed of what nobody has to
do: a client need not leave or disappear, a connection need not be reset, an
accept need not fail.

### Proofs

`MatrixPartitionProofs` proves, for every number of columns and of threads or
chunks (all positive, `MatrixAssumption`):

- `EveryColumnIsFilled`: the threads fill exactly the columns of the matrix, also
  when there are more threads than columns;
- `ChunksPartitionColumns`: the columns that the delegates recompute from bytes
  are those of the matrix, each in one chunk only.

Both rest on one fact about equal parts with the remainder added to the last
(`PartsPartition`, from `PartBounds`, `PartsDisjoint` and `PartsCover`) and on the
exactness of the delegate's divisions on what the client sends
(`DelegateColumns`, and `ExtentColumns` for the copy of the result).

About the composition the following is proved, for every number of clients,
workers, connection attempts, columns and chunks, duplicate jobs included, from
the assumptions on the constants (`WinsockAssumption`, `ClientAssumption`,
`ServerAssumption`, `MatrixAssumption`). "Whole requests" is one more
hypothesis: `WholeRequests` says that `RequestCuts` is `"messages"` and that the
client's partition has 1 to `MaxChunks` chunks. Without it these properties are
false, as `net_fields` and `net_whole_body` show; the code relies on it
(`ProcessTaskSubmition` asserts that each field is there). The other theorems
hold for all three values of `RequestCuts` and any partition. "Whole sizes"
(`WholeSizes`) says that `ReplyCuts` is not `"bytes"`, so that the client's one
`recv` of the size of its result gets all of it; the macro that should assert
this lets half of a number pass, and the client may then take the rest of the
number and a part of the result for the whole. The result itself may be cut
where `ReplyCuts` allows; a client that gets it in pieces ends with *Failed*.
`OnePartition` says that every client makes `NumChunks` chunks, as the client
program does: `RemoteTask` has one number of chunks.

| Theorem | Module | Assumes besides |
|---|---|---|
| `TypesAreRespected`: `TypeOK` | `AsyncSocketsProofs` | - |
| `RequestsHandledApart`: one handler per client | `AsyncSocketsProofs` | - |
| `ChunksExecutedOnce`: `EachChunkOnce` | `TaskProofs` | - |
| `FinishedIsTrue`: `FinishedMeansAllDone` | `TaskProofs` | - |
| `ReadersKeepStep`: `RequestsInStep` | `StreamProofs` | whole requests |
| `DelegatesStayInside`: `ChunksInsideBody` | `StreamProofs` | whole requests |
| `DelegatesWorkApart`: `DelegatesApart` | `StreamProofs` | whole requests |
| `ServerSurvivesRequests`: `DiesOnlyOfPoolOrReset` | `StreamProofs` | whole requests |
| `ResultIsWhole`: `ResultIsComplete` | `ResultProofs` | whole requests, whole sizes |
| `QuestionsAnsweredOnce`: `OneAnswerPerRequest` | `ResultProofs` | whole requests, whole sizes |
| `ProgramsImplementRemoteTask`: `ImplementsRemoteTask` | `ResultProofs` | whole requests, whole sizes, `OnePartition` |

None of these invariants is inductive as it stands.

- *Types* (`TypeInv`). `TypeOK` alone is not preserved: a step reads
  `m_contextMap[Client(w)]` and a chunk of it. `JobOK` says which job a worker at
  each point has, `HandlersApart` that two handlers have different clients,
  `ChunksKnown` that the chunk of every queued or running job exists, and
  `HandlerOK` what a handler in the middle of its request relies on (its task is
  in the map, its counter is inside the chunks, the body is no longer than its
  size). The proof goes in two halves, control (which point each worker goes to
  and with which job, `WorkerControl`) and data, because the first needs nothing
  of the second. What the server has been sent is in `DataUnits`, units that are
  no answers, which keeps the two directions of a connection apart.
- *Chunk jobs* (`ChunkInv`). `EachChunkOnce` counts; the proof speaks of places
  instead: no job is queued twice, held twice, or both, and a chunk that is
  neither done nor still to be submitted is in one of these places. The count
  follows at the end (`UsesOfChunk`).
- *Finished* (`FinishInv`): the chunks a scan has passed are done. It is what the
  handler knows between two of its steps while workers go on marking. A scan sees
  all chunks of its task because its submission and the scan both hold the
  `CommunicatorMutex`, and the answer stays true because no chunk is added for a
  client that has been told *Finished*.
- *The stream* (`StreamInv`). For each client there is the number `r` of units
  that the server has read of what the client has sent, a submission and at most
  one question after it. `Arrived` says that `sock` and `flight` are the rest, in
  order; `Progress` relates `r` to where the handler is and to what of the task is
  in the map, chunk by chunk and by the length of the body; `Talk` says that a
  question is asked only when the last one is answered, which is why there
  is at most one. From `Progress`, the number that a handler reads is the one
  that was sent: nothing is misread, no read is short (`NoShortRead`), and a task
  whose body is complete is the client's own (`WholeTask`). With
  `MatrixPartitionProofs` the delegates' columns are then inside the body and
  apart. Before a client has submitted (`Silent`), duplicate jobs find nothing.
- *The body* (`BodyInv`): every column of a body is raw or executed, and it is
  executed if it lies in a chunk whose delegate has written (`Written`: done, or
  about to be marked). A column, once executed, stays so, whichever delegate
  writes next. When all chunks are done, the body is the client's, executed, since
  the chunks cover the matrix (`FinalBody`).
- *The result* (`ResultInv`). A client that was told *Finished* is in one of three
  situations: its request is on its way or with a handler (`Pending`), a handler
  has sent `m` columns of the executed body and the client has read the size or
  not (`Delivering`), or it has read all and nobody holds its mutex
  (`Delivered`). The copy is built chunk by chunk while no delegate of this client
  runs any more, so what a handler has copied stays equal to the body
  (`CopiedSoFar`); what is sent in parts adds up (`TakingOn`). Only the holder of
  the client's mutex and the client itself take it from one situation to the
  next; the jobs of other clients leave it alone (`ElsewhereResult`).
- *The outcome* (`OutcomeInv`): what the client has noted is what it read, so
  *Finished* comes with the whole body. *One answer*: `Talk` and `ResultInv`
  place a question in the stream, with one handler (`AtMostOne`: two handlers of
  one client would be two holders of its mutex) or in `reply`, and the counts of
  `OneAnswerPerRequest` follow.
- *The refinement*. What a worker does to a task is one of three things or nothing
  (`ChunkEffect`): it is taken in without a chunk, a chunk that is not done is
  added, or one is marked; only the first and the last are seen in `RemoteTask`.
  Of a client's steps those that read an answer are seen. `AnsweredInv` (a status
  is on its way only to a client whose task is in the map) is what lets
  *InProgress* map to `TellInProgress`; `WholeTask` is what lets *Finished* map to
  `TellFinished`, with `1 .. NumChunks` executed.

## 5. What is only model-checked, and what is not modelled

Liveness (the `~>` properties: `EveryQuestionAnswered`, `EveryClientEnds`,
`OthersAreServed` and those of the pool) is only model-checked: it is outside
TLAPS's reach. Every other property of a passing run is a theorem. What the
proofs do not add to the runs: the hypotheses of section 4 are real
restrictions, and behind them (`net_fields`, `net_whole_body`, and the misread
streams of `net_adverse`) only the runs speak.

Not modelled:

- the wrap of `NumTasksDone`, and what the averages are once a sum has overflowed
  (only that they stay in range); a worker that calls `Terminate` (it would join
  itself; nobody does);
- the destructor of `ServerTaskHandler` and an `Init` that fails: `main` waits for
  a thread that never ends;
- `WSAStartup`, `bind`, `listen`, address look-up and `WSAPoll` failing: each ends
  the program before, or instead of, everything above;
- a machine that reports no hardware threads (a division by zero in the client, a
  pool without workers in the server);
- a full send buffer (`POLLWRNORM` missing, a status byte that cannot be sent):
  a send of a one-byte answer succeeds, a send of the result may be partial;
- the elements of a column: a column is raw, executed or zero, and executing it
  twice is not told from executing it once; nor are the memory and the sockets of
  clients that have gone, which the server keeps for ever;
- a second task of the same client handler: the client program submits one;
- the chunk states `Invalid` and `Aborted` are in the answers' table but no code of
  the repository sets them once a task is visible;
- the random sleeps of the pool's example program, and the build files.
