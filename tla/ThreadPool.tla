----------------------------- MODULE ThreadPool -----------------------------
(***************************************************************************)
(* The worker pool of Threadpool/src: ThreadPool (ThreadPool.h,            *)
(* Threadpool.cpp) together with the TpExecutionQueue it owns              *)
(* (ExecutionQueue.h, ExecutionQueue.cpp).                                 *)
(*                                                                         *)
(* A step is what one thread does between two points where another thread  *)
(* can be seen: one critical section of m_RwLock, one call on the queue    *)
(* (which has a lock of its own), one unprotected access to m_Metrics, one *)
(* operation on a condition variable.  The critical section of Work()      *)
(* alone spans two steps, because the wait predicate touches the queue and *)
(* the worker joins the waiters only after that.                           *)
(***************************************************************************)
EXTENDS Naturals, Sequences, FiniteSets, Functions

CONSTANTS
  Workers,            \* the threads the constructor spawns
  Submitters,         \* the threads that call SubmitTask; a worker among them
                      \* submits from within the tasks it runs
  Terminators,        \* the threads that call Terminate
  Owner,              \* the terminator that also constructs the pool
  Tasks,              \* one element per call of SubmitTask
  Temporaries,        \* the tasks whose callable is a temporary of the caller
  NoTask,             \* no task
  DefaultConstructed, \* ThreadPool() was used, not ThreadPool(numWorkerThreads)
  SizeModulus         \* 2^w for the width w of size_t

ASSUME PoolAssumption ==
  /\ Workers \cap Terminators = {}
  /\ Submitters \cap Terminators = {}
  /\ Owner \in Terminators
  /\ IsFiniteSet(Workers) /\ IsFiniteSet(Tasks)
  /\ Temporaries \subseteq Tasks
  /\ NoTask \notin Tasks
  /\ DefaultConstructed \in BOOLEAN
  /\ SizeModulus \in Nat \ {0}

Threads == Workers \cup Submitters \cup Terminators

VARIABLES
  m_State,   \* EThreadPoolState
  m_Queue,   \* the execution queue
  m_Metrics, \* the two counters of TpMetrics
  pc,        \* where each thread is
  task,      \* the task each worker is executing
  arg,       \* the task each submitter is passing to SubmitTask
  reg,       \* what each thread loaded from m_Metrics or GetNumTasks
  created,   \* history: the tasks SubmitTask was called for
  done,      \* history: the tasks whose invocation returned
  dropped,   \* history: the tasks removed from the queue and never invoked
  missed     \* history: a notify_one fell between a worker's predicate and wait

vars == <<m_State, m_Queue, m_Metrics, pc, task, arg, reg,
          created, done, dropped, missed>>
history == <<created, done, dropped, missed>>

-----------------------------------------------------------------------------
(* Program points. *)

InSubmit     == {"init", "initWait", "initLate", "push", "size", "store",
                 "notify", "threw"}
WorkerPoints == {"unborn", "entry", "lock", "sleep", "waiting", "run",
                 "metrics", "record", "reloaded", "exited", "crashed"}
TerminatorPoints ==
  {"ctor", "idle", "cleanup", "checkInit", "init", "initWait", "initLate",
   "flag", "join", "threw", "returned"}

NoLock == TRUE   \* mutant: the lock is not held for so long

(* m_RwLock is held across steps only by a worker between its predicate and *)
(* its wait, m_MetricsLock only by a worker between its load and its store. *)
RwLockFree      == \A w \in Workers : pc[w] # "sleep"
MetricsLockFree == \A w \in Workers : pc[w] \notin {"record", "reloaded"}

(* The workers blocked on m_WorkerThreadCondVar. *)
Waiting == {w \in Workers : pc[w] = "waiting"}

(* The binding of a task refers to the caller's callable, it does not own   *)
(* it: once SubmitTask has returned, a temporary is gone.                   *)
Dangling(t) == t \in Temporaries /\ \A s \in Submitters : arg[s] # t

(* An exception leaving SubmitTask or Terminate is caught nowhere (a        *)
(* noexcept binding on a worker, a destructor, a thread function), so       *)
(* std::terminate is called.                                                *)
Aborted == \E th \in Threads : pc[th] \in {"threw", "crashed"}

Goto(th, from, to) == pc[th] = from /\ pc' = [pc EXCEPT ![th] = to]

WakeNobody == {{}}   \* mutant: notify_one is missing

(* The sets of workers that notify_one and notify_all wake, and the step of  *)
(* a thread that wakes the workers in S: they compete for m_RwLock again.    *)
OneWaiter  == IF Waiting = {} THEN {{}} ELSE {{w} : w \in Waiting}
AllWaiters == {Waiting}

Wake(S, th, to) ==
  pc' = [x \in Threads |-> IF x = th THEN to ELSE IF x \in S THEN "lock" ELSE pc[x]]

ZeroMetrics == [TaskQueueSize |-> 0, NumTasksDone |-> 0]

(* ThreadPool() = default leaves m_Metrics uninitialised.                   *)
Garbage == [TaskQueueSize : 0 .. SizeModulus - 1, NumTasksDone : 0 .. SizeModulus - 1]

Init ==
  /\ m_State = "Invalid"
  /\ m_Queue = <<>>
  /\ m_Metrics \in IF DefaultConstructed THEN Garbage ELSE {ZeroMetrics}
  /\ pc = [th \in Threads |->
             IF th \in Workers THEN "unborn"
             ELSE IF th = Owner /\ ~DefaultConstructed THEN "ctor" ELSE "idle"]
  /\ task = [w \in Workers |-> NoTask]
  /\ arg = [s \in Submitters |-> NoTask]
  /\ reg = [th \in Workers \cup Submitters |-> ZeroMetrics]
  /\ created = {} /\ done = {} /\ dropped = {} /\ missed = FALSE

-----------------------------------------------------------------------------
(* ThreadPool(numWorkerThreads): spawn every worker, then NotifyInitialized. *)

SpawnWorker(w) ==
  /\ pc[Owner] = "ctor"
  /\ Goto(w, "unborn", "entry")
  /\ UNCHANGED <<m_State, m_Queue, m_Metrics, task, arg, reg, history>>

(* notify_all wakes whoever waits in WaitUntilInitialized. *)
NotifyInitialized ==
  /\ pc[Owner] = "ctor"
  /\ \A w \in Workers : pc[w] # "unborn"
  /\ RwLockFree
  /\ m_State' = "Initialized"
  /\ pc' = [th \in Threads |-> IF th = Owner THEN "idle"
                               ELSE IF pc[th] = "initWait" THEN "init" ELSE pc[th]]
  /\ UNCHANGED <<m_Queue, m_Metrics, task, arg, reg, history>>

-----------------------------------------------------------------------------
(* SubmitTask(t).  A worker calls it from within the task it runs.          *)

Published == TRUE    \* mutant: the pool is used while its constructor runs

Constructed == pc[Owner] # "ctor"

SubmitTask(s, t) ==
  /\ Constructed /\ RwLockFree
  /\ pc[s] = IF s \in Workers THEN "run" ELSE "idle"
  /\ t \in Tasks \ created
  /\ created' = created \cup {t}
  /\ arg' = [arg EXCEPT ![s] = t]
  /\ pc' = [pc EXCEPT ![s] = IF m_State = "Terminated" THEN "push" ELSE "init"]
  /\ UNCHANGED <<m_State, m_Queue, m_Metrics, task, reg, done, dropped, missed>>

(* WaitUntilInitialized, called by SubmitTask and by Terminate: the test     *)
(* under the lock, the wait, and the second test after the wait timed out.  *)
Resume(th) == IF th \in Terminators THEN "flag" ELSE "push"

WaitUntilInitialized(th) ==
  /\ RwLockFree
  /\ Goto(th, "init", IF m_State = "Initialized" THEN Resume(th) ELSE "initWait")
  /\ UNCHANGED <<m_State, m_Queue, m_Metrics, task, arg, reg, history>>

InitWaitTimeout(th) ==
  /\ Goto(th, "initWait", "initLate")
  /\ UNCHANGED <<m_State, m_Queue, m_Metrics, task, arg, reg, history>>

InitWaitSpurious(th) ==
  /\ Goto(th, "initWait", "init")
  /\ UNCHANGED <<m_State, m_Queue, m_Metrics, task, arg, reg, history>>

(* Terminate ignores the result, SubmitTask throws when it is false.        *)
Throws(th) == m_State # "Initialized" /\ th \notin Terminators

InitWaitExpired(th) ==
  /\ RwLockFree
  /\ Goto(th, "initLate", IF Throws(th) THEN "threw" ELSE Resume(th))
  /\ UNCHANGED <<m_State, m_Queue, m_Metrics, task, arg, reg, history>>

PushFront(s) ==    \* mutant: the task is put at the front
  /\ Goto(s, "push", "size")
  /\ m_Queue' = <<arg[s]>> \o m_Queue
  /\ UNCHANGED <<m_State, m_Metrics, task, arg, reg, history>>

PushTask(s) ==
  /\ Goto(s, "push", "size")
  /\ m_Queue' = Append(m_Queue, arg[s])
  /\ UNCHANGED <<m_State, m_Metrics, task, arg, reg, history>>

(* m_Metrics.TaskQueueSize = m_Queue.GetNumTasks(), without m_MetricsLock.  *)
LoadNumTasks(s) ==
  /\ Goto(s, "size", "store")
  /\ reg' = [reg EXCEPT ![s].TaskQueueSize = Len(m_Queue) % SizeModulus]
  /\ UNCHANGED <<m_State, m_Queue, m_Metrics, task, arg, history>>

StoreQueueSize(s) ==
  /\ Goto(s, "store", "notify")
  /\ m_Metrics' = [m_Metrics EXCEPT !.TaskQueueSize = reg[s].TaskQueueSize]
  /\ reg' = [reg EXCEPT ![s] = ZeroMetrics]
  /\ UNCHANGED <<m_State, m_Queue, task, arg, history>>

ReturnToCaller(s) == "idle"   \* mutant: a worker does not resume its task

(* notify_one, without m_RwLock, then SubmitTask returns.                   *)
Return(s) == IF s \in Workers THEN "run" ELSE "idle"

NotifyOne(s) ==
  /\ pc[s] = "notify"
  /\ \E woken \in OneWaiter : Wake(woken, s, Return(s))
  /\ missed' = (missed \/ (Waiting = {} /\ ~RwLockFree))
  /\ arg' = [arg EXCEPT ![s] = NoTask]
  /\ UNCHANGED <<m_State, m_Queue, m_Metrics, task, reg, created, done, dropped>>

-----------------------------------------------------------------------------
(* Work(): the loop of one worker.                                          *)

WorkEntry(w) ==
  /\ RwLockFree
  /\ Goto(w, "entry", IF m_State = "Terminated" THEN "exited" ELSE "lock")
  /\ UNCHANGED <<m_State, m_Queue, m_Metrics, task, arg, reg, history>>

PeekTask == m_Queue   \* mutant: front() without pop()

Front   == IF m_Queue = <<>> THEN {} ELSE {Head(m_Queue)}
PopTask == IF m_Queue = <<>> THEN m_Queue ELSE Tail(m_Queue)

PopWins ==         \* mutant: a task that could be popped wins over termination
  IF m_Queue # <<>> THEN "Ok"
  ELSE IF m_State = "Terminated" THEN "Terminated" ELSE "EmptyQueue"

(* The wait predicate, evaluated under m_RwLock: it pops first and looks at  *)
(* the state after, so a terminated pool discards the task it popped.  When  *)
(* there is nothing to do the lock stays held until the worker has begun to  *)
(* wait.                                                                     *)
EQueueWaitResult ==
  IF m_State = "Terminated" THEN "Terminated"
  ELSE IF m_Queue = <<>> THEN "EmptyQueue" ELSE "Ok"

Retrieve(w) ==
  /\ pc[w] = "lock" /\ RwLockFree
  /\ m_Queue' = PopTask
  /\ \/ /\ EQueueWaitResult = "Terminated"
        /\ pc' = [pc EXCEPT ![w] = "exited"]
        /\ dropped' = dropped \cup Front
        /\ UNCHANGED task
     \/ /\ EQueueWaitResult = "Ok"
        /\ pc' = [pc EXCEPT ![w] = "run"]
        /\ task' = [task EXCEPT ![w] = Head(m_Queue)]
        /\ UNCHANGED dropped
     \/ /\ EQueueWaitResult = "EmptyQueue"
        /\ pc' = [pc EXCEPT ![w] = "sleep"]
        /\ UNCHANGED <<task, dropped>>
  /\ UNCHANGED <<m_State, m_Metrics, arg, reg, created, done, missed>>

Sleep(w) ==
  /\ Goto(w, "sleep", "waiting")
  /\ UNCHANGED <<m_State, m_Queue, m_Metrics, task, arg, reg, history>>

SpuriousWake(w) ==
  /\ Goto(w, "waiting", "lock")
  /\ UNCHANGED <<m_State, m_Queue, m_Metrics, task, arg, reg, history>>

(* std::invoke(task) returns.  Through a dangling reference it may also      *)
(* bring the process down.                                                   *)
FinishTask(w) ==
  /\ \/ /\ Goto(w, "run", "metrics")
        /\ done' = done \cup {task[w]}
        /\ task' = [task EXCEPT ![w] = NoTask]
     \/ /\ Dangling(task[w])
        /\ Goto(w, "run", "crashed")
        /\ UNCHANGED <<done, task>>
  /\ UNCHANGED <<m_State, m_Queue, m_Metrics, arg, reg, created, dropped, missed>>

LoadMetrics(w) ==
  /\ MetricsLockFree
  /\ Goto(w, "metrics", "record")
  /\ reg' = [reg EXCEPT ![w] = m_Metrics]
  /\ UNCHANGED <<m_State, m_Queue, m_Metrics, task, arg, history>>

(* TaskQueueSize is also written without the lock: `if (x > 0) x--` may     *)
(* decrement the value it tested or load x again, and size_t wraps.          *)
ReloadQueueSize(w) ==
  /\ reg[w].TaskQueueSize > 0
  /\ Goto(w, "record", "reloaded")
  /\ reg' = [reg EXCEPT ![w].TaskQueueSize = m_Metrics.TaskQueueSize]
  /\ UNCHANGED <<m_State, m_Queue, m_Metrics, task, arg, history>>

RecordMetrics(w) ==
  /\ pc[w] \in {"record", "reloaded"}
  /\ m_Metrics' =
       [TaskQueueSize |->
          IF pc[w] = "record" /\ reg[w].TaskQueueSize = 0 THEN m_Metrics.TaskQueueSize
          ELSE (reg[w].TaskQueueSize + SizeModulus - 1) % SizeModulus,
        NumTasksDone  |-> reg[w].NumTasksDone + 1]
  /\ pc' = [pc EXCEPT ![w] = "lock"]
  /\ reg' = [reg EXCEPT ![w] = ZeroMetrics]
  /\ UNCHANGED <<m_State, m_Queue, task, arg, history>>

-----------------------------------------------------------------------------
(* Terminate().                                                             *)

Terminate(th) ==
  /\ Constructed /\ RwLockFree
  /\ Goto(th, "idle", IF m_State = "Terminated" THEN "returned" ELSE "cleanup")
  /\ UNCHANGED <<m_State, m_Queue, m_Metrics, task, arg, reg, history>>

Cleanup(th) ==
  /\ Goto(th, "cleanup", "checkInit")
  /\ m_Queue' = <<>>
  /\ dropped' = dropped \cup Range(m_Queue)
  /\ UNCHANGED <<m_State, m_Metrics, task, arg, reg, created, done, missed>>

CheckInitialized(th) ==
  /\ RwLockFree
  /\ Goto(th, "checkInit", IF m_State = "Initialized" THEN "flag" ELSE "init")
  /\ UNCHANGED <<m_State, m_Queue, m_Metrics, task, arg, reg, history>>

(* notify_all under m_RwLock. *)
NotifyTerminated(th) ==
  /\ pc[th] = "flag" /\ RwLockFree
  /\ m_State' = "Terminated"
  /\ \E woken \in AllWaiters : Wake(woken, th, "join")
  /\ UNCHANGED <<m_Queue, m_Metrics, task, arg, reg, history>>

JoinOne(th) ==     \* mutant: joins one worker only
  /\ \E w \in Workers : pc[w] \in {"exited", "unborn"}
  /\ Goto(th, "join", "returned")
  /\ UNCHANGED <<m_State, m_Queue, m_Metrics, task, arg, reg, history>>

(* Terminate calls that all passed IsTerminated() join the same std::thread, *)
(* and nothing orders their joinable() and join(): that is undefined, and    *)
(* either works out or throws, at the latest when the worker has ended; here *)
(* while the calls that race are still joining.                              *)
JoinRaces(th) ==
  /\ \E other \in Terminators \ {th} : pc[other] = "join"
  /\ \E w \in Workers : pc[w] # "unborn"
  /\ Goto(th, "join", "threw")
  /\ UNCHANGED <<m_State, m_Queue, m_Metrics, task, arg, reg, history>>

(* The joins; a default-constructed pool has no thread to join.             *)
Join(th) ==
  /\ \A w \in Workers : pc[w] \in {"exited", "unborn"}
  /\ Goto(th, "join", "returned")
  /\ UNCHANGED <<m_State, m_Queue, m_Metrics, task, arg, reg, history>>

-----------------------------------------------------------------------------

WaitStep(th) == WaitUntilInitialized(th) \/ InitWaitTimeout(th) \/ InitWaitExpired(th)

SubmitStep(s) ==
  WaitStep(s) \/ PushTask(s) \/ LoadNumTasks(s) \/ StoreQueueSize(s) \/ NotifyOne(s)

WorkStep(w) ==
  WorkEntry(w) \/ Retrieve(w) \/ Sleep(w) \/ FinishTask(w) \/ LoadMetrics(w)
  \/ ReloadQueueSize(w) \/ RecordMetrics(w)

TerminateStep(th) ==
  WaitStep(th) \/ Cleanup(th) \/ CheckInitialized(th) \/ NotifyTerminated(th) \/ Join(th)
  \/ JoinRaces(th)

CtorStep == NotifyInitialized \/ \E w \in Workers : SpawnWorker(w)

(* Nothing is left to do: the process has died, or the pool is shut down.   *)
Finished ==
  /\ Aborted \/ /\ \A th \in Terminators : pc[th] = "returned"
                /\ \A s \in Submitters \ Workers : pc[s] = "idle"
  /\ UNCHANGED vars

Next ==
  \/ /\ ~Aborted
     /\ \/ CtorStep
        \/ \E s \in Submitters : SubmitStep(s) \/ \E t \in Tasks : SubmitTask(s, t)
        \/ \E w \in Workers : WorkStep(w) \/ SpuriousWake(w)
        \/ \E th \in Terminators : TerminateStep(th) \/ Terminate(th)
        \/ \E th \in Submitters \cup Terminators : InitWaitSpurious(th)
  \/ Finished

Spec == Init /\ [][Next]_vars

(* Once a call has begun its thread keeps being scheduled, a contended mutex *)
(* is not denied to one thread for ever, a task returns, and wait_for gives  *)
(* up when its deadline has passed, however often it woke up before.  Nobody *)
(* has to call SubmitTask or Terminate, and no thread has to wake up         *)
(* spuriously.                                                               *)
Fairness ==
  /\ WF_vars(~Aborted /\ CtorStep)
  /\ \A s \in Submitters : SF_vars(~Aborted /\ SubmitStep(s))
  /\ \A w \in Workers : SF_vars(~Aborted /\ WorkStep(w))
  /\ \A th \in Terminators : SF_vars(~Aborted /\ TerminateStep(th))
  /\ \A th \in Submitters \cup Terminators : SF_vars(~Aborted /\ InitWaitTimeout(th))

FairSpec == Spec /\ Fairness

-----------------------------------------------------------------------------
(* Properties.                                                              *)

(* Every variable holds values of its C++ type and every thread is at a     *)
(* point of a function it can be in.                                        *)
Metrics == [TaskQueueSize : 0 .. SizeModulus - 1, NumTasksDone : Nat]

TypeOK ==
  /\ m_State \in {"Invalid", "Initialized", "Terminated"}
  /\ m_Queue \in Seq(Tasks)
  /\ m_Metrics \in Metrics
  /\ pc \in [Threads -> WorkerPoints \cup InSubmit \cup TerminatorPoints]
  /\ \A w \in Workers : pc[w] \in WorkerPoints \cup InSubmit
  /\ \A s \in Submitters \ Workers : pc[s] \in InSubmit \cup {"idle"}
  /\ \A th \in Terminators : pc[th] \in TerminatorPoints
  /\ task \in [Workers -> Tasks \cup {NoTask}]
  /\ arg \in [Submitters -> Tasks \cup {NoTask}]
  /\ reg \in [Workers \cup Submitters -> Metrics]
  /\ created \subseteq Tasks /\ done \subseteq Tasks /\ dropped \subseteq Tasks
  /\ missed \in BOOLEAN

(* The tasks on their way into the queue, and those in a worker's hands.    *)
Unpushed == {arg[s] : s \in {x \in Submitters :
               pc[x] \in {"init", "initWait", "initLate", "push", "threw"}}}
Held == {task[w] : w \in Workers} \ {NoTask}

(* Whatever the interleaving of SubmitTask, Work and Terminate, a task that *)
(* was submitted is in exactly one place: still with its submitter, once in *)
(* m_Queue, in the hands of one worker, executed, or discarded.  PushTask,  *)
(* PopTask and Cleanup neither lose a task nor hand it out twice.           *)
NoTaskLostOrDuplicated ==
  /\ created = Unpushed \cup Range(m_Queue) \cup Held \cup done \cup dropped
  /\ IsInjective(m_Queue)
  /\ \A v, w \in Workers : task[v] = task[w] /\ task[v] # NoTask => v = w
  /\ Range(m_Queue) \cap (Unpushed \cup Held \cup done \cup dropped) = {}
  /\ Held \cap (Unpushed \cup done \cup dropped) = {}
  /\ Unpushed \cap (done \cup dropped) = {}
  /\ done \cap dropped = {}

(* m_MetricsLock serialises the updates of Work(): NumTasksDone counts every *)
(* executed task except those whose worker has not yet written its update.  *)
MetricsCountTasks ==
  m_Metrics.NumTasksDone
    + Cardinality({w \in Workers : pc[w] \in {"metrics", "record", "reloaded"}})
  = Cardinality(done)

(* A queued task can be left behind by the workers (all of them blocked, no  *)
(* notify_one on its way) only if some notify_one fell into the window in    *)
(* which a worker had found the queue empty but was not waiting yet:         *)
(* SubmitTask notifies without m_RwLock.                                     *)
Stranded ==
  /\ m_Queue # <<>>
  /\ \A s \in Submitters : pc[s] \notin {"size", "store", "notify"}
  /\ Workers # {} /\ \A w \in Workers : pc[w] \in {"sleep", "waiting"}

StrandedOnlyByMissedNotify == Stranded => missed

(* Every worker thread has left Work(), or was never made.                  *)
WorkersOut == \A w \in Workers : pc[w] \in {"exited", "unborn"}

(* However many threads call Terminate, and whichever of them finds the pool *)
(* flagged already and returns at once: as long as a worker is inside the    *)
(* terminated pool some call is joining (or its join has gone wrong), so     *)
(* that the pool is never left behind with live workers nobody waits for.    *)
LiveWorkersAreJoined ==
  m_State = "Terminated" =>
    WorkersOut \/ \E th \in Terminators : pc[th] \in {"join", "threw"}

(* Terminate has not been called yet.                                       *)
NobodyTerminates == \A th \in Terminators : pc[th] \in {"ctor", "idle"}

(* From the moment the pool is flagged Terminated no worker takes another    *)
(* task: what is executed after that was already in a worker's hands.        *)
NoTaskTakenAfterTermination ==
  [][m_State = "Terminated" => m_State' = "Terminated" /\ Held' \subseteq Held]_vars

(* As long as nobody has called Terminate, SubmitTask does not throw.        *)
NoThrowBeforeTerminate ==
  NobodyTerminates => \A s \in Submitters : pc[s] # "threw"

(* Terminate returns: no worker sleeps through the termination.              *)
TerminateReturns ==
  \A th \in Terminators :
    pc[th] = "cleanup" ~> (pc[th] = "returned" \/ Aborted)

(* A queued task is taken by a worker or discarded by the shutdown, unless   *)
(* a notify_one was missed.                                                  *)
QueuedTaskLeavesUnlessMissed ==
  \A t \in Tasks :
    t \in Range(m_Queue) ~>
      (t \notin Range(m_Queue) \/ missed \/ m_State = "Terminated" \/ Aborted)

(* ThreadPool.h:6 promises that a task is taken for execution as soon as a   *)
(* free worker is available.                                                 *)
QueuedTaskLeaves ==
  \A t \in Tasks :
    t \in Range(m_Queue) ~>
      (t \notin Range(m_Queue) \/ m_State = "Terminated" \/ Aborted)

(* The callable a worker invokes still exists.                               *)
InvokedCallableAlive ==
  \A w \in Workers : pc[w] = "run" => ~Dangling(task[w])

(* The pool as its users see it. *)
Promise == INSTANCE TaskPool WITH
  queue <- m_Queue, slot <- task, finished <- done, discarded <- dropped,
  closing <- ~NobodyTerminates,
  closed <- (m_State = "Terminated")
ImplementsTaskPool == Promise!Spec
=============================================================================
