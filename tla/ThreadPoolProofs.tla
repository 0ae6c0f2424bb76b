-------------------------- MODULE ThreadPoolProofs --------------------------
(***************************************************************************)
(* What holds of ThreadPool for every number of workers, submitters and    *)
(* tasks.                                                                  *)
(***************************************************************************)
EXTENDS ThreadPool, FiniteSetTheorems, TLAPS

(* A worker holds a task exactly while it runs it, a submitter has an       *)
(* argument exactly while it is inside SubmitTask, and only submitters are   *)
(* inside SubmitTask.                                                        *)
Hands ==
  /\ \A w \in Workers : pc[w] \in InSubmit => w \in Submitters
  /\ \A w \in Workers :
       task[w] # NoTask <=> pc[w] \in {"run", "crashed"} \cup InSubmit
  /\ \A s \in Submitters : arg[s] # NoTask <=> pc[s] \in InSubmit

TypeInv == TypeOK /\ Hands

(* The remainder is a digit. *)
LEMMA ModType ==
  ASSUME NEW a \in Nat, NEW b \in Nat \ {0}
  PROVE  a % b \in 0 .. b - 1
  BY SMT

(* The counters of a TpMetrics, and the ways of making one.                  *)
LEMMA MetricsFields ==
  ASSUME NEW m \in Metrics
  PROVE  m.TaskQueueSize \in 0 .. SizeModulus - 1 /\ m.NumTasksDone \in Nat
  BY DEF Metrics

LEMMA MetricsOf ==
  ASSUME NEW q \in 0 .. SizeModulus - 1, NEW n \in Nat
  PROVE  [TaskQueueSize |-> q, NumTasksDone |-> n] \in Metrics
  BY DEF Metrics

LEMMA MetricsSetSize ==
  ASSUME NEW m \in Metrics, NEW q \in 0 .. SizeModulus - 1
  PROVE  [m EXCEPT !.TaskQueueSize = q] \in Metrics
  BY DEF Metrics

LEMMA ZeroMetricsType == ZeroMetrics \in Metrics
  BY PoolAssumption, 0 \in 0 .. SizeModulus - 1, MetricsOf DEF PoolAssumption, ZeroMetrics

(* What an assignment to one element of a function preserves. *)
LEMMA SetOne ==
  ASSUME NEW S, NEW T, NEW f \in [S -> T], NEW x \in S, NEW v \in T
  PROVE  [f EXCEPT ![x] = v] \in [S -> T]
  OBVIOUS

(* The unprotected accesses to m_Metrics keep its type and that of the       *)
(* threads' copies.                                                          *)
LEMMA MetricsAccess ==
  ASSUME m_Metrics \in Metrics, reg \in [Workers \cup Submitters -> Metrics],
         m_Queue \in Seq(Tasks)
  PROVE  /\ \A s \in Submitters : LoadNumTasks(s) \/ StoreQueueSize(s) =>
              m_Metrics' \in Metrics /\ reg' \in [Workers \cup Submitters -> Metrics]
         /\ \A w \in Workers : LoadMetrics(w) \/ ReloadQueueSize(w) \/ RecordMetrics(w) =>
              m_Metrics' \in Metrics /\ reg' \in [Workers \cup Submitters -> Metrics]
<1> DEFINE Regs == [Workers \cup Submitters -> Metrics]
<1>1. ASSUME NEW s \in Submitters, LoadNumTasks(s) PROVE m_Metrics' \in Metrics /\ reg' \in Regs
  <2>1. Len(m_Queue) % SizeModulus \in 0 .. SizeModulus - 1
    BY PoolAssumption, ModType DEF PoolAssumption
  <2>2. [reg[s] EXCEPT !.TaskQueueSize = Len(m_Queue) % SizeModulus] \in Metrics
    BY <2>1, MetricsSetSize, reg[s] \in Metrics, Zenon
  <2> QED
    BY <1>1, <2>2, SetOne, Zenon DEF LoadNumTasks
<1>2. ASSUME NEW s \in Submitters, StoreQueueSize(s) PROVE m_Metrics' \in Metrics /\ reg' \in Regs
  <2>1. reg[s].TaskQueueSize \in 0 .. SizeModulus - 1
    BY MetricsFields, reg[s] \in Metrics, Zenon
  <2>2. m_Metrics' \in Metrics
    BY <1>2, <2>1, MetricsSetSize, Zenon DEF StoreQueueSize
  <2> QED
    BY <1>2, <2>2, ZeroMetricsType, SetOne, Zenon DEF StoreQueueSize
<1>3. ASSUME NEW w \in Workers, LoadMetrics(w) PROVE m_Metrics' \in Metrics /\ reg' \in Regs
  BY <1>3, SetOne, Zenon DEF LoadMetrics
<1>4. ASSUME NEW w \in Workers, ReloadQueueSize(w) PROVE m_Metrics' \in Metrics /\ reg' \in Regs
  <2>1. m_Metrics.TaskQueueSize \in 0 .. SizeModulus - 1
    BY MetricsFields, Zenon
  <2>2. [reg[w] EXCEPT !.TaskQueueSize = m_Metrics.TaskQueueSize] \in Metrics
    BY <2>1, MetricsSetSize, reg[w] \in Metrics, Zenon
  <2> QED
    BY <1>4, <2>2, SetOne, Zenon DEF ReloadQueueSize
<1>5. ASSUME NEW w \in Workers, RecordMetrics(w) PROVE m_Metrics' \in Metrics /\ reg' \in Regs
  <2>1. /\ reg[w].TaskQueueSize \in 0 .. SizeModulus - 1 /\ reg[w].NumTasksDone \in Nat
        /\ m_Metrics.TaskQueueSize \in 0 .. SizeModulus - 1
    BY MetricsFields, reg[w] \in Metrics, Zenon
  <2>2. (reg[w].TaskQueueSize + SizeModulus - 1) % SizeModulus \in 0 .. SizeModulus - 1
    <3>1. reg[w].TaskQueueSize + SizeModulus - 1 \in Nat
      BY <2>1, PoolAssumption DEF PoolAssumption
    <3> QED
      BY <3>1, ModType, PoolAssumption DEF PoolAssumption
  <2>3. reg[w].NumTasksDone + 1 \in Nat
    BY <2>1
  <2>4. m_Metrics' \in Metrics
    BY <1>5, <2>1, <2>2, <2>3, MetricsOf, Zenon DEF RecordMetrics
  <2> QED
    BY <1>5, <2>4, ZeroMetricsType, SetOne, Zenon DEF RecordMetrics
<1> QED
  BY <1>1, <1>2, <1>3, <1>4, <1>5

LEMMA InitTypeInv == Init => TypeInv
<1> SUFFICES ASSUME Init PROVE TypeInv
  OBVIOUS
<1>1. Garbage \subseteq Metrics
  BY PoolAssumption DEF PoolAssumption, Garbage, Metrics
<1>2. m_Metrics \in Metrics
  BY <1>1, ZeroMetricsType DEF Init
<1>3. reg \in [Workers \cup Submitters -> Metrics]
  BY ZeroMetricsType DEF Init
<1>4. /\ pc \in [Threads -> {"unborn", "ctor", "idle"}]
      /\ \A w \in Workers : pc[w] = "unborn"
      /\ \A s \in Submitters \ Workers : pc[s] = "idle"
      /\ \A th \in Terminators : pc[th] \in {"ctor", "idle"}
  BY PoolAssumption DEF PoolAssumption, Init, Threads
<1>5. TypeOK
  <2>1. /\ m_State = "Invalid" /\ m_Queue \in Seq(Tasks)
        /\ created = {} /\ done = {} /\ dropped = {}
        /\ task \in [Workers -> {NoTask}] /\ arg \in [Submitters -> {NoTask}]
    BY DEF Init
  <2>2. missed \in BOOLEAN
    BY Zenon DEF Init
  <2>3. pc \in [Threads -> WorkerPoints \cup InSubmit \cup TerminatorPoints]
    BY <1>4 DEF TerminatorPoints, WorkerPoints
  <2> QED
    BY <1>2, <1>3, <1>4, <2>1, <2>2, <2>3 DEF TypeOK, InSubmit, WorkerPoints, TerminatorPoints
<1>6. Hands
  BY <1>4 DEF Init, Hands, InSubmit
<1> QED
  BY <1>5, <1>6 DEF TypeInv

LEMMA NextTypeInv == TypeInv /\ [Next]_vars => TypeInv'
<1> SUFFICES ASSUME TypeInv, [Next]_vars PROVE TypeInv'
  OBVIOUS
<1> USE PoolAssumption DEF PoolAssumption, TypeInv, TypeOK, Hands, Threads, history,
        InSubmit, WorkerPoints, TerminatorPoints
<1>1. ASSUME NEW w \in Workers, SpawnWorker(w) PROVE TypeInv'
  BY <1>1 DEF SpawnWorker, Goto
<1>2. CASE NotifyInitialized
  BY <1>2 DEF NotifyInitialized
<1>3. ASSUME NEW s \in Submitters, NEW t \in Tasks, SubmitTask(s, t) PROVE TypeInv'
  BY <1>3 DEF SubmitTask
<1>4. ASSUME NEW th \in Submitters \cup Terminators, WaitStep(th) \/ InitWaitSpurious(th)
      PROVE TypeInv'
  <2>1. CASE WaitUntilInitialized(th)
    BY <1>4, <2>1 DEF WaitUntilInitialized, Goto, Resume
  <2>2. CASE InitWaitTimeout(th) \/ InitWaitSpurious(th)
    BY <1>4, <2>2 DEF InitWaitTimeout, InitWaitSpurious, Goto
  <2>3. CASE InitWaitExpired(th)
    BY <1>4, <2>3 DEF InitWaitExpired, Goto, Resume, Throws
  <2> QED
    BY <1>4, <2>1, <2>2, <2>3 DEF WaitStep
<1>5. ASSUME NEW s \in Submitters, PushTask(s) PROVE TypeInv'
  BY <1>5 DEF PushTask, Goto
<1>6. ASSUME NEW s \in Submitters, LoadNumTasks(s) \/ StoreQueueSize(s) PROVE TypeInv'
  <2>1. m_Metrics' \in Metrics /\ reg' \in [Workers \cup Submitters -> Metrics]
    BY <1>6, MetricsAccess
  <2> QED
    BY <1>6, <2>1 DEF LoadNumTasks, StoreQueueSize, Goto
<1>7. ASSUME NEW s \in Submitters, NotifyOne(s) PROVE TypeInv'
  BY <1>7 DEF NotifyOne, OneWaiter, Wake, Waiting, Return
<1>8. ASSUME NEW w \in Workers, WorkEntry(w) PROVE TypeInv'
  BY <1>8 DEF WorkEntry, Goto
<1>9. ASSUME NEW w \in Workers, Retrieve(w) PROVE TypeInv'
  <2>1. CASE m_Queue = <<>>
    BY <1>9, <2>1 DEF Retrieve, PopTask, Front, EQueueWaitResult
  <2>2. CASE m_Queue # <<>>
    <3>1. m_Queue' \in Seq(Tasks) /\ Head(m_Queue) \in Tasks
      BY <1>9, <2>2 DEF Retrieve, PopTask
    <3>2. /\ pc[w] = "lock"
          /\ UNCHANGED <<m_State, m_Metrics, arg, reg, created, done, missed>>
          /\ \/ /\ pc' = [pc EXCEPT ![w] = "exited"] /\ task' = task
                /\ dropped' = dropped \cup {Head(m_Queue)}
             \/ /\ pc' = [pc EXCEPT ![w] = "run"] /\ dropped' = dropped
                /\ task' = [task EXCEPT ![w] = Head(m_Queue)]
      BY <1>9, <2>2, Zenon DEF Retrieve, Front, EQueueWaitResult
    <3>3. TypeOK'
      <4>1. pc' \in [Threads -> WorkerPoints \cup InSubmit \cup TerminatorPoints]
        BY <3>2
      <4>2. /\ \A v \in Workers : pc'[v] \in WorkerPoints \cup InSubmit
            /\ \A s \in Submitters \ Workers : pc'[s] = pc[s]
            /\ \A th \in Terminators : pc'[th] = pc[th]
        BY <3>2
      <4>3. task' \in [Workers -> Tasks \cup {NoTask}] /\ dropped' \subseteq Tasks
        BY <3>1, <3>2
      <4> QED
        BY <3>1, <3>2, <4>1, <4>2, <4>3
    <3>4. Hands'
      <4>1. CASE pc' = [pc EXCEPT ![w] = "exited"] /\ task' = task
        BY <3>2, <4>1
      <4>2. CASE pc' = [pc EXCEPT ![w] = "run"] /\ task' = [task EXCEPT ![w] = Head(m_Queue)]
        <5>1. Head(m_Queue) # NoTask
          BY <3>1
        <5>2. \A s \in Submitters : pc'[s] \in InSubmit <=> pc[s] \in InSubmit
          BY <3>2, <4>2
        <5>3. \A v \in Workers \ {w} : pc'[v] = pc[v] /\ task'[v] = task[v]
          BY <4>2
        <5>4. pc'[w] = "run" /\ task'[w] # NoTask
          BY <4>2, <5>1
        <5> QED
          BY <3>2, <5>2, <5>3, <5>4
      <4> QED
        BY <3>2, <4>1, <4>2
    <3> QED
      BY <3>3, <3>4
  <2> QED
    BY <2>1, <2>2
<1>10. ASSUME NEW w \in Workers, Sleep(w) \/ SpuriousWake(w) PROVE TypeInv'
  BY <1>10 DEF Sleep, SpuriousWake, Goto
<1>11. ASSUME NEW w \in Workers, FinishTask(w) PROVE TypeInv'
  BY <1>11 DEF FinishTask, Goto
<1>12. ASSUME NEW w \in Workers, LoadMetrics(w) \/ ReloadQueueSize(w) \/ RecordMetrics(w)
       PROVE TypeInv'
  <2>1. m_Metrics' \in Metrics /\ reg' \in [Workers \cup Submitters -> Metrics]
    BY <1>12, MetricsAccess
  <2>2. CASE LoadMetrics(w)
    BY <2>1, <2>2 DEF LoadMetrics, Goto
  <2>3. CASE ReloadQueueSize(w)
    BY <2>1, <2>3 DEF ReloadQueueSize, Goto
  <2>4. CASE RecordMetrics(w)
    BY <2>1, <2>4 DEF RecordMetrics
  <2> QED
    BY <1>12, <2>2, <2>3, <2>4
<1>13. ASSUME NEW th \in Terminators, Terminate(th) \/ CheckInitialized(th) \/ Join(th) \/ JoinRaces(th)
       PROVE TypeInv'
  BY <1>13 DEF Terminate, CheckInitialized, Join, JoinRaces, Goto
<1>14. ASSUME NEW th \in Terminators, Cleanup(th) PROVE TypeInv'
  BY <1>14 DEF Cleanup, Goto, Range
<1>15. ASSUME NEW th \in Terminators, NotifyTerminated(th) PROVE TypeInv'
  BY <1>15 DEF NotifyTerminated, AllWaiters, Wake, Waiting
<1>16. CASE UNCHANGED vars
  BY <1>16 DEF vars
<1> QED
  BY <1>1, <1>2, <1>3, <1>4, <1>5, <1>6, <1>7, <1>8, <1>9, <1>10, <1>11, <1>12, <1>13,
     <1>14, <1>15, <1>16
  DEF Next, CtorStep, SubmitStep, WorkStep, TerminateStep, Finished

(* Every variable keeps its type, whatever the numbers of threads and tasks. *)
THEOREM PoolTypeOK == Spec => []TypeOK
<1>1. Spec => []TypeInv
  BY InitTypeInv, NextTypeInv, PTL DEF Spec
<1> QED
  BY <1>1, PTL DEF TypeInv

-----------------------------------------------------------------------------
(* Where a task is.                                                         *)

(* What Append does to the elements of a sequence without repetitions. *)
LEMMA AppendRange ==
  ASSUME NEW S, NEW q \in Seq(S), NEW x \in S
  PROVE  /\ Range(Append(q, x)) = Range(q) \cup {x}
         /\ IsInjective(q) /\ x \notin Range(q) => IsInjective(Append(q, x))
  BY DEF Range, IsInjective

(* What taking the first element does to them. *)
LEMMA TailRange ==
  ASSUME NEW S, NEW q \in Seq(S), q # <<>>
  PROVE  /\ Range(q) = {Head(q)} \cup Range(Tail(q))
         /\ Head(q) \in S /\ Tail(q) \in Seq(S)
         /\ IsInjective(q) => IsInjective(Tail(q)) /\ Head(q) \notin Range(Tail(q))
<1>1. /\ Len(q) \in Nat \ {0} /\ Head(q) = q[1] /\ Tail(q) \in Seq(S) /\ Head(q) \in S
      /\ Len(Tail(q)) = Len(q) - 1 /\ \A i \in 1 .. Len(q) - 1 : Tail(q)[i] = q[i + 1]
  OBVIOUS
<1>2. /\ DOMAIN q = 1 .. Len(q) /\ DOMAIN Tail(q) = 1 .. Len(q) - 1
  BY <1>1
<1>3. Range(q) = {Head(q)} \cup Range(Tail(q))
  <2>1. ASSUME NEW i \in 1 .. Len(q) PROVE q[i] \in {Head(q)} \cup Range(Tail(q))
    <3>1. CASE i = 1
      BY <1>1, <3>1
    <3>2. CASE i # 1
      <4>1. i - 1 \in 1 .. Len(q) - 1 /\ Tail(q)[i - 1] = q[i]
        BY <1>1, <3>2
      <4> QED
        BY <4>1, <1>2 DEF Range
    <3> QED
      BY <3>1, <3>2
  <2>2. ASSUME NEW i \in 1 .. Len(q) - 1 PROVE Tail(q)[i] \in Range(q)
    <3>1. i + 1 \in 1 .. Len(q) /\ Tail(q)[i] = q[i + 1]
      BY <1>1
    <3> QED
      BY <3>1, <1>2 DEF Range
  <2>3. Head(q) \in Range(q)
    <3>1. 1 \in 1 .. Len(q)
      BY <1>1
    <3> QED
      BY <1>1, <1>2, <3>1 DEF Range
  <2> QED
    BY <2>1, <2>2, <2>3, <1>2 DEF Range
<1>4. ASSUME IsInjective(q) PROVE IsInjective(Tail(q)) /\ Head(q) \notin Range(Tail(q))
  <2>1. ASSUME NEW i \in 1 .. Len(q) - 1, NEW j \in 1 .. Len(q) - 1, Tail(q)[i] = Tail(q)[j]
        PROVE  i = j
    <3>1. i + 1 \in DOMAIN q /\ j + 1 \in DOMAIN q /\ q[i + 1] = q[j + 1]
      BY <1>1, <1>2, <2>1
    <3> QED
      BY <1>4, <3>1 DEF IsInjective
  <2>2. ASSUME NEW i \in 1 .. Len(q) - 1 PROVE Tail(q)[i] # Head(q)
    <3>1. 1 \in DOMAIN q /\ i + 1 \in DOMAIN q /\ Tail(q)[i] = q[i + 1] /\ 1 # i + 1
      BY <1>1, <1>2
    <3> QED
      BY <1>1, <1>4, <3>1 DEF IsInjective
  <2> QED
    BY <2>1, <2>2, <1>2 DEF IsInjective, Range
<1> QED
  BY <1>1, <1>3, <1>4

(* The points of SubmitTask before its task is in the queue.                *)
Before == {"init", "initWait", "initLate", "push", "threw"}

(* No two submitters carry the same task to the queue.                      *)
ArgsDistinct ==
  \A r, s \in Submitters :
    pc[r] \in Before /\ pc[s] \in Before /\ arg[r] = arg[s] => r = s

TaskInv == NoTaskLostOrDuplicated /\ ArgsDistinct

(* A step that moves no task. *)
TasksStay ==
  /\ UNCHANGED <<m_Queue, task, created, done, dropped>>
  /\ \A s \in Submitters : /\ pc'[s] \in Before <=> pc[s] \in Before
                           /\ pc[s] \in Before => arg'[s] = arg[s]

LEMMA InitTaskInv == Init => TaskInv
<1> SUFFICES ASSUME Init PROVE TaskInv
  OBVIOUS
<1>1. /\ m_Queue = <<>> /\ created = {} /\ done = {} /\ dropped = {}
      /\ \A w \in Workers : task[w] = NoTask
      /\ \A s \in Submitters : pc[s] \in {"unborn", "idle"}
  BY PoolAssumption DEF PoolAssumption, Init, Threads
<1>2. Range(m_Queue) = {} /\ IsInjective(m_Queue)
  BY <1>1 DEF Range, IsInjective
<1>3. Held = {} /\ Unpushed = {}
  BY <1>1 DEF Held, Unpushed
<1> QED
  BY <1>1, <1>2, <1>3 DEF TaskInv, NoTaskLostOrDuplicated, ArgsDistinct, Before

LEMMA StayTaskInv == TaskInv /\ TasksStay => TaskInv'
<1> SUFFICES ASSUME TaskInv, TasksStay PROVE TaskInv'
  OBVIOUS
<1>1. Unpushed' = Unpushed
  BY DEF TasksStay, Unpushed, Before
<1>2. Held' = Held
  BY DEF TasksStay, Held
<1>3. ArgsDistinct'
  BY DEF TaskInv, ArgsDistinct, TasksStay
<1> QED
  BY <1>1, <1>2, <1>3 DEF TaskInv, NoTaskLostOrDuplicated, TasksStay

(* The steps that move no task: all but five. *)
LEMMA QuietSteps ==
  ASSUME TypeInv, [Next]_vars
  PROVE  \/ TasksStay
         \/ \E s \in Submitters : PushTask(s) \/ \E t \in Tasks : SubmitTask(s, t)
         \/ \E w \in Workers : Retrieve(w) \/ FinishTask(w)
         \/ \E th \in Terminators : Cleanup(th)
<1> USE PoolAssumption DEF PoolAssumption, TypeInv, TypeOK, Hands, Threads, history, TasksStay,
        Before, InSubmit, TerminatorPoints
<1>1. ASSUME NEW w \in Workers, SpawnWorker(w) PROVE TasksStay
  BY <1>1 DEF SpawnWorker, Goto
<1>2. CASE NotifyInitialized
  BY <1>2 DEF NotifyInitialized
<1>3. ASSUME NEW th \in Submitters \cup Terminators, WaitStep(th) \/ InitWaitSpurious(th)
      PROVE TasksStay
  <2>1. CASE WaitUntilInitialized(th)
    BY <1>3, <2>1 DEF WaitUntilInitialized, Goto, Resume
  <2>2. CASE InitWaitTimeout(th) \/ InitWaitSpurious(th)
    BY <1>3, <2>2 DEF InitWaitTimeout, InitWaitSpurious, Goto
  <2>3. CASE InitWaitExpired(th)
    BY <1>3, <2>3 DEF InitWaitExpired, Goto, Resume, Throws
  <2> QED
    BY <1>3, <2>1, <2>2, <2>3 DEF WaitStep
<1>4. ASSUME NEW s \in Submitters, LoadNumTasks(s) \/ StoreQueueSize(s) PROVE TasksStay
  <2>1. UNCHANGED <<m_Queue, task, arg, created, done, dropped>>
    BY <1>4, Zenon DEF LoadNumTasks, StoreQueueSize
  <2>2. Goto(s, "size", "store") \/ Goto(s, "store", "notify")
    BY <1>4, Zenon DEF LoadNumTasks, StoreQueueSize
  <2> QED
    BY <2>1, <2>2 DEF Goto
<1>5. ASSUME NEW s \in Submitters, NotifyOne(s) PROVE TasksStay
  BY <1>5 DEF NotifyOne, OneWaiter, Wake, Waiting, Return
<1>6. ASSUME NEW w \in Workers, WorkEntry(w) \/ Sleep(w) \/ SpuriousWake(w) PROVE TasksStay
  BY <1>6 DEF WorkEntry, Sleep, SpuriousWake, Goto
<1>7. ASSUME NEW w \in Workers, LoadMetrics(w) \/ ReloadQueueSize(w) \/ RecordMetrics(w)
      PROVE TasksStay
  <2>1. UNCHANGED <<m_Queue, task, arg, created, done, dropped>>
    BY <1>7, Zenon DEF LoadMetrics, ReloadQueueSize, RecordMetrics
  <2>2. \E to \in {"record", "reloaded", "lock"} :
          /\ pc[w] \in {"metrics", "record", "reloaded"}
          /\ pc' = [pc EXCEPT ![w] = to]
    BY <1>7, Zenon DEF LoadMetrics, ReloadQueueSize, RecordMetrics, Goto
  <2> QED
    BY <2>1, <2>2
<1>8. ASSUME NEW th \in Terminators, Terminate(th) \/ CheckInitialized(th) \/ Join(th) \/ JoinRaces(th)
      PROVE TasksStay
  BY <1>8 DEF Terminate, CheckInitialized, Join, JoinRaces, Goto
<1>9. ASSUME NEW th \in Terminators, NotifyTerminated(th) PROVE TasksStay
  BY <1>9 DEF NotifyTerminated, AllWaiters, Wake, Waiting
<1>10. CASE UNCHANGED vars
  BY <1>10 DEF vars
<1> QED
  BY <1>1, <1>2, <1>3, <1>4, <1>5, <1>6, <1>7, <1>8, <1>9, <1>10
  DEF Next, CtorStep, SubmitStep, WorkStep, TerminateStep, Finished

LEMMA NextTaskInv == TypeInv /\ TaskInv /\ [Next]_vars => TaskInv'
<1> SUFFICES ASSUME TypeInv, TaskInv, [Next]_vars PROVE TaskInv'
  OBVIOUS
<1> USE DEF TypeInv, TypeOK, Hands, history
<1>1. CASE TasksStay
  BY <1>1, StayTaskInv
<1>2. ASSUME NEW s \in Submitters, NEW t \in Tasks, SubmitTask(s, t) PROVE TaskInv'
  <2>1. /\ t \notin created /\ created' = created \cup {t}
        /\ pc[s] \notin Before /\ pc'[s] \in Before /\ arg'[s] = t
        /\ \A r \in Submitters \ {s} : pc'[r] = pc[r] /\ arg'[r] = arg[r]
        /\ UNCHANGED <<m_Queue, task, done, dropped>>
    BY <1>2, PoolAssumption DEF PoolAssumption, SubmitTask, Before, Threads
  <2>2. Unpushed' = Unpushed \cup {t}
    BY <2>1 DEF Unpushed, Before
  <2>3. Held' = Held
    BY <2>1 DEF Held
  <2>4. ArgsDistinct'
    <3>1. \A r \in Submitters : pc[r] \in Before => arg[r] \in Unpushed
      BY DEF Unpushed, Before
    <3>2. \A r \in Submitters : pc[r] \in Before => arg[r] # t
      BY <2>1, <3>1 DEF TaskInv, NoTaskLostOrDuplicated
    <3> QED
      BY <2>1, <3>2 DEF TaskInv, ArgsDistinct
  <2>5. t \notin Unpushed \cup Range(m_Queue) \cup Held \cup done \cup dropped
    BY <2>1 DEF TaskInv, NoTaskLostOrDuplicated
  <2> QED
    BY <2>1, <2>2, <2>3, <2>4, <2>5 DEF TaskInv, NoTaskLostOrDuplicated
<1>3. ASSUME NEW s \in Submitters, PushTask(s) PROVE TaskInv'
  <2>1. /\ pc[s] \in Before /\ pc'[s] \notin Before /\ m_Queue' = Append(m_Queue, arg[s])
        /\ \A r \in Submitters \ {s} : pc'[r] = pc[r]
        /\ UNCHANGED <<arg, task, created, done, dropped>>
    BY <1>3, PoolAssumption DEF PoolAssumption, PushTask, Goto, Before, Threads
  <2>2. arg[s] \in Tasks /\ arg[s] \in Unpushed
    BY <2>1 DEF Unpushed, Before, InSubmit
  <2>3. Unpushed' = Unpushed \ {arg[s]}
    <3>1. \A r \in Submitters \ {s} : pc[r] \in Before => arg[r] # arg[s]
      BY <2>1 DEF TaskInv, ArgsDistinct
    <3>2. \A x : x \in Unpushed <=> \E r \in Submitters : pc[r] \in Before /\ arg[r] = x
      BY DEF Unpushed, Before
    <3>3. \A x : x \in Unpushed' <=>
            \E r \in Submitters \ {s} : pc[r] \in Before /\ arg[r] = x
      BY <2>1 DEF Unpushed, Before
    <3> QED
      BY <2>1, <3>1, <3>2, <3>3
  <2>4. Held' = Held /\ ArgsDistinct'
    BY <2>1 DEF Held, TaskInv, ArgsDistinct
  <2>5. Range(m_Queue') = Range(m_Queue) \cup {arg[s]} /\ IsInjective(m_Queue')
    BY <2>1, <2>2, AppendRange DEF TaskInv, NoTaskLostOrDuplicated
  <2> QED
    BY <2>1, <2>2, <2>3, <2>4, <2>5 DEF TaskInv, NoTaskLostOrDuplicated
<1>4. ASSUME NEW w \in Workers, Retrieve(w) PROVE TaskInv'
  <2>1. /\ pc[w] = "lock" /\ pc'[w] \in {"run", "sleep", "exited"}
        /\ \A x \in Threads \ {w} : pc'[x] = pc[x]
        /\ UNCHANGED <<arg, created, done>>
    BY <1>4 DEF Retrieve, Threads
  <2>2. Unpushed' = Unpushed /\ ArgsDistinct'
    BY <2>1 DEF Unpushed, Before, TaskInv, ArgsDistinct, Threads
  <2>3. task[w] = NoTask
    BY <2>1 DEF InSubmit
  <2>4. CASE m_Queue = <<>>
    <3>1. UNCHANGED <<m_Queue, task, dropped>>
      BY <1>4, <2>4 DEF Retrieve, PopTask, Front, EQueueWaitResult
    <3> QED
      BY <2>1, <2>2, <3>1 DEF TaskInv, NoTaskLostOrDuplicated, Held
  <2>5. CASE m_Queue # <<>>
    <3>1. /\ m_Queue' = Tail(m_Queue) /\ Head(m_Queue) \in Tasks
          /\ Range(m_Queue) = Range(m_Queue') \cup {Head(m_Queue)}
          /\ IsInjective(m_Queue') /\ Head(m_Queue) \notin Range(m_Queue')
      <4>1. m_Queue' = Tail(m_Queue)
        BY <1>4, <2>5 DEF Retrieve, PopTask
      <4> QED
        BY <4>1, <2>5, TailRange DEF TaskInv, NoTaskLostOrDuplicated
    <3>2. CASE task' = [task EXCEPT ![w] = Head(m_Queue)] /\ dropped' = dropped
      <4>1. Held' = Held \cup {Head(m_Queue)}
        BY <2>3, <3>1, <3>2, PoolAssumption DEF PoolAssumption, Held
      <4>2. \A u, v \in Workers : task'[u] = task'[v] /\ task'[u] # NoTask => u = v
        <5>1. \A v \in Workers : task[v] # Head(m_Queue)
          BY <3>1, PoolAssumption DEF PoolAssumption, Held, TaskInv, NoTaskLostOrDuplicated
        <5> QED
          BY <3>2, <5>1 DEF TaskInv, NoTaskLostOrDuplicated
      <4> QED
        BY <2>1, <2>2, <3>1, <3>2, <4>1, <4>2 DEF TaskInv, NoTaskLostOrDuplicated
    <3>3. CASE task' = task /\ dropped' = dropped \cup {Head(m_Queue)}
      <4>1. Held' = Held
        BY <3>3 DEF Held
      <4> QED
        BY <2>1, <2>2, <3>1, <3>3, <4>1 DEF TaskInv, NoTaskLostOrDuplicated
    <3>4. Front = {Head(m_Queue)} /\ EQueueWaitResult \in {"Terminated", "Ok"}
      BY <2>5 DEF Front, EQueueWaitResult
    <3> QED
      BY <1>4, <3>2, <3>3, <3>4 DEF Retrieve
  <2> QED
    BY <2>4, <2>5
<1>5. ASSUME NEW w \in Workers, FinishTask(w) PROVE TaskInv'
  <2>1. /\ pc[w] = "run" /\ pc'[w] \in {"metrics", "crashed"}
        /\ \A x \in Threads \ {w} : pc'[x] = pc[x]
        /\ UNCHANGED <<m_Queue, arg, created, dropped>>
    BY <1>5 DEF FinishTask, Goto, Threads
  <2>2. Unpushed' = Unpushed /\ ArgsDistinct'
    BY <2>1 DEF Unpushed, Before, TaskInv, ArgsDistinct, Threads
  <2>3. CASE task' = task /\ done' = done
    BY <2>1, <2>2, <2>3 DEF Held, TaskInv, NoTaskLostOrDuplicated
  <2>4. CASE task' = [task EXCEPT ![w] = NoTask] /\ done' = done \cup {task[w]}
    <3>1. task[w] # NoTask /\ task[w] \in Held
      BY <2>1 DEF Held
    <3>2. \A v \in Workers \ {w} : task[v] # task[w]
      BY <3>1 DEF TaskInv, NoTaskLostOrDuplicated
    <3>3. Held' = Held \ {task[w]}
      BY <2>4, <3>2 DEF Held
    <3>4. \A u, v \in Workers : task'[u] = task'[v] /\ task'[u] # NoTask => u = v
      BY <2>4 DEF TaskInv, NoTaskLostOrDuplicated
    <3> QED
      BY <2>1, <2>2, <2>4, <3>1, <3>3, <3>4 DEF TaskInv, NoTaskLostOrDuplicated
  <2> QED
    BY <1>5, <2>3, <2>4 DEF FinishTask
<1>6. ASSUME NEW th \in Terminators, Cleanup(th) PROVE TaskInv'
  <2>1. /\ m_Queue' = <<>> /\ dropped' = dropped \cup Range(m_Queue)
        /\ \A s \in Submitters : pc'[s] = pc[s]
        /\ UNCHANGED <<task, arg, created, done>>
    BY <1>6, PoolAssumption DEF PoolAssumption, Cleanup, Goto, Threads
  <2>2. Range(m_Queue') = {} /\ IsInjective(m_Queue')
    BY <2>1 DEF Range, IsInjective
  <2>3. Unpushed' = Unpushed /\ Held' = Held /\ ArgsDistinct'
    BY <2>1 DEF Unpushed, Held, TaskInv, ArgsDistinct
  <2> QED
    BY <2>1, <2>2, <2>3 DEF TaskInv, NoTaskLostOrDuplicated
<1> QED
  BY <1>1, <1>2, <1>3, <1>4, <1>5, <1>6, QuietSteps

(* No interleaving of SubmitTask, Work and Terminate loses a task or hands   *)
(* it out twice, with any number of threads.                                 *)
THEOREM PoolKeepsTasks == Spec => []NoTaskLostOrDuplicated
<1>1. Spec => [](TypeInv /\ TaskInv)
  BY InitTypeInv, NextTypeInv, InitTaskInv, NextTaskInv, PTL DEF Spec
<1> QED
  BY <1>1, PTL DEF TaskInv

-----------------------------------------------------------------------------
(* Termination is final.                                                    *)

(* Nobody terminates a pool whose constructor is running.                   *)
CtorInv ==
  pc[Owner] = "ctor" =>
    m_State = "Invalid" /\ \A th \in Terminators \ {Owner} : pc[th] = "idle"

LEMMA InitCtorInv == Init => CtorInv
  BY PoolAssumption DEF PoolAssumption, Init, CtorInv, Threads

(* What a step does to m_State, and to the constructor's thread: only        *)
(* NotifyInitialized and NotifyTerminated assign m_State.                    *)
LEMMA StateSteps ==
  ASSUME TypeInv, CtorInv, [Next]_vars
  PROVE  \/ NotifyInitialized
         \/ \E th \in Terminators : NotifyTerminated(th)
         \/ /\ m_State' = m_State
            /\ pc'[Owner] = "ctor" => pc[Owner] = "ctor"
            /\ pc[Owner] = "ctor" => \A th \in Terminators \ {Owner} : pc'[th] = pc[th]
<1> DEFINE Same ==
      /\ m_State' = m_State
      /\ pc'[Owner] = "ctor" => pc[Owner] = "ctor"
      /\ pc[Owner] = "ctor" => \A th \in Terminators \ {Owner} : pc'[th] = pc[th]
<1> USE PoolAssumption DEF PoolAssumption, TypeInv, TypeOK, Threads, history, CtorInv
<1>1. ASSUME NEW w \in Workers, SpawnWorker(w) PROVE Same
  BY <1>1 DEF SpawnWorker, Goto
<1>2. ASSUME NEW th \in Submitters \cup Terminators, WaitStep(th) \/ InitWaitSpurious(th)
      PROVE Same
  <2>1. CASE WaitUntilInitialized(th)
    BY <1>2, <2>1 DEF WaitUntilInitialized, Goto, Resume
  <2>2. CASE InitWaitTimeout(th) \/ InitWaitSpurious(th)
    BY <1>2, <2>2 DEF InitWaitTimeout, InitWaitSpurious, Goto
  <2>3. CASE InitWaitExpired(th)
    BY <1>2, <2>3 DEF InitWaitExpired, Goto, Resume, Throws
  <2> QED
    BY <1>2, <2>1, <2>2, <2>3 DEF WaitStep
<1>3. ASSUME NEW s \in Submitters,
             PushTask(s) \/ LoadNumTasks(s) \/ StoreQueueSize(s) \/ NotifyOne(s)
                \/ \E t \in Tasks : SubmitTask(s, t)
      PROVE Same
  <2>1. CASE PushTask(s) \/ \E t \in Tasks : SubmitTask(s, t)
    BY <2>1 DEF PushTask, SubmitTask, Goto
  <2>2. CASE NotifyOne(s)
    BY <2>2 DEF NotifyOne, OneWaiter, Wake, Waiting, Return
  <2>3. CASE LoadNumTasks(s) \/ StoreQueueSize(s)
    <3>1. m_State' = m_State /\ (Goto(s, "size", "store") \/ Goto(s, "store", "notify"))
      BY <2>3, Zenon DEF LoadNumTasks, StoreQueueSize
    <3> QED
      BY <3>1 DEF Goto
  <2> QED
    BY <1>3, <2>1, <2>2, <2>3
<1>4. ASSUME NEW w \in Workers, WorkStep(w) \/ SpuriousWake(w) PROVE Same
  <2>1. CASE LoadMetrics(w) \/ ReloadQueueSize(w) \/ RecordMetrics(w)
    <3>1. m_State' = m_State /\ \E to \in WorkerPoints : pc' = [pc EXCEPT ![w] = to]
      BY <2>1, Zenon DEF LoadMetrics, ReloadQueueSize, RecordMetrics, Goto, WorkerPoints
    <3> QED
      BY <3>1
  <2>2. CASE WorkEntry(w) \/ Retrieve(w) \/ Sleep(w) \/ FinishTask(w) \/ SpuriousWake(w)
    BY <2>2 DEF WorkEntry, Retrieve, Sleep, FinishTask, SpuriousWake, Goto
  <2> QED
    BY <1>4, <2>1, <2>2 DEF WorkStep
<1>5. ASSUME NEW th \in Terminators,
             Terminate(th) \/ CheckInitialized(th) \/ Join(th) \/ JoinRaces(th) \/ Cleanup(th)
      PROVE Same
  BY <1>5 DEF Terminate, CheckInitialized, Join, JoinRaces, Cleanup, Goto, Constructed
<1>6. CASE UNCHANGED vars
  BY <1>6 DEF vars
<1> QED
  BY <1>1, <1>2, <1>3, <1>4, <1>5, <1>6
  DEF Next, CtorStep, SubmitStep, TerminateStep, Finished

LEMMA NextCtorInv == TypeInv /\ CtorInv /\ [Next]_vars => CtorInv'
<1> SUFFICES ASSUME TypeInv, CtorInv, [Next]_vars PROVE CtorInv'
  OBVIOUS
<1> USE PoolAssumption DEF PoolAssumption, TypeInv, TypeOK, CtorInv, Threads
<1>1. CASE NotifyInitialized
  BY <1>1 DEF NotifyInitialized
<1>2. ASSUME NEW th \in Terminators, NotifyTerminated(th) PROVE CtorInv'
  BY <1>2 DEF NotifyTerminated, AllWaiters, Wake, Waiting
<1> QED
  BY <1>1, <1>2, StateSteps

LEMMA PoolInvariant == Spec => [](TypeInv /\ TaskInv /\ CtorInv)
  BY InitTypeInv, NextTypeInv, InitTaskInv, NextTaskInv, InitCtorInv, NextCtorInv, PTL
  DEF Spec

(* A pool that is flagged Terminated stays so. *)
LEMMA TerminatedForGood ==
  ASSUME TypeInv, CtorInv, [Next]_vars, m_State = "Terminated"
  PROVE  m_State' = "Terminated"
<1>1. ~NotifyInitialized
  BY DEF NotifyInitialized, CtorInv
<1>2. ASSUME NEW th \in Terminators, NotifyTerminated(th) PROVE m_State' = "Terminated"
  BY <1>2 DEF NotifyTerminated
<1> QED
  BY <1>1, <1>2, StateSteps

(* Once the pool is flagged Terminated no worker takes another task, in any  *)
(* interleaving.                                                             *)
THEOREM PoolNoTaskTakenAfterTermination == Spec => NoTaskTakenAfterTermination
<1>1. ASSUME TypeInv, CtorInv, [Next]_vars, m_State = "Terminated"
      PROVE  m_State' = "Terminated" /\ Held' \subseteq Held
  <2>1. m_State' = "Terminated"
    BY <1>1, TerminatedForGood
  <2>2. task' = task => Held' = Held
    BY DEF Held
  <2>3. ASSUME NEW w \in Workers, Retrieve(w) PROVE task' = task
    BY <1>1, <2>3 DEF Retrieve, EQueueWaitResult
  <2>4. ASSUME NEW w \in Workers, FinishTask(w) PROVE Held' \subseteq Held
    BY <1>1, <2>4 DEF FinishTask, Held, TypeInv, TypeOK
  <2>5. \/ task' = task \/ \E w \in Workers : Retrieve(w) \/ FinishTask(w)
    <3>1. TasksStay => task' = task
      BY DEF TasksStay
    <3>2. \A s \in Submitters : PushTask(s) => task' = task
      BY DEF PushTask
    <3>3. \A s \in Submitters, t \in Tasks : SubmitTask(s, t) => task' = task
      BY DEF SubmitTask
    <3>4. \A th \in Terminators : Cleanup(th) => task' = task
      BY DEF Cleanup
    <3> QED
      BY <1>1, QuietSteps, <3>1, <3>2, <3>3, <3>4, Zenon
  <2> QED
    BY <2>1, <2>2, <2>3, <2>4, <2>5
<1>2. TypeInv /\ CtorInv /\ [Next]_vars =>
        [m_State = "Terminated" => m_State' = "Terminated" /\ Held' \subseteq Held]_vars
  BY <1>1
<1> QED
  BY <1>2, PoolInvariant, PTL DEF Spec, NoTaskTakenAfterTermination

-----------------------------------------------------------------------------
(* What a step does to the threads inside SubmitTask and Terminate: it       *)
(* brings no terminator back to the start, it enters SubmitTask only once    *)
(* the constructor is over, and it throws only from the expired wait.        *)
LEMMA ThrowSteps ==
  ASSUME TypeInv, [Next]_vars
  PROVE  /\ NobodyTerminates' => NobodyTerminates
         /\ \A s \in Submitters :
              pc'[s] \in InSubmit => pc[s] \in InSubmit \/ pc[Owner] # "ctor"
         /\ \A s \in Submitters :
              pc'[s] = "threw" => pc[s] = "threw" \/ m_State # "Initialized"
         /\ \A s \in Submitters :
              pc'[s] = "threw" => pc[s] \in InSubmit
<1> DEFINE Goal ==
      /\ NobodyTerminates' => NobodyTerminates
      /\ \A s \in Submitters :
           /\ pc'[s] \in InSubmit => pc[s] \in InSubmit \/ pc[Owner] # "ctor"
           /\ pc'[s] = "threw" => pc[s] = "threw" \/ m_State # "Initialized"
           /\ pc'[s] = "threw" => pc[s] \in InSubmit
<1> SUFFICES Goal
  OBVIOUS
<1> USE PoolAssumption
    DEF PoolAssumption, TypeInv, TypeOK, Threads, history, NobodyTerminates, InSubmit
<1>1. ASSUME NEW w \in Workers, SpawnWorker(w) PROVE Goal
  BY <1>1 DEF SpawnWorker, Goto
<1>2. CASE NotifyInitialized
  BY <1>2 DEF NotifyInitialized
<1>3. ASSUME NEW th \in Submitters \cup Terminators, WaitStep(th) \/ InitWaitSpurious(th)
      PROVE Goal
  <2>1. CASE WaitUntilInitialized(th)
    BY <1>3, <2>1 DEF WaitUntilInitialized, Goto, Resume
  <2>2. CASE InitWaitTimeout(th) \/ InitWaitSpurious(th)
    BY <1>3, <2>2 DEF InitWaitTimeout, InitWaitSpurious, Goto
  <2>3. CASE InitWaitExpired(th)
    BY <1>3, <2>3 DEF InitWaitExpired, Goto, Resume, Throws
  <2> QED
    BY <1>3, <2>1, <2>2, <2>3 DEF WaitStep
<1>4. ASSUME NEW s \in Submitters, PushTask(s) \/ LoadNumTasks(s) \/ StoreQueueSize(s)
      PROVE Goal
  <2>1. \E to \in InSubmit \ {"threw"} : pc' = [pc EXCEPT ![s] = to] /\ pc[s] \in InSubmit
    BY <1>4, Zenon DEF PushTask, LoadNumTasks, StoreQueueSize, Goto
  <2> QED
    BY <2>1
<1>5. ASSUME NEW s \in Submitters, NEW t \in Tasks, SubmitTask(s, t) PROVE Goal
  BY <1>5 DEF SubmitTask, Constructed
<1>6. ASSUME NEW s \in Submitters, NotifyOne(s) PROVE Goal
  BY <1>6 DEF NotifyOne, OneWaiter, Wake, Waiting, Return
<1>7. ASSUME NEW w \in Workers, WorkStep(w) \/ SpuriousWake(w) PROVE Goal
  <2>1. \E to \in WorkerPoints : pc' = [pc EXCEPT ![w] = to]
    BY <1>7, Zenon DEF WorkStep, WorkEntry, Retrieve, Sleep, FinishTask, LoadMetrics,
       ReloadQueueSize, RecordMetrics, SpuriousWake, Goto, WorkerPoints
  <2> QED
    BY <2>1 DEF WorkerPoints
<1>8. ASSUME NEW th \in Terminators,
             Terminate(th) \/ CheckInitialized(th) \/ Join(th) \/ JoinRaces(th) \/ Cleanup(th)
      PROVE Goal
  BY <1>8 DEF Terminate, CheckInitialized, Join, JoinRaces, Cleanup, Goto
<1>9. ASSUME NEW th \in Terminators, NotifyTerminated(th) PROVE Goal
  BY <1>9 DEF NotifyTerminated, AllWaiters, Wake, Waiting
<1>10. CASE UNCHANGED vars
  BY <1>10 DEF vars
<1> QED
  BY <1>1, <1>2, <1>3, <1>4, <1>5, <1>6, <1>7, <1>8, <1>9, <1>10
  DEF Next, CtorStep, SubmitStep, TerminateStep, Finished

-----------------------------------------------------------------------------
(* The refinement of TaskPool.                                              *)

LEMMA SameRange == \A f : Promise!Range(f) = Range(f)
  BY DEF Range, Promise!Range

LEMMA InitPromise == Init => Promise!Init
<1> SUFFICES ASSUME Init PROVE Promise!Init
  OBVIOUS
<1>1. m_Queue = <<>> /\ done = {} /\ dropped = {} /\ m_State = "Invalid"
  BY DEF Init
<1>2. task = [w \in Workers |-> NoTask]
  BY DEF Init
<1>3. NobodyTerminates
  BY PoolAssumption DEF PoolAssumption, Init, NobodyTerminates, Threads
<1> QED
  BY <1>1, <1>2, <1>3 DEF Promise!Init

(* Submitters and workers do not terminate the pool. *)
LEMMA OthersDoNotTerminate ==
  ASSUME TypeOK, NEW th \in Submitters \cup Workers, \E to : pc' = [pc EXCEPT ![th] = to]
  PROVE  NobodyTerminates' = NobodyTerminates
<1>1. \A x \in Terminators : pc'[x] = pc[x]
  BY PoolAssumption DEF PoolAssumption, Threads, TypeOK
<1> QED
  BY <1>1, Zenon DEF NobodyTerminates

(* Every step of the pool is a step of TaskPool or leaves its state alone.  *)
LEMMA NextPromise ==
  ASSUME TypeInv, TaskInv, CtorInv, [Next]_vars
  PROVE  [Promise!Next]_(Promise!vars)
<1> USE DEF TypeInv, TypeOK, Hands, history, Promise!vars
<1>1. ASSUME TasksStay PROVE [Promise!Next]_(Promise!vars)
  <2>1. UNCHANGED <<m_Queue, task, done, dropped>>
    BY <1>1 DEF TasksStay
  <2>2. NobodyTerminates' => NobodyTerminates
    BY ThrowSteps
  <2>3. CASE m_State' = "Terminated" /\ m_State # "Terminated"
    <3>1. ~NobodyTerminates
      BY <2>3, StateSteps DEF NotifyInitialized, NotifyTerminated, NobodyTerminates
    <3> QED
      BY <2>1, <2>2, <2>3, <3>1 DEF Promise!Next, Promise!Close
  <2>4. CASE (m_State' = "Terminated") <=> (m_State = "Terminated")
    <3>1. CASE NobodyTerminates' <=> NobodyTerminates
      BY <2>1, <2>4, <3>1
    <3>2. CASE ~(NobodyTerminates' <=> NobodyTerminates)
      BY <2>1, <2>2, <2>4, <3>2 DEF Promise!Next, Promise!BeginClose
    <3> QED
      BY <3>1, <3>2
  <2> QED
    BY <2>3, <2>4, TerminatedForGood
<1>2. ASSUME NEW s \in Submitters, NEW t \in Tasks, SubmitTask(s, t)
      PROVE  UNCHANGED Promise!vars
  <2>1. NobodyTerminates' = NobodyTerminates
    BY <1>2, OthersDoNotTerminate, Zenon DEF SubmitTask
  <2> QED
    BY <1>2, <2>1 DEF SubmitTask
<1>3. ASSUME NEW s \in Submitters, PushTask(s) PROVE Promise!Next
  <2>1. /\ m_Queue' = Append(m_Queue, arg[s])
        /\ UNCHANGED <<task, done, dropped, m_State, NobodyTerminates>>
    BY <1>3, OthersDoNotTerminate, Zenon DEF PushTask, Goto
  <2>2. arg[s] \in Tasks /\ arg[s] # NoTask /\ arg[s] \in Unpushed
    BY <1>3 DEF PushTask, Goto, Unpushed, InSubmit
  <2>3. arg[s] \notin Range(m_Queue) \cup Held \cup done \cup dropped
    BY <2>2 DEF TaskInv, NoTaskLostOrDuplicated
  <2>4. arg[s] \notin Range(task)
    BY <2>2, <2>3 DEF Range, Held
  <2> QED
    BY <2>1, <2>2, <2>3, <2>4, SameRange DEF Promise!Next, Promise!Submit, Promise!Known
<1>4. ASSUME NEW w \in Workers, Retrieve(w) PROVE [Promise!Next]_(Promise!vars)
  <2>1. UNCHANGED <<done, m_State, NobodyTerminates>>
    BY <1>4, OthersDoNotTerminate, Zenon DEF Retrieve
  <2>5. task[w] = NoTask
    BY <1>4 DEF Retrieve, InSubmit
  <2>2. CASE m_Queue = <<>>
    <3>1. UNCHANGED <<m_Queue, task, dropped>>
      BY <1>4, <2>2 DEF Retrieve, PopTask, Front, EQueueWaitResult
    <3> QED
      BY <2>1, <3>1
  <2>3. CASE m_Queue # <<>> /\ m_State = "Terminated"
    <3>1. /\ m_Queue' = Tail(m_Queue) /\ task' = task
          /\ dropped' = dropped \cup {Head(m_Queue)}
      BY <1>4, <2>3 DEF Retrieve, PopTask, Front, EQueueWaitResult
    <3> QED
      BY <2>1, <2>3, <3>1 DEF Promise!Next, Promise!DiscardOldest
  <2>4. CASE m_Queue # <<>> /\ m_State # "Terminated"
    <3>1. /\ m_Queue' = Tail(m_Queue) /\ dropped' = dropped
          /\ task' = [task EXCEPT ![w] = Head(m_Queue)]
      BY <1>4, <2>4 DEF Retrieve, PopTask, Front, EQueueWaitResult
    <3> QED
      BY <2>1, <2>4, <2>5, <3>1 DEF Promise!Next, Promise!Start
  <2> QED
    BY <2>2, <2>3, <2>4
<1>5. ASSUME NEW w \in Workers, FinishTask(w) PROVE [Promise!Next]_(Promise!vars)
  <2>1. UNCHANGED <<m_Queue, dropped, m_State, NobodyTerminates>>
    BY <1>5, OthersDoNotTerminate, Zenon DEF FinishTask, Goto
  <2>3. task[w] # NoTask
    BY <1>5 DEF FinishTask, Goto
  <2>2. \/ task' = [task EXCEPT ![w] = NoTask] /\ done' = done \cup {task[w]}
        \/ UNCHANGED <<task, done>>
    BY <1>5 DEF FinishTask
  <2> QED
    BY <2>1, <2>2, <2>3 DEF Promise!Next, Promise!Finish
<1>6. ASSUME NEW th \in Terminators, Cleanup(th) PROVE Promise!Next
  <2>1. ~NobodyTerminates /\ ~NobodyTerminates'
    BY <1>6, PoolAssumption DEF PoolAssumption, Cleanup, Goto, NobodyTerminates, Threads
  <2> QED
    BY <1>6, <2>1, SameRange DEF Cleanup, Promise!Next, Promise!DiscardAll
<1> QED
  BY <1>1, <1>2, <1>3, <1>4, <1>5, <1>6, QuietSteps

(* The pool implements TaskPool: first in, first out, each task once, and   *)
(* nothing starts after the shutdown, for any number of threads.            *)
THEOREM PoolImplementsTaskPool == Spec => ImplementsTaskPool
<1>1. TypeInv /\ TaskInv /\ CtorInv /\ [Next]_vars => [Promise!Next]_(Promise!vars)
  BY NextPromise
<1> QED
  BY <1>1, InitPromise, PoolInvariant, PTL DEF Spec, ImplementsTaskPool, Promise!Spec

-----------------------------------------------------------------------------
(* The lost wake-up, and nothing else, strands a task.                      *)

LEMMA NextStranded ==
  TypeInv /\ StrandedOnlyByMissedNotify /\ [Next]_vars => StrandedOnlyByMissedNotify'
<1> SUFFICES ASSUME TypeInv, StrandedOnlyByMissedNotify, [Next]_vars, Stranded'
             PROVE  missed'
  BY DEF StrandedOnlyByMissedNotify
<1>1. Stranded => missed
  BY DEF StrandedOnlyByMissedNotify
<1> USE PoolAssumption DEF PoolAssumption, TypeInv, TypeOK, Hands, Threads, history, Stranded,
        InSubmit, WorkerPoints, TerminatorPoints
<1>2. ASSUME NEW w \in Workers, SpawnWorker(w) PROVE missed'
  BY <1>2 DEF SpawnWorker, Goto
<1>3. CASE NotifyInitialized
  BY <1>1, <1>3 DEF NotifyInitialized
<1>4. ASSUME NEW th \in Submitters \cup Terminators, WaitStep(th) \/ InitWaitSpurious(th)
      PROVE missed'
  <2>1. CASE WaitUntilInitialized(th)
    BY <1>1, <1>4, <2>1 DEF WaitUntilInitialized, Goto, Resume
  <2>2. CASE InitWaitTimeout(th) \/ InitWaitSpurious(th)
    BY <1>1, <1>4, <2>2 DEF InitWaitTimeout, InitWaitSpurious, Goto
  <2>3. CASE InitWaitExpired(th)
    BY <1>1, <1>4, <2>3 DEF InitWaitExpired, Goto, Resume, Throws
  <2> QED
    BY <1>4, <2>1, <2>2, <2>3 DEF WaitStep
<1>5. ASSUME NEW s \in Submitters, NEW t \in Tasks, SubmitTask(s, t) PROVE missed'
  BY <1>1, <1>5 DEF SubmitTask
(* A submitter that has just pushed, or read or stored the size, has its     *)
(* notify_one still to come.                                                 *)
<1>6. ASSUME NEW s \in Submitters, PushTask(s) \/ LoadNumTasks(s) \/ StoreQueueSize(s)
      PROVE missed'
  <2>1. pc'[s] \in {"size", "store", "notify"}
    BY <1>6, Zenon DEF PushTask, LoadNumTasks, StoreQueueSize, Goto
  <2> QED
    BY <2>1
(* notify_one wakes a waiting worker; without one, every worker is between   *)
(* its predicate and its wait.                                               *)
<1>7. ASSUME NEW s \in Submitters, NotifyOne(s) PROVE missed'
  <2>1. PICK woken \in OneWaiter : Wake(woken, s, Return(s))
    BY <1>7 DEF NotifyOne
  <2>2. s \notin Workers
    BY <2>1 DEF Wake, Return
  <2>3. CASE Waiting = {}
    <3>1. \A w \in Workers : pc[w] = "sleep"
      BY <2>1, <2>2, <2>3 DEF Wake, OneWaiter, Waiting
    <3>2. ~RwLockFree
      BY <3>1 DEF RwLockFree
    <3>3. missed' = (missed \/ (Waiting = {} /\ ~RwLockFree))
      BY <1>7, Zenon DEF NotifyOne
    <3> QED
      BY <2>3, <3>2, <3>3
  <2>4. CASE Waiting # {}
    <3>1. PICK w \in Workers : woken = {w}
      BY <2>1, <2>4 DEF OneWaiter, Waiting
    <3>2. pc'[w] = "lock"
      BY <2>1, <2>2, <3>1 DEF Wake
    <3> QED
      BY <3>1, <3>2
  <2> QED
    BY <2>3, <2>4
<1>8. ASSUME NEW w \in Workers, WorkEntry(w) \/ SpuriousWake(w) \/ FinishTask(w) PROVE missed'
  BY <1>8 DEF WorkEntry, SpuriousWake, FinishTask, Goto
<1>9. ASSUME NEW w \in Workers, Retrieve(w) PROVE missed'
  BY <1>9 DEF Retrieve, PopTask, EQueueWaitResult
<1>10. ASSUME NEW w \in Workers, Sleep(w) PROVE missed'
  BY <1>1, <1>10 DEF Sleep, Goto
<1>11. ASSUME NEW w \in Workers, LoadMetrics(w) \/ ReloadQueueSize(w) \/ RecordMetrics(w)
       PROVE missed'
  <2>1. pc'[w] \in {"record", "reloaded", "lock"}
    BY <1>11, Zenon DEF LoadMetrics, ReloadQueueSize, RecordMetrics, Goto
  <2> QED
    BY <2>1
<1>12. ASSUME NEW th \in Terminators,
              Terminate(th) \/ CheckInitialized(th) \/ Join(th) \/ JoinRaces(th) \/ Cleanup(th)
       PROVE missed'
  BY <1>1, <1>12 DEF Terminate, CheckInitialized, Join, JoinRaces, Cleanup, Goto
<1>13. ASSUME NEW th \in Terminators, NotifyTerminated(th) PROVE missed'
  BY <1>1, <1>13 DEF NotifyTerminated, AllWaiters, Wake, Waiting
<1>14. CASE UNCHANGED vars
  BY <1>1, <1>14 DEF vars
<1> QED
  BY <1>2, <1>3, <1>4, <1>5, <1>6, <1>7, <1>8, <1>9, <1>10, <1>11, <1>12, <1>13, <1>14
  DEF Next, CtorStep, SubmitStep, WorkStep, TerminateStep, Finished

(* A queued task is left with idle workers only after a notify_one fell      *)
(* between a worker's predicate and its wait.                                *)
THEOREM PoolStrandedOnlyByMissedNotify == Spec => []StrandedOnlyByMissedNotify
<1>1. Init => StrandedOnlyByMissedNotify
  BY DEF Init, StrandedOnlyByMissedNotify, Stranded
<1> QED
  BY <1>1, NextStranded, PoolInvariant, PTL DEF Spec

-----------------------------------------------------------------------------
(* Termination, by any number of threads.                                   *)

(* A worker that has left Work() does not come back, and none is started     *)
(* once the constructor is over.                                             *)
LEMMA OutStaysOut ==
  ASSUME TypeInv, [Next]_vars, WorkersOut, pc[Owner] # "ctor"
  PROVE  WorkersOut'
<1> USE PoolAssumption DEF PoolAssumption, TypeInv, TypeOK, Hands, Threads, history, WorkersOut,
        InSubmit, TerminatorPoints
<1>1. \A w \in Workers : ~SpawnWorker(w) /\ ~NotifyInitialized
  BY DEF SpawnWorker, NotifyInitialized
<1>2. ASSUME NEW th \in Submitters \cup Terminators, WaitStep(th) \/ InitWaitSpurious(th)
      PROVE WorkersOut'
  <2>1. th \notin Workers
    BY <1>2 DEF WaitStep, WaitUntilInitialized, InitWaitTimeout, InitWaitExpired,
                InitWaitSpurious, Goto
  <2>2. \A w \in Workers : pc'[w] = pc[w]
    BY <1>2, <2>1 DEF WaitStep, WaitUntilInitialized, InitWaitTimeout, InitWaitExpired,
                InitWaitSpurious, Goto
  <2> QED
    BY <2>2
<1>3. ASSUME NEW s \in Submitters,
             PushTask(s) \/ LoadNumTasks(s) \/ StoreQueueSize(s)
               \/ \E t \in Tasks : SubmitTask(s, t)
      PROVE WorkersOut'
  <2>1. /\ \E to \in InSubmit : pc' = [pc EXCEPT ![s] = to]
        /\ pc[s] \notin {"exited", "unborn"}
    BY <1>3, Zenon
    DEF PushTask, LoadNumTasks, StoreQueueSize, SubmitTask, Goto, InSubmit
  <2> QED
    BY <2>1
<1>4. ASSUME NEW s \in Submitters, NotifyOne(s) PROVE WorkersOut'
  BY <1>4 DEF NotifyOne, OneWaiter, Wake, Waiting, Return
<1>5. ASSUME NEW w \in Workers, WorkStep(w) \/ SpuriousWake(w) PROVE FALSE
  BY <1>5, Zenon DEF WorkStep, WorkEntry, Retrieve, Sleep, FinishTask, LoadMetrics,
     ReloadQueueSize, RecordMetrics, SpuriousWake, Goto
<1>6. ASSUME NEW th \in Terminators,
             Terminate(th) \/ CheckInitialized(th) \/ Join(th) \/ JoinRaces(th) \/ Cleanup(th)
      PROVE WorkersOut'
  BY <1>6 DEF Terminate, CheckInitialized, Join, JoinRaces, Cleanup, Goto
<1>7. ASSUME NEW th \in Terminators, NotifyTerminated(th) PROVE WorkersOut'
  BY <1>7 DEF NotifyTerminated, AllWaiters, Wake, Waiting
<1>8. CASE UNCHANGED vars
  BY <1>8 DEF vars
<1> QED
  BY <1>1, <1>2, <1>3, <1>4, <1>5, <1>6, <1>7, <1>8
  DEF Next, CtorStep, SubmitStep, TerminateStep, Finished

(* A call that is joining goes on doing so until its join succeeds or throws. *)
LEMMA JoinSteps ==
  ASSUME TypeInv, [Next]_vars, NEW th \in Terminators, pc[th] \in {"join", "threw"}
  PROVE  pc'[th] \in {"join", "threw"} \/ Join(th)
<1> DEFINE Goal == pc'[th] \in {"join", "threw"}
<1> USE PoolAssumption DEF PoolAssumption, TypeInv, TypeOK, Threads, history
<1>1. ASSUME NEW x \in Threads \ {th}, \E to : pc' = [pc EXCEPT ![x] = to] PROVE Goal
  BY <1>1
<1>2. CASE NotifyInitialized
  BY <1>2 DEF NotifyInitialized
<1>3. ASSUME NEW w \in Workers, SpawnWorker(w) \/ WorkStep(w) \/ SpuriousWake(w) PROVE Goal
  BY <1>1, <1>3, Zenon DEF SpawnWorker, WorkStep, WorkEntry, Retrieve, Sleep, FinishTask,
     LoadMetrics, ReloadQueueSize, RecordMetrics, SpuriousWake, Goto
<1>4. ASSUME NEW s \in Submitters, PushTask(s) \/ LoadNumTasks(s) \/ StoreQueueSize(s)
                                     \/ \E t \in Tasks : SubmitTask(s, t)
      PROVE Goal
  BY <1>1, <1>4, Zenon DEF PushTask, LoadNumTasks, StoreQueueSize, SubmitTask, Goto
<1>5. ASSUME NEW s \in Submitters, NotifyOne(s) PROVE Goal
  BY <1>5 DEF NotifyOne, OneWaiter, Wake, Waiting, Return
<1>6. ASSUME NEW x \in Submitters \cup Terminators, WaitStep(x) \/ InitWaitSpurious(x)
      PROVE Goal
  <2>1. x # th
    BY <1>6 DEF WaitStep, WaitUntilInitialized, InitWaitTimeout, InitWaitExpired,
       InitWaitSpurious, Goto
  <2> QED
    BY <1>1, <1>6, <2>1, Zenon DEF WaitStep, WaitUntilInitialized, InitWaitTimeout,
       InitWaitExpired, InitWaitSpurious, Goto
<1>7. ASSUME NEW x \in Terminators, Terminate(x) \/ CheckInitialized(x) \/ Cleanup(x)
      PROVE Goal
  BY <1>7 DEF Terminate, CheckInitialized, Cleanup, Goto
<1>8. ASSUME NEW x \in Terminators, NotifyTerminated(x) PROVE Goal
  BY <1>8 DEF NotifyTerminated, AllWaiters, Wake, Waiting
<1>9. ASSUME NEW x \in Terminators, JoinRaces(x) PROVE Goal
  BY <1>9 DEF JoinRaces, Goto
<1>10. ASSUME NEW x \in Terminators, Join(x), x # th PROVE Goal
  BY <1>1, <1>10, Zenon DEF Join, Goto
<1>11. CASE UNCHANGED vars
  BY <1>11 DEF vars
<1> QED
  BY <1>2, <1>3, <1>4, <1>5, <1>6, <1>7, <1>8, <1>9, <1>10, <1>11
  DEF Next, CtorStep, SubmitStep, TerminateStep, Finished

LEMMA NextLiveWorkersAreJoined ==
  ASSUME TypeInv, CtorInv, LiveWorkersAreJoined, [Next]_vars
  PROVE  LiveWorkersAreJoined'
<1>1. ASSUME m_State = "Terminated", WorkersOut PROVE WorkersOut'
  BY <1>1, OutStaysOut DEF CtorInv
<1>2. ASSUME m_State = "Terminated",
             NEW th \in Terminators, pc[th] \in {"join", "threw"}
      PROVE  WorkersOut' \/ pc'[th] \in {"join", "threw"}
  <2>1. Join(th) => WorkersOut
    BY DEF Join, WorkersOut
  <2> QED
    BY <1>1, <1>2, <2>1, JoinSteps
<1>3. ASSUME NEW th \in Terminators, NotifyTerminated(th) PROVE pc'[th] = "join"
  BY <1>3 DEF NotifyTerminated, Wake, Threads
<1>4. m_State = "Terminated" \/ m_State' # "Terminated"
        \/ \E th \in Terminators : NotifyTerminated(th)
  BY StateSteps DEF NotifyInitialized
<1> QED
  BY <1>1, <1>2, <1>3, <1>4 DEF LiveWorkersAreJoined

(* Whatever the number of workers and of threads that terminate the pool: a  *)
(* terminated pool has a worker left inside only while some call of          *)
(* Terminate is joining it, or has thrown.                                   *)
THEOREM PoolLiveWorkersAreJoined == Spec => []LiveWorkersAreJoined
<1>1. Init => LiveWorkersAreJoined
  BY DEF Init, LiveWorkersAreJoined
<1>2. TypeInv /\ CtorInv /\ LiveWorkersAreJoined /\ [Next]_vars => LiveWorkersAreJoined'
  BY NextLiveWorkersAreJoined
<1> QED
  BY <1>1, <1>2, PoolInvariant, PTL DEF Spec

-----------------------------------------------------------------------------
(* The counter of executed tasks.                                           *)

Updating  == {w \in Workers : pc[w] \in {"metrics", "record", "reloaded"}}
Recording == {w \in Workers : pc[w] \in {"record", "reloaded"}}

(* m_MetricsLock keeps a worker's copy of the counter up to date until it    *)
(* has written it back.                                                      *)
CountInv ==
  /\ MetricsCountTasks
  /\ \A w \in Recording : reg[w].NumTasksDone = m_Metrics.NumTasksDone
  /\ \A v, w \in Recording : v = w

(* A step that neither executes a task nor touches the counter. *)
CountStays ==
  /\ done' = done
  /\ m_Metrics'.NumTasksDone = m_Metrics.NumTasksDone
  /\ Updating' = Updating /\ Recording' = Recording
  /\ \A w \in Recording : reg'[w].NumTasksDone = reg[w].NumTasksDone

LEMMA CountSteps ==
  ASSUME TypeInv, [Next]_vars
  PROVE  \/ CountStays
         \/ \E w \in Workers : FinishTask(w) \/ LoadMetrics(w) \/ RecordMetrics(w)
<1> USE PoolAssumption
    DEF PoolAssumption, TypeInv, TypeOK, Hands, Threads, history, Updating, Recording, InSubmit,
        TerminatorPoints
<1>1. ASSUME done' = done, m_Metrics' = m_Metrics, reg' = reg,
             \A w \in Workers : \/ pc'[w] = pc[w]
                                \/ {pc[w], pc'[w]} \cap {"metrics", "record", "reloaded"} = {}
      PROVE  CountStays
  BY <1>1 DEF CountStays
<1>2. ASSUME NEW w \in Workers, SpawnWorker(w) PROVE CountStays
  BY <1>1, <1>2 DEF SpawnWorker, Goto
<1>3. CASE NotifyInitialized
  BY <1>1, <1>3 DEF NotifyInitialized
<1>4. ASSUME NEW th \in Submitters \cup Terminators, WaitStep(th) \/ InitWaitSpurious(th)
      PROVE CountStays
  <2>1. /\ UNCHANGED <<done, m_Metrics, reg>>
        /\ pc[th] \in InSubmit
        /\ \E to \in InSubmit \cup {"flag"} : pc' = [pc EXCEPT ![th] = to]
    BY <1>4, Zenon DEF WaitStep, WaitUntilInitialized, InitWaitTimeout, InitWaitExpired,
       InitWaitSpurious, Goto, Resume, Throws
  <2> QED
    BY <1>1, <2>1
<1>5. ASSUME NEW s \in Submitters, PushTask(s) \/ \E t \in Tasks : SubmitTask(s, t)
      PROVE CountStays
  <2>1. /\ UNCHANGED <<done, m_Metrics, reg>>
        /\ pc[s] \in {"run", "idle", "push"}
        /\ \E to \in InSubmit : pc' = [pc EXCEPT ![s] = to]
    BY <1>5, Zenon DEF PushTask, SubmitTask, Goto
  <2> QED
    BY <1>1, <2>1
<1>6. ASSUME NEW s \in Submitters, LoadNumTasks(s) \/ StoreQueueSize(s) PROVE CountStays
  <2>1. /\ done' = done
        /\ Goto(s, "size", "store") \/ Goto(s, "store", "notify")
        /\ \A w \in Workers : w # s => reg'[w] = reg[w]
        /\ \/ m_Metrics' = m_Metrics
           \/ m_Metrics' = [m_Metrics EXCEPT !.TaskQueueSize = reg[s].TaskQueueSize]
    BY <1>6, Zenon DEF LoadNumTasks, StoreQueueSize
  <2>2. m_Metrics'.NumTasksDone = m_Metrics.NumTasksDone
    BY <2>1 DEF Metrics
  <2>3. Updating' = Updating /\ Recording' = Recording /\ s \notin Recording
    BY <2>1 DEF Goto
  <2> QED
    BY <2>1, <2>2, <2>3 DEF CountStays
<1>7. ASSUME NEW s \in Submitters, NotifyOne(s) PROVE CountStays
  BY <1>1, <1>7 DEF NotifyOne, OneWaiter, Wake, Waiting, Return
<1>8. ASSUME NEW w \in Workers, WorkEntry(w) \/ Retrieve(w) \/ Sleep(w) \/ SpuriousWake(w)
      PROVE CountStays
  BY <1>1, <1>8 DEF WorkEntry, Retrieve, Sleep, SpuriousWake, Goto
<1>9. ASSUME NEW w \in Workers, ReloadQueueSize(w) PROVE CountStays
  <2>1. /\ done' = done /\ m_Metrics' = m_Metrics /\ Goto(w, "record", "reloaded")
        /\ reg' = [reg EXCEPT ![w] = [reg[w] EXCEPT !.TaskQueueSize = m_Metrics.TaskQueueSize]]
    BY <1>9, Zenon DEF ReloadQueueSize
  <2>2. Updating' = Updating /\ Recording' = Recording
    BY <2>1 DEF Goto
  <2>3. \A v \in Workers : reg'[v].NumTasksDone = reg[v].NumTasksDone
    BY <2>1 DEF Metrics
  <2> QED
    BY <2>1, <2>2, <2>3 DEF CountStays
<1>10. ASSUME NEW th \in Terminators,
              Terminate(th) \/ CheckInitialized(th) \/ Join(th) \/ JoinRaces(th) \/ Cleanup(th)
       PROVE CountStays
  BY <1>1, <1>10 DEF Terminate, CheckInitialized, Join, JoinRaces, Cleanup, Goto
<1>11. ASSUME NEW th \in Terminators, NotifyTerminated(th) PROVE CountStays
  BY <1>1, <1>11 DEF NotifyTerminated, AllWaiters, Wake, Waiting
<1>12. CASE UNCHANGED vars
  BY <1>1, <1>12 DEF vars
<1> QED
  BY <1>2, <1>3, <1>4, <1>5, <1>6, <1>7, <1>8, <1>9, <1>10, <1>11, <1>12
  DEF Next, CtorStep, SubmitStep, WorkStep, TerminateStep, Finished

(* Adding and taking away one element of a finite set, counted. *)
LEMMA CountOne ==
  ASSUME NEW S, IsFiniteSet(S), NEW x
  PROVE  /\ x \notin S => Cardinality(S \cup {x}) = Cardinality(S) + 1
         /\ x \in S => Cardinality(S \ {x}) = Cardinality(S) - 1
         /\ Cardinality(S) \in Nat
  BY FS_AddElement, FS_RemoveElement, FS_CardinalityType

LEMMA NextCountInv ==
  ASSUME TypeInv, TaskInv, CountInv, [Next]_vars
  PROVE  CountInv'
<1>1. IsFiniteSet(Updating) /\ IsFiniteSet(done)
  BY PoolAssumption, FS_Subset DEF PoolAssumption, Updating, TypeInv, TypeOK
<1>2. /\ Cardinality(Updating) \in Nat /\ Cardinality(done) \in Nat
      /\ m_Metrics.NumTasksDone \in Nat
  BY <1>1, CountOne, MetricsFields DEF TypeInv, TypeOK
<1>3. m_Metrics.NumTasksDone + Cardinality(Updating) = Cardinality(done)
  BY DEF CountInv, MetricsCountTasks, Updating
<1>4. SUFFICES
        /\ m_Metrics'.NumTasksDone + Cardinality(Updating') = Cardinality(done')
        /\ \A w \in Recording' : reg'[w].NumTasksDone = m_Metrics'.NumTasksDone
        /\ \A v, w \in Recording' : v = w
  BY DEF CountInv, MetricsCountTasks, Updating
<1> USE DEF TypeInv, TypeOK, Hands, Threads, history
<1>5. CASE CountStays
  BY <1>3, <1>5 DEF CountStays, CountInv
<1>6. ASSUME NEW w \in Workers, FinishTask(w)
      PROVE  /\ m_Metrics'.NumTasksDone + Cardinality(Updating') = Cardinality(done')
             /\ \A v \in Recording' : reg'[v].NumTasksDone = m_Metrics'.NumTasksDone
             /\ \A u, v \in Recording' : u = v
  <2>1. /\ m_Metrics' = m_Metrics /\ reg' = reg /\ Recording' = Recording
        /\ pc[w] = "run" /\ w \notin Updating
    BY <1>6 DEF FinishTask, Goto, Recording, Updating
  <2>2. CASE pc' = [pc EXCEPT ![w] = "metrics"] /\ done' = done \cup {task[w]}
    <3>1. Updating' = Updating \cup {w}
      BY <2>2 DEF Updating
    <3>2. task[w] \notin done
      <4>1. task[w] # NoTask
        BY <2>1
      <4>2. task[w] \in Held
        BY <4>1 DEF Held
      <4> QED
        BY <4>2 DEF TaskInv, NoTaskLostOrDuplicated
    <3>3. /\ Cardinality(Updating') = Cardinality(Updating) + 1
          /\ Cardinality(done') = Cardinality(done) + 1
      BY <1>1, <2>1, <2>2, <3>1, <3>2, CountOne
    <3>4. m_Metrics'.NumTasksDone + Cardinality(Updating') = Cardinality(done')
      BY <1>2, <1>3, <2>1, <3>3
    <3> QED
      BY <2>1, <3>4 DEF CountInv
  <2>3. CASE pc' = [pc EXCEPT ![w] = "crashed"] /\ done' = done
    <3>1. Updating' = Updating
      BY <2>1, <2>3 DEF Updating
    <3> QED
      BY <1>3, <2>1, <2>3, <3>1 DEF CountInv
  <2> QED
    BY <1>6, <2>2, <2>3 DEF FinishTask, Goto
<1>7. ASSUME NEW w \in Workers, LoadMetrics(w)
      PROVE  /\ m_Metrics'.NumTasksDone + Cardinality(Updating') = Cardinality(done')
             /\ \A v \in Recording' : reg'[v].NumTasksDone = m_Metrics'.NumTasksDone
             /\ \A u, v \in Recording' : u = v
  <2>1. /\ m_Metrics' = m_Metrics /\ done' = done /\ reg' = [reg EXCEPT ![w] = m_Metrics]
        /\ MetricsLockFree /\ Goto(w, "metrics", "record")
    BY <1>7, Zenon DEF LoadMetrics
  <2>2. Recording = {} /\ Recording' = {w} /\ Updating' = Updating
    BY <2>1 DEF MetricsLockFree, Recording, Updating, Goto
  <2> QED
    BY <1>3, <2>1, <2>2
<1>8. ASSUME NEW w \in Workers, RecordMetrics(w)
      PROVE  /\ m_Metrics'.NumTasksDone + Cardinality(Updating') = Cardinality(done')
             /\ \A v \in Recording' : reg'[v].NumTasksDone = m_Metrics'.NumTasksDone
             /\ \A u, v \in Recording' : u = v
  <2>1. /\ m_Metrics'.NumTasksDone = reg[w].NumTasksDone + 1
        /\ done' = done /\ pc[w] \in {"record", "reloaded"} /\ pc' = [pc EXCEPT ![w] = "lock"]
    BY <1>8 DEF RecordMetrics
  <2>2. w \in Recording /\ w \in Updating
    BY <2>1 DEF Recording, Updating
  <2>3. Recording' = {} /\ Updating' = Updating \ {w}
    BY <2>1, <2>2 DEF CountInv, Recording, Updating
  <2>4. m_Metrics'.NumTasksDone = m_Metrics.NumTasksDone + 1
    BY <2>1, <2>2 DEF CountInv
  <2>5. Cardinality(Updating') = Cardinality(Updating) - 1
    BY <1>1, <2>2, <2>3, CountOne
  <2> QED
    BY <1>2, <1>3, <2>1, <2>3, <2>4, <2>5
<1> QED
  BY <1>5, <1>6, <1>7, <1>8, CountSteps DEF CountStays, CountInv

(* NumTasksDone counts every executed task but those not yet recorded, for   *)
(* any number of workers, when the pool was constructed with them.           *)
THEOREM PoolMetricsCountTasks ==
  ASSUME ~DefaultConstructed
  PROVE  Spec => []MetricsCountTasks
<1>1. Init => CountInv
  <2> SUFFICES ASSUME Init PROVE CountInv
    OBVIOUS
  <2>1. Updating = {} /\ Recording = {}
    BY PoolAssumption DEF PoolAssumption, Init, Threads, Updating, Recording
  <2>2. m_Metrics.NumTasksDone = 0 /\ done = {}
    BY DEF Init, ZeroMetrics
  <2>3. MetricsCountTasks
    BY <2>1, <2>2, FS_EmptySet DEF MetricsCountTasks, Updating
  <2> QED
    BY <2>1, <2>3 DEF CountInv
<1>2. TypeInv /\ TaskInv /\ CountInv /\ [Next]_vars => CountInv'
  BY NextCountInv
<1> QED
  BY <1>1, <1>2, PoolInvariant, PTL DEF Spec, CountInv

-----------------------------------------------------------------------------
(* The exception of SubmitTask.                                             *)

ThrowInv ==
  /\ pc[Owner] = "ctor" \/ m_State # "Invalid"
  /\ NobodyTerminates => m_State # "Terminated"
  /\ pc[Owner] = "ctor" => \A s \in Submitters : pc[s] \notin InSubmit
  /\ NobodyTerminates => \A s \in Submitters : pc[s] # "threw"

LEMMA NextThrowInv ==
  ASSUME TypeInv, CtorInv, ThrowInv, [Next]_vars
  PROVE  ThrowInv'
<1> USE PoolAssumption DEF PoolAssumption, TypeInv, TypeOK, Threads, CtorInv, ThrowInv
<1>1. CASE NotifyInitialized
  <2>1. m_State' = "Initialized" /\ pc'[Owner] # "ctor"
    BY <1>1 DEF NotifyInitialized
  <2>2. pc[Owner] = "ctor"
    BY <1>1 DEF NotifyInitialized
  <2>3. \A s \in Submitters : pc'[s] # "threw"
    BY <2>2, ThrowSteps
  <2> QED
    BY <2>1, <2>3
<1>2. ASSUME NEW th \in Terminators, NotifyTerminated(th) PROVE ThrowInv'
  <2>1. /\ m_State' = "Terminated" /\ pc[th] = "flag" /\ pc'[th] = "join"
        /\ pc'[Owner] = "ctor" => pc[Owner] = "ctor"
    BY <1>2 DEF NotifyTerminated, AllWaiters, Wake, Waiting
  <2>2. pc[Owner] # "ctor"
    BY <2>1
  <2> QED
    BY <2>1, <2>2 DEF NobodyTerminates
<1>3. CASE /\ m_State' = m_State
           /\ pc'[Owner] = "ctor" => pc[Owner] = "ctor"
           /\ pc[Owner] = "ctor" => pc'[Owner] = "ctor"
  <2>1. \A s \in Submitters : NobodyTerminates' => pc'[s] # "threw"
    <3> SUFFICES ASSUME NEW s \in Submitters, NobodyTerminates', pc'[s] = "threw" PROVE FALSE
      OBVIOUS
    <3>1. NobodyTerminates /\ pc[s] # "threw"
      BY ThrowSteps
    <3>2. m_State # "Initialized" /\ pc[s] \in InSubmit
      BY <3>1, ThrowSteps
    <3> QED
      BY <3>1, <3>2
  <2> QED
    BY <1>3, <2>1, ThrowSteps
<1>4. pc[Owner] = "ctor" => pc'[Owner] = "ctor" \/ NotifyInitialized
  <2> SUFFICES ASSUME pc[Owner] = "ctor", ~NotifyInitialized PROVE pc'[Owner] = "ctor"
    OBVIOUS
  <2>1. ASSUME NEW x \in Threads, pc[x] # "ctor", \E to : pc' = [pc EXCEPT ![x] = to]
        PROVE  pc'[Owner] = "ctor"
    BY <2>1
  <2>2. ASSUME NEW w \in Workers, SpawnWorker(w) \/ WorkStep(w) \/ SpuriousWake(w)
        PROVE  pc'[Owner] = "ctor"
    BY <2>1, <2>2, Zenon DEF SpawnWorker, WorkStep, WorkEntry, Retrieve, Sleep, FinishTask,
       LoadMetrics, ReloadQueueSize, RecordMetrics, SpuriousWake, Goto
  <2>3. ASSUME NEW s \in Submitters, PushTask(s) \/ LoadNumTasks(s) \/ StoreQueueSize(s)
                                       \/ \E t \in Tasks : SubmitTask(s, t)
        PROVE  pc'[Owner] = "ctor"
    BY <2>1, <2>3, Zenon DEF PushTask, LoadNumTasks, StoreQueueSize, SubmitTask, Goto
  <2>4. ASSUME NEW th \in Submitters \cup Terminators, WaitStep(th) \/ InitWaitSpurious(th)
        PROVE  pc'[Owner] = "ctor"
    BY <2>1, <2>4, Zenon DEF WaitStep, WaitUntilInitialized, InitWaitTimeout, InitWaitExpired,
       InitWaitSpurious, Goto
  <2>5. ASSUME NEW s \in Submitters, NotifyOne(s) PROVE pc'[Owner] = "ctor"
    BY <2>5 DEF NotifyOne, OneWaiter, Wake, Waiting, Return
  <2>6. ASSUME NEW th \in Terminators, Terminate(th) \/ CheckInitialized(th) \/ Join(th) \/ JoinRaces(th)
                                         \/ Cleanup(th)
        PROVE  pc'[Owner] = "ctor"
    BY <2>1, <2>6, Zenon DEF Terminate, CheckInitialized, Join, JoinRaces, Cleanup, Goto
  <2>7. ASSUME NEW th \in Terminators, NotifyTerminated(th) PROVE pc'[Owner] = "ctor"
    BY <2>7 DEF NotifyTerminated, AllWaiters, Wake, Waiting
  <2>8. CASE UNCHANGED vars
    BY <2>8 DEF vars
  <2> QED
    BY <2>2, <2>3, <2>4, <2>5, <2>6, <2>7, <2>8
    DEF Next, CtorStep, SubmitStep, TerminateStep, Finished
<1> QED
  BY <1>1, <1>2, <1>3, <1>4, StateSteps

(* A pool constructed with its workers never makes SubmitTask throw while    *)
(* nobody terminates it.                                                     *)
THEOREM PoolNoThrowBeforeTerminate ==
  ASSUME ~DefaultConstructed
  PROVE  Spec => []NoThrowBeforeTerminate
<1>1. Init => ThrowInv
  BY PoolAssumption DEF PoolAssumption, Init, ThrowInv, Threads, InSubmit
<1>2. TypeInv /\ CtorInv /\ ThrowInv /\ [Next]_vars => ThrowInv'
  BY NextThrowInv
<1>3. ThrowInv => NoThrowBeforeTerminate
  BY DEF ThrowInv, NobodyTerminates, NoThrowBeforeTerminate
<1> QED
  BY <1>1, <1>2, <1>3, PoolInvariant, PTL DEF Spec
=============================================================================
