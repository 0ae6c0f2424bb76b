------------------------------ MODULE TaskPool ------------------------------
(***************************************************************************)
(* What ThreadPool promises its users, without threads, locks, condition   *)
(* variables or counters: tasks queue up, each of the workers executes one *)
(* at a time, the oldest queued task is always the next to start, and a    *)
(* task is executed at most once.  Closing the pool is final: from then on *)
(* nothing starts, what is running may end, what is queued may be          *)
(* discarded.  Only a shutdown that has begun discards: a pool that nobody *)
(* is shutting down keeps every task until a worker takes it.              *)
(***************************************************************************)
EXTENDS Naturals, Sequences, Functions

CONSTANTS Workers, Tasks, NoTask

VARIABLES
  queue,     \* the tasks waiting, oldest first
  slot,      \* the task each worker executes, or NoTask
  finished,  \* the tasks executed
  discarded, \* the tasks that never will be
  closing,   \* a shutdown has begun
  closed     \* the pool has been shut down

vars == <<queue, slot, finished, discarded, closing, closed>>

Init ==
  /\ queue = <<>>
  /\ slot = [w \in Workers |-> NoTask]
  /\ finished = {} /\ discarded = {}
  /\ closing = FALSE /\ closed = FALSE

Known == Range(queue) \cup Range(slot) \cup finished \cup discarded

(* A pool that was shut down still takes tasks in; they never start.        *)
Submit(t) ==
  /\ t \notin Known
  /\ queue' = Append(queue, t)
  /\ UNCHANGED <<slot, finished, discarded, closing, closed>>

Start(w) ==
  /\ ~closed /\ queue # <<>> /\ slot[w] = NoTask
  /\ slot' = [slot EXCEPT ![w] = Head(queue)]
  /\ queue' = Tail(queue)
  /\ UNCHANGED <<finished, discarded, closing, closed>>

Finish(w) ==
  /\ slot[w] # NoTask
  /\ finished' = finished \cup {slot[w]}
  /\ slot' = [slot EXCEPT ![w] = NoTask]
  /\ UNCHANGED <<queue, discarded, closing, closed>>

BeginClose ==
  /\ closing' = TRUE
  /\ UNCHANGED <<queue, slot, finished, discarded, closed>>

(* A shutdown drops all that is queued; a worker that notices it drops one. *)
DiscardAll ==
  /\ closing
  /\ discarded' = discarded \cup Range(queue)
  /\ queue' = <<>>
  /\ UNCHANGED <<slot, finished, closing, closed>>

DiscardOldest ==
  /\ closed /\ queue # <<>>
  /\ discarded' = discarded \cup {Head(queue)}
  /\ queue' = Tail(queue)
  /\ UNCHANGED <<slot, finished, closing, closed>>

Close ==
  /\ closing /\ closed' = TRUE
  /\ UNCHANGED <<queue, slot, finished, discarded, closing>>

Next ==
  \/ \E t \in Tasks : Submit(t)
  \/ \E w \in Workers : Start(w) \/ Finish(w)
  \/ BeginClose \/ DiscardAll \/ DiscardOldest \/ Close

Spec == Init /\ [][Next]_vars
=============================================================================
