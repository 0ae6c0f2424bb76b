----------------------------- MODULE TpAverages -----------------------------
(***************************************************************************)
(* The two durations of TpMetrics, which Work() updates after each task    *)
(* under m_MetricsLock: one update after the other, each of a duration     *)
(* measured with the system clock.  Both are kept as whole milliseconds,   *)
(* and the rounded value is the input of the next update.                  *)
(*                                                                         *)
(* Integers have the width of the code's: size_t counts from 0 to below    *)
(* Modulus, and a Milliseconds holds the signed number of the same bits.   *)
(***************************************************************************)
EXTENDS Integers

CONSTANTS
  NumWorkerThreads,
  Durations,  \* what Elapsed() may give, in milliseconds: negative numbers, too,
              \* as somebody may set the system clock back in between
  Modulus,    \* 2^64 in the program
  MaxTasks    \* bound: the tasks executed

ASSUME AveragesAssumption ==
  /\ {NumWorkerThreads, Modulus} \subseteq Nat \ {0}
  /\ Durations \subseteq Int
  /\ MaxTasks \in Nat

VARIABLES
  NumTasksDone,
  AvgTaskExecutionTimeMs,
  AvgThreadStalledTimeMs,
  executed, stalled, \* history: the sums of the durations themselves
  setBack,           \* history: the execution of a task took less than no time
  overflown          \* history: a sum did not fit in Milliseconds

metrics == <<NumTasksDone, AvgTaskExecutionTimeMs, AvgThreadStalledTimeMs>>
history == <<executed, stalled, setBack, overflown>>
vars == <<metrics, history>>

Init ==
  /\ NumTasksDone = 0
  /\ AvgTaskExecutionTimeMs = 0 /\ AvgThreadStalledTimeMs = 0
  /\ executed = 0 /\ stalled = 0
  /\ setBack = FALSE /\ overflown = FALSE

-----------------------------------------------------------------------------
(* Conversions to size_t and back.                                          *)

ToSize(x) == x % Modulus

Unsigned(n) == n   \* mutant: the bits are not read as a signed number
ToMs(n) == IF 2 * n < Modulus THEN n ELSE n - Modulus

Fits(x) == -Modulus <= 2 * x /\ 2 * x < Modulus

(* Division of signed integers, which rounds towards zero.                  *)
Quotient(x, n) == IF x >= 0 THEN x \div n ELSE -((-x) \div n)

-----------------------------------------------------------------------------
(* The sum of the execution times, as far as the average remembers it.      *)
NextTimesAverage(elapsed) ==   \* mutant: counts the new task twice
  (NumTasksDone + 1) * AvgTaskExecutionTimeMs + elapsed
ExecutionSum(elapsed) == NumTasksDone * AvgTaskExecutionTimeMs + elapsed

(* Milliseconds / size_t divides numbers without a sign.                    *)
NewExecutionTime(elapsed) ==
  ToMs(ToSize(ExecutionSum(elapsed)) \div (NumTasksDone + 1))

TasksTimesAverage(stall) ==    \* mutant: weighted like the other average
  NumTasksDone * AvgThreadStalledTimeMs + stall
StallSum(stall) == NumWorkerThreads * AvgThreadStalledTimeMs + stall

(* Milliseconds / uint32_t divides numbers with one.                        *)
NewStalledTime(stall) == Quotient(ToMs(ToSize(StallSum(stall))), NumWorkerThreads)

(* A worker has executed a task and takes m_MetricsLock.                    *)
Record(elapsed, stall) ==
  /\ NumTasksDone < MaxTasks
  /\ AvgTaskExecutionTimeMs' = NewExecutionTime(elapsed)
  /\ NumTasksDone' = NumTasksDone + 1
  /\ AvgThreadStalledTimeMs' = NewStalledTime(stall)
  /\ executed' = executed + elapsed
  /\ stalled' = stalled + stall
  /\ setBack' = (setBack \/ elapsed < 0)
  /\ overflown' = (overflown \/ ~Fits(ExecutionSum(elapsed)) \/ ~Fits(StallSum(stall)))

Next == \E elapsed, stall \in Durations : Record(elapsed, stall)

Spec == Init /\ [][Next]_vars

-----------------------------------------------------------------------------
(* Properties.                                                              *)

(* Counts are counts, and durations are signed numbers of the right width.  *)
TypeOK ==
  /\ NumTasksDone \in 0 .. MaxTasks
  /\ AvgTaskExecutionTimeMs \in Int /\ Fits(AvgTaskExecutionTimeMs)
  /\ AvgThreadStalledTimeMs \in Int /\ Fits(AvgThreadStalledTimeMs)
  /\ executed \in Int /\ stalled \in Int
  /\ setBack \in BOOLEAN /\ overflown \in BOOLEAN

(* While the clock runs forwards the execution average is never above the    *)
(* mean of what was measured, and below it by (n - 1) / 2 milliseconds at     *)
(* most after n tasks: each update rounds down by less than the number of     *)
(* tasks, and no later one makes up for it.                                  *)
ExecutionAverageError ==
  ~setBack /\ ~overflown =>
    LET n == NumTasksDone
        lost == executed - n * AvgTaskExecutionTimeMs
    IN  /\ AvgTaskExecutionTimeMs >= 0
        /\ 0 <= lost /\ 2 * lost <= n * (n - 1)

(* The stalled time is the whole time per worker, not per task; each update   *)
(* loses less than a millisecond per worker, whichever way the clock runs.   *)
StallAverageError ==
  ~overflown =>
    LET lost == stalled - NumWorkerThreads * AvgThreadStalledTimeMs
        bound == NumTasksDone * (NumWorkerThreads - 1)
    IN  -bound <= lost /\ lost <= bound
=============================================================================
