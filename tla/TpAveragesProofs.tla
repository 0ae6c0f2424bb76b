-------------------------- MODULE TpAveragesProofs --------------------------
(***************************************************************************)
(* Proofs about TpAverages, for every number of workers and of tasks, every*)
(* width of the integers and all durations.                                *)
(***************************************************************************)
EXTENDS TpAverages, TLAPS

(* Division with remainder.                                                 *)
LEMMA Remainder ==
  ASSUME NEW x \in Int, NEW n \in Nat \ {0}
  PROVE  /\ x \div n \in Int /\ x % n \in 0 .. n - 1
         /\ x = n * (x \div n) + (x % n)
  BY SMT

LEMMA QuotientOfNat ==
  ASSUME NEW x \in Nat, NEW n \in Nat \ {0}
  PROVE  x \div n \in 0 .. x
  BY SMT

(* Conversion to size_t and back keeps every number that fits.              *)
LEMMA ToMsInverse ==
  ASSUME NEW x \in Int, Fits(x)
  PROVE  ToMs(ToSize(x)) = x
  <1>. Modulus \in Nat \ {0}  BY AveragesAssumption
  <1>1. CASE x >= 0
    <2>1. x % Modulus = x  BY <1>1, SMT DEF Fits
    <2>. QED  BY <1>1, <2>1 DEF Fits, ToMs, ToSize
  <1>2. CASE x < 0
    <2>1. x % Modulus = x + Modulus  BY <1>2, SMT DEF Fits
    <2>. QED  BY <1>2, <2>1 DEF Fits, ToMs, ToSize
  <1>. QED  BY <1>1, <1>2

LEMMA ToMsFits ==
  ASSUME NEW n \in 0 .. Modulus - 1
  PROVE  ToMs(n) \in Int /\ Fits(ToMs(n))
  BY AveragesAssumption DEF ToMs, Fits

(* Rounding towards zero loses less than the divisor, on the side of zero.  *)
LEMMA QuotientError ==
  ASSUME NEW x \in Int, NEW n \in Nat \ {0}
  PROVE  /\ Quotient(x, n) \in Int
         /\ -(n - 1) <= x - n * Quotient(x, n) /\ x - n * Quotient(x, n) <= n - 1
         /\ Fits(x) => Fits(Quotient(x, n))
  <1>. Modulus \in Nat \ {0}  BY AveragesAssumption
  <1>1. CASE x >= 0
    <2>1. x \div n \in 0 .. x  BY <1>1, QuotientOfNat
    <2>2. x = n * (x \div n) + (x % n) /\ x % n \in 0 .. n - 1  BY Remainder
    <2>. QED  BY <1>1, <2>1, <2>2 DEF Quotient, Fits
  <1>2. CASE x < 0
    <2>. DEFINE y == -x
    <2>0. y \in Nat  BY <1>2
    <2>1. y \div n \in 0 .. y  BY <2>0, QuotientOfNat
    <2>2. y = n * (y \div n) + (y % n) /\ y % n \in 0 .. n - 1  BY <2>0, Remainder
    <2>3. Quotient(x, n) = -(y \div n)  BY <1>2 DEF Quotient
    <2>4. n * Quotient(x, n) = -(n * (y \div n))  BY <2>1, <2>3
    <2>. HIDE DEF y
    <2>5. x = -y  BY <2>0 DEF y
    <2>. QED  BY <2>0, <2>1, <2>2, <2>3, <2>4, <2>5 DEF Fits
  <1>. QED  BY <1>1, <1>2

-----------------------------------------------------------------------------

LEMMA RecordType ==
  ASSUME TypeOK, NEW elapsed \in Durations, NEW stall \in Durations,
         Record(elapsed, stall)
  PROVE  TypeOK'
  <1>. /\ Modulus \in Nat \ {0} /\ NumWorkerThreads \in Nat \ {0} /\ MaxTasks \in Nat
       /\ elapsed \in Int /\ stall \in Int /\ NumTasksDone \in Nat
    BY AveragesAssumption DEF TypeOK
  <1>1. AvgTaskExecutionTimeMs' \in Int /\ Fits(AvgTaskExecutionTimeMs')
    <2>1. ExecutionSum(elapsed) \in Int  BY DEF ExecutionSum, TypeOK
    <2>2. ToSize(ExecutionSum(elapsed)) \in 0 .. Modulus - 1
      BY <2>1, Remainder DEF ToSize
    <2>3. ToSize(ExecutionSum(elapsed)) \div (NumTasksDone + 1) \in 0 .. Modulus - 1
      BY <2>2, QuotientOfNat
    <2>. QED  BY <2>3, ToMsFits DEF Record, NewExecutionTime
  <1>2. AvgThreadStalledTimeMs' \in Int /\ Fits(AvgThreadStalledTimeMs')
    <2>1. StallSum(stall) \in Int  BY DEF StallSum, TypeOK
    <2>2. ToSize(StallSum(stall)) \in 0 .. Modulus - 1
      BY <2>1, Remainder DEF ToSize
    <2>3. ToMs(ToSize(StallSum(stall))) \in Int /\ Fits(ToMs(ToSize(StallSum(stall))))
      BY <2>2, ToMsFits
    <2>. QED  BY <2>3, QuotientError DEF Record, NewStalledTime
  <1>3. /\ NumTasksDone' \in 0 .. MaxTasks
        /\ executed' \in Int /\ stalled' \in Int
        /\ setBack' \in BOOLEAN /\ overflown' \in BOOLEAN
    BY DEF Record, TypeOK
  <1>. QED  BY <1>1, <1>2, <1>3 DEF TypeOK, Fits

(* One update rounds the execution average down by less than the number of   *)
(* tasks.                                                                    *)
LEMMA RecordExecution ==
  ASSUME TypeOK, ExecutionAverageError,
         NEW elapsed \in Durations, NEW stall \in Durations,
         Record(elapsed, stall)
  PROVE  ExecutionAverageError'
  <1>. SUFFICES ASSUME ~setBack', ~overflown'
       PROVE  LET n == NumTasksDone'
                  lost == executed' - n * AvgTaskExecutionTimeMs'
              IN  /\ AvgTaskExecutionTimeMs' >= 0
                  /\ 0 <= lost /\ 2 * lost <= n * (n - 1)
    BY DEF ExecutionAverageError
  <1>. DEFINE n == NumTasksDone
              avg == AvgTaskExecutionTimeMs
              sum == n * avg + elapsed
              q == sum \div (n + 1)
              r == sum % (n + 1)
              lost == executed - n * avg
  <1>1. /\ Modulus \in Nat \ {0} /\ elapsed \in Int /\ n \in Nat /\ avg \in Int
        /\ executed \in Int
    BY AveragesAssumption DEF TypeOK
  <1>2. /\ ~setBack /\ elapsed >= 0
        /\ ~overflown /\ Fits(sum)
    <2>1. ~(setBack \/ elapsed < 0)  BY DEF Record
    <2>2. ~(overflown \/ ~Fits(sum) \/ ~Fits(StallSum(stall)))
      BY DEF Record, ExecutionSum
    <2>. HIDE DEF sum
    <2>. QED  BY <1>1, <2>1, <2>2
  <1>3. avg >= 0 /\ 0 <= lost /\ 2 * lost <= n * (n - 1)
    BY <1>2 DEF ExecutionAverageError
  <1>4. sum \in Nat  BY <1>1, <1>2, <1>3, SMT
  <1>5. ToSize(sum) = sum
    BY <1>1, <1>2, <1>4, SMT DEF Fits, ToSize
  <1>6. q \in 0 .. sum /\ r \in 0 .. n /\ sum = (n + 1) * q + r
    <2>1. n + 1 \in Nat \ {0} /\ (n + 1) - 1 = n  BY <1>1
    <2>2. q \in 0 .. sum  BY <1>4, <2>1, QuotientOfNat
    <2>3. r \in 0 .. (n + 1) - 1 /\ sum = (n + 1) * q + r
      <3>. HIDE DEF sum
      <3>1. \A k \in Nat \ {0} : /\ sum % k \in 0 .. k - 1
                                 /\ sum = k * (sum \div k) + (sum % k)
        BY <1>4, Remainder
      <3>. QED  BY <2>1, <3>1, Zenon
    <2>. HIDE DEF q, r, sum
    <2>. QED  BY <2>1, <2>2, <2>3
  <1>7. AvgTaskExecutionTimeMs' = q
    <2>1. ToMs(q) = q
      <3>. HIDE DEF q, sum
      <3>. QED  BY <1>1, <1>2, <1>4, <1>6 DEF ToMs, Fits
    <2>. QED  BY <1>5, <2>1 DEF Record, NewExecutionTime, ExecutionSum
  <1>8. executed' - (n + 1) * q = lost + r
    <2>1. executed' = executed + elapsed  BY DEF Record
    <2>2. (n + 1) * q = n * avg + elapsed - r
      <3>. HIDE DEF q, r
      <3>. QED  BY <1>1, <1>6
    <2>3. q \in Int /\ r \in Int /\ n * avg \in Int /\ (n + 1) * q \in Int
      <3>. HIDE DEF q, r
      <3>. QED  BY <1>1, <1>4, <1>6
    <2>. HIDE DEF q, r
    <2>. QED  BY <1>1, <2>1, <2>2, <2>3
  <1>9. 2 * (lost + r) <= (n + 1) * n
    <2>1. lost \in Int /\ r \in Int  BY <1>1, <1>6
    <2>2. (n + 1) * n = n * (n - 1) + 2 * n  BY <1>1
    <2>3. n * (n - 1) \in Int  BY <1>1
    <2>. HIDE DEF lost, r
    <2>. QED  BY <1>1, <1>3, <1>6, <2>1, <2>2, <2>3
  <1>10. NumTasksDone' = n + 1  BY DEF Record
  <1>11. lost \in Int /\ r \in Nat /\ q \in Nat  BY <1>1, <1>4, <1>6
  <1>. HIDE DEF q, r, lost, sum
  <1>. QED  BY <1>1, <1>3, <1>7, <1>8, <1>9, <1>10, <1>11

(* One update rounds the stalled time by less than the number of workers.    *)
LEMMA RecordStall ==
  ASSUME TypeOK, StallAverageError,
         NEW elapsed \in Durations, NEW stall \in Durations,
         Record(elapsed, stall)
  PROVE  StallAverageError'
  <1>. SUFFICES ASSUME ~overflown'
       PROVE  LET lost == stalled' - NumWorkerThreads * AvgThreadStalledTimeMs'
                  bound == NumTasksDone' * (NumWorkerThreads - 1)
              IN  -bound <= lost /\ lost <= bound
    BY DEF StallAverageError
  <1>. DEFINE w == NumWorkerThreads
              avg == AvgThreadStalledTimeMs
              sum == w * avg + stall
              lost == stalled - w * avg
              bound == NumTasksDone * (w - 1)
              q == Quotient(sum, w)
  <1>1. /\ w \in Nat \ {0} /\ stall \in Int /\ avg \in Int /\ stalled \in Int
        /\ NumTasksDone \in Nat
    BY AveragesAssumption DEF TypeOK
  <1>2. ~overflown /\ Fits(sum)  BY DEF Record, TypeOK, StallSum
  <1>3. -bound <= lost /\ lost <= bound  BY <1>2 DEF StallAverageError
  <1>4. sum \in Int  BY <1>1
  <1>5. AvgThreadStalledTimeMs' = q
    BY <1>2, <1>4, ToMsInverse DEF Record, NewStalledTime, StallSum
  <1>6. q \in Int /\ -(w - 1) <= sum - w * q /\ sum - w * q <= w - 1
    BY <1>1, <1>4, QuotientError
  <1>7. NumTasksDone' * (w - 1) = bound + (w - 1)
    <2>1. NumTasksDone' = NumTasksDone + 1  BY DEF Record
    <2>. QED  BY <1>1, <2>1
  <1>8. stalled' - w * q = lost + (sum - w * q)
    <2>1. stalled' = stalled + stall  BY DEF Record
    <2>2. w * avg \in Int /\ w * q \in Int  BY <1>1, <1>6
    <2>. HIDE DEF q
    <2>. QED  BY <1>1, <2>1, <2>2
  <1>9. lost \in Int /\ bound \in Int /\ sum - w * q \in Int  BY <1>1, <1>4, <1>6
  <1>. HIDE DEF q, sum, lost, bound
  <1>. QED  BY <1>1, <1>3, <1>5, <1>6, <1>7, <1>8, <1>9

-----------------------------------------------------------------------------

IInv == TypeOK /\ ExecutionAverageError /\ StallAverageError

LEMMA AveragesInductive == Spec => []IInv
  <1>1. Init => IInv
    <2>. SUFFICES ASSUME Init PROVE IInv  OBVIOUS
    <2>. Modulus \in Nat \ {0} /\ NumWorkerThreads \in Nat \ {0} /\ MaxTasks \in Nat
      BY AveragesAssumption
    <2>1. TypeOK
      <3>1. Fits(0)  BY DEF Fits
      <3>2. Fits(AvgTaskExecutionTimeMs) /\ Fits(AvgThreadStalledTimeMs)
        BY <3>1 DEF Init
      <3>3. setBack \in BOOLEAN /\ overflown \in BOOLEAN  BY DEF Init
      <3>4. /\ NumTasksDone \in 0 .. MaxTasks /\ executed \in Int /\ stalled \in Int
            /\ AvgTaskExecutionTimeMs \in Int /\ AvgThreadStalledTimeMs \in Int
        BY DEF Init
      <3>. QED  BY <3>2, <3>3, <3>4 DEF TypeOK
    <2>2. ExecutionAverageError  BY DEF Init, ExecutionAverageError
    <2>3. StallAverageError  BY DEF Init, StallAverageError
    <2>. QED  BY <2>1, <2>2, <2>3 DEF IInv
  <1>2. IInv /\ [Next]_vars => IInv'
    <2>. SUFFICES ASSUME IInv, [Next]_vars PROVE IInv'  OBVIOUS
    <2>1. CASE Next
      <3>. PICK elapsed \in Durations, stall \in Durations : Record(elapsed, stall)
        BY <2>1 DEF Next
      <3>. QED  BY RecordType, RecordExecution, RecordStall DEF IInv
    <2>2. CASE UNCHANGED vars
      BY <2>2 DEF IInv, TypeOK, Fits, ExecutionAverageError, StallAverageError,
                  vars, metrics, history
    <2>. QED  BY <2>1, <2>2
  <1>. QED  BY <1>1, <1>2, PTL DEF Spec

(* Both durations stay in the range of Milliseconds, whatever was measured.  *)
THEOREM AveragesTypeOK == Spec => []TypeOK
  BY AveragesInductive, PTL DEF IInv

(* After n tasks the execution average is at most (n - 1) / 2 milliseconds    *)
(* below the mean, as long as no duration is negative and no sum overflows.  *)
THEOREM AveragesExecutionError == Spec => []ExecutionAverageError
  BY AveragesInductive, PTL DEF IInv

(* After n tasks the stalled time per worker is off by less than n            *)
(* milliseconds, as long as no sum overflows.                                *)
THEOREM AveragesStallError == Spec => []StallAverageError
  BY AveragesInductive, PTL DEF IInv
=============================================================================
