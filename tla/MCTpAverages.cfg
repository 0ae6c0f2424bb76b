SPECIFICATION Spec
CONSTANTS
  NumWorkerThreads = 3
  Durations <- MCDurations
  Modulus = 1024
  MaxTasks = 5
CHECK_DEADLOCK FALSE
INVARIANTS
  TypeOK
  ExecutionAverageError
  StallAverageError
