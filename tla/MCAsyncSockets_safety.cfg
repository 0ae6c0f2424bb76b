SPECIFICATION FairSpec
CONSTANTS
  c1 = c1
  c2 = c2
  w1 = w1
  w2 = w2
  w3 = w3
  Clients = {c1}
  Workers = {w1, w2, w3}
  NumMaxConnections = 1
  MaxConnectionAttempts = 2
  NumCols = 3
  NumConcurrentThreads = 2
  Misread = {0}
  Leavers = {c1}
  NumChunks = 2
  MaxChunks = 2
  MaxDuplicates = 2
  RequestCuts = "messages"
  ReplyCuts = "messages"
  Partitions = {2}
  Quitters = {}
INVARIANTS
  TypeOK
  RequestsInStep
  OneAnswerPerRequest
  EachChunkOnce
  ChunksInsideBody
  FinishedMeansAllDone
  ResultIsComplete
  DelegatesApart
  DiesOnlyOfPoolOrReset
PROPERTIES
  ImplementsRemoteTask
  EveryQuestionAnswered
  EveryClientEnds
