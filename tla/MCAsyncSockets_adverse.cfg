SPECIFICATION Spec
CONSTANTS
  c1 = c1
  c2 = c2
  w1 = w1
  w2 = w2
  w3 = w3
  Clients = {c1}
  Workers = {w1}
  NumMaxConnections = 1
  MaxConnectionAttempts = 1
  NumCols = 1
  NumConcurrentThreads = 1
  Misread = {0, 4}
  Leavers = {}
  NumChunks = 1
  MaxChunks = 1
  MaxDuplicates = 1
  RequestCuts = "bytes"
  ReplyCuts = "bytes"
  Partitions = {0, 1, 2}
  Quitters = {c1}
INVARIANTS
  EachChunkOnce
  FinishedMeansAllDone
