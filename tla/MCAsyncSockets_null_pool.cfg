SPECIFICATION Spec
CONSTANTS
  c1 = c1
  c2 = c2
  w1 = w1
  w2 = w2
  w3 = w3
  Clients = {c1}
  Workers = {w1, w2}
  NumMaxConnections = 1
  MaxConnectionAttempts = 2
  NumCols = 1
  NumConcurrentThreads = 1
  Misread = {0}
  Leavers = {}
  NumChunks = 1
  MaxChunks = 1
  MaxDuplicates = 1
  RequestCuts = "messages"
  ReplyCuts = "messages"
  Partitions = {1}
  Quitters = {}
INVARIANTS
  InitializedServerServes
