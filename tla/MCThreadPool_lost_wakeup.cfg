SPECIFICATION FairSpec
CONSTANTS
  w1 = w1
  w2 = w2
  s1 = s1
  main = main
  other = other
  t1 = t1
  t2 = t2
  t3 = t3
  NoTask = NoTask
  Workers = {w1}
  Submitters = {s1}
  Terminators = {main}
  Owner = main
  Tasks = {t1}
  Temporaries = {}
  DefaultConstructed = FALSE
  SizeModulus = 4
PROPERTIES
  QueuedTaskLeaves
