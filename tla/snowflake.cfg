SPECIFICATION FairSpec
CONSTANTS
  w1 = w1
  w2 = w2
  t1 = t1
  t2 = t2
  t3 = t3
  Workers <- MCWorkers
  Threads <- MCThreads
  WorkerOf <- MCWorkerOf
  WorkerId <- MCWorkerId
  TimeRange = 3
  SeqMask = 1
  MaxTime = 3
  MaxLives <- MCMaxLives
  MaxIds <- MCMaxIds
INVARIANT ViolationOnlyAtEpochEnd
PROPERTIES
  Linearizable
  NotBackdated
  Progress
CHECK_DEADLOCK FALSE
