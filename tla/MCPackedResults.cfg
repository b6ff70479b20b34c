SPECIFICATION Spec
CONSTANTS
  NItems = 4
  WorkerCount = 3
  Workers = {0, 1, 2}
  PoolThreads = 2
  Throwing = {1, 2}
  WordSize = 2
INVARIANTS
  ResultsKept
