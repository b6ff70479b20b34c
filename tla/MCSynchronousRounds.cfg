SPECIFICATION Spec
CONSTANTS
  ItemCount = 6
  CouplingMatrix <- MCCoupling
  Workers = {w1, w2, w3}
  BatchSize = 2
  PoolThreads = 2
  Throwing <- MCThrowing
INVARIANTS
  RoundAccounted
PROPERTIES
  RoundsNeverOverlap
  KeepsContract
  EventuallyReturns
