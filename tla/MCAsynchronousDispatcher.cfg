SPECIFICATION Spec
CONSTANTS
  ItemCount = 6
  CouplingMatrix <- MCCoupling
  Workers = {w1, w2, w3, w4}
  BatchSize = 2
  PoolThreads = 3
  Throwing <- MCThrowing
INVARIANTS
  TypeOK
  LocksMatchOwners
  RemainedCoversUnprocessed
  LeaversStrandNothing
PROPERTIES
  OnlyOwnerUnlocks
  KeepsContract
  EventuallyReturns
