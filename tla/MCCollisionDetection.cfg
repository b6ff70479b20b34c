SPECIFICATION Spec
CONSTANTS
  Items = {0, 1, 2, 3}
  Coupled <- MCCoupled
  SuppressedSets <- MCSuppressed
INVARIANTS
  RowsMirrored
  AdjacencyIsFaceContact
  Imprinted
  FailureRecorded
PROPERTIES
  ImprintsAccumulate
  EventuallyReturns
