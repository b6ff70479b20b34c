SPECIFICATION Spec
CONSTANTS
  Stems = {"a", "b"}
  MaxTime = 2
  Absolute <- MCAbsolute
  ItemCount = 1
  MaxReaders = 2
  MaxThreads = 2
INVARIANTS
  RowsOfThisDataSet
