SPECIFICATION Spec
CONSTANTS
  Stems = {"a", "b"}
  MaxTime = 2
  Absolute <- MCAbsolute
  ItemCount = 2
  MaxReaders = 2
  MaxThreads = 2
INVARIANTS
  PropertiesFound
  MetadataForGeometry
  GeometryOfAction
  WorkIsDumped
PROPERTIES
  FolderKept
  EventuallyEnds
