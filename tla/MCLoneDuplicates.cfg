SPECIFICATION Spec
CONSTANTS
  ItemCount = 2
  Types = {8, 64}
  Volumes <- MCVolumes
  Settings <- DefaultSettings
INVARIANTS
  RemoveEitherNotBoth
