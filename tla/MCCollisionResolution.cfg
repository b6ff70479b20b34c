SPECIFICATION Spec
CONSTANTS
  ItemCount = 3
  Types = {8, 32, 64, 128, 256, 1024}
  Volumes <- MCVolumes
  Settings <- AllSettings
INVARIANTS
  CollisionFree
  OnlyForAReason
  OneDuplicateKept
  EnclosedRemoved
