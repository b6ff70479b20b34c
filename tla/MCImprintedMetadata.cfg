SPECIFICATION Spec
CONSTANTS
  Width = 32
  ID_ITEM_COUNT = 2
  ROUND_PRECISION_MASK = 4
  ZERO_THRESHOLD = 4
  INFINITY = 12
  UNIT_SHIFT <- MCUnitShift
  Drifts = {0, 1}
  Inputs <- MCInputs
  Collisions <- MCCollisions
  TempDirs <- MCTempDirs
  Processors <- MCProcessors
  Configs <- MCConfigs
INVARIANT MetadataRoundTrip
