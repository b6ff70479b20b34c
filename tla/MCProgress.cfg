SPECIFICATION Spec
CONSTANTS
  Workloads <- MCWorkloads
  MaxRounds = 3
  BatchSize = 2
  Full = 5
  MinSteps = 3
  ManySteps = 8
  LowFrequency = 2
  HighFrequency = 4
INVARIANTS
  LinesAreFew
  ClosedWhenComplete
PROPERTIES
  CompletionSeen
