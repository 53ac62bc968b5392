CONSTANTS
  FifoSize = 3
  MaxBytes = 2
SPECIFICATION EngineSpec
INVARIANTS
  EngineTypeOK
  RunningMeansDrawn
  FlagsReadAlone
  NotForgotten
PROPERTIES
  UsesTransfer
  ActiveTaskRuns
