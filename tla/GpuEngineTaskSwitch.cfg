CONSTANTS
  FifoSize = 3
  MaxBytes = 2
SPECIFICATION EngineSpec
PROPERTY
  ITFlagKept
