CONSTANTS
  BuffSizes = {7, 13, 15}
  DlSizes = {2}
  StrLens = {1, 5}
  FifoSize = 16
  UInt = 64
  Stamps = 5
SPECIFICATION Spec
INVARIANTS
  TypeOK
  InBuffer
  FlushedWhole
PROPERTY
  FlushReturns
