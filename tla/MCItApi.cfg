CONSTANTS
  RingSize = 8
  FifoSize = 8
  WordLen = 2
  MaxBytes = 6
  StrLens = {1, 2}
SPECIFICATION Spec
INVARIANTS
  TypeOK
  BlockingReadAlone
  OneFrame
  OrderKept
  ListWhole
PROPERTY
  Delivered
  ImplementsTransfer
