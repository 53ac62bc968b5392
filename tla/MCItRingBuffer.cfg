CONSTANTS
  Size = 4
  Byte <- MCByte
  WordLen = 2
  MaxLen = 3
  MaxIndex = 10
  RING_BUFFER_MAX = 2
  Attrs <- MCAttrs
  Elem <- MCByte
  Sizes = 4
SPECIFICATION MCSpec
INVARIANTS
  TypeOK
  NoOverrun
  Held
PROPERTY
  ImplementsFifo
