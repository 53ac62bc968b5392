CONSTANTS
  StreamLen = 5
  DlLen = 4
  MatrixLen = 1
  Examples <- MCExamples
SPECIFICATION Spec
CHECK_DEADLOCK FALSE
INVARIANTS
  TypeOK
  FrameWhole
  ReadInOrder
  PanelComesLast
  AsAsked
PROPERTIES
  CallsReturn
  CalibrationEnds
