CONSTANTS
  StreamLen = 5
  DlLen = 4
  MatrixLen = 1
  Examples = {"calibrate"}
SPECIFICATION Spec
CHECK_DEADLOCK FALSE
PROPERTY
  RegistersShown
