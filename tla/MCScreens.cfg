CONSTANTS
  key = key
  Key = {key}
  NULL = NULL
  Garbage = Garbage
  Blank = Blank
  Cursor = Cursor
  Task <- MCTask
  StrSize = 5
  FifoSize = 4096
  LineChars = 59
  ScreenLines = 14
  KeyboardLines = 6
SPECIFICATION Spec
INVARIANTS
  ScreensTypeOK
  TaskFound
  TouchIsFresh
  Shown
  OneLit
  ListsFit
