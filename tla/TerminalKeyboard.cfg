CONSTANTS
  letter = letter
  digit = digit
  Char = {letter, digit}
  NUL = NUL
  Newline = Newline
  Strings <- MCStrings
  Size = 8
  LineChars = 2
  ScreenLines = 2
  KeyboardLines = 1
  SizeT = 16
  MaxTotal = 5
SPECIFICATION Spec
INVARIANT CurrentInBuffer
