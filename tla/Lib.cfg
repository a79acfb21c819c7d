\* The size of memory lets a copy have bytes before, between and after its
\* double words; texts are longer than grep's buffer.
CONSTANTS
  Size = 16
  BITS = 8
  Values = {0, 10, 127, 128, 255}
  Formats <- MCFormats
  BUFSIZE = 4
  Patterns <- MCPatterns
  Texts <- MCTexts
SPECIFICATION Spec
INVARIANTS
  ExactlyTheBytesAsked
  PrintsItsArguments
  FindsTheLines
CHECK_DEADLOCK FALSE
