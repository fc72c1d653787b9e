\* A header of the stored type with charset="" after one that set a charset.
CONSTANTS
  NUL = NUL
  Int64Bits = 5
  Values <- MCValues
  MaxCalls = 3

SPECIFICATION Spec

PROPERTY EmptyCharsetKeepsCharset

\* A response has at most MaxCalls Content-Type headers.
CHECK_DEADLOCK FALSE
