\* One header "*/*" or slash-less "t" followed by parameters.
CONSTANTS
  NUL = NUL
  Int64Bits = 5
  Values <- MCValues
  MaxCalls = 3

SPECIFICATION Spec

INVARIANT StoredTypeMeaningful

\* A response has at most MaxCalls Content-Type headers.
CHECK_DEADLOCK FALSE
