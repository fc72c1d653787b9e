\* NameValuePairsIterator: calls after a malformed property.
CONSTANTS
  NUL = NUL
  Int64Bits = 5
  Delim <- MCDelim
  Inputs <- MCInputs
  MaxCalls = 3

SPECIFICATION Spec

INVARIANT SubsequentCallsFail

\* A caller stops after MaxCalls calls.
CHECK_DEADLOCK FALSE
