\* NameValuePairsIterator, up to three GetNext calls, both modes of each
\* kind: names handed out and quoted pairs coming back.
CONSTANTS
  NUL = NUL
  Int64Bits = 5
  Delim <- MCDelim
  Inputs <- MCInputs
  MaxCalls = 3

SPECIFICATION Spec

INVARIANT NameWellFormed
INVARIANT QuotedPairsRoundTrip

\* A caller stops after MaxCalls calls.
CHECK_DEADLOCK FALSE
