\* AssembleRawHeaders, HeadersIterator (GetNext, then AdvanceTo),
\* ConvertHeadersBackToHTTPResponse and AssembleRawHeaders again.
CONSTANTS
  NUL <- MCNul
  Int64Bits = 5
  Inputs <- MCInputs
  Sought <- MCSought

SPECIFICATION Spec

INVARIANT HeadersAsFolded
INVARIANT HeadersAreClean
INVARIANT ReassemblyIdempotent
INVARIANT SeekFindsAllNamed

\* The caller's work ends after the second assembly.
CHECK_DEADLOCK FALSE
