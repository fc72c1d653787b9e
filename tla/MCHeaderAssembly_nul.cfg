\* AssembleRawHeaders on inputs whose lines may hold a lone NUL.
CONSTANTS
  NUL <- MCNul
  Int64Bits = 5
  Inputs <- MCInputs
  Sought <- MCSought

SPECIFICATION Spec

INVARIANT EmptyLineOnlyAtEnd

\* The caller's work ends after the second assembly.
CHECK_DEADLOCK FALSE
