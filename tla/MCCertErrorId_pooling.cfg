\* Do distinct IDs stay distinct when two literals are equal?
CONSTANTS
  kA = kA
  kB = kB
  kC = kC
  Names = {kA, kB, kC}
  Literal <- MCLiteral
  Undefined = Undefined

SPECIFICATION Spec

INVARIANT DistinctIdsUnequal

\* All IDs are defined once the constants are initialised.
CHECK_DEADLOCK FALSE
