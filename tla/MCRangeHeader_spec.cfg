\* ParseRangeHeader on every short header: the grammar of spec.md 4.6.
CONSTANTS
  Unit <- MCUnit
  NUL <- MCNul
  Headers <- MCHeaders
  Int64Bits = 5

SPECIFICATION Spec


INVARIANT RangesAsSpecified

\* Each behaviour is one call, which ends when it returns.
CHECK_DEADLOCK FALSE
