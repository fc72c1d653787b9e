\* A false return leaves every output as passed or reset (spec.md 7).
CONSTANTS
  Unit <- MCUnit
  NUL <- MCNul
  Headers <- MCHeaders
  Specs <- MCSpecs
  Values <- MCValues
  Prior <- MCPrior
  RetryValues <- MCRetry
  Prefs <- MCPrefs
  Int64Bits = 5
  Int32Bits = 3
  OutInit = 7
  TypeValues <- MCTypeValues
  MaxTypeCalls = 3
  Names <- MCHeaderNames
  Methods <- MCMethods
  ParmNames <- MCParmNames
  CaseFold <- MCCaseFold

SPECIFICATION Spec

INVARIANT FailureLeavesOutputsDefined


\* Each behaviour is one call, which ends when it returns.
CHECK_DEADLOCK FALSE
