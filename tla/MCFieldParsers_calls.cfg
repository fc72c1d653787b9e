\* Every parser on every value of its field: what each returns and leaves.
CONSTANTS
  Unit <- MCUnit
  NUL <- MCNul
  Headers <- MCHeaders
  Specs <- MCSpecs
  Values <- MCValues
  Prior <- MCPrior
  RetryValues <- MCRetry
  Prefs <- MCPrefs
  Int64Bits = 5
  Int32Bits = 3
  OutInit = 7
  TypeValues <- MCTypeValues
  MaxTypeCalls = 3
  Names <- MCHeaderNames
  Methods <- MCMethods
  ParmNames <- MCParmNames
  CaseFold <- MCCaseFold

SPECIFICATION Spec

INVARIANT TypeOK
INVARIANT AllRangesParsed
INVARIANT ResetOnFailure
INVARIANT AcceptEncodingAsSpecified
INVARIANT ContentEncodingAsSpecified
INVARIANT ExpandedAsSpecified
INVARIANT GeneratedAsSpecified
PROPERTY NewTypeDropsStaleCharset
PROPERTY SameTypeKeepsCharset

\* Each behaviour is one call, which ends when it returns, or MaxTypeCalls
\* Content-Type headers.
CHECK_DEADLOCK FALSE
