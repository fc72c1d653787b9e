\* All texts, whitespace included: does the code still implement the
\* parse contract?  (It does not: absl::SimpleAtoi trims whitespace.)
CONSTANTS
  Alphabet <- MCWhitespaceAlphabet
  MaxLen <- MCMaxLen
  Int32Bits = 4
  Int64Bits = 7
  OutputInit <- MCOutputInit
  NoCall = NoCall
  ErrorInit = ErrorInit

SPECIFICATION Spec

PROPERTY ImplementsContract

CHECK_DEADLOCK FALSE
