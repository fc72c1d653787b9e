\* Texts without whitespace: the code implements the parse contract, and
\* failed calls keep the output and are classified as the contract says.
CONSTANTS
  Alphabet <- MCNumberAlphabet
  MaxLen <- MCMaxLen
  Int32Bits = 4
  Int64Bits = 7
  OutputInit <- MCOutputInit
  NoCall = NoCall
  ErrorInit = ErrorInit

SPECIFICATION Spec

INVARIANT TypeOK
PROPERTY ImplementsContract

\* One behaviour is one call: parse calls share no state, so the harness
\* stops after its call.
CHECK_DEADLOCK FALSE
