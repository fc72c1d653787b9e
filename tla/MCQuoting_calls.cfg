\* The decoders on every short string, the Quote round trip, and
\* NameValuePairsIterator with up to three GetNext calls in both modes of
\* each kind, and every ParseInt function on every short text.
CONSTANTS
  NUL = NUL
  Int64Bits = 5
  Chars <- MCChars
  MaxLen = 5
  QuoteLen = 3
  OutInit = OutInit
  Delim <- MCDelim
  PairInputs <- MCInputs
  MaxCalls = 3
  Alphabet <- MCNumberAlphabet
  NumMaxLen = 3
  NumInt32Bits = 4
  NumInt64Bits = 7
  OutputInit = 3
  NoCall = NoCall
  ErrorInit = ErrorInit

SPECIFICATION Spec

INVARIANT TypeOK
INVARIANT DecodesAsSpecified
INVARIANT RoundTrip
INVARIANT NameWellFormed
INVARIANT QuotedPairsRoundTrip
PROPERTY ImplementsContract

\* Each behaviour is one call, or a caller's GetNext calls, and then stops.
CHECK_DEADLOCK FALSE
