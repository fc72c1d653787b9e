------------------------------- MODULE Quoting -------------------------------
(***************************************************************************)
(* The two users of UnquoteImpl side by side: a caller either unquotes a   *)
(* string with Unquote or StrictUnquote (QuoteCodec), or walks a           *)
(* name=value list with a NameValuePairsIterator, which unquotes each     *)
(* quoted value (NameValuePairs).  A third caller parses a number with    *)
(* one of the ParseInt functions (ParseNumber), the conversion NameValue-  *)
(* Pairs' users and StringToInt64 rest on.  The ones not in use stay idle; *)
(* the variables and constants two of them name alike are renamed apart.   *)
(***************************************************************************)
EXTENDS Naturals

CONSTANTS NUL, Int64Bits   \* HttpText's, for NameValuePairs

CONSTANTS
  Chars, MaxLen, QuoteLen, OutInit,  \* QuoteCodec
  Delim, PairInputs, MaxCalls,       \* NameValuePairs
  Alphabet, NumMaxLen, NumInt32Bits, NumInt64Bits,
  NoCall, OutputInit, ErrorInit      \* ParseNumber

VARIABLES
  user,                                        \* "codec", "pairs" or "number"
  phase, qStrict, str, qOrigin, i, prevEscape, unescaped, qRet, out,
  pairStr, nOrigin, optional, nStrict, cur, valid, name, raw, quoted, unquoted,
  nRet, calls, got,
  output, error, result, call

qVars == <<phase, qStrict, str, qOrigin, i, prevEscape, unescaped, qRet, out>>
nVars == <<pairStr, nOrigin, optional, nStrict, cur, valid, name, raw, quoted,
           unquoted, nRet, calls, got>>
pVars == <<output, error, result, call>>
vars  == <<user, qVars, nVars, pVars>>

Q == INSTANCE QuoteCodec WITH strict <- qStrict, origin <- qOrigin, ret <- qRet
N == INSTANCE NameValuePairs
       WITH s <- pairStr, strict <- nStrict, origin <- nOrigin, ret <- nRet,
            Inputs <- PairInputs
PN == INSTANCE ParseNumber
        WITH MaxLen <- NumMaxLen, Int32Bits <- NumInt32Bits, Int64Bits <- NumInt64Bits

\* The codec starts idle; an unused iterator is one over the empty string.
Init ==
  /\ user \in {"codec", "pairs", "number"}
  /\ Q!Init
  /\ IF user = "pairs" THEN N!InitOn(PairInputs) ELSE N!InitOn({<<<<>>, N!NoOrigin>>})
  /\ PN!Init

Next ==
  \/ user = "codec" /\ Q!Next /\ UNCHANGED <<user, nVars, pVars>>
  \/ user = "pairs" /\ N!Next /\ UNCHANGED <<user, qVars, pVars>>
  \/ user = "number" /\ PN!Next /\ UNCHANGED <<user, qVars, nVars>>

Spec == Init /\ [][Next]_vars

-----------------------------------------------------------------------------
(* Properties: those of the three modules, over the composed state *)

TypeOK == Q!TypeOK /\ PN!TypeOK
DecodesAsSpecified == Q!DecodesAsSpecified
RoundTrip == Q!RoundTrip
NameWellFormed == N!NameWellFormed
QuotedPairsRoundTrip == N!QuotedPairsRoundTrip
ImplementsContract == PN!ImplementsContract

=============================================================================
