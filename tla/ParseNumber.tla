----------------------------- MODULE ParseNumber -----------------------------
(***************************************************************************)
(* ParseInt32, ParseInt64, ParseUint32 and ParseUint64 as the code         *)
(* implements them (src/unnamed/part_000): ParseIntHelper checks the first *)
(* character against the format, converts with StringToNumber, stores the *)
(* converted value only on success, and on failure classifies the error    *)
(* by looking at the text again.                                           *)
(*                                                                         *)
(* StringToNumber is the quiche/absl conversion (absl::SimpleAtoi, base    *)
(* 10), an external collaborator modelled by its documented contract: it  *)
(* strips ASCII whitespace from both ends, takes one optional "+" or "-",  *)
(* then needs a non-empty digit run whose value fits the type; unsigned    *)
(* types reject "-".  On failure it leaves its output in an unspecified    *)
(* state, modelled as any value of the type.                               *)
(*                                                                         *)
(* The state is the caller's: the output variable it passes, the error     *)
(* variable optional_error points to, the returned bool, and the call.     *)
(***************************************************************************)
EXTENDS ParseIntTypes

CONSTANTS NoCall, OutputInit, ErrorInit

VARIABLES output, error, result, call

vars == <<output, error, result, call>>

\* The characters absl::StripAsciiWhitespace removes ("\v" has no TLA+
\* string escape and is left out).
AsciiWhitespace == {" ", "\t", "\n", "\r", "\f"}

RECURSIVE TrimLeadingWhitespace(_)
TrimLeadingWhitespace(s) ==
  IF s # <<>> /\ Head(s) \in AsciiWhitespace
    THEN TrimLeadingWhitespace(Tail(s))
    ELSE s

TrimAsciiWhitespace(s) ==
  Reverse(TrimLeadingWhitespace(Reverse(TrimLeadingWhitespace(s))))

\* ---- faulty variants: each replaces the definition named after it -------

\* StringToNumber with the int32_t overload calling StringToUint32.
StringToNumberUnsignedFor32(input, kind) ==
  LET t    == TrimAsciiWhitespace(input)
      neg  == t # <<>> /\ Head(t) = "-"
      body == IF t # <<>> /\ Head(t) \in {"+", "-"} THEN Tail(t) ELSE t
      v    == IF neg THEN -DecimalValue(body) ELSE DecimalValue(body)
      asKind == IF kind = "int32" THEN "uint32" ELSE kind
  IN  IF IsDigitRun(body) /\ ~(neg /\ ~Signed(asKind))
         /\ v \in TypeRange(asKind)
        THEN {[ok |-> TRUE, val |-> v]}
        ELSE {[ok |-> FALSE, val |-> x] : x \in TypeRange(kind)}

\* ---- the code ------------------------------------------------------------

\* StringToNumber overloads (lines 15-32): the set of possible outcomes of
\* the absl conversion of input into the given type.
StringToNumber(input, kind) ==
  LET t    == TrimAsciiWhitespace(input)
      neg  == t # <<>> /\ Head(t) = "-"
      body == IF t # <<>> /\ Head(t) \in {"+", "-"} THEN Tail(t) ELSE t
      v    == IF neg THEN -DecimalValue(body) ELSE DecimalValue(body)
  IN  IF IsDigitRun(body) /\ ~(neg /\ ~Signed(kind)) /\ v \in TypeRange(kind)
        THEN {[ok |-> TRUE, val |-> v]}
        ELSE {[ok |-> FALSE, val |-> x] : x \in TypeRange(kind)}

\* SetError (lines 34-38): write the error if there is somewhere to write it,
\* and return false.
SetError(e, withError) ==
  /\ error' = IF withError THEN e ELSE error
  /\ result' = FALSE

\* The format check before conversion (lines 45-54): empty input, or a first
\* character that is not a digit and is not a "-" the format allows.
RejectedBeforeConversion(input, format) ==
  \/ input = <<>>
  \/ /\ input # <<>>
     /\ ~IsAsciiDigit(input[1])
     /\ format = "NON_NEGATIVE" \/ input[1] # "-"

\* Storing the converted value (lines 57-61): only a successful conversion
\* reaches the caller's output.
StoreConverted(r) ==
  /\ output' = IF r.ok THEN r.val ELSE output
  /\ result' = r.ok

\* The error classification after a failed conversion (lines 66-82): an
\* all-digit text (after one leading "-") can only have failed by range.
FailureError(input) ==
  LET startsNeg == input[1] = "-"
      numeric   == IF startsNeg THEN Tail(input) ELSE input
  IN  IF IsDigitRun(numeric)
        THEN IF startsNeg THEN "FAILED_UNDERFLOW" ELSE "FAILED_OVERFLOW"
        ELSE "FAILED_PARSE"

\* ParseIntHelper (lines 40-83).  Line 64's early return when optional_error
\* is null leaves the error variable alone, which SetError also does.
ParseIntHelper(input, format, kind, withError) ==
  \/ /\ RejectedBeforeConversion(input, format)
     /\ SetError("FAILED_PARSE", withError)
     /\ UNCHANGED output
  \/ /\ ~RejectedBeforeConversion(input, format)
     /\ \E r \in StringToNumber(input, kind) :
          /\ StoreConverted(r)
          /\ IF r.ok
               THEN UNCHANGED error
               ELSE error' = IF withError THEN FailureError(input) ELSE error

Init ==
  /\ output = OutputInit
  /\ error = ErrorInit
  /\ result = FALSE
  /\ call = NoCall

CallOf(fn, input, format, withError) ==
  [fn |-> fn, input |-> input, format |-> format, withError |-> withError]

\* ParseInt32 (lines 86-91)
ParseInt32(input, format, withError) ==
  /\ call = NoCall
  /\ call' = CallOf("ParseInt32", input, format, withError)
  /\ ParseIntHelper(input, format, "int32", withError)

\* ParseInt64 (lines 93-98)
ParseInt64(input, format, withError) ==
  /\ call = NoCall
  /\ call' = CallOf("ParseInt64", input, format, withError)
  /\ ParseIntHelper(input, format, "int64", withError)

\* ParseUint32 (lines 100-105)
ParseUint32(input, withError) ==
  /\ call = NoCall
  /\ call' = CallOf("ParseUint32", input, "NON_NEGATIVE", withError)
  /\ ParseIntHelper(input, "NON_NEGATIVE", "uint32", withError)

\* ParseUint64 (lines 107-112)
ParseUint64(input, withError) ==
  /\ call = NoCall
  /\ call' = CallOf("ParseUint64", input, "NON_NEGATIVE", withError)
  /\ ParseIntHelper(input, "NON_NEGATIVE", "uint64", withError)

Next ==
  \/ \E s \in Texts, f \in Formats, w \in BOOLEAN : ParseInt32(s, f, w)
  \/ \E s \in Texts, f \in Formats, w \in BOOLEAN : ParseInt64(s, f, w)
  \/ \E s \in Texts, w \in BOOLEAN : ParseUint32(s, w)
  \/ \E s \in Texts, w \in BOOLEAN : ParseUint64(s, w)

Spec == Init /\ [][Next]_vars

-----------------------------------------------------------------------------
(* Properties *)

Contract == INSTANCE ParseIntContract

\* The output is the caller's initial value or a value of some output type;
\* the error is the caller's initial value or a ParseIntError.
TypeOK ==
  /\ output \in {OutputInit} \cup UNION {TypeRange(k) : k \in Kinds}
  /\ error \in {ErrorInit} \cup Errors
  /\ result \in BOOLEAN
  /\ call \in {NoCall} \cup Calls

\* The code implements the contract: every call returns, stores and reports
\* what the contract says of its text.  The contract's Parse leaves the
\* output alone on failure, although StringToNumber leaves its own output
\* unspecified (lines 68-69), and sets the error to the contract's class
\* exactly when optional_error is given, "-" under NON_NEGATIVE included.
ImplementsContract == Contract!Spec

=============================================================================
