---------------------------- MODULE ParseIntTypes ----------------------------
(***************************************************************************)
(* The data of the integer-parsing primitives of net/base/parse_number     *)
(* (src/unnamed/part_000): the text handed to them, the ParseIntFormat,    *)
(* the four C++ integer types they fill and the ParseIntError values.      *)
(*                                                                         *)
(* A text is a sequence of one-character strings drawn from Alphabet.      *)
(* The integer types keep their two's-complement width, but the width is   *)
(* a constant: the build has 32 and 64, a model uses a few bits so that    *)
(* overflow and underflow are reached by texts of a few characters.        *)
(***************************************************************************)
EXTENDS Integers, Sequences, SequencesExt

CONSTANTS
  Alphabet,   \* the characters a text may contain
  MaxLen,     \* the longest text a call is given
  Int32Bits,  \* width of int32_t / uint32_t (32 in the build)
  Int64Bits   \* width of int64_t / uint64_t (64 in the build)

ASSUME MaxLen \in Nat /\ Int32Bits \in Nat \ {0} /\ Int64Bits >= Int32Bits

DecimalDigits == <<"0", "1", "2", "3", "4", "5", "6", "7", "8", "9">>

\* gurl_base::IsAsciiDigit
IsAsciiDigit(c) == c \in ToSet(DecimalDigits)

DigitValue(c) == CHOOSE i \in 0 .. 9 : DecimalDigits[i + 1] = c

\* A non-empty run of decimal digits, and the number it denotes.
IsDigitRun(s) == s # <<>> /\ \A i \in 1 .. Len(s) : IsAsciiDigit(s[i])

DecimalValue(s) == FoldLeft(LAMBDA acc, c : 10 * acc + DigitValue(c), 0, s)

Texts == BoundedSeq(Alphabet, MaxLen)

Formats == {"NON_NEGATIVE", "ANY"}

Errors == {"FAILED_PARSE", "FAILED_UNDERFLOW", "FAILED_OVERFLOW"}

\* The four output types of ParseInt32/ParseInt64/ParseUint32/ParseUint64.
Kinds == {"int32", "int64", "uint32", "uint64"}

Width(kind) == IF kind \in {"int32", "uint32"} THEN Int32Bits ELSE Int64Bits

Signed(kind) == kind \in {"int32", "int64"}

TypeRange(kind) ==
  IF Signed(kind)
    THEN -(2 ^ (Width(kind) - 1)) .. (2 ^ (Width(kind) - 1) - 1)
    ELSE 0 .. (2 ^ Width(kind) - 1)

\* The public entry points, the type each fills and the format each uses.
EntryPoints == {"ParseInt32", "ParseInt64", "ParseUint32", "ParseUint64"}

KindOf(fn) ==
  CASE fn = "ParseInt32"  -> "int32"
    [] fn = "ParseInt64"  -> "int64"
    [] fn = "ParseUint32" -> "uint32"
    [] fn = "ParseUint64" -> "uint64"

\* Every call a caller can make: the unsigned entry points always pass
\* NON_NEGATIVE; optional_error is either null (withError = FALSE) or not.
Calls ==
  { c \in [fn : EntryPoints, input : Texts, format : Formats,
           withError : BOOLEAN] :
      ~Signed(KindOf(c.fn)) => c.format = "NON_NEGATIVE" }

=============================================================================
