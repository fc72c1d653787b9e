----------------------------- MODULE FieldValues -----------------------------
(***************************************************************************)
(* Three functions of http_util.cc that turn one header value into         *)
(* another: HttpUtil::ParseRetryAfterHeader (lines 313-328), which reads   *)
(* a delay in seconds, HttpUtil::ExpandLanguageList (lines 655-675), which *)
(* adds each language's base language after its family, and              *)
(* HttpUtil::GenerateAcceptLanguageHeader (lines 680-704), which gives     *)
(* every language after the first a decreasing q value.                   *)
(*                                                                         *)
(* A call is one step: the function's loop runs inside it.  A language    *)
(* subtag such as "en" or "US" is one symbol; "-", ",", ";" and the space *)
(* are symbols of their own.  A delay is kept in whole seconds, which is  *)
(* what QuicTime::Delta::FromSeconds holds.                                *)
(***************************************************************************)
EXTENDS HttpText

CONSTANTS
  RetryValues,  \* Retry-After values
  Prefs,        \* language preference lists
  Int32Bits     \* width of uint32_t (32 in the build)

VARIABLES
  fn,           \* the function called, "none" before the call
  input,        \* its argument
  retryAfter,   \* *retry_after, the caller's delay in seconds
  out,          \* the returned string of the language functions
  ret           \* the returned bool of ParseRetryAfterHeader

vars == <<fn, input, retryAfter, out, ret>>

\* bvc::ParseUint32 (src/unnamed/part_000 lines 100-104), with no error out.
LOCAL Num == INSTANCE ParseNumber
               WITH Alphabet <- {}, MaxLen <- 0,
                    Int32Bits <- Int32Bits, Int64Bits <- Int64Bits,
                    NoCall <- 0, OutputInit <- 0, ErrorInit <- 0,
                    output <- 0, error <- 0, result <- FALSE, call <- 0

\* The outcomes of ParseUint32(s): [ok, val].
ParseUint32(s) ==
  IF Num!RejectedBeforeConversion(s, "NON_NEGATIVE")
    THEN {[ok |-> FALSE, val |-> 0]}
    ELSE Num!StringToNumber(s, "uint32")

\* kWhitespaceASCII, trimmed by SplitString's TRIM_WHITESPACE.
Whitespace == {" ", "\t", "\n", "\r", "\f"}

\* gurl_base::SplitString(s, sep, TRIM_WHITESPACE, SPLIT_WANT_ALL): no
\* piece for an empty string, else every piece, trimmed, empty ones kept.
SplitString(s, sep) ==
  IF s = <<>> THEN <<>>
  ELSE [k \in DOMAIN SplitAt(s, sep) |->
          LET p == SplitAt(s, sep)[k]
              keep == {i \in DOMAIN p : p[i] \notin Whitespace}
          IN  IF keep = {} THEN <<>> ELSE SubSeq(p, Min(keep), Max(keep))]

\* GetBaseLanguageCode (lines 65-69): the trimmed text before the first '-'.
GetBaseLanguageCode(code) ==
  LET tokens == SplitString(code, "-") IN IF tokens = <<>> THEN <<>> ELSE tokens[1]

\* AcceptLanguageBuilder::AddLanguageCode (lines 42-54): a language not seen
\* yet is appended, after a ',' unless the string is still empty.
AddLanguageCode(b, language) ==
  IF language \in b.seen THEN b
  ELSE [str  |-> IF b.str = <<>> THEN language ELSE b.str \o <<",">> \o language,
        seen |-> b.seen \cup {language}]

\* ---- faulty variants: each replaces the definition named after it -------

\* The look-ahead compares a language with its own base, one index early.
NeedsBaseOffByOne(ls, i) ==
  i >= Len(ls) \/ GetBaseLanguageCode(ls[i]) # GetBaseLanguageCode(ls[i])

\* The q value decreases down to zero.
DecrementedToZero(q) == IF q >= 1 THEN q - 1 ELSE q

\* ---- the code, continued --------------------------------------------------

\* Lines 668-672: the base language of languages[i] is added when the next
\* language, if any, is of another family.
NeedsBase(ls, i) ==
  i >= Len(ls) \/ GetBaseLanguageCode(ls[i + 1]) # GetBaseLanguageCode(ls[i])

\* Lines 655-675.
ExpandedList(prefs) ==
  LET languages == SplitString(prefs, ",")
      Step(b, i) ==
        LET b1 == AddLanguageCode(b, languages[i])
        IN  IF NeedsBase(languages, i)
              THEN AddLanguageCode(b1, GetBaseLanguageCode(languages[i]))
              ELSE b1
  IN  IF languages = <<>> THEN <<>>
      ELSE FoldLeft(Step, [str |-> <<>>, seen |-> {}],
                    [i \in 1 .. Len(languages) |-> i]).str

\* gurl_base::StringTokenizer(s, ","): the non-empty pieces between commas,
\* untrimmed.
RECURSIVE Tokens(_, _)
Tokens(s, cur) ==
  LET t == TokenizerNext(s, cur, Len(s) + 1, {","}, {}, FALSE)
  IN  IF ~t.found THEN <<>> ELSE <<SubSeq(s, t.b, t.t - 1)>> \o Tokens(s, t.cur)

\* "%d" of a non-negative number.
DigitSym(d) == <<"0","1","2","3","4","5","6","7","8","9">>[d + 1]

RECURSIVE Decimal(_)
Decimal(n) ==
  IF n < 10 THEN <<DigitSym(n)>> ELSE Decimal(n \div 10) \o <<DigitSym(n % 10)>>

\* Lines 700-701: qvalue10 decreases by kQvalueDecrement10 = 1 while it is
\* above it.
Decremented(q) == IF q > 1 THEN q - 1 ELSE q

\* Lines 680-704: the first language as it is, every later one with
\* ";q=0.%d" of qvalue10.
GeneratedHeader(raw) ==
  LET Step(acc, language) ==
        [q   |-> Decremented(acc.q),
         str |-> IF acc.q = 10 THEN language
                 ELSE acc.str \o <<",">> \o language
                        \o <<";", "q", "=", "0", ".">> \o Decimal(acc.q)]
  IN  FoldLeft(Step, [q |-> 10, str |-> <<>>], Tokens(raw, TokenizerStart(1))).str

\* ---- the calls --------------------------------------------------------------

\* HttpUtil::ParseRetryAfterHeader (lines 313-328): the delay is written
\* only when the value parses as a uint32_t; the check for a negative delay
\* (line 324) can never hold.
ParseRetryAfterHeader ==
  /\ fn = "none"
  /\ \E s \in RetryValues : \E r \in ParseUint32(s) :
       /\ fn' = "retry"
       /\ input' = s
       /\ ret' = r.ok
       /\ retryAfter' = IF r.ok THEN r.val ELSE retryAfter
  /\ UNCHANGED out

\* HttpUtil::ExpandLanguageList.
ExpandLanguageList ==
  /\ fn = "none"
  /\ \E p \in Prefs :
       /\ fn' = "expand"
       /\ input' = p
       /\ out' = ExpandedList(p)
  /\ UNCHANGED <<retryAfter, ret>>

\* HttpUtil::GenerateAcceptLanguageHeader.
GenerateAcceptLanguageHeader ==
  /\ fn = "none"
  /\ \E p \in Prefs :
       /\ fn' = "generate"
       /\ input' = p
       /\ out' = GeneratedHeader(p)
  /\ UNCHANGED <<retryAfter, ret>>

\* Before a call: the caller's delay holds whatever it held.
InitOn(delays) ==
  /\ fn = "none"
  /\ input = <<>>
  /\ retryAfter \in delays
  /\ out = <<>>
  /\ ret = FALSE

Init == InitOn({0})

Next ==
  \/ ParseRetryAfterHeader
  \/ ExpandLanguageList
  \/ GenerateAcceptLanguageHeader

Spec == Init /\ [][Next]_vars

-----------------------------------------------------------------------------
(* Properties *)

\* spec.md 4.6: each language, then its base subtag (the text before the
\* first '-') when the next language does not share it.
BaseOf(code) ==
  LET dash == SelectInSeq(code, LAMBDA c : c = "-")
  IN  IF dash = 0 THEN code ELSE SubSeq(code, 1, dash - 1)

Expansion(ls) ==
  FoldLeft(LAMBDA acc, i :
             acc \o <<ls[i]>>
                 \o (IF i = Len(ls) \/ BaseOf(ls[i + 1]) # BaseOf(ls[i])
                       THEN <<BaseOf(ls[i])>> ELSE <<>>),
           <<>>, [i \in 1 .. Len(ls) |-> i])

FirstIndex(s, x) == SelectInSeq(s, LAMBDA y : y = x)

\* The languages of a preference list, trimmed, when none of them is empty.
NonEmptyItems(p) ==
  LET ls == SplitString(p, ",") IN ls # <<>> /\ \A i \in DOMAIN ls : ls[i] # <<>>

\* ExpandLanguageList of a list without empty items returns the expansion
\* of spec.md 4.6 with duplicates removed, in first-seen order: the
\* comma-separated items of the result are distinct, are exactly the
\* expansion's members, and appear in the order of their first occurrence
\* in it (AddLanguageCode's seen_ set and the look-ahead of lines 668-672).
ExpandedAsSpecified ==
  fn = "expand" /\ NonEmptyItems(input) =>
    LET e == Expansion(SplitString(input, ","))
        l == SplitAt(out, ",")
    IN  /\ IsInjective(l)
        /\ ToSet(l) = ToSet(e)
        /\ \A i, j \in DOMAIN l : i < j => FirstIndex(e, l[i]) < FirstIndex(e, l[j])

\* spec.md 4.6: the k-th language carries q = 1.0 - 0.1 * (k - 1), floored
\* at 0.1.
QFor(k) == IF 11 - k >= 1 THEN 11 - k ELSE 1

\* GenerateAcceptLanguageHeader gives the first language no q and every
\* later one ";q=0.d" with d one digit from 9 down to 1, staying at 1 from
\* the tenth language on, so that no language is ever sent with q=0
\* (lines 692-701, the floor of spec.md 9).
GeneratedAsSpecified ==
  fn = "generate" =>
    LET ls == Tokens(input, TokenizerStart(1))
        Item(k) == IF k = 1 THEN ls[1]
                   ELSE ls[k] \o <<";", "q", "=", "0", ".", DigitSym(QFor(k))>>
    IN  out = IF ls = <<>> THEN <<>>
              ELSE FoldLeft(LAMBDA acc, k : IF k = 1 THEN Item(1) ELSE acc \o <<",">> \o Item(k),
                            <<>>, [k \in 1 .. Len(ls) |-> k])

=============================================================================
