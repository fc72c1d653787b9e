------------------------------ MODULE HttpText ------------------------------
(***************************************************************************)
(* Text helpers of http_util.cc shared by the parsers and iterators.       *)
(*                                                                         *)
(* A string is a sequence of one-character strings; NUL stands for the    *)
(* byte '\0'.  A StringPiece into a caller's std::string is a pair of     *)
(* positions [b, e) of that string (1-based, e exclusive), so that what   *)
(* lies beyond the piece stays visible: StringPiece(p.data()) reads from  *)
(* the piece's start up to the first NUL of the underlying string, which  *)
(* std::string guarantees at its end.                                      *)
(*                                                                         *)
(* googleurl's StringTokenizer and absl::SimpleAtoi are outside the        *)
(* repository; they are modelled by their documented behaviour.            *)
(***************************************************************************)
EXTENDS Integers, Sequences, SequencesExt

CONSTANTS
  NUL,        \* the byte '\0'
  Int64Bits   \* width of int64_t (64 in the build)

\* absl::SimpleAtoi, as modelled for ParseNumber (StringToNumber's outcomes).
LOCAL Atoi == INSTANCE ParseNumber
                WITH Alphabet <- {}, MaxLen <- 0,
                     Int32Bits <- Int64Bits, Int64Bits <- Int64Bits,
                     NoCall <- 0, OutputInit <- 0, ErrorInit <- 0,
                     output <- 0, error <- 0, result <- FALSE, call <- 0

DQ == "\""
BS == "\\"

\* HttpUtil::IsLWS (lines 418-421): HTTP_LWS is space and tab.
IsLWS(c) == c \in {" ", "\t"}

\* HttpUtil::IsTokenChar (lines 434-439): not a control character, space,
\* DEL or a separator.  Strings hold printable ASCII besides the controls
\* named here, so c >= 0x7F never holds.
NonTokenChars ==
  {" ", "\t", "\r", "\n", NUL,
   "(", ")", "<", ">", "@", ",", ";", ":", BS, DQ, "/", "[", "]", "?", "=",
   "{", "}"}

IsTokenChar(c) == c \notin NonTokenChars

\* HttpUtil::IsToken (lines 441-449)
IsToken(str) == str # <<>> /\ \A k \in DOMAIN str : IsTokenChar(str[k])

\* HttpUtil::IsValidHeaderName (lines 379-382)
IsValidHeaderName(name) == IsToken(name)

\* HttpUtil::IsValidHeaderValue (lines 384-391): no NUL, CR or LF.
IsValidHeaderValue(value) == \A k \in DOMAIN value : value[k] \notin {NUL, "\r", "\n"}

\* TrimLWSImplementation (lines 26-33) on the piece [b, e) of s: advance the
\* start past leading LWS, then pull the end back past trailing LWS.
RECURSIVE SkipLWS(_, _, _)
SkipLWS(s, b, e) == IF b < e /\ IsLWS(s[b]) THEN SkipLWS(s, b + 1, e) ELSE b

RECURSIVE BackLWS(_, _, _)
BackLWS(s, b, e) == IF b < e /\ IsLWS(s[e - 1]) THEN BackLWS(s, b, e - 1) ELSE e

TrimLWS(s, b, e) ==
  LET nb == SkipLWS(s, b, e) IN [b |-> nb, e |-> BackLWS(s, nb, e)]

\* The first position of c in the piece [b, e) of s, or e (npos).
Find(s, c, b, e) ==
  LET at == {k \in b .. e - 1 : s[k] = c}
  IN  IF at = {} THEN e ELSE Min(at)

\* The pieces of s between the occurrences of c, empty ones included.
SplitAt(s, c) ==
  FoldLeft(LAMBDA acc, x : IF x = c THEN Append(acc, <<>>)
                           ELSE [acc EXCEPT ![Len(acc)] = Append(@, x)],
           <<<<>>>>, s)

\* StringPiece(const char* p): the characters from p up to the first NUL.
CStr(s, b) ==
  LET nuls == {k \in b .. Len(s) : s[k] = NUL}
  IN  SubSeq(s, b, IF nuls = {} THEN Len(s) ELSE Min(nuls) - 1)

\* HttpUtil::StringToInt64 (lines 998-1001): absl::SimpleAtoi(in.data()),
\* which re-reads the text up to its first NUL; the set of outcomes.
StringToInt64(in) == Atoi!StringToNumber(CStr(in, 1), "int64")

\* ---- googleurl StringTokenizer -------------------------------------------

\* AdvanceOne: the quote state after c, and whether c belongs to the token;
\* quotes is the set of quote characters (set_quote_chars), possibly empty.
AdvanceOne(st, c, delims, quotes) ==
  IF st.inQuote
    THEN [in |-> TRUE,
          st |-> IF st.inEscape THEN [st EXCEPT !.inEscape = FALSE]
                 ELSE IF c = BS THEN [st EXCEPT !.inEscape = TRUE]
                 ELSE IF c = DQ THEN [st EXCEPT !.inQuote = FALSE]
                 ELSE st]
    ELSE IF c \in delims
      THEN [in |-> FALSE, st |-> st]
      ELSE [in |-> TRUE, st |-> [st EXCEPT !.inQuote = (c \in quotes)]]

NoQuote == [inQuote |-> FALSE, inEscape |-> FALSE]

\* The end of the token that starts at p: delimiters inside quotes are inert.
RECURSIVE TokenEnd(_, _, _, _, _, _)
TokenEnd(s, p, e, st, delims, quotes) ==
  IF p = e THEN e
  ELSE LET a == AdvanceOne(st, s[p], delims, quotes)
       IN  IF a.in THEN TokenEnd(s, p + 1, e, a.st, delims, quotes) ELSE p

\* FullGetNext without RETURN_DELIMS: from the cursor [end, isDelim], the
\* next token [b, t) and the cursor after it; empty tokens are skipped
\* unless returnEmpty (RETURN_EMPTY_TOKENS).
RECURSIVE TokenizerNext(_, _, _, _, _, _)
TokenizerNext(s, cur, e, delims, quotes, returnEmpty) ==
  LET t    == IF cur.isDelim THEN TokenEnd(s, cur.end, e, NoQuote, delims, quotes)
              ELSE cur.end
      tok  == cur.isDelim /\ (cur.end # t \/ returnEmpty)
  IN  IF tok
        THEN [found |-> TRUE, b |-> cur.end, t |-> t,
              cur |-> [end |-> t, isDelim |-> FALSE]]
      ELSE IF t = e
        THEN [found |-> FALSE, b |-> e, t |-> e,
              cur |-> [end |-> e, isDelim |-> FALSE]]
      ELSE TokenizerNext(s, [end |-> t + 1, isDelim |-> TRUE], e, delims,
                         quotes, returnEmpty)

\* A tokenizer over [b, e): its cursor before the first token.
TokenizerStart(b) == [end |-> b, isDelim |-> TRUE]

\* ---- faulty variant: replaces the definition named after it ------------

\* A ValuesIterator whose tokenizer was never given its quote character.
RECURSIVE ValuesNextNoQuotes(_, _, _, _, _)
ValuesNextNoQuotes(s, cur, e, delim, ignoreEmpty) ==
  LET tk == TokenizerNext(s, cur, e, {delim}, {}, ~ignoreEmpty)
      v  == TrimLWS(s, tk.b, tk.t)
  IN  IF ~tk.found THEN [found |-> FALSE, cur |-> tk.cur]
      ELSE IF ~ignoreEmpty \/ v.b # v.e
        THEN [found |-> TRUE, b |-> v.b, e |-> v.e, cur |-> tk.cur]
      ELSE ValuesNextNoQuotes(s, tk.cur, e, delim, ignoreEmpty)

\* ---- HttpUtil ------------------------------------------------------------

\* HttpUtil::ValuesIterator::GetNext (lines 799-808), constructed as at
\* lines 783-796: the next token, trimmed of LWS, skipping values that are
\* empty after trimming when ignore_empty_values.
RECURSIVE ValuesNext(_, _, _, _, _)
ValuesNext(s, cur, e, delim, ignoreEmpty) ==
  LET tk == TokenizerNext(s, cur, e, {delim}, {DQ}, ~ignoreEmpty)
      v  == TrimLWS(s, tk.b, tk.t)
  IN  IF ~tk.found THEN [found |-> FALSE, cur |-> tk.cur]
      ELSE IF ~ignoreEmpty \/ v.b # v.e
        THEN [found |-> TRUE, b |-> v.b, e |-> v.e, cur |-> tk.cur]
      ELSE ValuesNext(s, tk.cur, e, delim, ignoreEmpty)

=============================================================================
